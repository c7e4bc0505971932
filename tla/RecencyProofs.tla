--------------------------- MODULE RecencyProofs ---------------------------
(***************************************************************************)
(* Proofs about the retained entries: the LRU set and the prefix index     *)
(* mirror them, the order of use survives a renumbering of the clock, and  *)
(* an eviction takes the coldest but not the one an admission shares.      *)
(* They hold for every configuration: no count of references and no free   *)
(* list takes part in the argument.                                        *)
(*                                                                         *)
(* A step does one of four things to the entries (NextIndex): nothing, a   *)
(* touch of one, an eviction of some, or an eviction followed by a new     *)
(* entry.  Everything else is derived from these four.                     *)
(***************************************************************************)
EXTENDS OwnershipProofs

----------------------------------------------------------------------------
(* Stamps and ranks. *)

\* The stamps are those of the entries, all different, and none is ahead of the clock.
Ranked(prefixes, lru, clock) ==
    /\ lru = {<<prefixes[id].last_used, id>> : id \in DOMAIN prefixes}
    /\ \A id, other \in DOMAIN prefixes :
         prefixes[id].last_used = prefixes[other].last_used => id = other
    /\ \A id \in DOMAIN prefixes : prefixes[id].last_used \in 1..clock

\* The index leads from the key of every entry to it, and from every key to an entry, and
\* ids are not given out again.
Indexed(prefixes, tree, next) ==
    /\ \A id \in DOMAIN prefixes :
         /\ id < next
         /\ prefixes[id].key \in DOMAIN tree /\ tree[prefixes[id].key] = id
    /\ \A key \in DOMAIN tree : tree[key] \in DOMAIN prefixes /\ prefixes[tree[key]].key = key

\* The inductive invariant of the entries.
Ordered(c) == Ranked(c.prefixes, c.lru, c.clock) /\ Indexed(c.prefixes, c.tree, c.next_prefix_id)

\* The order of stamps, written out.
LEMMA NotHotterIs ==
    ASSUME NEW c, NEW id, NEW other
    PROVE  NotHotter(Stamp(c, other), Stamp(c, id))
             <=> \/ c.prefixes[other].last_used < c.prefixes[id].last_used
                 \/ c.prefixes[other].last_used = c.prefixes[id].last_used /\ other <= id
BY DEF NotHotter, Stamp

\* The entries whose stamps are at most that of id.
NotAfter(c, id) == {other \in DOMAIN c.prefixes : NotHotter(Stamp(c, other), Stamp(c, id))}

\* A rank is a number from 1 to the number of entries.
LEMMA RankBounds ==
    ASSUME NEW c, PrefixesOK(c.prefixes, c.lru), NEW id \in DOMAIN c.prefixes
    PROVE  /\ IsFiniteSet(NotAfter(c, id)) /\ id \in NotAfter(c, id)
           /\ LruRank(c, id) \in 1..Cardinality(DOMAIN c.prefixes)
           /\ Cardinality(DOMAIN c.prefixes) \in Nat
<1>1. IsFiniteSet(DOMAIN c.prefixes) /\ id \in Nat
  BY DEF PrefixesOK
<1>2. NotAfter(c, id) \in SUBSET DOMAIN c.prefixes
  BY DEF NotAfter
<1>3. id \in NotAfter(c, id)
  BY <1>1, NotHotterIs DEF NotAfter
<1>4. LruRank(c, id) = Cardinality(NotAfter(c, id))
  BY DEF LruRank, NotAfter
<1> HIDE DEF NotAfter
<1>5. /\ IsFiniteSet(NotAfter(c, id))
      /\ Cardinality(NotAfter(c, id)) <= Cardinality(DOMAIN c.prefixes)
  BY <1>1, <1>2, FS_Subset
<1>6. Cardinality(NotAfter(c, id)) \in Nat /\ Cardinality(DOMAIN c.prefixes) \in Nat
  BY <1>1, <1>5, FS_CardinalityType
<1>7. Cardinality(NotAfter(c, id)) # 0
  BY <1>3, <1>5, FS_EmptySet
<1> QED BY <1>3, <1>4, <1>5, <1>6, <1>7

\* Renumbering keeps the order of use: a colder entry has a lower rank.
LEMMA RankOrder ==
    ASSUME NEW c, PrefixesOK(c.prefixes, c.lru), NEW cold \in DOMAIN c.prefixes,
           NEW hot \in DOMAIN c.prefixes,
           c.prefixes[cold].last_used < c.prefixes[hot].last_used
    PROVE  LruRank(c, cold) < LruRank(c, hot)
<1>1. \A id \in DOMAIN c.prefixes : c.prefixes[id].last_used \in Nat /\ id \in Nat
  BY DEF PrefixesOK, PrefixEntry
<1>2. NotAfter(c, cold) \in SUBSET NotAfter(c, hot)
  <2> SUFFICES ASSUME NEW id \in NotAfter(c, cold) PROVE id \in NotAfter(c, hot)
    OBVIOUS
  <2>1. id \in DOMAIN c.prefixes /\ NotHotter(Stamp(c, id), Stamp(c, cold))
    BY DEF NotAfter
  <2>2. c.prefixes[id].last_used <= c.prefixes[cold].last_used
    BY <1>1, <2>1, NotHotterIs
  <2>3. c.prefixes[id].last_used < c.prefixes[hot].last_used
    BY <1>1, <2>1, <2>2
  <2>4. NotHotter(Stamp(c, id), Stamp(c, hot))
    BY <2>3, NotHotterIs
  <2> QED BY <2>1, <2>4 DEF NotAfter
<1>3. hot \notin NotAfter(c, cold)
  BY <1>1, NotHotterIs DEF NotAfter
<1>4. /\ IsFiniteSet(NotAfter(c, hot)) /\ hot \in NotAfter(c, hot)
      /\ IsFiniteSet(NotAfter(c, cold))
  BY RankBounds
<1>5. LruRank(c, cold) = Cardinality(NotAfter(c, cold))
      /\ LruRank(c, hot) = Cardinality(NotAfter(c, hot))
  BY DEF LruRank, NotAfter
<1> HIDE DEF NotAfter
<1>6. /\ Cardinality(NotAfter(c, cold)) <= Cardinality(NotAfter(c, hot))
      /\ Cardinality(NotAfter(c, cold)) # Cardinality(NotAfter(c, hot))
  BY <1>2, <1>3, <1>4, FS_Subset
<1>7. Cardinality(NotAfter(c, cold)) \in Nat /\ Cardinality(NotAfter(c, hot)) \in Nat
  BY <1>4, FS_CardinalityType
<1> QED BY <1>5, <1>6, <1>7

\* The entry is the same but for its stamp.
SameEntry(old, new) ==
    /\ new.key = old.key /\ new.pages = old.pages /\ new.position = old.position
    /\ new.snapshot_bytes = old.snapshot_bytes

\* The entries are the same but for their stamps, and used in the same order.
SameOrder(c, d) ==
    /\ DOMAIN d.prefixes = DOMAIN c.prefixes
    /\ \A id \in DOMAIN c.prefixes : SameEntry(c.prefixes[id], d.prefixes[id])
    /\ \A cold, hot \in DOMAIN c.prefixes :
         c.prefixes[cold].last_used < c.prefixes[hot].last_used =>
           d.prefixes[cold].last_used < d.prefixes[hot].last_used

\* tick keeps the entries and their order, and is ahead of all of them.
LEMMA TickOrdered ==
    ASSUME NEW c, DOMAIN c = Fields, PrefixesOK(c.prefixes, c.lru), c.clock \in Nat,
           Ranked(c.prefixes, c.lru, c.clock), NEW t, t = Tick(c)
    PROVE  /\ Ranked(t.prefixes, t.lru, t.clock)
           /\ \A id \in DOMAIN t.prefixes : t.prefixes[id].last_used < t.clock
           /\ t.clock \in Nat \ {0}
           /\ SameOrder(c, t)
<1> DEFINE D == DOMAIN c.prefixes
<1>1. \A id \in D : c.prefixes[id] \in PrefixEntry /\ c.prefixes[id].last_used \in Nat /\ id \in Nat
  BY DEF PrefixesOK, PrefixEntry
<1>2. CASE c.clock # MaxClock
  <2>1. t.prefixes = c.prefixes /\ t.lru = c.lru /\ t.clock = c.clock + 1
    BY <1>2 DEF Tick, Fields
  <2>2. \A id \in D : c.prefixes[id].last_used \in 1..c.clock
    BY DEF Ranked
  <2>3. \A id \in D : c.prefixes[id].last_used \in 1..t.clock /\ c.prefixes[id].last_used < t.clock
    BY <1>1, <2>1, <2>2
  <2>4. Ranked(t.prefixes, t.lru, t.clock)
    BY <2>1, <2>3 DEF Ranked
  <2>5. SameOrder(c, t)
    BY <2>1 DEF SameOrder, SameEntry
  <2> QED BY <2>1, <2>3, <2>4, <2>5
<1>3. CASE c.clock = MaxClock
  <2>1. /\ t.prefixes = [id \in D |-> [c.prefixes[id] EXCEPT !.last_used = LruRank(c, id)]]
        /\ t.lru = {<<LruRank(c, id), id>> : id \in D}
        /\ t.clock = Cardinality(D) + 1
    BY <1>3 DEF Tick, Fields
  <2>2. /\ DOMAIN t.prefixes = D
        /\ \A id \in D : /\ t.prefixes[id].last_used = LruRank(c, id)
                         /\ SameEntry(c.prefixes[id], t.prefixes[id])
    BY <1>1, <2>1 DEF PrefixEntry, SameEntry
  <2>3. \A id \in D : LruRank(c, id) \in 1..Cardinality(D) /\ Cardinality(D) \in Nat
    BY RankBounds
  <2>4. IsFiniteSet(D) /\ Cardinality(D) \in Nat
    BY FS_CardinalityType DEF PrefixesOK
  <2>5. \A id \in D : /\ t.prefixes[id].last_used \in 1..t.clock
                      /\ t.prefixes[id].last_used < t.clock
    BY <2>1, <2>2, <2>3, <2>4
  <2>6. \A cold, hot \in D : c.prefixes[cold].last_used < c.prefixes[hot].last_used =>
          t.prefixes[cold].last_used < t.prefixes[hot].last_used
    BY <2>2, RankOrder
  <2>7. \A id, other \in D : t.prefixes[id].last_used = t.prefixes[other].last_used => id = other
    <3> SUFFICES ASSUME NEW id \in D, NEW other \in D, id # other
                 PROVE  t.prefixes[id].last_used # t.prefixes[other].last_used
      OBVIOUS
    <3>1. c.prefixes[id].last_used # c.prefixes[other].last_used
      BY DEF Ranked
    <3>2. \/ c.prefixes[id].last_used < c.prefixes[other].last_used
          \/ c.prefixes[other].last_used < c.prefixes[id].last_used
      BY <1>1, <3>1
    <3>3. \/ t.prefixes[id].last_used < t.prefixes[other].last_used
          \/ t.prefixes[other].last_used < t.prefixes[id].last_used
      BY <2>6, <3>2
    <3>4. t.prefixes[id].last_used \in Nat /\ t.prefixes[other].last_used \in Nat
      BY <2>2, <2>3
    <3> QED BY <3>3, <3>4
  <2>8. t.lru = {<<t.prefixes[id].last_used, id>> : id \in DOMAIN t.prefixes}
    BY <2>1, <2>2
  <2>9. Ranked(t.prefixes, t.lru, t.clock)
    BY <2>2, <2>5, <2>7, <2>8 DEF Ranked
  <2>10. SameOrder(c, t)
    BY <2>2, <2>6 DEF SameOrder
  <2>11. t.clock \in Nat \ {0}
    BY <2>1, <2>4
  <2>12. \A id \in DOMAIN t.prefixes : t.prefixes[id].last_used < t.clock
    BY <2>2, <2>5
  <2> QED BY <2>9, <2>10, <2>11, <2>12
<1> QED BY <1>2, <1>3

----------------------------------------------------------------------------
(* What the operations do to the entries. *)

\* Of two entries of c that d still has, the hotter one stays the hotter one, unless the
\* other was just used.
OrderKept(c, d) ==
    \A cold, hot \in DOMAIN c.prefixes \cap DOMAIN d.prefixes :
      /\ NotHotter(Stamp(c, cold), Stamp(c, hot))
      /\ d.prefixes[cold].last_used # d.clock
      => NotHotter(Stamp(d, cold), Stamp(d, hot))

\* A touch makes one entry the hottest and keeps the others.
Touched(c, d) ==
    /\ DOMAIN d.prefixes = DOMAIN c.prefixes
    /\ \A i \in DOMAIN c.prefixes : SameEntry(c.prefixes[i], d.prefixes[i])
    /\ d.tree = c.tree /\ d.next_prefix_id = c.next_prefix_id
    /\ d.sequences = c.sequences /\ d.pages = c.pages

\* lookup_prefix, and retain_prefix of what is retained already.
LEMMA TouchOrdered ==
    ASSUME NEW c, Sound(c), Ordered(c), NEW id \in DOMAIN c.prefixes, NEW r, r = Touch(c, id)
    PROVE  Ordered(r) /\ OrderKept(c, r) /\ Touched(c, r)
<1>1. PICK t : t = Tick(c)
  OBVIOUS
<1>2. DOMAIN c = Fields /\ PrefixesOK(c.prefixes, c.lru) /\ c.clock \in Nat
  BY DEF Sound
<1>3. /\ Ranked(t.prefixes, t.lru, t.clock)
      /\ \A i \in DOMAIN t.prefixes : t.prefixes[i].last_used < t.clock
      /\ t.clock \in Nat \ {0}
      /\ SameOrder(c, t)
  BY <1>1, <1>2, TickOrdered DEF Ordered
<1>4. /\ DOMAIN t = Fields /\ t.tree = c.tree /\ t.next_prefix_id = c.next_prefix_id
      /\ t.sequences = c.sequences /\ t.pages = c.pages
  BY <1>1, <1>2, TickFields
<1>5. PrefixesOK(t.prefixes, t.lru) /\ DOMAIN t.prefixes = DOMAIN c.prefixes
  BY <1>1, <1>2, TickPrefixes
<1>6. r = [t EXCEPT !.prefixes[id].last_used = t.clock,
                    !.lru = (@ \ {Stamp(t, id)}) \cup {<<t.clock, id>>}]
  BY <1>1 DEF Touch
<1>7. /\ r.prefixes = [t.prefixes EXCEPT ![id] = [t.prefixes[id] EXCEPT !.last_used = t.clock]]
      /\ r.lru = (t.lru \ {Stamp(t, id)}) \cup {<<t.clock, id>>}
      /\ r.clock = t.clock /\ r.tree = t.tree /\ r.next_prefix_id = t.next_prefix_id
      /\ r.sequences = t.sequences /\ r.pages = t.pages
  BY <1>4, <1>6 DEF Fields
<1>8. \A i \in DOMAIN c.prefixes :
        /\ t.prefixes[i] \in PrefixEntry /\ t.prefixes[i].last_used \in Nat /\ i \in Nat
        /\ c.prefixes[i].last_used \in Nat
  BY <1>2, <1>5 DEF PrefixesOK, PrefixEntry
<1>9. /\ DOMAIN r.prefixes = DOMAIN c.prefixes
      /\ r.prefixes[id].last_used = t.clock /\ SameEntry(t.prefixes[id], r.prefixes[id])
      /\ \A i \in DOMAIN c.prefixes : i # id => r.prefixes[i] = t.prefixes[i]
  BY <1>5, <1>7, <1>8 DEF PrefixEntry, SameEntry
<1>10. \A i \in DOMAIN c.prefixes : SameEntry(c.prefixes[i], r.prefixes[i])
  BY <1>3, <1>9 DEF SameOrder, SameEntry
<1>11. Ranked(r.prefixes, r.lru, r.clock)
  <2>1. t.lru = {<<t.prefixes[i].last_used, i>> : i \in DOMAIN c.prefixes}
    BY <1>3, <1>5 DEF Ranked
  <2>2. r.lru = {<<r.prefixes[i].last_used, i>> : i \in DOMAIN r.prefixes}
    <3>1. ASSUME NEW e \in r.lru
          PROVE  e \in {<<r.prefixes[i].last_used, i>> : i \in DOMAIN r.prefixes}
      BY <1>7, <1>9, <2>1 DEF Stamp
    <3>2. ASSUME NEW i \in DOMAIN r.prefixes PROVE <<r.prefixes[i].last_used, i>> \in r.lru
      BY <1>7, <1>9, <2>1 DEF Stamp
    <3> QED BY <3>1, <3>2
  <2>3. \A i \in DOMAIN c.prefixes : i # id => r.prefixes[i].last_used < t.clock
    BY <1>3, <1>5, <1>9
  <2>4. \A i, o \in DOMAIN r.prefixes : r.prefixes[i].last_used = r.prefixes[o].last_used => i = o
    <3> SUFFICES ASSUME NEW i \in DOMAIN c.prefixes, NEW o \in DOMAIN c.prefixes,
                        r.prefixes[i].last_used = r.prefixes[o].last_used
                 PROVE  i = o
      BY <1>9
    <3>1. CASE i = id
      BY <1>3, <1>8, <1>9, <2>3, <3>1
    <3>2. CASE o = id
      BY <1>3, <1>8, <1>9, <2>3, <3>2
    <3>3. CASE i # id /\ o # id
      BY <1>3, <1>5, <1>9, <3>3 DEF Ranked
    <3> QED BY <3>1, <3>2, <3>3
  <2>5. \A i \in DOMAIN r.prefixes : r.prefixes[i].last_used \in 1..r.clock
    <3>1. \A i \in DOMAIN c.prefixes : t.prefixes[i].last_used \in 1..t.clock
      BY <1>3, <1>5 DEF Ranked
    <3>2. t.clock \in 1..t.clock
      BY <1>3
    <3> QED BY <1>7, <1>9, <3>1, <3>2
  <2> QED BY <2>2, <2>4, <2>5 DEF Ranked
<1>12. Indexed(r.prefixes, r.tree, r.next_prefix_id)
  BY <1>4, <1>7, <1>9, <1>10 DEF Ordered, Indexed, SameEntry
<1>13. OrderKept(c, r)
  <2> SUFFICES ASSUME NEW cold \in DOMAIN c.prefixes, NEW hot \in DOMAIN c.prefixes,
                      NotHotter(Stamp(c, cold), Stamp(c, hot)),
                      r.prefixes[cold].last_used # r.clock
               PROVE  NotHotter(Stamp(r, cold), Stamp(r, hot))
    BY <1>9 DEF OrderKept
  <2>1. cold # id
    BY <1>7, <1>9
  <2>2. CASE hot = id
    BY <1>3, <1>5, <1>9, <2>1, <2>2, NotHotterIs
  <2>3. CASE hot # id /\ cold # hot
    <3>1. c.prefixes[cold].last_used < c.prefixes[hot].last_used
      BY <1>8, <2>3, NotHotterIs DEF Ordered, Ranked
    <3>2. t.prefixes[cold].last_used < t.prefixes[hot].last_used
      BY <1>3, <3>1 DEF SameOrder
    <3> QED BY <1>9, <2>1, <2>3, <3>2, NotHotterIs
  <2>4. CASE cold = hot
    BY <1>8, <2>4, NotHotterIs
  <2> QED BY <2>2, <2>3, <2>4
<1>14. Touched(c, r)
  BY <1>4, <1>7, <1>9, <1>10 DEF Touched
<1> QED BY <1>11, <1>12, <1>13, <1>14 DEF Ordered

\* The entries ids are gone from all three.
Forgotten(c, ids, d) ==
    /\ d.prefixes = [id \in DOMAIN c.prefixes \ ids |-> c.prefixes[id]]
    /\ d.lru = {e \in c.lru : e[2] \notin ids}
    /\ d.tree = [key \in {k \in DOMAIN c.tree : c.tree[k] \notin ids} |-> c.tree[key]]
    /\ d.clock = c.clock /\ d.next_prefix_id = c.next_prefix_id

\* commit_evictions.
LEMMA ForgottenOrdered ==
    ASSUME NEW c, Ordered(c), NEW ids, NEW d, Forgotten(c, ids, d)
    PROVE  Ordered(d) /\ OrderKept(c, d)
<1>1. /\ DOMAIN d.prefixes = DOMAIN c.prefixes \ ids
      /\ \A id \in DOMAIN d.prefixes : d.prefixes[id] = c.prefixes[id]
  BY DEF Forgotten
<1>2. /\ DOMAIN d.tree = {k \in DOMAIN c.tree : c.tree[k] \notin ids}
      /\ \A k \in DOMAIN d.tree : d.tree[k] = c.tree[k]
  BY DEF Forgotten
<1>3. d.lru = {<<d.prefixes[id].last_used, id>> : id \in DOMAIN d.prefixes}
  <2>1. c.lru = {<<c.prefixes[id].last_used, id>> : id \in DOMAIN c.prefixes}
    BY DEF Ordered, Ranked
  <2>2. ASSUME NEW e \in d.lru
        PROVE  e \in {<<d.prefixes[id].last_used, id>> : id \in DOMAIN d.prefixes}
    BY <1>1, <2>1 DEF Forgotten
  <2>3. ASSUME NEW id \in DOMAIN d.prefixes PROVE <<d.prefixes[id].last_used, id>> \in d.lru
    BY <1>1, <2>1 DEF Forgotten
  <2> QED BY <2>2, <2>3
<1>4. Ranked(d.prefixes, d.lru, d.clock)
  BY <1>1, <1>3 DEF Forgotten, Ordered, Ranked
<1>5. Indexed(d.prefixes, d.tree, d.next_prefix_id)
  BY <1>1, <1>2 DEF Forgotten, Ordered, Indexed
<1>6. OrderKept(c, d)
  BY <1>1 DEF OrderKept, Stamp
<1> QED BY <1>4, <1>5, <1>6 DEF Ordered

\* retain_prefix: d is c with one more entry, the hottest, under a key that was free.
Inserted(c, s, key, d) ==
    /\ DOMAIN d.prefixes = DOMAIN c.prefixes \cup {c.next_prefix_id}
    /\ \A i \in DOMAIN c.prefixes : SameEntry(c.prefixes[i], d.prefixes[i])
    /\ LET entry == d.prefixes[c.next_prefix_id]
       IN  /\ entry.key = key /\ entry.pages = c.sequences[s].pages
           /\ entry.position = c.sequences[s].position
    /\ d.sequences = c.sequences

\* A new entry.
LEMMA InsertOrdered ==
    ASSUME NEW c, Sound(c), Ordered(c), NEW s, NEW key, key \notin DOMAIN c.tree, NEW bytes,
           NEW r, r = InsertEntry(c, s, key, bytes)
    PROVE  Ordered(r) /\ OrderKept(c, r) /\ Inserted(c, s, key, r)
<1> DEFINE id == c.next_prefix_id
           D == DOMAIN c.prefixes
           ids == c.sequences[s].pages
           counted == IncrementPrefixRefs(c, SlotsOf(ids))
           u == [counted EXCEPT
                  !.next_prefix_id = id + 1,
                  !.tree = [k \in DOMAIN @ \cup {key} |-> IF k = key THEN id ELSE @[k]]]
<1>1. PICK t : t = Tick(u)
  OBVIOUS
<1> DEFINE entry == [key |-> key, pages |-> ids, position |-> c.sequences[s].position,
                     snapshot_bytes |-> bytes, last_used |-> t.clock]
           v == [t EXCEPT
                  !.prefixes = [i \in DOMAIN @ \cup {id} |-> IF i = id THEN entry ELSE @[i]],
                  !.lru = @ \cup {<<t.clock, id>>},
                  !.stats.retained_snapshot_bytes = @ + bytes]
<1>2. /\ DOMAIN c = Fields /\ PrefixesOK(c.prefixes, c.lru) /\ c.clock \in Nat
      /\ c.next_prefix_id \in Nat
  BY DEF Sound
<1>3. r = RefreshStats(v)
  BY <1>1 DEF InsertEntry
<1>4. SameRest(counted, c)
  BY <1>2 DEF Fields, SameRest, IncrementPrefixRefs
<1> HIDE DEF counted
<1>5. /\ DOMAIN u = Fields /\ u.sequences = c.sequences /\ u.prefixes = c.prefixes
      /\ u.lru = c.lru /\ u.clock = c.clock /\ u.next_prefix_id = id + 1
      /\ u.tree = [k \in DOMAIN c.tree \cup {key} |-> IF k = key THEN id ELSE c.tree[k]]
  BY <1>4 DEF Fields, SameRest
<1> HIDE DEF u
<1>6. /\ Ranked(t.prefixes, t.lru, t.clock)
      /\ \A i \in DOMAIN t.prefixes : t.prefixes[i].last_used < t.clock
      /\ t.clock \in Nat \ {0}
      /\ SameOrder(u, t)
  <2>1. PrefixesOK(u.prefixes, u.lru) /\ u.clock \in Nat /\ Ranked(u.prefixes, u.lru, u.clock)
    BY <1>2, <1>5 DEF Ordered
  <2> QED BY <1>1, <1>5, <2>1, TickOrdered
<1>7. /\ DOMAIN t = Fields /\ t.tree = u.tree /\ t.next_prefix_id = u.next_prefix_id
      /\ t.sequences = u.sequences
  BY <1>1, <1>5, TickFields
<1>8. PrefixesOK(t.prefixes, t.lru) /\ DOMAIN t.prefixes = D
  BY <1>1, <1>2, <1>5, TickPrefixes
<1>9. /\ entry.key = key /\ entry.pages = ids /\ entry.position = c.sequences[s].position
      /\ entry.last_used = t.clock
  OBVIOUS
<1> HIDE DEF entry
<1>10. /\ DOMAIN v = Fields /\ v.sequences = t.sequences /\ v.clock = t.clock
       /\ v.next_prefix_id = t.next_prefix_id /\ v.tree = t.tree
       /\ v.prefixes = [i \in DOMAIN t.prefixes \cup {id} |-> IF i = id THEN entry ELSE t.prefixes[i]]
       /\ v.lru = t.lru \cup {<<t.clock, id>>}
  BY <1>7 DEF Fields
<1> HIDE DEF v
<1>11. /\ r.sequences = c.sequences /\ r.clock = t.clock
       /\ r.next_prefix_id = id + 1
       /\ r.tree = [k \in DOMAIN c.tree \cup {key} |-> IF k = key THEN id ELSE c.tree[k]]
       /\ r.prefixes = [i \in D \cup {id} |-> IF i = id THEN entry ELSE t.prefixes[i]]
       /\ r.lru = t.lru \cup {<<t.clock, id>>}
  <2>1. SameRest(RefreshStats(v), v)
    BY <1>10, RefreshRest
  <2> QED BY <1>3, <1>5, <1>7, <1>8, <1>10, <2>1 DEF SameRest
<1>12. id \notin D /\ \A i \in D : i < id /\ i \in Nat
  BY <1>2 DEF Ordered, Indexed, PrefixesOK
<1>13. /\ DOMAIN r.prefixes = D \cup {id} /\ r.prefixes[id] = entry
       /\ \A i \in D : r.prefixes[i] = t.prefixes[i]
  BY <1>11, <1>12
<1>14. \A i \in D : t.prefixes[i].last_used \in Nat /\ c.prefixes[i].last_used \in Nat /\ i \in Nat
  BY <1>2, <1>8 DEF PrefixesOK, PrefixEntry
<1>15. \A i \in D : SameEntry(c.prefixes[i], r.prefixes[i])
  BY <1>5, <1>6, <1>13 DEF SameOrder
<1>16. Ranked(r.prefixes, r.lru, r.clock)
  <2>1. t.lru = {<<t.prefixes[i].last_used, i>> : i \in D}
    BY <1>6, <1>8 DEF Ranked
  <2>2. r.lru = {<<r.prefixes[i].last_used, i>> : i \in DOMAIN r.prefixes}
    <3>1. ASSUME NEW e \in r.lru
          PROVE  e \in {<<r.prefixes[i].last_used, i>> : i \in DOMAIN r.prefixes}
      <4>1. CASE e = <<t.clock, id>>
        BY <1>9, <1>13, <4>1
      <4>2. CASE e \in t.lru
        BY <1>13, <2>1, <4>2
      <4> QED BY <1>11, <4>1, <4>2
    <3>2. ASSUME NEW i \in DOMAIN r.prefixes PROVE <<r.prefixes[i].last_used, i>> \in r.lru
      BY <1>9, <1>11, <1>13, <2>1
    <3> QED BY <3>1, <3>2
  <2>3. \A i \in D : r.prefixes[i].last_used < t.clock /\ r.prefixes[i].last_used # t.clock
    BY <1>6, <1>8, <1>13, <1>14
  <2>4. \A i, o \in DOMAIN r.prefixes : r.prefixes[i].last_used = r.prefixes[o].last_used => i = o
    <3> SUFFICES ASSUME NEW i \in D \cup {id}, NEW o \in D \cup {id},
                        r.prefixes[i].last_used = r.prefixes[o].last_used
                 PROVE  i = o
      BY <1>13
    <3>1. CASE i = id \/ o = id
      BY <1>9, <1>13, <2>3, <3>1
    <3>2. CASE i # id /\ o # id
      BY <1>6, <1>8, <1>13, <3>2 DEF Ranked
    <3> QED BY <3>1, <3>2
  <2>5. \A i \in DOMAIN r.prefixes : r.prefixes[i].last_used \in 1..r.clock
    <3>1. \A i \in D : t.prefixes[i].last_used \in 1..t.clock
      BY <1>6, <1>8 DEF Ranked
    <3>2. t.clock \in 1..t.clock
      BY <1>6
    <3> QED BY <1>9, <1>11, <1>13, <3>1, <3>2
  <2> QED BY <2>2, <2>4, <2>5 DEF Ranked
<1>17. Indexed(r.prefixes, r.tree, r.next_prefix_id)
  <2>1. \A i \in D : c.prefixes[i].key \in DOMAIN c.tree /\ c.tree[c.prefixes[i].key] = i
    BY DEF Ordered, Indexed
  <2>2. \A k \in DOMAIN c.tree : c.tree[k] \in D /\ c.prefixes[c.tree[k]].key = k
    BY DEF Ordered, Indexed
  <2>3. /\ DOMAIN r.tree = DOMAIN c.tree \cup {key} /\ r.tree[key] = id
        /\ \A k \in DOMAIN c.tree : r.tree[k] = c.tree[k]
    BY <1>11
  <2>4. \A i \in D \cup {id} : i < id + 1
    BY <1>2, <1>12
  <2>5. \A i \in D \cup {id} : r.prefixes[i].key \in DOMAIN r.tree /\ r.tree[r.prefixes[i].key] = i
    BY <1>9, <1>13, <1>15, <2>1, <2>3 DEF SameEntry
  <2>6. \A k \in DOMAIN r.tree : r.tree[k] \in D \cup {id} /\ r.prefixes[r.tree[k]].key = k
    BY <1>9, <1>13, <1>15, <2>2, <2>3 DEF SameEntry
  <2> QED BY <1>11, <1>13, <2>4, <2>5, <2>6 DEF Indexed
<1>18. OrderKept(c, r)
  <2> SUFFICES ASSUME NEW cold \in D, NEW hot \in D, NotHotter(Stamp(c, cold), Stamp(c, hot))
               PROVE  NotHotter(Stamp(r, cold), Stamp(r, hot))
    BY DEF OrderKept
  <2>1. CASE cold = hot
    BY <1>13, <1>14, <2>1, NotHotterIs
  <2>2. CASE cold # hot
    <3>1. c.prefixes[cold].last_used < c.prefixes[hot].last_used
      BY <1>14, <2>2, NotHotterIs DEF Ordered, Ranked
    <3>2. t.prefixes[cold].last_used < t.prefixes[hot].last_used
      BY <1>5, <1>6, <3>1 DEF SameOrder
    <3> QED BY <1>13, <3>2, NotHotterIs
  <2> QED BY <2>1, <2>2
<1>19. Inserted(c, s, key, r)
  BY <1>9, <1>11, <1>13, <1>15 DEF Inserted
<1> QED BY <1>16, <1>17, <1>18, <1>19 DEF Ordered

\* The entries, their stamps and the index are as they were.
SameIndex(d, c) ==
    /\ d.prefixes = c.prefixes /\ d.lru = c.lru /\ d.tree = c.tree
    /\ d.clock = c.clock /\ d.next_prefix_id = c.next_prefix_id

\* refresh_stats.
LEMMA RefreshIndex ==
    ASSUME NEW c, DOMAIN c = Fields, NEW x, SameIndex(c, x)
    PROVE  SameIndex(RefreshStats(c), x)
BY RefreshRest DEF SameRest, SameIndex

\* The end of commit_append and of abort_append.
LEMMA ReleasedIndex ==
    ASSUME NEW c, DOMAIN c = Fields, NEW s, NEW released
    PROVE  SameIndex(Released(c, s, released), c)
<1> DEFINE m == RemovePages(c, Slots(released))
           x == [m EXCEPT !.sequences[s].reserved_pages = @ + Len(released),
                          !.sequences[s].pending = NoPending,
                          !.stats.reserved_pages = @ + Len(released)]
<1>1. DOMAIN m = Fields /\ SameIndex(m, c)
  BY DEF Fields, RemovePages, SameIndex
<1>2. Released(c, s, released) = RefreshStats(x)
  BY DEF Released
<1> HIDE DEF m
<1>3. DOMAIN x = Fields /\ SameIndex(x, c)
  BY <1>1 DEF Fields, SameIndex
<1> HIDE DEF x
<1> QED BY <1>2, <1>3, RefreshIndex

\* The same when a removal stops half way.
LEMMA StopIndex ==
    ASSUME NEW c, DOMAIN c = Fields, NEW s, NEW released
    PROVE  SameIndex(StopAtExhausted(c, s, released), c)
<1> DEFINE stop == Min(Exhausted(released))
           m == RemovePages(c, Slots(SubSeq(released, 1, stop - 1)))
           x == [m EXCEPT !.pages[released[stop].slot].physical = None,
                          !.sequences[s].pending = NoPending]
<1>1. DOMAIN m = Fields /\ SameIndex(m, c)
  BY DEF Fields, RemovePages, SameIndex
<1>2. StopAtExhausted(c, s, released) = x
  BY DEF StopAtExhausted
<1> HIDE DEF m, stop
<1>3. DOMAIN x = Fields /\ SameIndex(x, c)
  BY <1>1 DEF Fields, SameIndex
<1> QED BY <1>2, <1>3

\* The end of finish.
LEMMA FinishIndex ==
    ASSUME NEW c, DOMAIN c = Fields, NEW s, NEW slots, NEW others, NEW later
    PROVE  SameIndex(RefreshStats(RemoveSequence(
             DecrementActiveRefs(RetirePages(c, slots, later), others), s)), c)
<1> DEFINE m == RetirePages(c, slots, later)
           d == DecrementActiveRefs(m, others)
           x == RemoveSequence(d, s)
<1>1. DOMAIN m = Fields /\ SameIndex(m, c)
  BY DEF Fields, RetirePages, RemovePages, SameIndex
<1> HIDE DEF m
<1>2. DOMAIN d = Fields /\ SameIndex(d, c)
  BY <1>1 DEF Fields, DecrementActiveRefs, SameIndex
<1> HIDE DEF d
<1>3. DOMAIN x = Fields /\ SameIndex(x, c)
  BY <1>2 DEF Fields, RemoveSequence, SameIndex
<1> HIDE DEF x
<1>4. SameIndex(RefreshStats(x), c)
  BY <1>3, RefreshIndex
<1> QED BY <1>4 DEF x, d, m

\* reserve_append.
LEMMA ReservedIndex ==
    ASSUME NEW c, DOMAIN c = Fields, NEW s, NEW n, NEW rows, NEW new
    PROVE  SameIndex(RefreshStats(ReservedFor(c, s, n, rows, new)), c)
<1> DEFINE x == ReservedFor(c, s, n, rows, new)
<1>1. DOMAIN x = Fields /\ SameIndex(x, c)
  BY DEF Fields, ReservedFor, SameIndex
<1> HIDE DEF x
<1>2. SameIndex(RefreshStats(x), c)
  BY <1>1, RefreshIndex
<1> QED BY <1>2 DEF x

\* The committed segments.
LEMMA MarkedIndex ==
    ASSUME NEW c, DOMAIN c = Fields, NEW q, NEW table, NEW rows
    PROVE  /\ DOMAIN MarkCommitted(c, q, table, rows) = Fields
           /\ SameIndex(MarkCommitted(c, q, table, rows), c)
BY DEF Fields, MarkCommitted, SameIndex

\* The new table and position.
LEMMA WithTableIndex ==
    ASSUME NEW c, DOMAIN c = Fields, NEW s, NEW table, NEW rows
    PROVE  DOMAIN WithTable(c, s, table, rows) = Fields /\ SameIndex(WithTable(c, s, table, rows), c)
BY DEF Fields, WithTable, SameIndex

----------------------------------------------------------------------------
(* Every step. *)

\* The entries ids may be evicted on the way from c to d: the caller of evict_prefix named
\* them, or plan_evictions collected them, past entries that a new sequence shares.
Planned(c, ids, d) ==
    \/ d.sequences = c.sequences /\ d.next_prefix_id = c.next_prefix_id
    \/ \E protected :
         /\ ids \in EvictionRuns(c, protected)
         /\ \A kept \in protected \cap DOMAIN c.prefixes :
              \E s \in LiveIn(d.sequences) \ LiveIn(c.sequences) :
                d.sequences[s].pages = c.prefixes[kept].pages

\* What a step does to the entries.
IndexStep(c, d) ==
    \/ SameIndex(d, c)
    \/ \E id \in DOMAIN c.prefixes : d = Touch(c, id)
    \/ \E ids : Forgotten(c, ids, d) /\ Planned(c, ids, d)
    \/ \E ids \in EvictionRuns(c, {}) : \E s, key, bytes, e :
         /\ Sound(e) /\ Forgotten(c, ids, e) /\ e.sequences = c.sequences
         /\ key \notin DOMAIN c.tree
         /\ d = InsertEntry(e, s, key, bytes)

\* An eviction as part of an operation.
LEMMA EvictedForgotten ==
    ASSUME NEW c, Sound(c), NEW ids, ids \subseteq DOMAIN c.prefixes, CanEvict(c, ids),
           NEW e, EvictedTo(c, ids, e)
    PROVE  Sound(e) /\ Forgotten(c, ids, e) /\ e.sequences = c.sequences
<1>1. PICK slots \in SetToSeqs(RetireSlots(c, ids)) :
        \E later \in Deferrable({c.pages[s].physical : s \in Range(slots)}) :
          e = CommitEvictions(c, ids, slots, Cardinality(later))
  BY DEF EvictedTo
<1>2. PICK later \in Deferrable({c.pages[s].physical : s \in Range(slots)}) :
        e = CommitEvictions(c, ids, slots, Cardinality(later))
  BY <1>1
<1>3. Sound(e) /\ Cardinality(later) \in Nat
  BY <1>2, EvictedParts
<1>4. EvictShape(c, ids, Cardinality(later), e)
  BY <1>2, <1>3, EvictShaped
<1> QED BY <1>3, <1>4 DEF EvictShape, Forgotten

\* A poll.
LEMMA PolledIndex ==
    ASSUME IInv, NEW polled
    PROVE  SameIndex(Reclaimed(polled), cache) /\ Reclaimed(polled).sequences = cache.sequences
<1> DEFINE x == [cache EXCEPT !.deferred_pages = @ - Cardinality(polled)]
<1>1. DOMAIN x = Fields /\ SameIndex(x, cache) /\ x.sequences = cache.sequences
  BY DEF IInv, Sound, Fields, SameIndex
<1> HIDE DEF x
<1>2. SameIndex(RefreshStats(x), cache) /\ RefreshStats(x).sequences = cache.sequences
  BY <1>1, RefreshIndex, RefreshRest DEF SameRest
<1> QED BY <1>2 DEF x, Reclaimed

\* What an eviction of c forgets it forgets of a record with the same entries, and the
\* other way round.
LEMMA ForgottenSame ==
    ASSUME NEW c, NEW b, SameIndex(c, b), NEW ids, NEW e, Forgotten(c, ids, e), NEW d, SameIndex(d, e)
    PROVE  Forgotten(b, ids, d)
BY DEF Forgotten, SameIndex

\* A sequence written to the arena, after its pages gained a reference.
LEMMA NewSequenceIndex ==
    ASSUME NEW e, NEW x, Sound(x), SameIndex(x, e), x.sequences = e.sequences,
           NEW pages \in Seq(PageId), NEW position, NEW reserved, NEW request, NEW r,
           r = RefreshStats(InsertSequence(x, pages, position, reserved, request))
    PROVE  /\ SameIndex(r, e)
           /\ \E s \in LiveIn(r.sequences) \ LiveIn(e.sequences) : r.sequences[s].pages = pages
           /\ \A s \in LiveIn(r.sequences) \ LiveIn(e.sequences) : r.sequences[s].pages = pages
<1>1. PICK s : s = NextSequenceSlot(x)
  OBVIOUS
<1>2. /\ r.prefixes = x.prefixes /\ r.next_prefix_id = x.next_prefix_id
      /\ r.lru = x.lru /\ r.tree = x.tree /\ r.clock = x.clock
      /\ s \notin LiveIn(x.sequences) /\ SequencesWith(x.sequences, s, r.sequences)
      /\ r.sequences[s] = NewRecord(x, pages, position, reserved, request)
  BY <1>1, InsertSequenceShape
<1>3. SameIndex(r, e)
  BY <1>2 DEF SameIndex
<1>4. r.sequences[s].pages = pages
  BY <1>2 DEF NewRecord
<1>5. LiveIn(r.sequences) \ LiveIn(e.sequences) = {s}
  BY <1>2 DEF SequencesWith, LiveIn
<1> QED BY <1>3, <1>4, <1>5

\* What is new among the live sequences has no pages, or those of an entry that is there.
Matched(c, d) ==
    \A s \in LiveIn(d.sequences) \ LiveIn(c.sequences) :
      \/ d.sequences[s].pages = <<>>
      \/ \E id \in DOMAIN d.prefixes : d.prefixes[id].pages = d.sequences[s].pages

\* admit.
LEMMA AdmitIndex ==
    ASSUME IInv, NEW polled \in SUBSET InPool("deferred"), NEW prefix \in Matches, NEW request,
           Admit(polled, prefix, request)
    PROVE  IndexStep(cache, cache') /\ Matched(cache, cache')
<1>0. PICK c : c = Reclaimed(polled)
  OBVIOUS
<1> DEFINE shared == SharedPages(c, prefix)
           demand == AdmitDemand(c, prefix, request)
<1>1. /\ cache.deferred_pages - Cardinality(polled) \in Nat
      /\ prefix \subseteq DOMAIN c.prefixes /\ AllLive(c, shared)
  BY <1>0 DEF Admit, Admissible
<1>2. Sound(c) /\ SameIndex(c, cache) /\ c.sequences = cache.sequences
  BY <1>0, <1>1, PolledParts, PolledIndex
<1>3. PICK ids \in EvictionRuns(c, prefix) : CanEvict(c, ids) /\ \E e :
        /\ EvictedTo(c, ids, e)
        /\ CanShare(e, SlotsOf(shared))
        /\ cache' = RefreshStats(InsertSequence(IncrementActiveRefs(e, SlotsOf(shared)),
                      shared, PrefixPosition(c, prefix), demand.pages, request))
  BY <1>0 DEF Admit, EvictedTo
<1>4. PICK e : /\ EvictedTo(c, ids, e)
               /\ CanShare(e, SlotsOf(shared))
               /\ cache' = RefreshStats(InsertSequence(IncrementActiveRefs(e, SlotsOf(shared)),
                             shared, PrefixPosition(c, prefix), demand.pages, request))
  BY <1>3
<1>5. ids \subseteq DOMAIN c.prefixes /\ shared \in Seq(PageId)
  BY <1>1, <1>2, EvictionRunsParts, SharedParts
<1>6. SlotsOf(shared) \subseteq DOMAIN c.pages
  BY <1>1 DEF AllLive, LivePage, SlotsOf
<1>7. Sound(e) /\ Forgotten(c, ids, e) /\ e.sequences = c.sequences
  BY <1>2, <1>3, <1>4, <1>5, EvictedForgotten
<1>8. /\ \A kept \in prefix : shared = c.prefixes[kept].pages
      /\ prefix = {} => shared = <<>>
  BY MatchIs DEF SharedPages
<1> HIDE DEF shared, demand
<1>9. DOMAIN e.pages = DOMAIN c.pages
  BY <1>2, <1>3, <1>4, <1>5, EvictedParts DEF EvictedTo
<1>10. PICK x : x = IncrementActiveRefs(e, SlotsOf(shared))
  OBVIOUS
<1>11. Sound(x) /\ SameIndex(x, e) /\ x.sequences = e.sequences
  <2>1. Sound(x) /\ SameRest(x, e)
    BY <1>4, <1>6, <1>7, <1>9, <1>10, IncrementActiveSound
  <2> QED BY <2>1 DEF SameRest, SameIndex
<1>12. PICK d : d = cache'
  OBVIOUS
<1>13. /\ SameIndex(d, e)
       /\ \E s \in LiveIn(d.sequences) \ LiveIn(e.sequences) : d.sequences[s].pages = shared
       /\ \A s \in LiveIn(d.sequences) \ LiveIn(e.sequences) : d.sequences[s].pages = shared
  BY <1>4, <1>5, <1>10, <1>11, <1>12, NewSequenceIndex
<1>14. Forgotten(cache, ids, d)
  BY <1>2, <1>7, <1>13, ForgottenSame
<1>15. ids \in EvictionRuns(cache, prefix)
  BY <1>2 DEF EvictionRuns, SameIndex
<1>16. \A kept \in prefix \cap DOMAIN cache.prefixes :
         \E s \in LiveIn(d.sequences) \ LiveIn(cache.sequences) :
           d.sequences[s].pages = cache.prefixes[kept].pages
  BY <1>2, <1>7, <1>8, <1>13 DEF SameIndex
<1>17. Planned(cache, ids, d)
  BY <1>15, <1>16 DEF Planned
<1>18. \A kept \in prefix : kept \in DOMAIN d.prefixes /\ d.prefixes[kept].pages = shared
  <2> SUFFICES ASSUME NEW kept \in prefix
               PROVE  kept \in DOMAIN d.prefixes /\ d.prefixes[kept].pages = shared
    OBVIOUS
  <2>1. kept \notin ids
    BY <1>3 DEF EvictionRuns
  <2>2. kept \in DOMAIN cache.prefixes /\ cache.prefixes[kept].pages = shared
    BY <1>1, <1>2, <1>8 DEF SameIndex
  <2> QED BY <1>14, <2>1, <2>2 DEF Forgotten
<1>19. Matched(cache, d)
  BY <1>2, <1>7, <1>8, <1>13, <1>18 DEF Matched
<1> QED BY <1>12, <1>14, <1>17, <1>19 DEF IndexStep

\* branch.
LEMMA BranchIndex ==
    ASSUME IInv, NEW source \in LiveSequences, NEW request \in Requests, Branch(source, request)
    PROVE  IndexStep(cache, cache')
<1> DEFINE q == cache.sequences[source]
           shared == CompletePages(q)
           copies == CopiedPages(q)
           demand == BranchDemand(q, request)
           reserved == demand.pages - copies
           partial == q.position % PageTokens
<1>1. CanBranchFrom(source, request)
  BY DEF Branch
<1>2. PICK ids \in EvictionRuns(cache, {}) : CanEvict(cache, ids) /\
        \E copied \in Injection(1..copies, InPool("free")) : \E e :
          /\ EvictedTo(cache, ids, e)
          /\ CanShare(e, SlotsOf(shared))
          /\ cache' = RefreshStats(InsertSequence(
               InsertPages(IncrementActiveRefs(e, SlotsOf(shared)), copied, partial),
               shared \o [i \in 1..copies |-> FreshPageId(e, i)], q.position, reserved, request))
  BY ZenonT(90) DEF Branch, EvictedTo
<1>3. PICK copied \in Injection(1..copies, InPool("free")) : \E e :
          /\ EvictedTo(cache, ids, e)
          /\ CanShare(e, SlotsOf(shared))
          /\ cache' = RefreshStats(InsertSequence(
               InsertPages(IncrementActiveRefs(e, SlotsOf(shared)), copied, partial),
               shared \o [i \in 1..copies |-> FreshPageId(e, i)], q.position, reserved, request))
  BY <1>2
<1>4. PICK e :
          /\ EvictedTo(cache, ids, e)
          /\ CanShare(e, SlotsOf(shared))
          /\ cache' = RefreshStats(InsertSequence(
               InsertPages(IncrementActiveRefs(e, SlotsOf(shared)), copied, partial),
               shared \o [i \in 1..copies |-> FreshPageId(e, i)], q.position, reserved, request))
  BY <1>3
<1>5. Sound(cache) /\ ids \subseteq DOMAIN cache.prefixes
  BY EvictionRunsParts DEF IInv
<1>6. /\ shared \in Seq(PageId) /\ AllLive(cache, shared) /\ copies \in Nat
      /\ partial \in 0..PageTokens
  BY <1>1, BranchParts
<1>7. SlotsOf(shared) \subseteq DOMAIN cache.pages
  BY <1>6 DEF AllLive, LivePage, SlotsOf
<1> HIDE DEF q, copies, partial, reserved, shared
<1>8. Sound(e) /\ Forgotten(cache, ids, e) /\ e.sequences = cache.sequences
  BY <1>2, <1>4, <1>5, EvictedForgotten
<1>9. DOMAIN e.pages = DOMAIN cache.pages
  BY <1>2, <1>4, <1>5, EvictedParts DEF EvictedTo
<1>10. PICK y : y = IncrementActiveRefs(e, SlotsOf(shared))
  OBVIOUS
<1>11. Sound(y) /\ SameRest(y, e)
  BY <1>4, <1>7, <1>8, <1>9, <1>10, IncrementActiveSound
<1>12. PICK x : x = InsertPages(y, copied, partial)
  OBVIOUS
<1>13. Sound(x) /\ SameRest(x, y)
  BY <1>6, <1>11, <1>12, AllocatedPages, InsertPagesSound
<1>14. SameIndex(x, e) /\ x.sequences = e.sequences
  BY <1>11, <1>13 DEF SameRest, SameIndex
<1>15. PICK table \in Seq(PageId) : table = shared \o [i \in 1..copies |-> FreshPageId(e, i)]
  BY <1>6, <1>8, FreshPageIds, SlotsJoined
<1>16. PICK d : d = cache'
  OBVIOUS
<1>17. d = RefreshStats(InsertSequence(x, table, q.position, reserved, request))
  BY <1>4, <1>10, <1>12, <1>15, <1>16
<1>18. SameIndex(d, e)
  BY <1>13, <1>14, <1>17, NewSequenceIndex
<1>19. Forgotten(cache, ids, d)
  BY <1>8, <1>18, ForgottenSame DEF SameIndex
<1>20. Planned(cache, ids, d)
  BY DEF Planned
<1> QED BY <1>16, <1>19, <1>20 DEF IndexStep

\* evict_prefix.
LEMMA EvictPrefixIndex ==
    ASSUME IInv, NEW id \in DOMAIN cache.prefixes, EvictPrefix(id)
    PROVE  IndexStep(cache, cache')
<1>1. PICK d : d = cache'
  OBVIOUS
<1>2. Sound(cache) /\ CanEvict(cache, {id}) /\ EvictedTo(cache, {id}, d)
  BY <1>1 DEF IInv, EvictPrefix, EvictedTo
<1>3. Forgotten(cache, {id}, d) /\ d.sequences = cache.sequences
  BY <1>2, EvictedForgotten
<1>4. Planned(cache, {id}, d)
  BY <1>3 DEF Planned, Forgotten
<1> QED BY <1>1, <1>3, <1>4 DEF IndexStep

\* retain_prefix.
LEMMA RetainPrefixIndex ==
    ASSUME IInv, NEW s \in LiveSequences, NEW n, NEW key, RetainPrefix(s, key, n)
    PROVE  IndexStep(cache, cache')
<1>1. PICK ids \in EvictionRuns(cache, {}) : CanEvict(cache, ids) /\ \E e :
        EvictedTo(cache, ids, e) /\ cache' = InsertEntry(e, s, key, n)
  BY DEF RetainPrefix, EvictedTo
<1>2. PICK e : EvictedTo(cache, ids, e) /\ cache' = InsertEntry(e, s, key, n)
  BY <1>1
<1>3. Sound(cache) /\ ids \subseteq DOMAIN cache.prefixes
  BY EvictionRunsParts DEF IInv
<1>4. Sound(e) /\ Forgotten(cache, ids, e) /\ e.sequences = cache.sequences
  BY <1>1, <1>2, <1>3, EvictedForgotten
<1>5. key \notin DOMAIN cache.tree
  BY DEF RetainPrefix
<1>6. PICK d : d = cache'
  OBVIOUS
<1>7. d = InsertEntry(e, s, key, n)
  BY <1>2, <1>6
<1> QED BY <1>1, <1>4, <1>5, <1>6, <1>7 DEF IndexStep

\* finish.
LEMMA FinishSameIndex ==
    ASSUME IInv, NEW s \in LiveSequences, Finish(s)
    PROVE  SameIndex(cache', cache)
<1>1. PICK slots, later, others :
        cache' = RefreshStats(RemoveSequence(
                   DecrementActiveRefs(RetirePages(cache, slots, later), others), s))
  BY DEF Finish
<1>2. DOMAIN cache = Fields
  BY DEF IInv, Sound
<1>3. PICK r : r = RefreshStats(RemoveSequence(
                   DecrementActiveRefs(RetirePages(cache, slots, later), others), s))
  OBVIOUS
<1>4. SameIndex(r, cache)
  BY <1>2, <1>3, FinishIndex
<1> QED BY <1>1, <1>3, <1>4

\* reserve_append.
LEMMA ReserveAppendIndex ==
    ASSUME IInv, NEW s \in LiveSequences, NEW rows, ReserveAppend(s, rows)
    PROVE  SameIndex(cache', cache)
<1> DEFINE n == NewPageCount(cache.sequences[s], rows)
           new == [i \in 1..n |-> FreshPageId(cache, i)]
<1>1. PICK physical :
        cache' = RefreshStats([InsertPages(cache, physical, 0) EXCEPT
             !.sequences[s].reserved_pages = @ - n,
             !.sequences[s].pending = [rows |-> rows, new_pages |-> new],
             !.stats.reserved_pages = @ - n])
  BY ZenonT(60) DEF ReserveAppend
<1>2. cache' = RefreshStats(ReservedFor(InsertPages(cache, physical, 0), s, n, rows, new))
  BY <1>1 DEF ReservedFor
<1>3. DOMAIN cache = Fields
  BY DEF IInv, Sound
<1> HIDE DEF n, new
<1>4. PICK x : x = InsertPages(cache, physical, 0)
  OBVIOUS
<1>5. DOMAIN x = Fields /\ SameIndex(x, cache)
  BY <1>3, <1>4 DEF Fields, InsertPages, SameIndex
<1>6. PICK r : r = RefreshStats(ReservedFor(x, s, n, rows, new))
  OBVIOUS
<1>7. SameIndex(r, x)
  BY <1>5, <1>6, ReservedIndex
<1> QED BY <1>2, <1>4, <1>5, <1>6, <1>7 DEF SameIndex

\* commit_append, to its end or not.
LEMMA CommitAppendIndex ==
    ASSUME IInv, NEW s, NEW rows,
           CommitAppend(s, rows) \/ CommitAppendExhausted(s, rows)
    PROVE  SameIndex(cache', cache)
<1>1. PICK q, table, released :
        \/ cache' = Released(WithTable(MarkCommitted(cache, q, table, rows), s, table, rows),
                             s, released)
        \/ cache' = StopAtExhausted(MarkCommitted(cache, q, table, rows), s, released)
  BY DEF CommitAppend, CommitAppendExhausted, WithTable
<1>2. PICK m : m = MarkCommitted(cache, q, table, rows)
  OBVIOUS
<1>3. DOMAIN m = Fields /\ SameIndex(m, cache)
  BY <1>2, MarkedIndex DEF IInv, Sound
<1>4. PICK x : x = WithTable(m, s, table, rows)
  OBVIOUS
<1>5. DOMAIN x = Fields /\ SameIndex(x, m)
  BY <1>3, <1>4, WithTableIndex
<1>6. PICK r, t : r = Released(x, s, released) /\ t = StopAtExhausted(m, s, released)
  OBVIOUS
<1>7. SameIndex(r, x) /\ SameIndex(t, m)
  BY <1>3, <1>5, <1>6, ReleasedIndex, StopIndex
<1> QED BY <1>1, <1>2, <1>3, <1>4, <1>5, <1>6, <1>7 DEF SameIndex

\* abort_append, to its end or not.
LEMMA AbortAppendIndex ==
    ASSUME IInv, NEW s, AbortAppend(s) \/ AbortAppendExhausted(s)
    PROVE  SameIndex(cache', cache)
<1>1. PICK released :
        cache' = Released(cache, s, released) \/ cache' = StopAtExhausted(cache, s, released)
  BY DEF AbortAppend, AbortAppendExhausted
<1>2. DOMAIN cache = Fields
  BY DEF IInv, Sound
<1>3. PICK r, t : r = Released(cache, s, released) /\ t = StopAtExhausted(cache, s, released)
  OBVIOUS
<1>4. SameIndex(r, cache) /\ SameIndex(t, cache)
  BY <1>2, <1>3, ReleasedIndex, StopIndex
<1> QED BY <1>1, <1>3, <1>4

\* Every step does one of the four things.
LEMMA NextIndex ==
    ASSUME IInv, [Next]_vars
    PROVE  IndexStep(cache, cache')
<1> DEFINE Kept == IndexStep(cache, cache')
<1> SUFFICES Kept
  OBVIOUS
<1>same. SameIndex(cache', cache) => Kept
  BY DEF IndexStep
<1>un. cache' = cache => Kept
  BY <1>same DEF SameIndex
<1>touch. (\E id \in DOMAIN cache.prefixes : cache' = Touch(cache, id)) => Kept
  BY DEF IndexStep
<1>1. ASSUME NEW polled \in SUBSET InPool("deferred"), cache' = Reclaimed(polled) PROVE Kept
  BY <1>1, <1>same, PolledIndex
<1>2. ASSUME NEW polled \in SUBSET InPool("deferred"), ReclaimDeferred(polled) PROVE Kept
  BY <1>1, <1>2 DEF ReclaimDeferred
<1>3. ASSUME NEW polled \in SUBSET InPool("deferred"), NEW prefix \in Matches,
             NEW request \in Requests, Admit(polled, prefix, request)
      PROVE  Kept
  BY <1>3, AdmitIndex
<1>4. ASSUME NEW polled \in SUBSET InPool("deferred"), NEW prefix \in Matches,
             NEW request \in Requests, NEW outcome \in {"would_block", "refused", "backend"},
             AdmitDeclined(polled, prefix, request, outcome)
      PROVE  Kept
  BY <1>1, <1>4 DEF AdmitDeclined
<1>5. ASSUME NEW s \in LiveSequences, NEW rows \in Rows, ReserveAppend(s, rows) PROVE Kept
  BY <1>5, <1>same, ReserveAppendIndex
<1>6. ASSUME NEW s \in LiveSequences, NEW rows \in Rows,
             CommitAppend(s, rows) \/ CommitAppendExhausted(s, rows)
      PROVE  Kept
  BY <1>6, <1>same, CommitAppendIndex
<1>7. ASSUME NEW s \in LiveSequences, AbortAppend(s) \/ AbortAppendExhausted(s) PROVE Kept
  BY <1>7, <1>same, AbortAppendIndex
<1> HIDE DEF Kept
<1>9. ASSUME NEW prompt, NEW tail, LookupPrefix(prompt, tail) PROVE Kept
  BY <1>9, <1>touch DEF LookupPrefix
<1>10. ASSUME NEW s \in LiveSequences, NEW key \in KeysFor(s), RetainDuplicate(s, key)
       PROVE  Kept
  BY <1>10, <1>touch DEF RetainDuplicate
<1>11. ASSUME NEW s \in LiveSequences, NEW n \in SnapshotSizes, NEW key \in KeysFor(s),
              RetainPrefix(s, key, n)
       PROVE  Kept
  BY <1>11, RetainPrefixIndex DEF Kept
<1>12. ASSUME NEW id \in DOMAIN cache.prefixes, EvictPrefix(id) PROVE Kept
  BY <1>12, EvictPrefixIndex DEF Kept
<1>13. ASSUME NEW s \in LiveSequences, NEW request \in Requests, Branch(s, request) PROVE Kept
  BY <1>13, BranchIndex DEF Kept
<1>14. ASSUME NEW s \in LiveSequences, Finish(s) PROVE Kept
  BY <1>14, <1>same, FinishSameIndex
<1>15. CASE \/ PollFails
            \/ \E s \in LiveSequences : FinalizeFails(s)
            \/ \E s \in LiveSequences, n \in SnapshotSizes, outcome \in {"refused", "backend"} :
                 \E key \in KeysFor(s) : RetainDeclined(s, key, n, outcome)
            \/ \E s \in LiveSequences, rows \in Rows : ReserveAppendFails(s, rows)
            \/ \E s \in LiveSequences, request \in Requests :
                 \/ BranchWouldBlock(s, request)
                 \/ BranchFails(s, request)
                 \/ BranchEvictionFails(s, request)
            \/ RetireFails
  <2>1. cache' = cache
    BY <1>15 DEF PollFails, FinalizeFails, RetainDeclined, ReserveAppendFails, BranchWouldBlock,
                 BranchFails, BranchEvictionFails, RetireFails, Unchanged
  <2> QED BY <1>un, <2>1
<1>20. CASE UNCHANGED vars
  BY <1>20, <1>un DEF vars
<1>21. CASE Next
  BY <1>2, <1>3, <1>4, <1>5, <1>6, <1>7, <1>9, <1>10, <1>11, <1>12, <1>13, <1>14, <1>15,
     <1>21 DEF Next
<1> QED BY <1>20, <1>21

----------------------------------------------------------------------------
(* The results. *)

\* Every step keeps the invariant of the entries and their order of use.
LEMMA NextOrdered ==
    ASSUME IInv, Ordered(cache), [Next]_vars
    PROVE  Ordered(cache') /\ OrderKept(cache, cache')
<1>1. PICK d : d = cache'
  OBVIOUS
<1>2. IndexStep(cache, d)
  BY <1>1, NextIndex
<1>3. Sound(cache)
  BY DEF IInv
<1> SUFFICES Ordered(d) /\ OrderKept(cache, d)
  BY <1>1
<1>4. CASE SameIndex(d, cache)
  <2>1. OrderKept(cache, d)
    BY <1>4 DEF OrderKept, SameIndex, Stamp
  <2> QED BY <1>4, <2>1 DEF Ordered, SameIndex
<1>5. ASSUME NEW id \in DOMAIN cache.prefixes, d = Touch(cache, id)
      PROVE  Ordered(d) /\ OrderKept(cache, d)
  BY <1>3, <1>5, TouchOrdered
<1>6. ASSUME NEW ids, Forgotten(cache, ids, d) PROVE Ordered(d) /\ OrderKept(cache, d)
  BY <1>6, ForgottenOrdered
<1>7. ASSUME NEW ids, NEW s, NEW key, NEW bytes, NEW e, Sound(e), Forgotten(cache, ids, e),
             key \notin DOMAIN cache.tree, d = InsertEntry(e, s, key, bytes)
      PROVE  Ordered(d) /\ OrderKept(cache, d)
  <2>1. Ordered(e) /\ OrderKept(cache, e)
    BY <1>7, ForgottenOrdered
  <2>2. key \notin DOMAIN e.tree
    BY <1>7 DEF Forgotten
  <2>3. Ordered(d) /\ OrderKept(e, d) /\ Inserted(e, s, key, d)
    BY <1>7, <2>1, <2>2, InsertOrdered
  <2>4. \A id \in DOMAIN cache.prefixes : id < cache.next_prefix_id /\ id \in Nat
    BY <1>3 DEF Ordered, Indexed, Sound, PrefixesOK
  <2>5. e.next_prefix_id = cache.next_prefix_id /\ cache.next_prefix_id \in Nat
    BY <1>3, <1>7 DEF Forgotten, Sound
  <2>6. DOMAIN cache.prefixes \cap DOMAIN d.prefixes = DOMAIN e.prefixes
        /\ DOMAIN e.prefixes \subseteq DOMAIN d.prefixes
        /\ \A id \in DOMAIN e.prefixes : e.prefixes[id] = cache.prefixes[id]
    <3>1. cache.next_prefix_id \notin DOMAIN cache.prefixes
      BY <2>4, <2>5
    <3>2. DOMAIN d.prefixes = DOMAIN e.prefixes \cup {cache.next_prefix_id}
      BY <2>3, <2>5 DEF Inserted
    <3>3. DOMAIN e.prefixes = DOMAIN cache.prefixes \ ids
      BY <1>7 DEF Forgotten
    <3>4. \A id \in DOMAIN e.prefixes : e.prefixes[id] = cache.prefixes[id]
      BY <1>7, <3>3 DEF Forgotten
    <3> QED BY <3>1, <3>2, <3>3, <3>4
  <2>7. OrderKept(cache, d)
    <3> SUFFICES ASSUME NEW cold \in DOMAIN e.prefixes, NEW hot \in DOMAIN e.prefixes,
                        NotHotter(Stamp(cache, cold), Stamp(cache, hot)),
                        d.prefixes[cold].last_used # d.clock
                 PROVE  NotHotter(Stamp(d, cold), Stamp(d, hot))
      BY <2>6 DEF OrderKept
    <3>1. NotHotter(Stamp(e, cold), Stamp(e, hot))
      BY <2>6 DEF Stamp
    <3>2. cold \in DOMAIN e.prefixes \cap DOMAIN d.prefixes
          /\ hot \in DOMAIN e.prefixes \cap DOMAIN d.prefixes
      BY <2>6
    <3> QED BY <2>3, <3>1, <3>2 DEF OrderKept
  <2> QED BY <2>3, <2>7
<1> QED BY <1>2, <1>4, <1>5, <1>6, <1>7 DEF IndexStep

\* A walk of the LRU order takes no entry before a colder one, but for the protected.
LEMMA RunColdest ==
    ASSUME NEW c, Sound(c), Ordered(c), NEW protected, NEW ids \in EvictionRuns(c, protected),
           NEW gone \in DOMAIN c.prefixes, gone \in ids,
           NEW kept \in DOMAIN c.prefixes, kept \notin ids, kept \notin protected
    PROVE  NotHotter(Stamp(c, gone), Stamp(c, kept))
<1>1. PICK f \in c.lru : ids = {e[2] : e \in {x \in c.lru : NotHotter(x, f)}} \ protected
  BY DEF EvictionRuns
<1>2. c.lru = {Stamp(c, id) : id \in DOMAIN c.prefixes}
  BY DEF Ordered, Ranked, Stamp
<1>3. PICK last \in DOMAIN c.prefixes : f = Stamp(c, last)
  BY <1>2
<1>4. PICK e \in c.lru : NotHotter(e, f) /\ gone = e[2]
  BY <1>1
<1>5. e = Stamp(c, gone)
  BY <1>2, <1>4 DEF Stamp
<1>6. NotHotter(Stamp(c, gone), Stamp(c, last))
  BY <1>3, <1>4, <1>5
<1>7. ~NotHotter(Stamp(c, kept), Stamp(c, last))
  <2>1. Stamp(c, kept) \in c.lru /\ Stamp(c, kept)[2] = kept
    BY <1>2 DEF Stamp
  <2> QED BY <1>1, <1>3, <2>1
<1>8. \A id \in DOMAIN c.prefixes : id \in Nat /\ c.prefixes[id].last_used \in Nat
  BY DEF Sound, PrefixesOK, PrefixEntry
<1> QED BY <1>6, <1>7, <1>8, NotHotterIs

\* Every step evicts as EvictsColdestFirst says.
LEMMA NextColdest ==
    ASSUME IInv, Ordered(cache), [Next]_vars, NEW d, d = cache',
           d.sequences # cache.sequences \/ d.next_prefix_id # cache.next_prefix_id,
           NEW gone \in DOMAIN cache.prefixes, gone \notin DOMAIN d.prefixes,
           NEW kept \in DOMAIN cache.prefixes, kept \in DOMAIN d.prefixes
    PROVE  \/ NotHotter(Stamp(cache, gone), Stamp(cache, kept))
           \/ \E s \in LiveIn(d.sequences) \ LiveIn(cache.sequences) :
                d.sequences[s].pages = cache.prefixes[kept].pages
<1> DEFINE Cold == NotHotter(Stamp(cache, gone), Stamp(cache, kept))
           Shared == \E s \in LiveIn(d.sequences) \ LiveIn(cache.sequences) :
                       d.sequences[s].pages = cache.prefixes[kept].pages
<1> SUFFICES Cold \/ Shared
  OBVIOUS
<1>1. IndexStep(cache, d)
  BY NextIndex
<1>2. Sound(cache)
  BY DEF IInv
<1>3. ~SameIndex(d, cache)
  BY DEF SameIndex
<1>4. \A id \in DOMAIN cache.prefixes : d # Touch(cache, id)
  BY <1>2, TouchOrdered DEF Touched
<1>5. ASSUME NEW ids, Forgotten(cache, ids, d), Planned(cache, ids, d) PROVE Cold \/ Shared
  <2>1. gone \in ids /\ kept \notin ids
    BY <1>5 DEF Forgotten
  <2>2. PICK protected :
          /\ ids \in EvictionRuns(cache, protected)
          /\ \A k \in protected \cap DOMAIN cache.prefixes :
               \E s \in LiveIn(d.sequences) \ LiveIn(cache.sequences) :
                 d.sequences[s].pages = cache.prefixes[k].pages
    BY <1>5 DEF Planned
  <2>3. CASE kept \in protected
    BY <2>2, <2>3
  <2>4. CASE kept \notin protected
    BY <1>2, <2>1, <2>2, <2>4, RunColdest
  <2> QED BY <2>3, <2>4
<1>6. ASSUME NEW ids \in EvictionRuns(cache, {}), NEW s, NEW key, NEW bytes, NEW e, Sound(e),
             Forgotten(cache, ids, e), key \notin DOMAIN cache.tree,
             d = InsertEntry(e, s, key, bytes)
      PROVE  Cold \/ Shared
  <2>1. Ordered(e) /\ key \notin DOMAIN e.tree
    BY <1>6, ForgottenOrdered DEF Forgotten
  <2>2. Inserted(e, s, key, d)
    BY <1>6, <2>1, InsertOrdered
  <2>3. kept < cache.next_prefix_id /\ kept \in Nat /\ e.next_prefix_id = cache.next_prefix_id
        /\ cache.next_prefix_id \in Nat
    BY <1>2, <1>6 DEF Ordered, Indexed, Sound, PrefixesOK, Forgotten
  <2>4. gone \in ids /\ kept \notin ids
    BY <1>6, <2>2, <2>3 DEF Forgotten, Inserted
  <2>5. Cold
    BY <1>2, <2>4, RunColdest
  <2> QED BY <2>5
<1> HIDE DEF Cold, Shared
<1> QED BY <1>1, <1>3, <1>4, <1>5, <1>6 DEF IndexStep

\* A new manager has no entries to order.
LEMMA InitOrdered == Init => Ordered(cache)
<1> SUFFICES ASSUME Init PROVE Ordered(cache)
  OBVIOUS
<1> DEFINE x == [pages |-> <<>>, free_page_slots |-> <<>>,
                 sequences |-> <<>>, free_sequence_slots |-> <<>>,
                 prefixes |-> <<>>, lru |-> {}, tree |-> <<>>,
                 next_prefix_id |-> 0, clock |-> 0, deferred_pages |-> 0,
                 stats |-> EmptyStats]
<1>1. cache = RefreshStats(x)
  BY DEF Init, EmptyCache
<1>2. DOMAIN x = Fields
  BY DEF Fields
<1>3. x.prefixes = <<>> /\ x.lru = {} /\ x.tree = <<>>
  OBVIOUS
<1> HIDE DEF x
<1>4. SameRest(RefreshStats(x), x)
  BY <1>2, RefreshRest
<1>5. cache.prefixes = <<>> /\ cache.lru = {} /\ cache.tree = <<>>
  BY <1>1, <1>3, <1>4 DEF SameRest
<1>6. DOMAIN cache.prefixes = {} /\ DOMAIN cache.tree = {}
  BY <1>5
<1>7. Ranked(cache.prefixes, cache.lru, cache.clock)
  BY <1>5, <1>6 DEF Ranked
<1>8. Indexed(cache.prefixes, cache.tree, cache.next_prefix_id)
  BY <1>6 DEF Indexed
<1> QED BY <1>7, <1>8 DEF Ordered

\* In every reachable state, for every configuration, the stamps of the entries are all
\* different and at most the clock, the LRU set holds exactly them, and the prefix index
\* leads from every key to the entry with that key and back: over lookups, retentions and
\* evictions in any order, and across renumberings of the clock (tick, lookup_prefix,
\* retain_prefix, commit_evictions).
THEOREM EntriesInvariant == Spec => []Ordered(cache)
<1>1. Init => Ordered(cache)
  BY InitOrdered
<1>2. Ordered(cache) /\ IInv /\ [Next]_vars => Ordered(cache)'
  BY NextOrdered
<1> QED BY <1>1, <1>2, InductiveInvariant, PTL DEF Spec

\* In every reachable state, for every configuration, the LRU set mirrors the entries, no
\* two share a stamp and none is ahead of the clock (validate; tick).
THEOREM LruCorrect == Spec => []LruExact
<1>1. Ordered(cache) => LruExact
  BY DEF Ordered, Ranked, LruExact, Stamp
<1> QED BY <1>1, EntriesInvariant, PTL

\* In every step, for every configuration, of two entries that stay the hotter one stays
\* the hotter one unless the other was just used; a renumbering never reorders them (tick,
\* Touch as lookup_prefix and retain_prefix do it).
THEOREM RecencyCorrect == Spec => RecencyOrderStable
<1>1. IInv /\ Ordered(cache) /\ [Next]_vars =>
        [\A cold, hot \in DOMAIN cache.prefixes \cap DOMAIN cache'.prefixes :
           /\ NotHotter(Stamp(cache, cold), Stamp(cache, hot))
           /\ cache'.prefixes[cold].last_used # cache'.clock
           => NotHotter(Stamp(cache', cold), Stamp(cache', hot))]_vars
  <2> SUFFICES ASSUME IInv, Ordered(cache), [Next]_vars
               PROVE  OrderKept(cache, cache')
    BY DEF OrderKept
  <2> QED BY NextOrdered
<1> QED BY <1>1, InductiveInvariant, EntriesInvariant, PTL DEF Spec, RecencyOrderStable

----------------------------------------------------------------------------
(* Who becomes live. *)

\* A record whose slots of sequences say whether they are in use.
Tame(c) == DOMAIN c = Fields /\ \A t \in DOMAIN c.sequences : "live" \in DOMAIN c.sequences[t]

\* No sequence becomes live.
NoneAdded(c, d) == LiveIn(d.sequences) \subseteq LiveIn(c.sequences)

\* Any number of such changes.
LEMMA NoneAddedThen ==
    ASSUME NEW c, NEW d, NEW e, NoneAdded(c, d), NoneAdded(d, e)
    PROVE  NoneAdded(c, e)
BY DEF NoneAdded

\* refresh_stats, and every change that leaves the sequences alone.
LEMMA SameAdded ==
    ASSUME NEW c, Tame(c), NEW d, DOMAIN d = Fields, d.sequences = c.sequences
    PROVE  Tame(d) /\ NoneAdded(c, d)
BY DEF Tame, NoneAdded

\* refresh_stats.
LEMMA RefreshAdded ==
    ASSUME NEW c, Tame(c), NEW d, d = RefreshStats(c)
    PROVE  Tame(d) /\ NoneAdded(c, d)
<1>1. DOMAIN d = Fields /\ d.sequences = c.sequences
  BY DEF Tame, RefreshStats, Fields
<1> QED BY <1>1, SameAdded

\* A slot that is written to stays in use or is vacated.
LEMMA WriteAdded ==
    ASSUME NEW c, Tame(c), NEW s, NEW q, NEW d, DOMAIN d = Fields,
           d.sequences = [c.sequences EXCEPT ![s] = q],
           s \in DOMAIN c.sequences => "live" \in DOMAIN q /\ (q.live => c.sequences[s].live)
    PROVE  Tame(d) /\ NoneAdded(c, d)
BY DEF Tame, NoneAdded, LiveIn

\* The end of commit_append and of abort_append.
LEMMA ReleasedAdded ==
    ASSUME NEW c, Tame(c), NEW s, NEW released
    PROVE  /\ NoneAdded(c, Released(c, s, released))
           /\ NoneAdded(c, StopAtExhausted(c, s, released))
<1> DEFINE y == RemovePages(c, Slots(released))
           x == [y EXCEPT !.sequences[s].reserved_pages = @ + Len(released),
                          !.sequences[s].pending = NoPending,
                          !.stats.reserved_pages = @ + Len(released)]
           stop == Min(Exhausted(released))
           z == RemovePages(c, Slots(SubSeq(released, 1, stop - 1)))
           w == [z EXCEPT !.pages[released[stop].slot].physical = None,
                          !.sequences[s].pending = NoPending]
<1>1. /\ DOMAIN y = Fields /\ y.sequences = c.sequences
      /\ DOMAIN z = Fields /\ z.sequences = c.sequences
  BY DEF Tame, RemovePages, Fields
<1> HIDE DEF y, z
<1>2. /\ DOMAIN x = Fields
      /\ x.sequences = [c.sequences EXCEPT ![s] =
           [c.sequences[s] EXCEPT !.reserved_pages = @ + Len(released), !.pending = NoPending]]
  BY <1>1 DEF Fields
<1>3. /\ DOMAIN w = Fields
      /\ w.sequences = [c.sequences EXCEPT ![s] = [c.sequences[s] EXCEPT !.pending = NoPending]]
  BY <1>1 DEF Fields
<1> HIDE DEF x, w, stop
<1>4. Tame(x) /\ NoneAdded(c, x)
  <2> DEFINE q == [c.sequences[s] EXCEPT !.reserved_pages = @ + Len(released), !.pending = NoPending]
  <2>1. s \in DOMAIN c.sequences => "live" \in DOMAIN q /\ (q.live => c.sequences[s].live)
    BY DEF Tame
  <2> HIDE DEF q
  <2>2. x.sequences = [c.sequences EXCEPT ![s] = q]
    BY <1>2 DEF q
  <2> QED BY <1>2, <2>1, <2>2, WriteAdded
<1>5. NoneAdded(c, w)
  <2> DEFINE q == [c.sequences[s] EXCEPT !.pending = NoPending]
  <2>1. s \in DOMAIN c.sequences => "live" \in DOMAIN q /\ (q.live => c.sequences[s].live)
    BY DEF Tame
  <2> HIDE DEF q
  <2>2. w.sequences = [c.sequences EXCEPT ![s] = q]
    BY <1>3 DEF q
  <2> QED BY <1>3, <2>1, <2>2, WriteAdded
<1>6. NoneAdded(c, RefreshStats(x))
  BY <1>4, RefreshAdded, NoneAddedThen
<1>7. Released(c, s, released) = RefreshStats(x)
  BY DEF Released, x, y
<1>8. StopAtExhausted(c, s, released) = w
  BY DEF StopAtExhausted, w, z, stop
<1> QED BY <1>5, <1>6, <1>7, <1>8

\* commit_append and abort_append, to their end or not.
LEMMA FinalizeAdded ==
    ASSUME Tame(cache), NEW s, NEW rows,
           \/ CommitAppend(s, rows) \/ CommitAppendExhausted(s, rows)
           \/ AbortAppend(s) \/ AbortAppendExhausted(s)
    PROVE  NoneAdded(cache, cache')
<1>1. CASE AbortAppend(s) \/ AbortAppendExhausted(s)
  <2>1. PICK released :
          cache' = Released(cache, s, released) \/ cache' = StopAtExhausted(cache, s, released)
    BY <1>1 DEF AbortAppend, AbortAppendExhausted
  <2> QED BY <2>1, ReleasedAdded
<1>2. CASE CommitAppend(s, rows) \/ CommitAppendExhausted(s, rows)
  <2>1. PICK q, table, released :
          \/ cache' = Released(WithTable(MarkCommitted(cache, q, table, rows), s, table, rows),
                               s, released)
          \/ cache' = StopAtExhausted(MarkCommitted(cache, q, table, rows), s, released)
    BY <1>2 DEF CommitAppend, CommitAppendExhausted, WithTable
  <2>2. PICK m : m = MarkCommitted(cache, q, table, rows)
    OBVIOUS
  <2>3. DOMAIN m = Fields /\ m.sequences = cache.sequences
    BY <2>2 DEF Tame, MarkCommitted, Fields
  <2>4. Tame(m) /\ NoneAdded(cache, m)
    BY <2>3, SameAdded
  <2>5. PICK x : x = WithTable(m, s, table, rows)
    OBVIOUS
  <2> DEFINE w == [m.sequences[s] EXCEPT !.pages = table, !.position = @ + rows]
  <2>6. DOMAIN x = Fields /\ x.sequences = [m.sequences EXCEPT ![s] = w]
    BY <2>3, <2>5 DEF WithTable, Fields
  <2>7. s \in DOMAIN m.sequences => "live" \in DOMAIN w /\ (w.live => m.sequences[s].live)
    BY <2>4 DEF Tame
  <2> HIDE DEF w
  <2>8. Tame(x) /\ NoneAdded(m, x)
    BY <2>4, <2>6, <2>7, WriteAdded
  <2>9. NoneAdded(x, Released(x, s, released)) /\ NoneAdded(m, StopAtExhausted(m, s, released))
    BY <2>4, <2>8, ReleasedAdded
  <2> QED BY <2>1, <2>2, <2>4, <2>5, <2>8, <2>9, NoneAddedThen
<1> QED BY <1>1, <1>2

\* reserve_append.
LEMMA ReserveAdded ==
    ASSUME Tame(cache), NEW s, NEW rows, ReserveAppend(s, rows)
    PROVE  NoneAdded(cache, cache')
<1> DEFINE n == NewPageCount(cache.sequences[s], rows)
           new == [i \in 1..n |-> FreshPageId(cache, i)]
<1>1. PICK physical :
        cache' = RefreshStats([InsertPages(cache, physical, 0) EXCEPT
             !.sequences[s].reserved_pages = @ - n,
             !.sequences[s].pending = [rows |-> rows, new_pages |-> new],
             !.stats.reserved_pages = @ - n])
  BY ZenonT(60) DEF ReserveAppend
<1> HIDE DEF n, new
<1>2. PICK y : y = InsertPages(cache, physical, 0)
  OBVIOUS
<1>3. DOMAIN y = Fields /\ y.sequences = cache.sequences
  BY <1>2 DEF Tame, InsertPages, Fields
<1>4. PICK x : x = [y EXCEPT !.sequences[s].reserved_pages = @ - n,
                             !.sequences[s].pending = [rows |-> rows, new_pages |-> new],
                             !.stats.reserved_pages = @ - n]
  OBVIOUS
<1> DEFINE w == [cache.sequences[s] EXCEPT !.reserved_pages = @ - n,
                                           !.pending = [rows |-> rows, new_pages |-> new]]
<1>5. DOMAIN x = Fields /\ x.sequences = [cache.sequences EXCEPT ![s] = w]
  BY <1>3, <1>4 DEF Fields
<1>6. s \in DOMAIN cache.sequences => "live" \in DOMAIN w /\ (w.live => cache.sequences[s].live)
  BY DEF Tame
<1> HIDE DEF w
<1>7. Tame(x) /\ NoneAdded(cache, x)
  BY <1>5, <1>6, WriteAdded
<1>8. NoneAdded(x, RefreshStats(x))
  BY <1>7, RefreshAdded
<1> QED BY <1>1, <1>2, <1>4, <1>7, <1>8, NoneAddedThen

\* finish.
LEMMA FinishAdded ==
    ASSUME Tame(cache), NEW s, Finish(s)
    PROVE  NoneAdded(cache, cache')
<1>1. PICK slots, later, others :
        cache' = RefreshStats(RemoveSequence(
                   DecrementActiveRefs(RetirePages(cache, slots, later), others), s))
  BY DEF Finish
<1>2. PICK m : m = RetirePages(cache, slots, later)
  OBVIOUS
<1>3. DOMAIN m = Fields /\ m.sequences = cache.sequences
  BY <1>2 DEF Tame, RetirePages, RemovePages, Fields
<1>4. PICK d : d = DecrementActiveRefs(m, others)
  OBVIOUS
<1>5. DOMAIN d = Fields /\ d.sequences = cache.sequences
  BY <1>3, <1>4 DEF DecrementActiveRefs, Fields
<1>6. PICK x : x = RemoveSequence(d, s)
  OBVIOUS
<1> DEFINE w == VacantSequence(cache.sequences[s].generation + 1)
<1>7. DOMAIN x = Fields /\ x.sequences = [cache.sequences EXCEPT ![s] = w]
  BY <1>5, <1>6 DEF RemoveSequence, Fields
<1>8. "live" \in DOMAIN w /\ ~w.live
  BY DEF VacantSequence
<1> HIDE DEF w
<1>9. Tame(x) /\ NoneAdded(cache, x)
  BY <1>7, <1>8, WriteAdded
<1>10. NoneAdded(x, RefreshStats(x))
  BY <1>9, RefreshAdded
<1> QED BY <1>1, <1>2, <1>4, <1>6, <1>9, <1>10, NoneAddedThen

\* Every step of a runtime that does not branch admits what it should or nothing.
LEMMA NextMatched ==
    ASSUME ~CanBranch, IInv, Ordered(cache), [Next]_vars
    PROVE  Matched(cache, cache')
<1> DEFINE Kept == Matched(cache, cache')
<1> SUFFICES Kept
  OBVIOUS
<1>0. Sound(cache) /\ Tame(cache)
  <2>1. Sound(cache)
    BY DEF IInv
  <2>2. \A t \in DOMAIN cache.sequences : cache.sequences[t] \in SequenceSlot
    BY <2>1 DEF Sound, SequencesOK
  <2>3. \A t \in DOMAIN cache.sequences : "live" \in DOMAIN cache.sequences[t]
    BY <2>2 DEF SequenceSlot
  <2> QED BY <2>1, <2>3 DEF Tame, Sound
<1>none. NoneAdded(cache, cache') => Kept
  BY DEF NoneAdded, Matched
<1>same. cache'.sequences = cache.sequences => Kept
  BY <1>none DEF NoneAdded
<1>1. ASSUME NEW polled \in SUBSET InPool("deferred"), cache' = Reclaimed(polled) PROVE Kept
  BY <1>1, <1>same, PolledIndex
<1>2. ASSUME NEW polled \in SUBSET InPool("deferred"), ReclaimDeferred(polled) PROVE Kept
  BY <1>1, <1>2 DEF ReclaimDeferred
<1>3. ASSUME NEW polled \in SUBSET InPool("deferred"), NEW prefix \in Matches,
             NEW request \in Requests, Admit(polled, prefix, request)
      PROVE  Kept
  BY <1>3, AdmitIndex
<1>4. ASSUME NEW polled \in SUBSET InPool("deferred"), NEW prefix \in Matches,
             NEW request \in Requests, NEW outcome \in {"would_block", "refused", "backend"},
             AdmitDeclined(polled, prefix, request, outcome)
      PROVE  Kept
  BY <1>1, <1>4 DEF AdmitDeclined
<1> HIDE DEF Kept
<1>5. ASSUME NEW s \in LiveSequences, NEW rows \in Rows, ReserveAppend(s, rows) PROVE Kept
  BY <1>0, <1>5, <1>none, ReserveAdded
<1>6. ASSUME NEW s \in LiveSequences, NEW rows \in Rows,
             CommitAppend(s, rows) \/ CommitAppendExhausted(s, rows)
      PROVE  Kept
  BY <1>0, <1>6, <1>none, FinalizeAdded
<1>7. ASSUME NEW s \in LiveSequences, AbortAppend(s) \/ AbortAppendExhausted(s) PROVE Kept
  BY <1>0, <1>7, <1>none, FinalizeAdded
<1>8. ASSUME NEW id \in DOMAIN cache.prefixes, cache' = Touch(cache, id) PROVE Kept
  BY <1>0, <1>8, <1>same, TouchOrdered DEF Touched
<1>9. ASSUME NEW prompt, NEW tail, LookupPrefix(prompt, tail) PROVE Kept
  BY <1>8, <1>9 DEF LookupPrefix
<1>10. ASSUME NEW s \in LiveSequences, NEW key \in KeysFor(s), RetainDuplicate(s, key)
       PROVE  Kept
  BY <1>8, <1>10 DEF RetainDuplicate
<1>11. ASSUME NEW s \in LiveSequences, NEW n \in SnapshotSizes, NEW key \in KeysFor(s),
              RetainPrefix(s, key, n)
       PROVE  Kept
  <2>1. PICK ids \in EvictionRuns(cache, {}) : CanEvict(cache, ids) /\ \E e :
          EvictedTo(cache, ids, e) /\ cache' = InsertEntry(e, s, key, n)
    BY <1>11 DEF RetainPrefix, EvictedTo
  <2>2. PICK e : EvictedTo(cache, ids, e) /\ cache' = InsertEntry(e, s, key, n)
    BY <2>1
  <2>3. Sound(e) /\ Forgotten(cache, ids, e) /\ e.sequences = cache.sequences
    BY <1>0, <2>1, <2>2, EvictionRunsParts, EvictedForgotten
  <2>4. Ordered(e) /\ key \notin DOMAIN e.tree
    BY <1>0, <1>11, <2>3, ForgottenOrdered DEF Forgotten, RetainPrefix
  <2>5. PICK d : d = cache'
    OBVIOUS
  <2>6. Inserted(e, s, key, d)
    BY <2>2, <2>3, <2>4, <2>5, InsertOrdered
  <2> QED BY <1>same, <2>3, <2>5, <2>6 DEF Inserted
<1>12. ASSUME NEW id \in DOMAIN cache.prefixes, EvictPrefix(id) PROVE Kept
  <2>1. PICK d : d = cache'
    OBVIOUS
  <2>2. CanEvict(cache, {id}) /\ EvictedTo(cache, {id}, d)
    BY <1>12, <2>1 DEF EvictPrefix, EvictedTo
  <2>3. d.sequences = cache.sequences
    BY <1>0, <2>2, EvictedForgotten
  <2> QED BY <1>same, <2>1, <2>3
<1>13. ~\E s \in LiveSequences, request \in Requests : Branch(s, request)
  BY DEF Branch, CanBranchFrom
<1>14. ASSUME NEW s \in LiveSequences, Finish(s) PROVE Kept
  BY <1>0, <1>14, <1>none, FinishAdded
<1>15. CASE \/ PollFails
            \/ \E s \in LiveSequences : FinalizeFails(s)
            \/ \E s \in LiveSequences, n \in SnapshotSizes, outcome \in {"refused", "backend"} :
                 \E key \in KeysFor(s) : RetainDeclined(s, key, n, outcome)
            \/ \E s \in LiveSequences, rows \in Rows : ReserveAppendFails(s, rows)
            \/ \E s \in LiveSequences, request \in Requests :
                 \/ BranchWouldBlock(s, request)
                 \/ BranchFails(s, request)
                 \/ BranchEvictionFails(s, request)
            \/ RetireFails
  <2>1. cache' = cache
    BY <1>15 DEF PollFails, FinalizeFails, RetainDeclined, ReserveAppendFails, BranchWouldBlock,
                 BranchFails, BranchEvictionFails, RetireFails, Unchanged
  <2> QED BY <1>same, <2>1
<1>20. CASE UNCHANGED vars
  BY <1>20, <1>same DEF vars
<1>21. CASE Next
  BY <1>2, <1>3, <1>4, <1>5, <1>6, <1>7, <1>9, <1>10, <1>11, <1>12, <1>13, <1>14, <1>15,
     <1>21 DEF Next
<1> QED BY <1>20, <1>21

\* In every step, for every configuration, the entries that admit, branch and retain_prefix
\* evict are colder than every entry that stays, but for the one whose pages the new
\* sequence shares; and a runtime that does not branch is never admitted with the pages of
\* an entry that is gone after the step: admit passes over the entry it was matched with,
\* wherever that is in the LRU order (plan_evictions with its protected entry,
\* commit_evictions).
THEOREM EvictsColdestCorrect == Spec => EvictsColdestFirst
<1> DEFINE Coldest ==
      cache'.sequences # cache.sequences \/ cache'.next_prefix_id # cache.next_prefix_id =>
        \A gone \in DOMAIN cache.prefixes \ DOMAIN cache'.prefixes,
           kept \in DOMAIN cache.prefixes \cap DOMAIN cache'.prefixes :
          \/ NotHotter(Stamp(cache, gone), Stamp(cache, kept))
          \/ \E s \in LiveSequences' \ LiveSequences :
               cache'.sequences[s].pages = cache.prefixes[kept].pages
<1> DEFINE MatchStays ==
      ~CanBranch =>
        \A s \in LiveSequences' \ LiveSequences :
          \/ cache'.sequences[s].pages = <<>>
          \/ \E id \in DOMAIN cache'.prefixes :
               cache'.prefixes[id].pages = cache'.sequences[s].pages
<1>1. ASSUME IInv, Ordered(cache), [Next]_vars PROVE Coldest
  <2> SUFFICES ASSUME cache'.sequences # cache.sequences
                        \/ cache'.next_prefix_id # cache.next_prefix_id,
                      NEW gone \in DOMAIN cache.prefixes \ DOMAIN cache'.prefixes,
                      NEW kept \in DOMAIN cache.prefixes \cap DOMAIN cache'.prefixes
               PROVE  \/ NotHotter(Stamp(cache, gone), Stamp(cache, kept))
                      \/ \E s \in LiveSequences' \ LiveSequences :
                           cache'.sequences[s].pages = cache.prefixes[kept].pages
    OBVIOUS
  <2>1. PICK d : d = cache'
    OBVIOUS
  <2>2. \/ NotHotter(Stamp(cache, gone), Stamp(cache, kept))
        \/ \E s \in LiveIn(d.sequences) \ LiveIn(cache.sequences) :
             d.sequences[s].pages = cache.prefixes[kept].pages
    BY <1>1, <2>1, NextColdest
  <2>3. LiveSequences = LiveIn(cache.sequences) /\ LiveSequences' = LiveIn(d.sequences)
    BY <2>1 DEF LiveSequences, LiveIn
  <2> QED BY <2>1, <2>2, <2>3
<1>2. ASSUME IInv, Ordered(cache), [Next]_vars PROVE MatchStays
  <2> SUFFICES ASSUME ~CanBranch, NEW s \in LiveSequences' \ LiveSequences
               PROVE  \/ cache'.sequences[s].pages = <<>>
                      \/ \E id \in DOMAIN cache'.prefixes :
                           cache'.prefixes[id].pages = cache'.sequences[s].pages
    OBVIOUS
  <2>1. PICK d : d = cache'
    OBVIOUS
  <2>2. Matched(cache, d)
    BY <1>2, <2>1, NextMatched
  <2>3. LiveSequences = LiveIn(cache.sequences) /\ LiveSequences' = LiveIn(d.sequences)
    BY <2>1 DEF LiveSequences, LiveIn
  <2> QED BY <2>1, <2>2, <2>3 DEF Matched
<1>3. IInv /\ Ordered(cache) /\ [Next]_vars => [Coldest /\ MatchStays]_vars
  BY <1>1, <1>2
<1> QED BY <1>3, InductiveInvariant, EntriesInvariant, PTL DEF Spec, EvictsColdestFirst

=============================================================================
