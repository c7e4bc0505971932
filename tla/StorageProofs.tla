--------------------------- MODULE StorageProofs ---------------------------
(***************************************************************************)
(* Proofs about the storage behind the pages: every page in use is on a    *)
(* physical page of its own that the pool has handed out, and the table    *)
(* published to a sequence's context lists the storage of its pages.       *)
(*                                                                         *)
(* Pages leave an arena with their storage (evictions, finish, the end of  *)
(* an append) or are put on storage from the pool (reserve_append and the  *)
(* copy of branch).  What a table lists then follows from Keeping:         *)
(* handles that resolve before and after a step name the same storage.     *)
(* Without branches no storage is lost either, and so the pool has a page  *)
(* for every one that is promised.                                         *)
(*                                                                         *)
(* The last part is about calls that fail.  A call may poll before it      *)
(* fails, and so refresh the statistics; these must have been exact before *)
(* it for the rest of the manager to be unchanged.                         *)
(***************************************************************************)
EXTENDS OwnershipProofs

----------------------------------------------------------------------------
(* Pages on storage. *)

\* Every page in use is on storage that is handed out, and on its own.
Placed(pages, pl) ==
    /\ \A p \in DOMAIN pages :
         pages[p].live => pages[p].physical \in PhysicalPages /\ pl[pages[p].physical] = "held"
    /\ \A p, o \in DOMAIN pages :
         pages[p].live /\ pages[o].live /\ pages[p].physical = pages[o].physical => p = o

\* The pages in use after are those before, on the same storage, without those in slots.
Leaving(pages, slots, after) ==
    /\ \A p \in slots : p \in DOMAIN pages /\ pages[p].live
    /\ \A p \in DOMAIN after : after[p].live =>
         /\ p \in DOMAIN pages /\ p \notin slots /\ pages[p].live
         /\ after[p].physical = pages[p].physical
    /\ \A p \in DOMAIN pages : pages[p].live /\ p \notin slots => p \in DOMAIN after /\ after[p].live

\* The storage on which the pages in some slots are.
Storage(pages, slots) == {pages[p].physical : p \in slots}

\* The pool takes back nothing that is handed out, except what is gone.
TakesBack(pl, gone, pm) ==
    \A x \in PhysicalPages : pl[x] = "held" /\ x \notin gone => pm[x] = "held"

\* Pages leave with their storage.
LEMMA LeavingPlaced ==
    ASSUME NEW pages, NEW slots, NEW after, NEW pl, NEW pm, Placed(pages, pl),
           Leaving(pages, slots, after), TakesBack(pl, Storage(pages, slots), pm)
    PROVE  Placed(after, pm)
<1>1. ASSUME NEW p \in DOMAIN after, after[p].live
      PROVE  after[p].physical \in PhysicalPages /\ pm[after[p].physical] = "held"
  <2>1. /\ p \in DOMAIN pages /\ p \notin slots /\ pages[p].live
        /\ after[p].physical = pages[p].physical
    BY <1>1 DEF Leaving
  <2>2. pages[p].physical \in PhysicalPages /\ pl[pages[p].physical] = "held"
    BY <2>1 DEF Placed
  <2>3. pages[p].physical \notin Storage(pages, slots)
    <3> SUFFICES ASSUME NEW o \in slots, pages[p].physical = pages[o].physical PROVE FALSE
      BY DEF Storage
    <3>1. o \in DOMAIN pages /\ pages[o].live
      BY DEF Leaving
    <3> QED BY <2>1, <3>1 DEF Placed
  <2> QED BY <2>1, <2>2, <2>3 DEF TakesBack
<1>2. ASSUME NEW p \in DOMAIN after, NEW o \in DOMAIN after, after[p].live, after[o].live,
             after[p].physical = after[o].physical
      PROVE  p = o
  BY <1>2 DEF Leaving, Placed
<1> QED BY <1>1, <1>2 DEF Placed

\* Pages are put on storage from the pool.
LEMMA TakenPlaced ==
    ASSUME NEW pages, NEW new, NEW physical, NEW valid, NEW more, NEW pl, NEW pm,
           Placed(pages, pl), Taken(pages, new, physical, valid, more),
           DOMAIN new = DOMAIN physical,
           \A i \in DOMAIN physical : /\ physical[i] \in PhysicalPages
                                      /\ pl[physical[i]] # "held" /\ pm[physical[i]] = "held",
           \A i, j \in DOMAIN physical : physical[i] = physical[j] => i = j,
           TakesBack(pl, {}, pm)
    PROVE  Placed(more, pm)
<1>1. \A p \in SlotsOf(new) : \E i \in DOMAIN physical :
        new[i].slot = p /\ more[p].physical = physical[i]
  <2>1. \A i \in DOMAIN physical : more[new[i].slot].physical = physical[i]
    <3> SUFFICES ASSUME NEW i \in DOMAIN physical
                 PROVE  more[new[i].slot].physical = physical[i]
      OBVIOUS
    <3>1. more[new[i].slot] = PrivatePage(new[i].generation, physical[i], valid)
      BY DEF Taken
    <3> QED BY <3>1 DEF PrivatePage
  <2> QED BY <2>1 DEF SlotsOf
<1>2. \A p \in DOMAIN more \ SlotsOf(new) : p \in DOMAIN pages /\ more[p] = pages[p]
  BY DEF Taken
<1>3. \A p \in DOMAIN pages : pages[p].live =>
        /\ pages[p].physical \in PhysicalPages
        /\ pl[pages[p].physical] = "held" /\ pm[pages[p].physical] = "held"
  BY DEF Placed, TakesBack
<1>4. ASSUME NEW p \in DOMAIN more, more[p].live
      PROVE  more[p].physical \in PhysicalPages /\ pm[more[p].physical] = "held"
  BY <1>1, <1>2, <1>3, <1>4
<1>5. ASSUME NEW p \in DOMAIN more, NEW o \in DOMAIN more, more[p].live, more[o].live,
             more[p].physical = more[o].physical
      PROVE  p = o
  <2>1. CASE p \in SlotsOf(new) /\ o \in SlotsOf(new)
    BY <1>1, <1>5, <2>1
  <2>2. CASE p \in SlotsOf(new) /\ o \notin SlotsOf(new)
    BY <1>1, <1>2, <1>3, <1>5, <2>2
  <2>3. CASE p \notin SlotsOf(new) /\ o \in SlotsOf(new)
    BY <1>1, <1>2, <1>3, <1>5, <2>3
  <2>4. CASE p \notin SlotsOf(new) /\ o \notin SlotsOf(new)
    BY <1>2, <1>5, <2>4 DEF Placed
  <2> QED BY <2>1, <2>2, <2>3, <2>4
<1> QED BY <1>4, <1>5 DEF Placed

\* Handles that resolve before and after a step name the same storage.
LEMMA RefsStay ==
    ASSUME NEW c, NEW d, Evolves(c.pages, d.pages), NEW ids, AllLive(c, ids), AllLive(d, ids)
    PROVE  PhysicalRefs(d, ids) = PhysicalRefs(c, ids)
<1>1. ASSUME NEW i \in DOMAIN ids
      PROVE  d.pages[ids[i].slot].physical = c.pages[ids[i].slot].physical
  BY DEF AllLive, LivePage, Evolves, PageKept
<1> QED BY <1>1 DEF PhysicalRefs

\* The storage of a table in two parts.
LEMMA RefsJoined ==
    ASSUME NEW c, NEW a \in Seq(PageId), NEW b \in Seq(PageId), NEW S,
           PhysicalRefs(c, a) \in Seq(S), PhysicalRefs(c, b) \in Seq(S)
    PROVE  PhysicalRefs(c, a \o b) = PhysicalRefs(c, a) \o PhysicalRefs(c, b)
<1> DEFINE x == PhysicalRefs(c, a)
           y == PhysicalRefs(c, b)
           ab == a \o b
           xy == x \o y
           z == PhysicalRefs(c, ab)
<1>1. /\ Len(a) \in Nat /\ Len(b) \in Nat /\ DOMAIN a = 1..Len(a) /\ DOMAIN b = 1..Len(b)
  OBVIOUS
<1>2. /\ DOMAIN x = DOMAIN a /\ \A i \in DOMAIN a : x[i] = c.pages[a[i].slot].physical
      /\ DOMAIN y = DOMAIN b /\ \A i \in DOMAIN b : y[i] = c.pages[b[i].slot].physical
      /\ DOMAIN z = DOMAIN ab /\ \A i \in DOMAIN ab : z[i] = c.pages[ab[i].slot].physical
      /\ z = [i \in DOMAIN z |-> z[i]]
  BY DEF PhysicalRefs
<1>3. /\ DOMAIN ab = 1..(Len(a) + Len(b))
      /\ \A i \in 1..Len(a) : ab[i] = a[i]
      /\ \A i \in (Len(a) + 1)..(Len(a) + Len(b)) : ab[i] = b[i - Len(a)]
  <2>1. ab \in Seq(PageId) /\ Len(ab) = Len(a) + Len(b)
    OBVIOUS
  <2>2. \A i \in 1..(Len(a) + Len(b)) : ab[i] = IF i <= Len(a) THEN a[i] ELSE b[i - Len(a)]
    OBVIOUS
  <2> HIDE DEF ab
  <2> QED BY <1>1, <2>1, <2>2
<1> HIDE DEF x, y, z, ab
<1>4. Len(x) = Len(a) /\ Len(y) = Len(b)
  BY <1>1, <1>2 DEF x, y
<1>5. /\ DOMAIN xy = 1..(Len(a) + Len(b))
      /\ \A i \in 1..Len(a) : xy[i] = x[i]
      /\ \A i \in (Len(a) + 1)..(Len(a) + Len(b)) : xy[i] = y[i - Len(a)]
      /\ xy = [i \in DOMAIN xy |-> xy[i]]
  <2>1. x \in Seq(S) /\ y \in Seq(S)
    BY DEF x, y
  <2>2. xy \in Seq(S) /\ Len(xy) = Len(x) + Len(y)
    BY <2>1
  <2>3. \A i \in 1..(Len(x) + Len(y)) : xy[i] = IF i <= Len(x) THEN x[i] ELSE y[i - Len(x)]
    BY <2>1
  <2> HIDE DEF xy
  <2> QED BY <1>1, <1>4, <2>2, <2>3
<1> HIDE DEF xy
<1>6. ASSUME NEW i \in 1..(Len(a) + Len(b)) PROVE z[i] = xy[i]
  <2>1. CASE i \in 1..Len(a)
    <3>1. ab[i] = a[i] /\ xy[i] = x[i] /\ i \in DOMAIN ab /\ i \in DOMAIN a
      BY <1>1, <1>3, <1>5, <2>1
    <3> QED BY <1>2, <3>1
  <2>2. CASE i \in (Len(a) + 1)..(Len(a) + Len(b))
    <3>1. i - Len(a) \in 1..Len(b)
      BY <1>1, <2>2
    <3> QED BY <1>1, <1>2, <1>3, <1>5, <2>2, <3>1
  <2> QED BY <1>1, <2>1, <2>2
<1>7. z = xy
  BY <1>2, <1>3, <1>5, <1>6
<1> QED BY <1>7 DEF x, y, z, ab, xy

----------------------------------------------------------------------------
(* The pool. *)

\* A page moved in the pool.
LEMMA MovedParts ==
    ASSUME NEW pl, NEW ps, NEW owner, NEW x \in PhysicalPages
    PROVE  Moved(pl, ps, owner)[x] = IF x \in ps THEN owner ELSE pl[x]
BY DEF Moved

\* Pages that go back to the pool.
LEMMA FreedTakes ==
    ASSUME NEW pl, NEW gone
    PROVE  TakesBack(pl, gone, Moved(pl, gone, "free"))
BY MovedParts DEF TakesBack

\* Pages that were not handed out go back to the pool.
LEMMA IdleTakes ==
    ASSUME NEW pl, NEW ps, \A x \in ps : pl[x] # "held", NEW owner
    PROVE  TakesBack(pl, {}, Moved(pl, ps, owner))
BY MovedParts DEF TakesBack

\* retire_pages takes back the storage of the pages it retires.
LEMMA RetireTakes ==
    ASSUME NEW pl, NEW gone, NEW later \in Deferrable(gone)
    PROVE  TakesBack(pl, gone, RetirePhysical(pl, gone, later))
<1>1. later \subseteq gone
  BY DEF Deferrable
<1> DEFINE pm == Moved(pl, gone, "free")
<1>2. \A x \in PhysicalPages : RetirePhysical(pl, gone, later)[x] = IF x \in later THEN "deferred" ELSE pm[x]
  BY MovedParts DEF RetirePhysical
<1>3. \A x \in PhysicalPages : pm[x] = IF x \in gone THEN "free" ELSE pl[x]
  BY MovedParts
<1> HIDE DEF pm
<1> QED BY <1>1, <1>2, <1>3 DEF TakesBack

----------------------------------------------------------------------------
(* Published tables. *)

\* The table a sequence's context should have.
TableOf(c, s) ==
    [pages |-> PhysicalRefs(c, Table(c.sequences[s])), position |-> c.sequences[s].position]

\* Every live sequence's context has it.
Shown(c, tabs) == \A s \in LiveIn(c.sequences) : tabs[s] = TableOf(c, s)

\* A manager record in which ownership is exact.
Exact(c) == Sound(c) /\ Owned(c)

\* While ownership is exact the handles of a sequence resolve, the pending ones too.
LEMMA HandlesLive ==
    ASSUME NEW c, Exact(c), NEW s \in LiveIn(c.sequences)
    PROVE  Table(c.sequences[s]) \in Seq(PageId) /\ AllLive(c, Table(c.sequences[s]))
<1>1. Table(c.sequences[s]) \in Seq(PageId)
  BY ListsTyped DEF Exact
<1>2. Resolves(c.pages, Table(c.sequences[s]))
  BY DEF Exact, Owned, OwnedParts, Refs, Tabs
<1> QED BY <1>1, <1>2 DEF Resolves, AllLive, LivePage

\* Sequences other than s, and their tables, are as they were.
OnlyRecord(c, d, s, tabs, more) ==
    \A t \in LiveIn(d.sequences) \ {s} :
      t \in LiveIn(c.sequences) /\ d.sequences[t] = c.sequences[t] /\ more[t] = tabs[t]

\* A step that writes the record of one sequence, and publishes its table, keeps every
\* table right.
LEMMA ShownWith ==
    ASSUME NEW c, Exact(c), NEW d, Exact(d), Evolves(c.pages, d.pages), NEW s,
           NEW tabs, NEW more, Shown(c, tabs), OnlyRecord(c, d, s, tabs, more),
           s \in LiveIn(d.sequences) => more[s] = TableOf(d, s)
    PROVE  Shown(d, more)
<1> SUFFICES ASSUME NEW t \in LiveIn(d.sequences) PROVE more[t] = TableOf(d, t)
  BY DEF Shown
<1>1. CASE t = s
  BY <1>1
<1>2. CASE t # s
  <2> DEFINE ids == Table(c.sequences[t])
  <2>1. /\ t \in LiveIn(c.sequences) /\ d.sequences[t] = c.sequences[t] /\ more[t] = tabs[t]
    BY <1>2 DEF OnlyRecord
  <2>2. AllLive(c, ids)
    BY <2>1, HandlesLive
  <2>3. AllLive(d, ids)
    BY <2>1, HandlesLive
  <2>4. PhysicalRefs(d, ids) = PhysicalRefs(c, ids)
    BY <2>2, <2>3, RefsStay
  <2>5. TableOf(d, t) = TableOf(c, t)
    BY <2>1, <2>4 DEF TableOf
  <2> QED BY <2>1, <2>5 DEF Shown
<1> QED BY <1>1, <1>2

\* A step that leaves the sequences alone.
LEMMA ShownSame ==
    ASSUME NEW c, Exact(c), NEW d, Exact(d), Evolves(c.pages, d.pages),
           d.sequences = c.sequences, NEW tabs, Shown(c, tabs)
    PROVE  Shown(d, tabs)
<1> SUFFICES ASSUME NEW t \in LiveIn(d.sequences) PROVE tabs[t] = TableOf(d, t)
  BY DEF Shown
<1> DEFINE ids == Table(c.sequences[t])
<1>1. t \in LiveIn(c.sequences)
  OBVIOUS
<1>2. AllLive(c, ids)
  BY <1>1, HandlesLive
<1>3. AllLive(d, ids)
  BY HandlesLive
<1>4. PhysicalRefs(d, ids) = PhysicalRefs(c, ids)
  BY <1>2, <1>3, RefsStay
<1> QED BY <1>1, <1>4 DEF TableOf, Shown

\* update_page_table for one context.
LEMMA PublishedParts ==
    ASSUME NEW s, NEW physical, NEW position
    PROVE  /\ Published(s, physical, position)[s] = [pages |-> physical, position |-> position]
           /\ \A t \in DOMAIN tables : t # s => Published(s, physical, position)[t] = tables[t]
BY DEF Published

\* A table that is committed has no pages of a pending append.
LEMMA QuietTable ==
    ASSUME NEW q, q.pages \in Seq(PageId), q.pending = NoPending
    PROVE  Table(q) = q.pages
<1>1. Table(q) = q.pages \o <<>>
  BY DEF Table, NoPending
<1> QED BY <1>1

----------------------------------------------------------------------------
(* Nothing is lost to the pool. *)

\* What is handed out is the storage of a page in use.
Filled(pages, pl) ==
    \A x \in PhysicalPages : pl[x] = "held" =>
      \E p \in DOMAIN pages : pages[p].live /\ pages[p].physical = x

\* The storage that waits for a fence.
DeferredIn(pl) == {x \in PhysicalPages : pl[x] = "deferred"}

\* There is a finite number of it.
LEMMA DeferredFinite ==
    ASSUME NEW pl
    PROVE  IsFiniteSet(DeferredIn(pl)) /\ Cardinality(DeferredIn(pl)) \in Nat
<1>1. IsFiniteSet(PhysicalPages) /\ DeferredIn(pl) \in SUBSET PhysicalPages
  BY ConfigAssumption DEF DeferredIn
<1> QED BY <1>1, FS_Subset, FS_CardinalityType

\* What leaves with its pages is the storage that is no longer handed out.
LEMMA LeavingFilled ==
    ASSUME NEW pages, NEW slots, NEW after, NEW pl, NEW pm, Filled(pages, pl),
           Leaving(pages, slots, after),
           \A x \in PhysicalPages : pm[x] = "held" => pl[x] = "held" /\ x \notin Storage(pages, slots)
    PROVE  Filled(after, pm)
<1> SUFFICES ASSUME NEW x \in PhysicalPages, pm[x] = "held"
             PROVE  \E p \in DOMAIN after : after[p].live /\ after[p].physical = x
  BY DEF Filled
<1>1. PICK p \in DOMAIN pages : pages[p].live /\ pages[p].physical = x
  BY DEF Filled
<1>2. p \notin slots
  BY <1>1 DEF Storage
<1> QED BY <1>1, <1>2 DEF Leaving

\* Pages in use are on storage that is handed out.
LEMMA LeavingHeld ==
    ASSUME NEW pages, NEW slots, NEW after, NEW pl, Placed(pages, pl), Leaving(pages, slots, after)
    PROVE  \A x \in Storage(pages, slots) : x \in PhysicalPages /\ pl[x] = "held"
BY DEF Leaving, Placed, Storage

\* retire_pages loses nothing, and as much waits for a fence as it defers.
LEMMA RetireAccounts ==
    ASSUME NEW pages, NEW slots, NEW after, NEW pl, NEW pm, NEW gone, Placed(pages, pl),
           Filled(pages, pl), Leaving(pages, slots, after), Storage(pages, slots) = gone,
           NEW later \in Deferrable(gone), pm = RetirePhysical(pl, gone, later)
    PROVE  /\ Filled(after, pm)
           /\ Cardinality(DeferredIn(pm)) = Cardinality(DeferredIn(pl)) + Cardinality(later)
<1>1. later \subseteq gone
  BY DEF Deferrable
<1> DEFINE mid == Moved(pl, gone, "free")
<1>2. \A x \in PhysicalPages : pm[x] = IF x \in later THEN "deferred" ELSE mid[x]
  BY MovedParts DEF RetirePhysical
<1>3. \A x \in PhysicalPages : mid[x] = IF x \in gone THEN "free" ELSE pl[x]
  BY MovedParts
<1> HIDE DEF mid
<1>4. \A x \in gone : x \in PhysicalPages /\ pl[x] = "held"
  BY LeavingHeld
<1>5. Filled(after, pm)
  <2>1. \A x \in PhysicalPages : pm[x] = "held" => pl[x] = "held" /\ x \notin Storage(pages, slots)
    BY <1>2, <1>3
  <2> QED BY <2>1, LeavingFilled
<1>6. DeferredIn(pm) = DeferredIn(pl) \cup later /\ DeferredIn(pl) \cap later = {}
  BY <1>1, <1>2, <1>3, <1>4 DEF DeferredIn
<1>7. IsFiniteSet(DeferredIn(pl)) /\ Cardinality(DeferredIn(pl)) \in Nat
  BY DeferredFinite
<1>8. IsFiniteSet(later) /\ Cardinality(later) \in Nat
  <2>1. IsFiniteSet(PhysicalPages) /\ later \in SUBSET PhysicalPages
    BY <1>1, <1>4, ConfigAssumption
  <2> QED BY <2>1, FS_Subset, FS_CardinalityType
<1>9. Cardinality(DeferredIn(pl) \cap later) = 0
  BY <1>6, FS_EmptySet
<1> HIDE DEF DeferredIn
<1>10. Cardinality(DeferredIn(pl) \cup later) =
         Cardinality(DeferredIn(pl)) + Cardinality(later) - Cardinality(DeferredIn(pl) \cap later)
  BY <1>7, <1>8, FS_Union
<1>11. Cardinality(DeferredIn(pm)) = Cardinality(DeferredIn(pl)) + Cardinality(later)
  BY <1>6, <1>7, <1>8, <1>9, <1>10
<1> QED BY <1>5, <1>11

\* Storage that is released with its pages and waits for nothing.
LEMMA FreeAccounts ==
    ASSUME NEW pages, NEW slots, NEW after, NEW pl, NEW pm, NEW gone, Placed(pages, pl),
           Filled(pages, pl), Leaving(pages, slots, after), Storage(pages, slots) = gone,
           pm = Moved(pl, gone, "free")
    PROVE  Filled(after, pm) /\ DeferredIn(pm) = DeferredIn(pl)
<1>1. \A x \in PhysicalPages : pm[x] = IF x \in gone THEN "free" ELSE pl[x]
  BY MovedParts
<1>2. \A x \in gone : x \in PhysicalPages /\ pl[x] = "held"
  BY LeavingHeld
<1>3. Filled(after, pm)
  <2>1. \A x \in PhysicalPages : pm[x] = "held" => pl[x] = "held" /\ x \notin Storage(pages, slots)
    BY <1>1
  <2> QED BY <2>1, LeavingFilled
<1>4. DeferredIn(pm) = DeferredIn(pl)
  BY <1>1, <1>2 DEF DeferredIn
<1> QED BY <1>3, <1>4

\* Storage that a poll reports.
LEMMA PollAccounts ==
    ASSUME NEW pages, NEW pl, NEW pm, Filled(pages, pl), NEW polled \in SUBSET DeferredIn(pl),
           pm = Moved(pl, polled, "free")
    PROVE  /\ Filled(pages, pm)
           /\ Cardinality(DeferredIn(pm)) = Cardinality(DeferredIn(pl)) - Cardinality(polled)
<1>1. \A x \in PhysicalPages : pm[x] = IF x \in polled THEN "free" ELSE pl[x]
  BY MovedParts
<1>2. Filled(pages, pm)
  BY <1>1 DEF Filled
<1>3. DeferredIn(pm) = DeferredIn(pl) \ polled /\ DeferredIn(pl) \cap polled = polled
  BY <1>1 DEF DeferredIn
<1>4. IsFiniteSet(DeferredIn(pl))
  BY DeferredFinite
<1> HIDE DEF DeferredIn
<1> QED BY <1>2, <1>3, <1>4, FS_Difference

\* Storage that is taken for pages.
LEMMA TakeAccounts ==
    ASSUME NEW pages, NEW new, NEW physical, NEW valid, NEW more, NEW pl, NEW pm,
           Filled(pages, pl), Taken(pages, new, physical, valid, more),
           DOMAIN new = DOMAIN physical,
           \A i \in DOMAIN physical : physical[i] \in PhysicalPages /\ pl[physical[i]] = "free",
           pm = Moved(pl, Range(physical), "held")
    PROVE  Filled(more, pm) /\ DeferredIn(pm) = DeferredIn(pl)
<1>1. \A x \in PhysicalPages : pm[x] = IF x \in Range(physical) THEN "held" ELSE pl[x]
  BY MovedParts
<1>2. DeferredIn(pm) = DeferredIn(pl)
  BY <1>1 DEF DeferredIn, Range
<1>3. ASSUME NEW x \in PhysicalPages, pm[x] = "held"
      PROVE  \E p \in DOMAIN more : more[p].live /\ more[p].physical = x
  <2>1. CASE x \in Range(physical)
    <3>1. PICK i \in DOMAIN new : x = physical[i]
      BY <2>1 DEF Range
    <3>2. /\ more[new[i].slot] = PrivatePage(new[i].generation, physical[i], valid)
          /\ new[i].slot \in DOMAIN more
      BY DEF Taken, SlotsOf
    <3> QED BY <3>1, <3>2 DEF PrivatePage
  <2>2. CASE x \notin Range(physical)
    <3>1. PICK p \in DOMAIN pages : pages[p].live /\ pages[p].physical = x
      BY <1>1, <1>3, <2>2 DEF Filled
    <3>2. p \in DOMAIN more /\ p \notin SlotsOf(new)
      BY <3>1 DEF Taken, SlotsOf
    <3> QED BY <3>1, <3>2 DEF Taken
  <2> QED BY <2>1, <2>2
<1> QED BY <1>2, <1>3 DEF Filled

----------------------------------------------------------------------------
(* How the operations change the pages. *)

\* An arena as it is.
LEMMA SameLeaving == ASSUME NEW pages PROVE Leaving(pages, {}, pages)
BY DEF Leaving

\* Nothing leaves with no page.
LEMMA NoStorage == ASSUME NEW pages PROVE Storage(pages, {}) = {}
BY DEF Storage

\* Pages leave, then others stay.
LEMMA LeavingOn ==
    ASSUME NEW a, NEW slots, NEW b, NEW c, Leaving(a, slots, b), Leaving(b, {}, c)
    PROVE  Leaving(a, slots, c)
BY DEF Leaving

\* An update of the counts of some pages.
LEMMA CountsLeaving ==
    ASSUME NEW c, Sound(c), NEW slots
    PROVE  /\ Leaving(c.pages, {}, MoreActive(c.pages, slots))
           /\ Leaving(c.pages, {}, MorePrefix(c.pages, slots))
<1>1. \A p \in DOMAIN c.pages : c.pages[p] \in PageSlot
  BY PagesTyped
<1>2. Leaving(c.pages, {}, MoreActive(c.pages, slots))
  BY <1>1 DEF Leaving, MoreActive, PageSlot
<1>3. Leaving(c.pages, {}, MorePrefix(c.pages, slots))
  BY <1>1 DEF Leaving, MorePrefix, PageSlot
<1> QED BY <1>2, <1>3

\* remove_page.
LEMMA WithoutLeaving ==
    ASSUME NEW pages, NEW slots, \A p \in slots : p \in DOMAIN pages /\ pages[p].live
    PROVE  Leaving(pages, slots, WithoutPages(pages, slots))
BY DEF Leaving, WithoutPages, VacantPage

\* finish.
LEMMA FinishLeaving ==
    ASSUME NEW c, Sound(c), NEW sole, NEW others,
           \A p \in sole : p \in DOMAIN c.pages /\ c.pages[p].live
    PROVE  Leaving(c.pages, sole, AfterFinish(c.pages, sole, others))
<1>1. \A p \in DOMAIN c.pages : c.pages[p] \in PageSlot
  BY PagesTyped
<1> QED BY <1>1 DEF Leaving, AfterFinish, VacantPage, PageSlot

\* commit_evictions: the storage that leaves is that of the retired pages.
LEMMA EvictionLeaving ==
    ASSUME NEW c, Sound(c), NEW ids, ids \subseteq DOMAIN c.prefixes, CanEvict(c, ids),
           NEW slots \in SetToSeqs(RetireSlots(c, ids)),
           NEW later \in Deferrable({c.pages[s].physical : s \in Range(slots)}),
           NEW e, e = CommitEvictions(c, ids, slots, Cardinality(later))
    PROVE  /\ Leaving(c.pages, RetireSlots(c, ids), e.pages)
           /\ Storage(c.pages, RetireSlots(c, ids)) = {c.pages[s].physical : s \in Range(slots)}
           /\ e.deferred_pages = c.deferred_pages + Cardinality(later)
<1> DEFINE S == RetireSlots(c, ids)
<1>1. Cardinality(later) \in Nat
  BY EvictedParts
<1>2. EvictShape(c, ids, Cardinality(later), e)
  BY <1>1, EvictShaped
<1>3. Range(slots) = S
  <2>1. S \in SUBSET DOMAIN c.pages
    BY DEF RetireSlots
  <2>2. S \in SUBSET Nat /\ IsFiniteSet(S)
    BY <2>1, ReclaimableBytesInt DEF Sound
  <2>3. slots \in SetToSeqs(S)
    OBVIOUS
  <2> HIDE DEF S
  <2> QED BY <2>2, <2>3, SeqOfSet
<1>4. \A p \in S : p \in DOMAIN c.pages /\ c.pages[p].live
  BY DEF RetireSlots
<1>5. \A p \in DOMAIN c.pages : c.pages[p] \in PageSlot
  BY PagesTyped
<1>6. \A p \in DOMAIN c.pages : AfterEviction(c, ids, p).live =>
        p \notin S /\ c.pages[p].live /\ AfterEviction(c, ids, p).physical = c.pages[p].physical
  BY <1>5 DEF AfterEviction, VacantPage, PageSlot
<1>7. \A p \in DOMAIN c.pages : c.pages[p].live /\ p \notin S => AfterEviction(c, ids, p).live
  BY <1>5 DEF AfterEviction, PageSlot
<1>8. Leaving(c.pages, S, e.pages)
  <2> HIDE DEF S
  <2>1. e.pages = [p \in DOMAIN c.pages |-> AfterEviction(c, ids, p)]
    BY <1>2 DEF EvictShape
  <2> QED BY <1>4, <1>6, <1>7, <2>1 DEF Leaving
<1> QED BY <1>2, <1>3, <1>8 DEF EvictShape, Storage

\* A poll counts off what it reports.
LEMMA PolledDeferred ==
    ASSUME IInv, NEW polled
    PROVE  Reclaimed(polled).deferred_pages = cache.deferred_pages - Cardinality(polled)
<1> DEFINE x == [cache EXCEPT !.deferred_pages = @ - Cardinality(polled)]
<1>1. DOMAIN x = Fields /\ x.deferred_pages = cache.deferred_pages - Cardinality(polled)
  BY DEF IInv, Sound, Fields
<1>2. Reclaimed(polled) = RefreshStats(x)
  BY DEF Reclaimed
<1> HIDE DEF x
<1> QED BY <1>1, <1>2, RefreshRest DEF SameRest

\* The clock.
LEMMA TickDeferred ==
    ASSUME NEW c, DOMAIN c = Fields
    PROVE  DOMAIN Tick(c) = Fields /\ Tick(c).deferred_pages = c.deferred_pages
BY DEF Tick, Fields

\* A touch, a new entry, a reservation and the end of an append defer nothing.
LEMMA TouchDeferred ==
    ASSUME NEW c, Sound(c), NEW id
    PROVE  Touch(c, id).deferred_pages = c.deferred_pages
<1> DEFINE t == Tick(c)
<1>1. DOMAIN t = Fields /\ t.deferred_pages = c.deferred_pages
  BY TickDeferred DEF Sound
<1>2. Touch(c, id) = [t EXCEPT !.prefixes[id].last_used = t.clock,
                               !.lru = (@ \ {Stamp(t, id)}) \cup {<<t.clock, id>>}]
  BY DEF Touch
<1> HIDE DEF t
<1> QED BY <1>1, <1>2 DEF Fields

\* The same of a new entry.
LEMMA InsertEntryDeferred ==
    ASSUME NEW c, Sound(c), NEW s, NEW key, NEW bytes
    PROVE  InsertEntry(c, s, key, bytes).deferred_pages = c.deferred_pages
<1> DEFINE id == c.next_prefix_id
           ids == c.sequences[s].pages
           counted == IncrementPrefixRefs(c, SlotsOf(ids))
           u == [counted EXCEPT
                  !.next_prefix_id = id + 1,
                  !.tree = [k \in DOMAIN @ \cup {key} |-> IF k = key THEN id ELSE @[k]]]
           t == Tick(u)
           entry == [key |-> key, pages |-> ids, position |-> c.sequences[s].position,
                     snapshot_bytes |-> bytes, last_used |-> t.clock]
           v == [t EXCEPT
                  !.prefixes = [i \in DOMAIN @ \cup {id} |-> IF i = id THEN entry ELSE @[i]],
                  !.lru = @ \cup {<<t.clock, id>>},
                  !.stats.retained_snapshot_bytes = @ + bytes]
<1>1. InsertEntry(c, s, key, bytes) = RefreshStats(v)
  BY DEF InsertEntry
<1>2. DOMAIN counted = Fields /\ counted.deferred_pages = c.deferred_pages
  BY DEF Sound, Fields, IncrementPrefixRefs
<1> HIDE DEF counted
<1>3. DOMAIN u = Fields /\ u.deferred_pages = c.deferred_pages
  BY <1>2 DEF Fields
<1> HIDE DEF u
<1>4. DOMAIN t = Fields /\ t.deferred_pages = c.deferred_pages
  BY <1>3, TickDeferred
<1> HIDE DEF t, entry
<1>5. DOMAIN v = Fields /\ v.deferred_pages = c.deferred_pages
  BY <1>4 DEF Fields
<1> HIDE DEF v
<1> QED BY <1>1, <1>5, RefreshRest DEF SameRest

\* The same of a reservation.
LEMMA ReservedDeferred ==
    ASSUME NEW c, Sound(c), NEW s, NEW n, NEW rows, NEW new
    PROVE  RefreshStats(ReservedFor(c, s, n, rows, new)).deferred_pages = c.deferred_pages
<1> DEFINE x == ReservedFor(c, s, n, rows, new)
<1>1. DOMAIN x = Fields /\ x.deferred_pages = c.deferred_pages
  BY DEF Sound, Fields, ReservedFor
<1> HIDE DEF x
<1>2. RefreshStats(x).deferred_pages = c.deferred_pages
  BY <1>1, RefreshRest DEF SameRest
<1> QED BY <1>2 DEF x

\* The same of the end of an append.
LEMMA ReleasedDeferred ==
    ASSUME NEW c, Sound(c), NEW s, NEW released
    PROVE  Released(c, s, released).deferred_pages = c.deferred_pages
<1> DEFINE m == RemovePages(c, Slots(released))
           x == [m EXCEPT !.sequences[s].reserved_pages = @ + Len(released),
                          !.sequences[s].pending = NoPending,
                          !.stats.reserved_pages = @ + Len(released)]
<1>1. DOMAIN m = Fields /\ m.deferred_pages = c.deferred_pages
  BY DEF Sound, Fields, RemovePages
<1>2. Released(c, s, released) = RefreshStats(x)
  BY DEF Released
<1> HIDE DEF m
<1>3. DOMAIN x = Fields /\ x.deferred_pages = c.deferred_pages
  BY <1>1 DEF Fields
<1> HIDE DEF x
<1> QED BY <1>2, <1>3, RefreshRest DEF SameRest

----------------------------------------------------------------------------
(* Every operation. *)

\* Storage is right in a state: ownership is exact, pages are on storage of their own,
\* and the published tables name it.
Stored == Exact(cache) /\ Placed(cache.pages, pool) /\ Shown(cache, tables)

\* Nothing is lost: what is handed out is in use, and what waits for a fence is charged.
Accounted ==
    Filled(cache.pages, pool) /\ Cardinality(DeferredIn(pool)) = cache.deferred_pages

\* A step after which storage is right, and nothing is lost if nothing was before.
StoresOn == Stored' /\ (Accounted => Accounted')

\* What is known of the state after a step before the storage is looked at.
Stepped == Exact(cache') /\ Keeping(cache, cache')

\* What is to be shown of the state after a step.
LEMMA AccountedParts ==
    ASSUME NEW d, d = cache', Filled(d.pages, pool'),
           Cardinality(DeferredIn(pool')) = d.deferred_pages
    PROVE  Accounted'
BY DEF Accounted, Filled, DeferredIn

\* The parts of a step that is right about storage.
LEMMA StoredParts ==
    ASSUME Stepped, Placed(cache'.pages, pool'), Shown(cache', tables')
    PROVE  Stored'
BY DEF Stepped, Stored, Exact, Sound, Owned, Placed, Shown

\* What leaves the manager alone, and the pool except for pages that are not handed out.
LEMMA QuietStored ==
    ASSUME Stored, Stepped, cache'.pages = cache.pages, cache'.sequences = cache.sequences,
           UNCHANGED tables, TakesBack(pool, {}, pool')
    PROVE  Stored'
<1>1. Placed(cache'.pages, pool')
  BY SameLeaving, NoStorage, LeavingPlaced DEF Stored
<1>2. Shown(cache', tables')
  BY ShownSame DEF Stored, Stepped, Keeping
<1>3. Exact(cache')
  BY DEF Stepped
<1> QED BY <1>1, <1>2, <1>3 DEF Stored, Exact, Sound, Owned, Placed, Shown

\* reclaim_deferred, and an admission that is declined.
LEMMA PolledStored ==
    ASSUME IInv, Stored, Stepped, NEW polled \in SUBSET InPool("deferred"),
           cache' = Reclaimed(polled), pool' = Moved(pool, polled, "free"), UNCHANGED tables
    PROVE  StoresOn
<1>1. cache'.pages = cache.pages /\ cache'.sequences = cache.sequences
  BY PolledSame
<1>2. TakesBack(pool, {}, pool')
  BY IdleTakes DEF InPool
<1>3. Stored'
  BY <1>1, <1>2, QuietStored
<1>4. ASSUME Accounted PROVE Accounted'
  <2>1. PICK d : d = cache'
    OBVIOUS
  <2>2. d.deferred_pages = cache.deferred_pages - Cardinality(polled)
    BY <2>1, PolledDeferred
  <2>3. polled \in SUBSET DeferredIn(pool)
    BY DEF InPool, DeferredIn
  <2>4. /\ Filled(cache.pages, pool')
        /\ Cardinality(DeferredIn(pool')) = Cardinality(DeferredIn(pool)) - Cardinality(polled)
    BY <1>4, <2>3, PollAccounts DEF Accounted
  <2> QED BY <1>1, <1>4, <2>1, <2>2, <2>4, AccountedParts DEF Accounted
<1> QED BY <1>3, <1>4 DEF StoresOn

\* evict_prefix.
LEMMA EvictPrefixStored ==
    ASSUME IInv, Stored, Stepped, NEW id \in DOMAIN cache.prefixes, EvictPrefix(id)
    PROVE  StoresOn
<1>1. PICK slots \in SetToSeqs(RetireSlots(cache, {id})) :
        \E later \in Deferrable({cache.pages[p].physical : p \in Range(slots)}) :
         /\ cache' = CommitEvictions(cache, {id}, slots, Cardinality(later))
         /\ pool' = RetirePhysical(pool, {cache.pages[p].physical : p \in Range(slots)}, later)
  BY DEF EvictPrefix
<1>2. PICK later \in Deferrable({cache.pages[p].physical : p \in Range(slots)}) :
         /\ cache' = CommitEvictions(cache, {id}, slots, Cardinality(later))
         /\ pool' = RetirePhysical(pool, {cache.pages[p].physical : p \in Range(slots)}, later)
  BY <1>1
<1>3. Sound(cache) /\ CanEvict(cache, {id}) /\ UNCHANGED tables
  BY DEF IInv, EvictPrefix
<1>4. /\ Leaving(cache.pages, RetireSlots(cache, {id}), cache'.pages)
      /\ Storage(cache.pages, RetireSlots(cache, {id})) =
           {cache.pages[p].physical : p \in Range(slots)}
      /\ cache'.deferred_pages = cache.deferred_pages + Cardinality(later)
  <2>1. PICK ids : ids = {id}
    OBVIOUS
  <2>2. PICK e : e = CommitEvictions(cache, ids, slots, Cardinality(later))
    OBVIOUS
  <2>3. /\ Sound(cache) /\ ids \subseteq DOMAIN cache.prefixes /\ CanEvict(cache, ids)
        /\ slots \in SetToSeqs(RetireSlots(cache, ids))
    BY <1>3, <2>1
  <2>4. /\ Leaving(cache.pages, RetireSlots(cache, ids), e.pages)
        /\ Storage(cache.pages, RetireSlots(cache, ids)) =
             {cache.pages[p].physical : p \in Range(slots)}
        /\ e.deferred_pages = cache.deferred_pages + Cardinality(later)
    BY <2>2, <2>3, EvictionLeaving, SMTT(30)
  <2> QED BY <1>2, <2>1, <2>2, <2>4
<1>5. Placed(cache'.pages, pool')
  BY <1>2, <1>4, RetireTakes, LeavingPlaced DEF Stored
<1>6. cache'.sequences = cache.sequences
  BY <1>2, <1>3, EvictedParts
<1>7. Shown(cache', tables')
  BY <1>3, <1>6, ShownSame DEF Stored, Stepped, Keeping
<1>8. ASSUME Accounted PROVE Accounted'
  <2>1. PICK d : d = cache'
    OBVIOUS
  <2>2. /\ Filled(d.pages, pool')
        /\ Cardinality(DeferredIn(pool')) = Cardinality(DeferredIn(pool)) + Cardinality(later)
    <3>1. PICK gone : gone = {cache.pages[p].physical : p \in Range(slots)}
      OBVIOUS
    <3>2. /\ later \in Deferrable(gone) /\ pool' = RetirePhysical(pool, gone, later)
          /\ Storage(cache.pages, RetireSlots(cache, {id})) = gone
          /\ Leaving(cache.pages, RetireSlots(cache, {id}), d.pages)
      BY <1>2, <1>4, <2>1, <3>1
    <3>3. Placed(cache.pages, pool) /\ Filled(cache.pages, pool)
      BY <1>8 DEF Accounted, Stored
    <3> QED BY <3>2, <3>3, RetireAccounts
  <2>3. d.deferred_pages = cache.deferred_pages + Cardinality(later)
    BY <1>4, <2>1
  <2> QED BY <1>8, <2>1, <2>2, <2>3, AccountedParts DEF Accounted
<1> QED BY <1>5, <1>7, <1>8, StoredParts DEF StoresOn

\* retain_prefix.
LEMMA RetainPrefixStored ==
    ASSUME IInv, Stored, Stepped, NEW s \in LiveSequences, NEW n, NEW key, RetainPrefix(s, key, n)
    PROVE  StoresOn
<1> DEFINE Retained(ids, slots, later) ==
             /\ cache' = InsertEntry(CommitEvictions(cache, ids, slots, Cardinality(later)),
                                     s, key, n)
             /\ pool' = RetirePhysical(pool, {cache.pages[p].physical : p \in Range(slots)}, later)
<1>1. PICK ids \in EvictionRuns(cache, {}) : CanEvict(cache, ids) /\
        \E slots \in SetToSeqs(RetireSlots(cache, ids)) :
        \E later \in Deferrable({cache.pages[p].physical : p \in Range(slots)}) :
          Retained(ids, slots, later)
  BY DEF RetainPrefix
<1> HIDE DEF Retained
<1>2. PICK slots \in SetToSeqs(RetireSlots(cache, ids)) :
        \E later \in Deferrable({cache.pages[p].physical : p \in Range(slots)}) :
          Retained(ids, slots, later)
  BY <1>1
<1>3. PICK later \in Deferrable({cache.pages[p].physical : p \in Range(slots)}) :
        Retained(ids, slots, later)
  BY <1>2
<1>4. PICK e : e = CommitEvictions(cache, ids, slots, Cardinality(later))
  OBVIOUS
<1>5. /\ cache' = InsertEntry(e, s, key, n)
      /\ pool' = RetirePhysical(pool, {cache.pages[p].physical : p \in Range(slots)}, later)
  BY <1>3, <1>4 DEF Retained
<1>6. Sound(cache) /\ ids \subseteq DOMAIN cache.prefixes
  BY EvictionRunsParts DEF IInv
<1>7. Sound(e) /\ e.sequences = cache.sequences
  BY <1>1, <1>4, <1>6, EvictedParts
<1>8. /\ Leaving(cache.pages, RetireSlots(cache, ids), e.pages)
      /\ Storage(cache.pages, RetireSlots(cache, ids)) =
           {cache.pages[p].physical : p \in Range(slots)}
      /\ e.deferred_pages = cache.deferred_pages + Cardinality(later)
  BY <1>1, <1>4, <1>6, EvictionLeaving
<1>9. /\ cache'.pages = MorePrefix(e.pages, SlotsOf(e.sequences[s].pages))
      /\ cache'.sequences = e.sequences
  BY <1>5, <1>7, InsertEntryShape
<1>10. Leaving(cache.pages, RetireSlots(cache, ids), cache'.pages)
  BY <1>7, <1>8, <1>9, CountsLeaving, LeavingOn
<1>11. Placed(cache'.pages, pool')
  BY <1>5, <1>8, <1>10, RetireTakes, LeavingPlaced DEF Stored
<1>12. UNCHANGED tables
  BY DEF RetainPrefix
<1>13. Shown(cache', tables')
  BY <1>7, <1>9, <1>12, ShownSame DEF Stored, Stepped, Keeping
<1>14. ASSUME Accounted PROVE Accounted'
  <2>1. PICK d : d = cache'
    OBVIOUS
  <2>2. /\ Filled(d.pages, pool')
        /\ Cardinality(DeferredIn(pool')) = Cardinality(DeferredIn(pool)) + Cardinality(later)
    <3>1. PICK gone : gone = {cache.pages[p].physical : p \in Range(slots)}
      OBVIOUS
    <3>2. /\ later \in Deferrable(gone) /\ pool' = RetirePhysical(pool, gone, later)
          /\ Storage(cache.pages, RetireSlots(cache, ids)) = gone
          /\ Leaving(cache.pages, RetireSlots(cache, ids), d.pages)
      BY <1>5, <1>8, <1>10, <2>1, <3>1
    <3>3. Placed(cache.pages, pool) /\ Filled(cache.pages, pool)
      BY <1>14 DEF Accounted, Stored
    <3> QED BY <3>2, <3>3, RetireAccounts
  <2>3. d.deferred_pages = cache.deferred_pages + Cardinality(later)
    BY <1>5, <1>7, <1>8, <2>1, InsertEntryDeferred
  <2> QED BY <1>14, <2>1, <2>2, <2>3, AccountedParts DEF Accounted
<1> QED BY <1>11, <1>13, <1>14, StoredParts DEF StoresOn

\* finish.
LEMMA FinishStored ==
    ASSUME IInv, Stored, Stepped, NEW s \in LiveSequences, Finish(s)
    PROVE  StoresOn
<1> DEFINE q == cache.sequences[s]
           ids == q.pages
           sole == SoleSlots(q)
<1>1. PICK slots \in SetToSeqs(sole) :
        \E later \in Deferrable({cache.pages[p].physical : p \in sole}) :
          /\ cache' = RefreshStats(RemoveSequence(
                  DecrementActiveRefs(RetirePages(cache, slots, Cardinality(later)),
                                      SlotsOf(ids) \ sole), s))
          /\ pool' = RetirePhysical(pool, {cache.pages[p].physical : p \in sole}, later)
  BY DEF Finish
<1>2. PICK later \in Deferrable({cache.pages[p].physical : p \in sole}) :
          /\ cache' = RefreshStats(RemoveSequence(
                  DecrementActiveRefs(RetirePages(cache, slots, Cardinality(later)),
                                      SlotsOf(ids) \ sole), s))
          /\ pool' = RetirePhysical(pool, {cache.pages[p].physical : p \in sole}, later)
  BY <1>1
<1>3. /\ Sound(cache) /\ s \in LiveIn(cache.sequences) /\ AllLive(cache, ids)
      /\ tables' = [tables EXCEPT ![s] = EmptyTable] /\ DOMAIN tables = DOMAIN cache.sequences
  BY DEF IInv, LiveSequences, LiveIn, Finish, CanFinish
<1>4. sole \in SUBSET DOMAIN cache.pages /\ \A p \in sole : cache.pages[p].live
  BY <1>3 DEF SoleSlots, AllLive, LivePage, SlotsOf
<1>5. Range(slots) = sole
  <2>1. sole \in SUBSET Nat /\ IsFiniteSet(sole)
    BY <1>3, <1>4, ReclaimableBytesInt DEF Sound
  <2> HIDE DEF sole
  <2> QED BY <1>1, <2>1, SeqOfSet
<1> HIDE DEF sole
<1>6. PICK r : r = RefreshStats(RemoveSequence(
                  DecrementActiveRefs(RetirePages(cache, slots, Cardinality(later)),
                                      SlotsOf(ids) \ sole), s))
  OBVIOUS
<1>7. /\ r.pages = AfterFinish(cache.pages, sole, SlotsOf(ids) \ sole)
      /\ r.prefixes = cache.prefixes /\ r.next_prefix_id = cache.next_prefix_id
      /\ DOMAIN r.sequences = DOMAIN cache.sequences /\ ~r.sequences[s].live
      /\ r.sequences[s].generation = cache.sequences[s].generation + 1
      /\ \A t \in DOMAIN cache.sequences : t # s => r.sequences[t] = cache.sequences[t]
      /\ r.deferred_pages = cache.deferred_pages + Cardinality(later)
  <2>1. PICK others, count : others = SlotsOf(ids) \ sole /\ count = Cardinality(later)
    OBVIOUS
  <2>2. others \cap sole = {} /\ r = RefreshStats(RemoveSequence(
                  DecrementActiveRefs(RetirePages(cache, slots, count), others), s))
    BY <1>6, <2>1
  <2>3. Sound(cache) /\ s \in LiveIn(cache.sequences)
    BY <1>3
  <2>4. /\ r.pages = AfterFinish(cache.pages, sole, others)
        /\ r.prefixes = cache.prefixes /\ r.next_prefix_id = cache.next_prefix_id
        /\ DOMAIN r.sequences = DOMAIN cache.sequences /\ ~r.sequences[s].live
        /\ r.sequences[s].generation = cache.sequences[s].generation + 1
        /\ \A t \in DOMAIN cache.sequences : t # s => r.sequences[t] = cache.sequences[t]
        /\ r.deferred_pages = cache.deferred_pages + count
    <3> HIDE DEF ids, q
    <3> QED BY <1>5, <2>2, <2>3, FinishShape
  <2> HIDE DEF ids, q
  <2> QED BY <2>1, <2>4
<1>8. cache' = r /\ pool' = RetirePhysical(pool, Storage(cache.pages, sole), later)
      /\ later \in Deferrable(Storage(cache.pages, sole))
  BY <1>2, <1>6 DEF Storage
<1> HIDE DEF ids, q
<1>9. Leaving(cache.pages, sole, r.pages)
  BY <1>3, <1>4, <1>7, FinishLeaving
<1>10. Placed(cache'.pages, pool')
  BY <1>8, <1>9, RetireTakes, LeavingPlaced DEF Stored
<1>11. OnlyRecord(cache, r, s, tables, tables')
  BY <1>3, <1>7 DEF LiveIn, OnlyRecord
<1>12. s \notin LiveIn(r.sequences)
  BY <1>7 DEF LiveIn
<1>13. Shown(r, tables')
  <2>1. Exact(r) /\ Evolves(cache.pages, r.pages)
    BY <1>8 DEF Stepped, Keeping
  <2> QED BY <1>11, <1>12, <2>1, ShownWith DEF Stored
<1>14. ASSUME Accounted PROVE Accounted'
  <2>1. /\ Filled(r.pages, pool')
        /\ Cardinality(DeferredIn(pool')) = Cardinality(DeferredIn(pool)) + Cardinality(later)
    BY <1>8, <1>9, <1>14, RetireAccounts DEF Accounted, Stored
  <2> QED BY <1>7, <1>8, <1>14, <2>1, AccountedParts DEF Accounted
<1> QED BY <1>8, <1>10, <1>13, <1>14, StoredParts DEF StoresOn

\* What leaves the manager with the pages of a list is the storage of the list.
LEMMA RefsStorage ==
    ASSUME NEW c, NEW ids
    PROVE  Storage(c.pages, SlotsOf(ids)) = Range(PhysicalRefs(c, ids))
BY DEF Storage, SlotsOf, PhysicalRefs, Range

\* A step that writes one record and publishes its table.
LEMMA PublishedShown ==
    ASSUME IInv, Stored, Stepped, NEW s, NEW physical, NEW position, NEW d, d = cache',
           tables' = Published(s, physical, position),
           SequencesWith(cache.sequences, s, d.sequences),
           d.sequences[s].position = position,
           PhysicalRefs(d, Table(d.sequences[s])) = physical
    PROVE  Shown(d, tables')
<1>1. DOMAIN tables = DOMAIN cache.sequences
  BY DEF IInv
<1>2. /\ tables'[s] = [pages |-> physical, position |-> position]
      /\ \A t \in DOMAIN tables : t # s => tables'[t] = tables[t]
  BY PublishedParts
<1>3. OnlyRecord(cache, d, s, tables, tables')
  BY <1>1, <1>2 DEF OnlyRecord, SequencesWith, LiveIn
<1>4. tables'[s] = TableOf(d, s)
  BY <1>2 DEF TableOf
<1>5. Exact(d) /\ Evolves(cache.pages, d.pages) /\ Exact(cache) /\ Shown(cache, tables)
  BY DEF Stepped, Keeping, Stored
<1> QED BY <1>3, <1>4, <1>5, ShownWith

\* The end of an append: the released pages leave, the table is published without them.
LEMMA ReleaseStored ==
    ASSUME IInv, Stored, Stepped, NEW s \in LiveIn(cache.sequences), NEW table \in Seq(PageId),
           NEW released \in Seq(PageId), Table(cache.sequences[s]) = table \o released,
           NEW position, NEW d, d = cache', Leaving(cache.pages, SlotsOf(released), d.pages),
           SequencesWith(cache.sequences, s, d.sequences), d.sequences[s].pages = table,
           d.sequences[s].pending = NoPending, d.sequences[s].position = position,
           d.deferred_pages = cache.deferred_pages,
           pool' = Moved(pool, Range(PhysicalRefs(cache, released)), "free"),
           tables' = Published(s, PhysicalRefs(cache, table), position)
    PROVE  StoresOn
<1>1. Placed(d.pages, pool')
  BY RefsStorage, FreedTakes, LeavingPlaced DEF Stored
<1>2. Resolves(cache.pages, table \o released)
  BY DEF Stored, Exact, Owned, OwnedParts, Refs, Tabs
<1>3. AllLive(cache, table)
  <2>1. Resolves(cache.pages, table)
    BY <1>2, JoinedResolves
  <2> QED BY <2>1 DEF Resolves, AllLive, LivePage
<1>4. s \in LiveIn(d.sequences) /\ Table(d.sequences[s]) = table
  BY QuietTable DEF SequencesWith, LiveIn
<1>5. Exact(d) /\ Evolves(cache.pages, d.pages)
  BY DEF Stepped, Keeping
<1>6. AllLive(d, table)
  BY <1>4, <1>5, HandlesLive
<1>7. PhysicalRefs(d, Table(d.sequences[s])) = PhysicalRefs(cache, table)
  BY <1>3, <1>4, <1>5, <1>6, RefsStay
<1>8. Shown(d, tables')
  BY <1>7, PublishedShown
<1>9. ASSUME Accounted PROVE Accounted'
  <2>1. Filled(d.pages, pool') /\ DeferredIn(pool') = DeferredIn(pool)
    BY <1>9, RefsStorage, FreeAccounts DEF Accounted, Stored
  <2> QED BY <1>9, <2>1, AccountedParts DEF Accounted
<1> QED BY <1>1, <1>8, <1>9, StoredParts DEF StoresOn

\* abort_append.
LEMMA AbortAppendStored ==
    ASSUME IInv, Stored, Stepped, NEW s \in LiveSequences, AbortAppend(s)
    PROVE  StoresOn
<1> DEFINE q == cache.sequences[s]
           released == q.pending.new_pages
<1>1. Sound(cache) /\ s \in LiveIn(cache.sequences)
  BY DEF IInv, LiveSequences, LiveIn
<1>2. /\ PendingAppend(s) /\ cache' = Released(cache, s, released)
      /\ pool' = Moved(pool, Range(PhysicalRefs(cache, released)), "free")
      /\ tables' = Published(s, PhysicalRefs(cache, q.pages), q.position)
  BY DEF AbortAppend
<1>3. q.pages \in Seq(PageId) /\ released \in Seq(PageId) /\ Table(q) = q.pages \o released
  BY <1>1, ListsTyped DEF Table
<1>4. \A p \in SlotsOf(released) : p \in DOMAIN cache.pages /\ cache.pages[p].live
  BY <1>2 DEF PendingAppend, AllLive, LivePage, SlotsOf
<1>5. PICK d : d = cache' /\ d = Released(cache, s, released)
  BY <1>2
<1> HIDE DEF released
<1>6. /\ d.pages = WithoutPages(cache.pages, SlotsOf(released))
      /\ d.prefixes = cache.prefixes /\ d.next_prefix_id = cache.next_prefix_id
      /\ SequencesWith(cache.sequences, s, d.sequences)
      /\ d.sequences[s].pages = cache.sequences[s].pages
      /\ d.sequences[s].position = cache.sequences[s].position
      /\ d.sequences[s].pending = NoPending
      /\ d.sequences[s].generation = cache.sequences[s].generation
  BY <1>1, <1>5, ReleasedShape
<1>7. Leaving(cache.pages, SlotsOf(released), d.pages)
  BY <1>4, <1>6, WithoutLeaving
<1>8. d.deferred_pages = cache.deferred_pages
  BY <1>1, <1>5, ReleasedDeferred
<1> QED BY <1>1, <1>2, <1>3, <1>5, <1>6, <1>7, <1>8, ReleaseStored

\* commit_append.
LEMMA CommitAppendStored ==
    ASSUME IInv, Stored, Stepped, NEW s \in LiveSequences, NEW rows \in Rows, CommitAppend(s, rows)
    PROVE  StoresOn
<1> DEFINE q == cache.sequences[s]
           new == q.pending.new_pages
           n == NewPageCount(q, rows)
           table == q.pages \o KeptPages(q, rows)
           released == ReleasedPages(q, rows)
           m == MarkCommitted(cache, q, table, rows)
           x == WithTable(m, s, table, rows)
<1>1. /\ Sound(cache) /\ Ledger(cache) /\ s \in LiveIn(cache.sequences)
      /\ s \in DOMAIN cache.sequences
  BY DEF IInv, LiveSequences, LiveIn
<1>2. /\ PendingAppend(s) /\ n \in 0..Len(new) /\ cache' = Released(x, s, released)
      /\ pool' = Moved(pool, Range(PhysicalRefs(cache, released)), "free")
      /\ tables' = Published(s, PhysicalRefs(cache, table), q.position + rows)
  BY DEF CommitAppend, WithTable
<1>3. /\ q.position \in Nat /\ rows \in Nat /\ table \in Seq(PageId)
      /\ released \in Seq(PageId) /\ Present(cache, released)
  BY <1>2, CommitParts
<1>4. Table(q) = table \o released
  <2>1. q.pages \in Seq(PageId) /\ new \in Seq(PageId)
    BY <1>1, ListsTyped
  <2>2. Table(q) = q.pages \o new
    BY DEF Table
  <2>3. KeptPages(q, rows) = SubSeq(new, 1, n) /\ released = SubSeq(new, n + 1, Len(new))
    BY DEF KeptPages, ReleasedPages
  <2>4. q.pages \o new = (q.pages \o SubSeq(new, 1, n)) \o SubSeq(new, n + 1, Len(new))
    <3> HIDE DEF q, new, n
    <3> QED BY <1>2, <2>1, CutPages
  <2> QED BY <2>2, <2>3, <2>4
<1>5. \A p \in SlotsOf(released) : p \in DOMAIN cache.pages /\ cache.pages[p].live
  <2>1. DOMAIN released = 1..Len(released)
    BY <1>3
  <2> QED BY <1>3, <2>1 DEF Present, SlotsOf
<1>size. q.position + rows = cache.sequences[s].position + rows
  OBVIOUS
<1> HIDE DEF q, table, released, new, n
<1>6. Sound(m) /\ Ledger(m) /\ SameRest(m, cache) /\ Present(m, released)
  BY <1>1, <1>3, MarkedLedger
<1>7. /\ DOMAIN m.pages = DOMAIN cache.pages
      /\ \A p \in DOMAIN cache.pages : /\ SameCounts(cache.pages[p], m.pages[p])
                                       /\ m.pages[p].physical = cache.pages[p].physical
  BY <1>1, MarkedCounts
<1> HIDE DEF m
<1>8. /\ m.sequences = cache.sequences /\ s \in LiveIn(m.sequences) /\ s \in DOMAIN m.sequences
  BY <1>1, <1>6 DEF SameRest
<1>9. Sound(x)
  BY <1>3, <1>6, <1>8, CommittedSound DEF WithTable
<1>record. x = WithTable(m, s, table, rows)
  OBVIOUS
<1> HIDE DEF x
<1>10. /\ x.pages = m.pages /\ x.prefixes = m.prefixes
       /\ x.next_prefix_id = m.next_prefix_id
       /\ SequencesWith(m.sequences, s, x.sequences)
       /\ x.sequences[s].pages = table
       /\ x.sequences[s].position = m.sequences[s].position + rows
       /\ x.sequences[s].generation = m.sequences[s].generation
  BY <1>6, <1>8, <1>record, CommittedShape
<1>11. PICK r : r = cache'
  OBVIOUS
<1>12. s \in LiveIn(x.sequences) /\ r = Released(x, s, released)
  BY <1>2, <1>10, <1>11 DEF LiveIn, SequencesWith
<1>13. /\ r.pages = WithoutPages(x.pages, SlotsOf(released))
       /\ r.prefixes = x.prefixes /\ r.next_prefix_id = x.next_prefix_id
       /\ SequencesWith(x.sequences, s, r.sequences)
       /\ r.sequences[s].pages = x.sequences[s].pages
       /\ r.sequences[s].position = x.sequences[s].position
       /\ r.sequences[s].pending = NoPending
       /\ r.sequences[s].generation = x.sequences[s].generation
  BY <1>9, <1>12, ReleasedShape
<1>14. Leaving(cache.pages, SlotsOf(released), r.pages)
  <2>1. r.pages = WithoutPages(m.pages, SlotsOf(released))
    BY <1>10, <1>13
  <2>2. \A p \in SlotsOf(released) : p \in DOMAIN m.pages /\ m.pages[p].live
    BY <1>5, <1>7 DEF SameCounts
  <2>3. Leaving(m.pages, SlotsOf(released), r.pages)
    BY <2>1, <2>2, WithoutLeaving
  <2> QED BY <1>5, <1>7, <2>3 DEF Leaving, SameCounts
<1>15. SequencesWith(cache.sequences, s, r.sequences)
  BY <1>8, <1>10, <1>13 DEF SequencesWith
<1>16. r.sequences[s].position = q.position + rows /\ r.sequences[s].pages = table
  BY <1>size, <1>8, <1>10, <1>13
<1>17. Table(cache.sequences[s]) = table \o released
  BY <1>4 DEF q
<1>18. r.deferred_pages = cache.deferred_pages
  <2>1. x.deferred_pages = m.deferred_pages /\ m.deferred_pages = cache.deferred_pages
    BY <1>6, <1>record DEF WithTable, SameRest, Fields
  <2> QED BY <1>9, <1>12, <2>1, ReleasedDeferred
<1> QED BY <1>1, <1>2, <1>3, <1>11, <1>13, <1>14, <1>15, <1>16, <1>17, <1>18, ReleaseStored

\* The handles of the pages that were put on storage name it.
LEMMA TakenRefs ==
    ASSUME NEW pages, NEW new, NEW physical, NEW valid, NEW d,
           Taken(pages, new, physical, valid, d.pages), DOMAIN new = DOMAIN physical,
           physical \in Seq(PhysicalPages)
    PROVE  PhysicalRefs(d, new) = physical
<1>1. \A i \in DOMAIN new : d.pages[new[i].slot].physical = physical[i]
  <2> SUFFICES ASSUME NEW i \in DOMAIN new PROVE d.pages[new[i].slot].physical = physical[i]
    OBVIOUS
  <2>1. d.pages[new[i].slot] = PrivatePage(new[i].generation, physical[i], valid)
    BY DEF Taken
  <2> QED BY <2>1 DEF PrivatePage
<1>2. physical = [i \in DOMAIN physical |-> physical[i]]
  OBVIOUS
<1> QED BY <1>1, <1>2 DEF PhysicalRefs

\* What is taken from the pool is free, and each page once.
LEMMA AllocatedParts ==
    ASSUME NEW n \in Nat, NEW physical \in Injection(1..n, InPool("free"))
    PROVE  /\ DOMAIN physical = 1..n
           /\ \A i \in DOMAIN physical : physical[i] \in PhysicalPages /\ pool[physical[i]] = "free"
           /\ \A i, j \in DOMAIN physical : physical[i] = physical[j] => i = j
<1>1. physical \in [1..n -> InPool("free")] /\ IsInjective(physical)
  BY DEF Injection
<1> QED BY <1>1 DEF InPool, IsInjective

\* reserve_append.
LEMMA ReserveAppendStored ==
    ASSUME IInv, Stored, Stepped, NEW s \in LiveSequences, NEW rows, ReserveAppend(s, rows)
    PROVE  StoresOn
<1> DEFINE q == cache.sequences[s]
           n == NewPageCount(cache.sequences[s], rows)
           new == [i \in 1..n |-> FreshPageId(cache, i)]
           Goes(physical) ==
             /\ cache' = RefreshStats([InsertPages(cache, physical, 0) EXCEPT
                  !.sequences[s].reserved_pages = @ - n,
                  !.sequences[s].pending = [rows |-> rows, new_pages |-> new],
                  !.stats.reserved_pages = @ - n])
             /\ pool' = Moved(pool, Range(physical), "held")
             /\ tables' = IF n = 0 THEN tables
                          ELSE Published(s, PhysicalRefs(cache, q.pages) \o physical, q.position)
<1>1. CanReserve(s, rows)
  BY SMTT(40) DEF ReserveAppend
<1>2. PICK physical \in Injection(1..n, InPool("free")) : Goes(physical)
  BY ZenonT(60) DEF ReserveAppend
<1>3. /\ n \in Nat /\ Sound(cache) /\ s \in LiveIn(cache.sequences) /\ q.pending = NoPending
      /\ AllLive(cache, q.pages)
  BY <1>1 DEF CanReserve, IInv, LiveSequences, LiveIn
<1>4. /\ cache' = RefreshStats(ReservedFor(InsertPages(cache, physical, 0), s, n, rows, new))
      /\ pool' = Moved(pool, Range(physical), "held")
      /\ tables' = IF n = 0 THEN tables
                   ELSE Published(s, PhysicalRefs(cache, q.pages) \o physical, q.position)
  BY <1>2 DEF ReservedFor
<1>5. new = FreshIds(cache, n) /\ DOMAIN new = 1..n /\ new \in Seq(PageId)
  BY <1>3, FreshPageIds DEF FreshIds
<1> HIDE DEF n, new, Goes
<1>6. /\ physical \in Seq(PhysicalPages) /\ Len(physical) = n
      /\ physical \in Seq(PhysicalPages \cup {None})
  BY <1>3, AllocatedPages
<1>7. /\ DOMAIN physical = 1..n
      /\ \A i \in DOMAIN physical : physical[i] \in PhysicalPages /\ pool[physical[i]] = "free"
      /\ \A i, j \in DOMAIN physical : physical[i] = physical[j] => i = j
  BY <1>3, AllocatedParts
<1>8. PICK x : x = InsertPages(cache, physical, 0)
  OBVIOUS
<1>9. SameRest(x, cache) /\ Taken(cache.pages, new, physical, 0, x.pages)
  BY <1>3, <1>5, <1>6, <1>8, InsertTaken
<1>10. Sound(x)
  <2>1. 0 \in 0..PageTokens
    BY ConfigAssumption
  <2> QED BY <1>3, <1>6, <1>8, <2>1, InsertPagesSound
<1>11. x.sequences = cache.sequences /\ s \in LiveIn(x.sequences)
  BY <1>3, <1>9 DEF SameRest
<1>12. PICK r : r = cache' /\ r = RefreshStats(ReservedFor(x, s, n, rows, new))
  BY <1>4, <1>8
<1>13. /\ r.pages = x.pages /\ r.prefixes = x.prefixes
       /\ r.next_prefix_id = x.next_prefix_id
       /\ SequencesWith(x.sequences, s, r.sequences)
       /\ r.sequences[s].pages = x.sequences[s].pages
       /\ r.sequences[s].position = x.sequences[s].position
       /\ r.sequences[s].pending = [rows |-> rows, new_pages |-> new]
       /\ r.sequences[s].generation = x.sequences[s].generation
  BY <1>10, <1>11, <1>12, ReservedShape
<1>14. Placed(r.pages, pool')
  <2>1. TakesBack(pool, {}, pool')
    <3>1. \A y \in Range(physical) : pool[y] # "held"
      BY <1>7 DEF Range
    <3> QED BY <1>4, <3>1, IdleTakes
  <2>2. \A i \in DOMAIN physical : /\ physical[i] \in PhysicalPages
                                   /\ pool[physical[i]] # "held" /\ pool'[physical[i]] = "held"
    BY <1>4, <1>7, MovedParts DEF Range
  <2>3. DOMAIN new = DOMAIN physical /\ Taken(cache.pages, new, physical, 0, r.pages)
    BY <1>5, <1>7, <1>9, <1>13
  <2> QED BY <1>7, <2>1, <2>2, <2>3, TakenPlaced DEF Stored
<1>15. /\ Exact(r) /\ Evolves(cache.pages, r.pages) /\ Exact(cache) /\ Shown(cache, tables)
  BY <1>12 DEF Stepped, Keeping, Stored
<1>16. /\ SequencesWith(cache.sequences, s, r.sequences) /\ s \in LiveIn(r.sequences)
       /\ r.sequences[s].pages = q.pages /\ r.sequences[s].position = q.position
  BY <1>11, <1>13 DEF SequencesWith, LiveIn
<1>17. q.pages \in Seq(PageId) /\ Table(r.sequences[s]) = q.pages \o new
  BY <1>3, <1>13, <1>16, ListsTyped DEF Table
<1>18. PhysicalRefs(r, Table(r.sequences[s])) = PhysicalRefs(cache, q.pages) \o physical
  <2> HIDE DEF q
  <2>1. Resolves(r.pages, q.pages \o new)
    BY <1>15, <1>16, <1>17 DEF Exact, Owned, OwnedParts, Refs, Tabs
  <2>2. Resolves(r.pages, q.pages)
    BY <1>5, <1>17, <2>1, JoinedResolves
  <2>3. AllLive(r, q.pages)
    BY <2>2 DEF Resolves, AllLive, LivePage
  <2>4. PhysicalRefs(r, q.pages) = PhysicalRefs(cache, q.pages)
    BY <1>3, <1>15, <2>3, RefsStay
  <2>5. PhysicalRefs(r, new) = physical
    <3>1. DOMAIN new = DOMAIN physical /\ Taken(cache.pages, new, physical, 0, r.pages)
      BY <1>5, <1>7, <1>9, <1>13
    <3>2. physical \in Seq(PhysicalPages)
      BY <1>6
    <3> QED BY <3>1, <3>2, TakenRefs
  <2>6. PhysicalRefs(cache, q.pages) \in Seq(PhysicalPages \cup {None})
    BY <1>3, <1>17, LivePages
  <2>7. PhysicalRefs(r, q.pages \o new) = PhysicalRefs(r, q.pages) \o PhysicalRefs(r, new)
    BY <1>5, <1>6, <1>17, <2>4, <2>5, <2>6, RefsJoined
  <2> QED BY <1>17, <2>4, <2>5, <2>7
<1>account. ASSUME Accounted PROVE Accounted'
  <2>1. DOMAIN new = DOMAIN physical /\ Taken(cache.pages, new, physical, 0, r.pages)
    BY <1>5, <1>7, <1>9, <1>13
  <2>2. \A i \in DOMAIN physical : physical[i] \in PhysicalPages /\ pool[physical[i]] = "free"
    BY <1>7
  <2>3. Filled(r.pages, pool') /\ DeferredIn(pool') = DeferredIn(pool)
    BY <1>4, <1>account, <2>1, <2>2, TakeAccounts DEF Accounted
  <2>4. r.deferred_pages = x.deferred_pages /\ x.deferred_pages = cache.deferred_pages
    BY <1>9, <1>10, <1>12, ReservedDeferred DEF SameRest
  <2> QED BY <1>12, <1>account, <2>3, <2>4, AccountedParts DEF Accounted
<1>19. CASE n # 0
  <2>1. Shown(r, tables')
    BY <1>4, <1>12, <1>16, <1>18, <1>19, PublishedShown
  <2> QED BY <1>12, <1>14, <1>account, <2>1, StoredParts DEF StoresOn
<1>20. CASE n = 0
  <2>1. tables' = tables /\ physical = <<>>
    BY <1>4, <1>6, <1>20
  <2>2. tables[s] = [pages |-> PhysicalRefs(cache, Table(q)), position |-> q.position]
    BY <1>3, <1>15 DEF Shown, TableOf
  <2>3. Table(q) = q.pages
    BY <1>3, <1>17, QuietTable
  <2>4. PhysicalRefs(r, Table(r.sequences[s])) = PhysicalRefs(cache, q.pages)
    <3>1. PhysicalRefs(cache, q.pages) \in Seq(PhysicalPages \cup {None})
      BY <1>3, <1>17, LivePages
    <3>2. PICK y \in Seq(PhysicalPages \cup {None}) : y = PhysicalRefs(cache, q.pages)
      BY <3>1
    <3>3. y \o <<>> = y
      BY <3>2
    <3> QED BY <1>18, <2>1, <3>2, <3>3
  <2>5. tables'[s] = TableOf(r, s)
    BY <1>16, <2>1, <2>2, <2>3, <2>4 DEF TableOf
  <2>6. OnlyRecord(cache, r, s, tables, tables')
    BY <1>16, <2>1 DEF OnlyRecord, SequencesWith, LiveIn
  <2>7. Shown(r, tables')
    BY <1>15, <2>5, <2>6, ShownWith
  <2> QED BY <1>12, <1>14, <1>account, <2>7, StoredParts DEF StoresOn
<1> QED BY <1>19, <1>20

\* A sequence that shares pages is put in the slot it was given a table for.
LEMMA SharerSlot ==
    ASSUME NEW e, Sound(e), NEW ids \in Seq(PageId), SlotsOf(ids) \subseteq DOMAIN e.pages,
           CanShare(e, SlotsOf(ids)), NEW position, NEW reserved, NEW request, NEW r,
           r = RefreshStats(InsertSequence(IncrementActiveRefs(e, SlotsOf(ids)), ids,
                                           position, reserved, request))
    PROVE  /\ r.pages = MoreActive(e.pages, SlotsOf(ids))
           /\ SequencesWith(e.sequences, NextSequenceSlot(e), r.sequences)
           /\ r.sequences[NextSequenceSlot(e)].position = position
           /\ Table(r.sequences[NextSequenceSlot(e)]) = ids
           /\ r.deferred_pages = e.deferred_pages
<1>1. PICK x : x = IncrementActiveRefs(e, SlotsOf(ids))
  OBVIOUS
<1>2. Sound(x)
  BY <1>1, SharedTaken
<1>3. /\ SameRest(x, e) /\ x.pages = MoreActive(e.pages, SlotsOf(ids))
  BY <1>1, SharedShape
<1>4. NextSequenceSlot(x) = NextSequenceSlot(e) /\ x.sequences = e.sequences
  BY <1>3 DEF SameRest, NextSequenceSlot
<1>5. r = RefreshStats(InsertSequence(x, ids, position, reserved, request))
  BY <1>1
<1>6. /\ r.pages = x.pages /\ SequencesWith(x.sequences, NextSequenceSlot(x), r.sequences)
      /\ r.sequences[NextSequenceSlot(x)] = NewRecord(x, ids, position, reserved, request)
      /\ Table(r.sequences[NextSequenceSlot(x)]) = ids /\ r.deferred_pages = x.deferred_pages
  BY <1>2, <1>5, InsertSequenceShape
<1>7. r.sequences[NextSequenceSlot(x)].position = position
  BY <1>6 DEF NewRecord
<1>8. x.deferred_pages = e.deferred_pages
  BY <1>3 DEF SameRest
<1> QED BY <1>3, <1>4, <1>6, <1>7, <1>8

\* admit.
LEMMA AdmitStored ==
    ASSUME IInv, Stored, Stepped, NEW polled \in SUBSET InPool("deferred"), NEW prefix,
           NEW request, Admit(polled, prefix, request)
    PROVE  StoresOn
<1> DEFINE c == Reclaimed(polled)
           shared == SharedPages(c, prefix)
           demand == AdmitDemand(c, prefix, request)
           start == PrefixPosition(c, prefix)
           left == Moved(pool, polled, "free")
           Makes(ids, slots, later) ==
             LET e == CommitEvictions(c, ids, slots, Cardinality(later))
             IN  /\ CanShare(e, SlotsOf(shared))
                 /\ cache' = RefreshStats(InsertSequence(IncrementActiveRefs(e, SlotsOf(shared)),
                               shared, start, demand.pages, request))
                 /\ pool' = RetirePhysical(left, {c.pages[s].physical : s \in Range(slots)}, later)
<1>1. /\ cache.deferred_pages - Cardinality(polled) \in Nat
      /\ prefix \subseteq DOMAIN c.prefixes /\ AllLive(c, shared)
      /\ tables' = Published(NextSequenceSlot(c), PhysicalRefs(c, shared), start)
  BY DEF Admit, Admissible
<1>2. Sound(c) /\ c.pages = cache.pages /\ c.sequences = cache.sequences
  BY <1>1, PolledParts, PolledSame
<1>3. PICK ids \in EvictionRuns(c, prefix) : CanEvict(c, ids) /\
        \E slots \in SetToSeqs(RetireSlots(c, ids)) :
        \E later \in Deferrable({c.pages[s].physical : s \in Range(slots)}) :
          Makes(ids, slots, later)
  BY ZenonT(60) DEF Admit
<1> HIDE DEF Makes
<1>4. PICK slots \in SetToSeqs(RetireSlots(c, ids)) :
        \E later \in Deferrable({c.pages[s].physical : s \in Range(slots)}) :
          Makes(ids, slots, later)
  BY <1>3
<1>5. PICK later \in Deferrable({c.pages[s].physical : s \in Range(slots)}) :
        Makes(ids, slots, later)
  BY <1>4
<1>6. PICK e : e = CommitEvictions(c, ids, slots, Cardinality(later))
  OBVIOUS
<1>7. /\ CanShare(e, SlotsOf(shared))
      /\ cache' = RefreshStats(InsertSequence(IncrementActiveRefs(e, SlotsOf(shared)),
                               shared, start, demand.pages, request))
      /\ pool' = RetirePhysical(left, {c.pages[s].physical : s \in Range(slots)}, later)
  BY <1>5, <1>6 DEF Makes
<1>8. ids \subseteq DOMAIN c.prefixes /\ shared \in Seq(PageId)
  BY <1>1, <1>2, EvictionRunsParts, SharedParts
<1>9. Placed(c.pages, left)
  <2>1. \A x \in polled : pool[x] # "held"
    BY DEF InPool
  <2>2. TakesBack(pool, {}, left)
    BY <2>1, IdleTakes
  <2> HIDE DEF left
  <2> QED BY <1>2, <2>2, SameLeaving, NoStorage, LeavingPlaced DEF Stored
<1>10. SlotsOf(shared) \subseteq DOMAIN c.pages
  BY <1>1 DEF AllLive, LivePage, SlotsOf
<1> HIDE DEF c, shared, demand, left, start
<1>11. /\ Sound(e) /\ e.sequences = c.sequences /\ DOMAIN e.pages = DOMAIN c.pages
       /\ e.free_sequence_slots = c.free_sequence_slots
  BY <1>2, <1>3, <1>6, <1>8, EvictedParts
<1>12. /\ Leaving(c.pages, RetireSlots(c, ids), e.pages)
       /\ Storage(c.pages, RetireSlots(c, ids)) = {c.pages[s].physical : s \in Range(slots)}
       /\ e.deferred_pages = c.deferred_pages + Cardinality(later)
  <2>1. Sound(c) /\ ids \subseteq DOMAIN c.prefixes /\ CanEvict(c, ids)
    BY <1>2, <1>3, <1>8
  <2> QED BY <1>6, <2>1, EvictionLeaving
<1>13. PICK r : r = cache'
  OBVIOUS
<1>14. /\ r.pages = MoreActive(e.pages, SlotsOf(shared))
       /\ SequencesWith(e.sequences, NextSequenceSlot(e), r.sequences)
       /\ r.sequences[NextSequenceSlot(e)].position = start
       /\ Table(r.sequences[NextSequenceSlot(e)]) = shared
       /\ r.deferred_pages = e.deferred_pages
  BY <1>7, <1>8, <1>10, <1>11, <1>13, SharerSlot
<1>15. Leaving(c.pages, RetireSlots(c, ids), r.pages)
  BY <1>11, <1>12, <1>14, CountsLeaving, LeavingOn
<1>16. Placed(r.pages, pool')
  BY <1>7, <1>9, <1>12, <1>15, RetireTakes, LeavingPlaced
<1>17. PICK s : s = NextSequenceSlot(c)
  OBVIOUS
<1>18. NextSequenceSlot(e) = s
  BY <1>11, <1>17 DEF NextSequenceSlot
<1>19. /\ SequencesWith(cache.sequences, s, r.sequences)
       /\ r.sequences[s].position = start /\ Table(r.sequences[s]) = shared
  BY <1>2, <1>11, <1>14, <1>18
<1>20. s \in LiveIn(r.sequences) /\ Exact(r) /\ Evolves(cache.pages, r.pages)
  BY <1>13, <1>19 DEF SequencesWith, LiveIn, Stepped, Keeping
<1>21. AllLive(cache, shared) /\ PhysicalRefs(c, shared) = PhysicalRefs(cache, shared)
  BY <1>1, <1>2 DEF AllLive, LivePage, PhysicalRefs
<1>22. AllLive(r, shared)
  BY <1>19, <1>20, HandlesLive
<1>23. PhysicalRefs(r, Table(r.sequences[s])) = PhysicalRefs(c, shared)
  BY <1>19, <1>20, <1>21, <1>22, RefsStay
<1>24. Shown(r, tables')
  BY <1>1, <1>13, <1>17, <1>19, <1>23, PublishedShown
<1>25. ASSUME Accounted PROVE Accounted'
  <2>1. polled \in SUBSET DeferredIn(pool)
    BY DEF InPool, DeferredIn
  <2>2. /\ Filled(c.pages, left)
        /\ Cardinality(DeferredIn(left)) = Cardinality(DeferredIn(pool)) - Cardinality(polled)
    BY <1>2, <1>25, <2>1, PollAccounts DEF Accounted, left
  <2>3. /\ Filled(r.pages, pool')
        /\ Cardinality(DeferredIn(pool')) = Cardinality(DeferredIn(left)) + Cardinality(later)
    <3>1. PICK gone : gone = {c.pages[p].physical : p \in Range(slots)}
      OBVIOUS
    <3>2. /\ later \in Deferrable(gone) /\ pool' = RetirePhysical(left, gone, later)
          /\ Storage(c.pages, RetireSlots(c, ids)) = gone
          /\ Leaving(c.pages, RetireSlots(c, ids), r.pages)
      BY <1>7, <1>12, <1>15, <3>1
    <3>3. Placed(c.pages, left) /\ Filled(c.pages, left)
      BY <1>9, <2>2
    <3> QED BY <3>2, <3>3, RetireAccounts
  <2>4. c.deferred_pages = cache.deferred_pages - Cardinality(polled)
    BY PolledDeferred DEF c
  <2>5. Cardinality(DeferredIn(pool')) = r.deferred_pages
    BY <1>12, <1>14, <1>25, <2>2, <2>3, <2>4 DEF Accounted
  <2> QED BY <1>13, <2>3, <2>5, AccountedParts
<1> QED BY <1>13, <1>16, <1>24, <1>25, StoredParts DEF StoresOn

\* retire_pages, page by page.
LEMMA RetireParts ==
    ASSUME NEW pl, NEW gone, NEW later \in Deferrable(gone), NEW x \in PhysicalPages
    PROVE  /\ x \notin gone => RetirePhysical(pl, gone, later)[x] = pl[x]
           /\ x \in gone => RetirePhysical(pl, gone, later)[x] # "held"
<1>1. later \subseteq gone
  BY DEF Deferrable
<1> DEFINE pm == Moved(pl, gone, "free")
<1>2. RetirePhysical(pl, gone, later)[x] = IF x \in later THEN "deferred" ELSE pm[x]
  BY MovedParts DEF RetirePhysical
<1>3. pm[x] = IF x \in gone THEN "free" ELSE pl[x]
  BY MovedParts
<1> HIDE DEF pm
<1> QED BY <1>1, <1>2, <1>3

\* branch takes storage for its copy before the evictions give theirs back.
LEMMA CopyFirst ==
    ASSUME NEW pl, NEW copied, NEW gone, NEW later \in Deferrable(gone),
           \A i \in DOMAIN copied : copied[i] \in PhysicalPages /\ pl[copied[i]] = "free",
           \A x \in gone : pl[x] = "held",
           NEW mid, mid = RetirePhysical(pl, gone, later),
           NEW pm, pm = RetirePhysical(Moved(pl, Range(copied), "held"), gone, later)
    PROVE  /\ \A i \in DOMAIN copied : /\ copied[i] \in PhysicalPages
                                       /\ mid[copied[i]] # "held" /\ pm[copied[i]] = "held"
           /\ TakesBack(mid, {}, pm)
<1>1. PICK up : up = Moved(pl, Range(copied), "held")
  OBVIOUS
<1>2. \A x \in PhysicalPages : up[x] = IF x \in Range(copied) THEN "held" ELSE pl[x]
  BY <1>1, MovedParts
<1>3. \A x \in PhysicalPages : /\ x \notin gone => mid[x] = pl[x]
                               /\ x \in gone => mid[x] # "held"
  BY RetireParts
<1>4. pm = RetirePhysical(up, gone, later)
  BY <1>1
<1>5. \A x \in PhysicalPages : x \notin gone => pm[x] = up[x]
  BY <1>4, RetireParts
<1>6. ASSUME NEW i \in DOMAIN copied
      PROVE  /\ copied[i] \in PhysicalPages
             /\ mid[copied[i]] # "held" /\ pm[copied[i]] = "held"
  <2>1. copied[i] \in PhysicalPages /\ copied[i] \notin gone /\ copied[i] \in Range(copied)
    BY DEF Range
  <2> QED BY <1>2, <1>3, <1>5, <2>1
<1>7. TakesBack(mid, {}, pm)
  BY <1>2, <1>3, <1>5 DEF TakesBack
<1> QED BY <1>6, <1>7

\* A sequence that shares some pages and has copies of others.
LEMMA BrancherSlot ==
    ASSUME NEW e, Sound(e), NEW ids \in Seq(PageId), SlotsOf(ids) \subseteq DOMAIN e.pages,
           CanShare(e, SlotsOf(ids)), NEW copied \in Seq(PhysicalPages),
           NEW valid \in 0..PageTokens, NEW table \in Seq(PageId),
           NEW position, NEW reserved, NEW request, NEW r,
           r = RefreshStats(InsertSequence(
                 InsertPages(IncrementActiveRefs(e, SlotsOf(ids)), copied, valid),
                 table, position, reserved, request))
    PROVE  /\ Taken(MoreActive(e.pages, SlotsOf(ids)), FreshIds(e, Len(copied)), copied, valid,
                    r.pages)
           /\ SequencesWith(e.sequences, NextSequenceSlot(e), r.sequences)
           /\ r.sequences[NextSequenceSlot(e)].position = position
           /\ Table(r.sequences[NextSequenceSlot(e)]) = table
<1>1. PICK y : y = IncrementActiveRefs(e, SlotsOf(ids))
  OBVIOUS
<1>2. PICK x : x = InsertPages(y, copied, valid)
  OBVIOUS
<1>3. Sound(y)
  BY <1>1, SharedTaken
<1>4. /\ SameRest(y, e) /\ y.pages = MoreActive(e.pages, SlotsOf(ids))
      /\ y.free_page_slots = e.free_page_slots
  BY <1>1, SharedShape
<1>5. SameRest(x, y) /\ Taken(y.pages, FreshIds(y, Len(copied)), copied, valid, x.pages)
  BY <1>2, <1>3, InsertTaken
<1>6. Sound(x)
  BY <1>2, <1>3, InsertPagesSound
<1>7. FreshIds(y, Len(copied)) = FreshIds(e, Len(copied))
  BY <1>4, FreshKept, ZenonT(40)
<1>8. NextSequenceSlot(x) = NextSequenceSlot(e) /\ x.sequences = e.sequences
  BY <1>4, <1>5 DEF SameRest, NextSequenceSlot
<1>9. r = RefreshStats(InsertSequence(x, table, position, reserved, request))
  BY <1>1, <1>2
<1>10. /\ r.pages = x.pages /\ SequencesWith(x.sequences, NextSequenceSlot(x), r.sequences)
       /\ r.sequences[NextSequenceSlot(x)] = NewRecord(x, table, position, reserved, request)
       /\ Table(r.sequences[NextSequenceSlot(x)]) = table
  BY <1>6, <1>9, InsertSequenceShape
<1>11. r.sequences[NextSequenceSlot(x)].position = position
  BY <1>10 DEF NewRecord
<1> QED BY <1>4, <1>5, <1>7, <1>8, <1>10, <1>11

\* branch.
LEMMA BranchStored ==
    ASSUME IInv, Stored, Stepped, NEW source \in LiveSequences, NEW request \in Requests,
           Branch(source, request)
    PROVE  Stored'
<1> DEFINE q == cache.sequences[source]
           shared == CompletePages(q)
           copies == CopiedPages(q)
           demand == BranchDemand(q, request)
           reserved == demand.pages - copies
           partial == q.position % PageTokens
           Sharing(ids, copied, slots, later) ==
             LET e == CommitEvictions(cache, ids, slots, Cardinality(later))
             IN  /\ CanShare(e, SlotsOf(shared))
                 /\ cache' = RefreshStats(InsertSequence(
                      InsertPages(IncrementActiveRefs(e, SlotsOf(shared)), copied, partial),
                      shared \o [i \in 1..copies |-> FreshPageId(e, i)], q.position, reserved,
                      request))
                 /\ pool' = RetirePhysical(Moved(pool, Range(copied), "held"),
                              {cache.pages[p].physical : p \in Range(slots)}, later)
                 /\ tables' = Published(NextSequenceSlot(cache),
                                PhysicalRefs(cache, shared) \o copied, q.position)
<1>1. CanBranchFrom(source, request)
  BY DEF Branch
<1>2. PICK ids \in EvictionRuns(cache, {}) : CanEvict(cache, ids) /\
        \E copied \in Injection(1..copies, InPool("free")) :
        \E slots \in SetToSeqs(RetireSlots(cache, ids)) :
        \E later \in Deferrable({cache.pages[p].physical : p \in Range(slots)}) :
          Sharing(ids, copied, slots, later)
  BY ZenonT(90) DEF Branch
<1>3. Sound(cache) /\ ids \subseteq DOMAIN cache.prefixes
  BY EvictionRunsParts DEF IInv
<1>4. /\ shared \in Seq(PageId) /\ AllLive(cache, shared) /\ copies \in Nat
      /\ partial \in 0..PageTokens
  BY <1>1, BranchParts
<1>5. SlotsOf(shared) \subseteq DOMAIN cache.pages
  BY <1>4 DEF AllLive, LivePage, SlotsOf
<1> HIDE DEF Sharing
<1>6. PICK copied \in Injection(1..copies, InPool("free")) :
        \E slots \in SetToSeqs(RetireSlots(cache, ids)) :
        \E later \in Deferrable({cache.pages[p].physical : p \in Range(slots)}) :
          Sharing(ids, copied, slots, later)
  BY <1>2
<1>7. PICK slots \in SetToSeqs(RetireSlots(cache, ids)) :
        \E later \in Deferrable({cache.pages[p].physical : p \in Range(slots)}) :
          Sharing(ids, copied, slots, later)
  BY <1>6
<1>8. PICK later \in Deferrable({cache.pages[p].physical : p \in Range(slots)}) :
        Sharing(ids, copied, slots, later)
  BY <1>7
<1>9. PICK e : e = CommitEvictions(cache, ids, slots, Cardinality(later))
  OBVIOUS
<1>10. PICK gone : gone = {cache.pages[p].physical : p \in Range(slots)}
  OBVIOUS
<1>11. /\ Sound(e) /\ e.sequences = cache.sequences /\ DOMAIN e.pages = DOMAIN cache.pages
       /\ e.free_sequence_slots = cache.free_sequence_slots
  BY <1>2, <1>3, <1>9, EvictedParts
<1>12. Leaving(cache.pages, RetireSlots(cache, ids), e.pages)
       /\ Storage(cache.pages, RetireSlots(cache, ids)) = gone
  BY <1>2, <1>3, <1>9, <1>10, EvictionLeaving
<1> HIDE DEF q, copies, partial, reserved, shared
<1>13. /\ copied \in Seq(PhysicalPages) /\ Len(copied) = copies
       /\ copied \in Seq(PhysicalPages \cup {None})
  BY <1>4, AllocatedPages
<1>14. /\ DOMAIN copied = 1..copies
       /\ \A i \in DOMAIN copied : copied[i] \in PhysicalPages /\ pool[copied[i]] = "free"
       /\ \A i, j \in DOMAIN copied : copied[i] = copied[j] => i = j
  BY <1>4, AllocatedParts
<1>15. PICK tail \in Seq(PageId) : /\ tail = [i \in 1..copies |-> FreshPageId(e, i)]
                                   /\ tail = FreshIds(e, Len(copied)) /\ DOMAIN tail = 1..copies
  <2>1. PICK tail : tail = [i \in 1..copies |-> FreshPageId(e, i)]
    OBVIOUS
  <2>2. tail \in Seq(PageId) /\ DOMAIN tail = 1..copies
    BY <1>4, <1>11, <2>1, FreshPageIds
  <2>3. tail = FreshIds(e, Len(copied))
    BY <1>13, <2>1 DEF FreshIds
  <2> QED BY <2>1, <2>2, <2>3
<1>16. shared \o tail \in Seq(PageId)
  BY <1>4, SlotsJoined
<1>17. /\ CanShare(e, SlotsOf(shared))
       /\ cache' = RefreshStats(InsertSequence(
                  InsertPages(IncrementActiveRefs(e, SlotsOf(shared)), copied, partial),
                  shared \o tail, q.position, reserved, request))
       /\ pool' = RetirePhysical(Moved(pool, Range(copied), "held"), gone, later)
       /\ tables' = Published(NextSequenceSlot(cache), PhysicalRefs(cache, shared) \o copied,
                              q.position)
  BY <1>8, <1>9, <1>10, <1>15 DEF Sharing
<1>18. PICK r : r = cache'
  OBVIOUS
<1>19. PICK s : s = NextSequenceSlot(cache)
  OBVIOUS
<1>20. NextSequenceSlot(e) = s
  BY <1>11, <1>19 DEF NextSequenceSlot
<1>21. /\ Taken(MoreActive(e.pages, SlotsOf(shared)), FreshIds(e, Len(copied)), copied, partial,
                r.pages)
       /\ SequencesWith(e.sequences, NextSequenceSlot(e), r.sequences)
       /\ r.sequences[NextSequenceSlot(e)].position = q.position
       /\ Table(r.sequences[NextSequenceSlot(e)]) = shared \o tail
  <2>1. PICK table \in Seq(PageId) : table = shared \o tail
    BY <1>16
  <2>2. r = RefreshStats(InsertSequence(
              InsertPages(IncrementActiveRefs(e, SlotsOf(shared)), copied, partial),
              table, q.position, reserved, request))
    BY <1>17, <1>18, <2>1
  <2>3. /\ shared \in Seq(PageId) /\ partial \in 0..PageTokens /\ copied \in Seq(PhysicalPages)
        /\ SlotsOf(shared) \subseteq DOMAIN e.pages /\ CanShare(e, SlotsOf(shared)) /\ Sound(e)
    BY <1>4, <1>5, <1>11, <1>13, <1>17
  <2>4. /\ Taken(MoreActive(e.pages, SlotsOf(shared)), FreshIds(e, Len(copied)), copied, partial,
                 r.pages)
        /\ SequencesWith(e.sequences, NextSequenceSlot(e), r.sequences)
        /\ r.sequences[NextSequenceSlot(e)].position = q.position
        /\ Table(r.sequences[NextSequenceSlot(e)]) = table
    BY <2>2, <2>3, BrancherSlot
  <2> QED BY <2>1, <2>4
<1>22. PICK y : y = MoreActive(e.pages, SlotsOf(shared))
  OBVIOUS
<1>23. Taken(y, tail, copied, partial, r.pages) /\ DOMAIN tail = DOMAIN copied
  BY <1>14, <1>15, <1>21, <1>22
<1>24. Placed(r.pages, pool')
  <2>1. PICK mid : mid = RetirePhysical(pool, gone, later)
    OBVIOUS
  <2>2. later \in Deferrable(gone)
    BY <1>10
  <2>3. Leaving(cache.pages, RetireSlots(cache, ids), y)
    BY <1>11, <1>12, <1>22, CountsLeaving, LeavingOn
  <2>4. Placed(y, mid)
    BY <1>12, <2>1, <2>2, <2>3, RetireTakes, LeavingPlaced DEF Stored
  <2>5. \A x \in gone : pool[x] = "held"
    <3> SUFFICES ASSUME NEW p \in RetireSlots(cache, ids)
                 PROVE  pool[cache.pages[p].physical] = "held"
      BY <1>12 DEF Storage
    <3>1. p \in DOMAIN cache.pages /\ cache.pages[p].live
      BY <1>12 DEF Leaving
    <3> QED BY <3>1 DEF Stored, Placed
  <2>6. /\ \A i \in DOMAIN copied : /\ copied[i] \in PhysicalPages
                                    /\ mid[copied[i]] # "held" /\ pool'[copied[i]] = "held"
        /\ TakesBack(mid, {}, pool')
    <3>1. \A i \in DOMAIN copied : copied[i] \in PhysicalPages /\ pool[copied[i]] = "free"
      BY <1>14
    <3>2. PICK pm : pm = pool' /\ pm = RetirePhysical(Moved(pool, Range(copied), "held"), gone, later)
      BY <1>17
    <3>3. /\ \A i \in DOMAIN copied : /\ copied[i] \in PhysicalPages
                                      /\ mid[copied[i]] # "held" /\ pm[copied[i]] = "held"
          /\ TakesBack(mid, {}, pm)
      BY <2>1, <2>2, <2>5, <3>1, <3>2, CopyFirst
    <3> QED BY <3>2, <3>3
  <2> QED BY <1>14, <1>23, <2>4, <2>6, TakenPlaced
<1>25. /\ SequencesWith(cache.sequences, s, r.sequences)
       /\ r.sequences[s].position = q.position /\ Table(r.sequences[s]) = shared \o tail
  BY <1>11, <1>20, <1>21
<1>26. s \in LiveIn(r.sequences) /\ Exact(r) /\ Evolves(cache.pages, r.pages)
  BY <1>18, <1>25 DEF SequencesWith, LiveIn, Stepped, Keeping
<1>27. PhysicalRefs(r, Table(r.sequences[s])) = PhysicalRefs(cache, shared) \o copied
  <2>1. Resolves(r.pages, shared \o tail)
    BY <1>25, <1>26 DEF Exact, Owned, OwnedParts, Refs, Tabs
  <2>2. Resolves(r.pages, shared)
    BY <1>4, <2>1, JoinedResolves
  <2>3. AllLive(r, shared)
    BY <2>2 DEF Resolves, AllLive, LivePage
  <2>4. PhysicalRefs(r, shared) = PhysicalRefs(cache, shared)
    BY <1>4, <1>26, <2>3, RefsStay
  <2>5. PhysicalRefs(r, tail) = copied
    BY <1>13, <1>23, TakenRefs
  <2>6. PhysicalRefs(cache, shared) \in Seq(PhysicalPages \cup {None})
    BY <1>3, <1>4, LivePages
  <2>7. PhysicalRefs(r, shared \o tail) = PhysicalRefs(r, shared) \o PhysicalRefs(r, tail)
    BY <1>4, <1>13, <2>4, <2>5, <2>6, RefsJoined
  <2> QED BY <1>25, <2>4, <2>5, <2>7
<1>28. Shown(r, tables')
  BY <1>17, <1>18, <1>19, <1>25, <1>27, PublishedShown
<1> QED BY <1>18, <1>24, <1>28, StoredParts

\* Pages taken and given back in one call.
LEMMA RolledBack ==
    ASSUME NEW taken \in SUBSET InPool("free")
    PROVE  /\ TakesBack(pool, {}, Moved(pool, taken, "held"))
           /\ TakesBack(pool, {}, RollbackPages(Moved(pool, taken, "held"), taken))
           /\ \A x \in PhysicalPages :
                RollbackPages(Moved(pool, taken, "held"), taken)[x] = pool[x]
<1>1. \A x \in taken : pool[x] = "free" /\ pool[x] # "held"
  BY DEF InPool
<1>2. TakesBack(pool, {}, Moved(pool, taken, "held"))
  BY <1>1, IdleTakes
<1> DEFINE mid == Moved(pool, taken, "held")
<1>3. \A x \in PhysicalPages : mid[x] = IF x \in taken THEN "held" ELSE pool[x]
  BY MovedParts
<1>4. \A x \in PhysicalPages : RollbackPages(mid, taken)[x] = IF x \in taken THEN "free" ELSE mid[x]
  BY MovedParts DEF RollbackPages
<1> HIDE DEF mid
<1>5. TakesBack(pool, {}, RollbackPages(mid, taken))
  BY <1>1, <1>3, <1>4 DEF TakesBack
<1>6. \A x \in PhysicalPages : RollbackPages(mid, taken)[x] = pool[x]
  BY <1>1, <1>3, <1>4
<1> QED BY <1>2, <1>5, <1>6 DEF mid

\* Every step.
LEMMA NextStored ==
    ASSUME PageReuse < MaxGeneration, IInv, Stored, Stepped, [Next]_vars
    PROVE  Stored' /\ (~CanBranch /\ Accounted => Accounted')
<1> DEFINE Kept == Stored' /\ (~CanBranch /\ Accounted => Accounted')
<1> SUFFICES Kept
  OBVIOUS
<1>0. Sound(cache) /\ Owned(cache)
  BY DEF Stored, Exact
<1>s. StoresOn => Kept
  BY DEF StoresOn
<1>1. ASSUME cache'.pages = cache.pages, cache'.sequences = cache.sequences,
             cache'.deferred_pages = cache.deferred_pages, UNCHANGED <<pool, tables>>
      PROVE  StoresOn
  <2>1. TakesBack(pool, {}, pool')
    BY <1>1 DEF TakesBack
  <2>2. Accounted => Accounted'
    BY <1>1 DEF Accounted, Filled, DeferredIn
  <2> QED BY <1>1, <2>1, <2>2, QuietStored DEF StoresOn
<1>2. ASSUME NEW polled \in SUBSET InPool("deferred"), ReclaimDeferred(polled) PROVE Kept
  BY <1>2, <1>s, PolledStored DEF ReclaimDeferred
<1>3. ASSUME NEW polled \in SUBSET InPool("deferred"), NEW prefix \in Matches,
             NEW request \in Requests, Admit(polled, prefix, request)
      PROVE  Kept
  BY <1>3, <1>s, AdmitStored
<1>4. ASSUME NEW polled \in SUBSET InPool("deferred"), NEW prefix \in Matches,
             NEW request \in Requests, NEW outcome \in {"would_block", "refused", "backend"},
             AdmitDeclined(polled, prefix, request, outcome)
      PROVE  Kept
  BY <1>4, <1>s, PolledStored DEF AdmitDeclined
<1>5. ASSUME NEW s \in LiveSequences, NEW rows \in Rows, ReserveAppend(s, rows) PROVE Kept
  BY <1>5, <1>s, ReserveAppendStored
<1>6. ASSUME NEW s \in LiveSequences, NEW rows \in Rows, CommitAppend(s, rows) PROVE Kept
  BY <1>6, <1>s, CommitAppendStored
<1>7. ASSUME NEW s \in LiveSequences, AbortAppend(s) PROVE Kept
  BY <1>7, <1>s, AbortAppendStored
<1>8. ASSUME NEW id \in DOMAIN cache.prefixes, cache' = Touch(cache, id), UNCHANGED <<pool, tables>>
      PROVE  Kept
  <2>1. /\ Touch(cache, id).pages = cache.pages /\ Touch(cache, id).sequences = cache.sequences
        /\ Touch(cache, id).deferred_pages = cache.deferred_pages
    BY <1>0, TouchLists, TouchDeferred
  <2> QED BY <1>1, <1>8, <1>s, <2>1
<1>9. ASSUME NEW prompt, NEW tail, LookupPrefix(prompt, tail) PROVE Kept
  <2>1. CASE UNCHANGED <<cache, pool, tables>>
    BY <1>1, <1>s, <2>1
  <2> HIDE DEF Kept
  <2> QED BY <1>8, <1>9, <2>1 DEF LookupPrefix
<1>10. ASSUME NEW s \in LiveSequences, NEW key \in KeysFor(s), RetainDuplicate(s, key)
       PROVE  Kept
  <2> HIDE DEF Kept
  <2> QED BY <1>8, <1>10 DEF RetainDuplicate
<1>11. ASSUME NEW s \in LiveSequences, NEW n \in SnapshotSizes, NEW key \in KeysFor(s),
              RetainPrefix(s, key, n)
       PROVE  Kept
  BY <1>11, <1>s, RetainPrefixStored
<1>12. ASSUME NEW id \in DOMAIN cache.prefixes, EvictPrefix(id) PROVE Kept
  BY <1>12, <1>s, EvictPrefixStored
<1>13. ASSUME NEW s \in LiveSequences, NEW request \in Requests, Branch(s, request) PROVE Kept
  <2>1. CanBranch
    BY <1>13 DEF Branch, CanBranchFrom
  <2> QED BY <1>13, <2>1, BranchStored
<1>14. ASSUME NEW s \in LiveSequences, Finish(s) PROVE Kept
  BY <1>14, <1>s, FinishStored
<1>15. CASE \/ PollFails
            \/ \E s \in LiveSequences : FinalizeFails(s)
            \/ \E s \in LiveSequences, n \in SnapshotSizes, outcome \in {"refused", "backend"} :
                 \E key \in KeysFor(s) : RetainDeclined(s, key, n, outcome)
            \/ \E s \in LiveSequences, request \in Requests : BranchWouldBlock(s, request)
            \/ RetireFails
  <2>1. UNCHANGED <<cache, pool, tables>>
    BY <1>15 DEF PollFails, FinalizeFails, RetainDeclined, BranchWouldBlock, RetireFails,
                 Unchanged
  <2> QED BY <1>1, <1>s, <2>1
<1>16. ASSUME NEW taken \in SUBSET InPool("free"), UNCHANGED <<cache, tables>>,
              \/ pool' = Moved(pool, taken, "held")
              \/ pool' = RollbackPages(Moved(pool, taken, "held"), taken)
       PROVE  Stored'
  <2>1. TakesBack(pool, {}, pool')
    BY <1>16, RolledBack
  <2> QED BY <1>16, <2>1, QuietStored
<1>17. ASSUME NEW s \in LiveSequences, NEW rows \in Rows, ReserveAppendFails(s, rows)
       PROVE  Kept
  <2>1. PICK taken \in SUBSET InPool("free") :
          pool' = RollbackPages(Moved(pool, taken, "held"), taken) /\ UNCHANGED <<cache, tables>>
    BY <1>17 DEF ReserveAppendFails
  <2>2. Stored'
    BY <1>16, <2>1
  <2>3. \A x \in PhysicalPages : pool'[x] = pool[x]
    BY <2>1, RolledBack
  <2>4. Accounted => Accounted'
    <3>1. DeferredIn(pool') = DeferredIn(pool)
      BY <2>3 DEF DeferredIn
    <3>2. Filled(cache.pages, pool) => Filled(cache.pages, pool')
      BY <2>3 DEF Filled
    <3> QED BY <2>1, <3>1, <3>2, AccountedParts DEF Accounted
  <2> QED BY <2>2, <2>4
<1>18. ASSUME NEW s \in LiveSequences, NEW request \in Requests, BranchFails(s, request)
       PROVE  Kept
  <2>1. CanBranch
    BY <1>18 DEF BranchFails, CanBranchFrom
  <2>2. Stored'
    BY <1>16, <1>18 DEF BranchFails
  <2> QED BY <2>1, <2>2
<1>19. ASSUME NEW s \in LiveSequences, NEW request \in Requests, BranchEvictionFails(s, request)
       PROVE  Kept
  <2>1. CanBranch
    BY <1>19 DEF BranchEvictionFails, CanBranchFrom
  <2>2. Stored'
    BY <1>16, <1>19 DEF BranchEvictionFails
  <2> QED BY <2>1, <2>2
<1>20. CASE UNCHANGED vars
  BY <1>1, <1>20, <1>s DEF vars
<1>21. CASE Next
  <2>1. /\ ~\E s \in LiveSequences : AbortAppendExhausted(s)
        /\ ~\E s \in LiveSequences, rows \in Rows : CommitAppendExhausted(s, rows)
    BY <1>0, NeverStops
  <2> HIDE DEF Kept
  <2> QED BY <1>2, <1>3, <1>4, <1>5, <1>6, <1>7, <1>9, <1>10, <1>11, <1>12, <1>13, <1>14, <1>15,
             <1>17, <1>18, <1>19, <1>21, <2>1 DEF Next
<1> QED BY <1>20, <1>21

\* A new manager has no pages to place and no tables to publish.
LEMMA InitStored == Init => Stored
<1> SUFFICES ASSUME Init PROVE Stored
  OBVIOUS
<1>1. IInv /\ Owned(cache)
  BY InitIInv, InitOwned
<1>2. cache.pages = <<>> /\ cache.sequences = <<>>
  BY InitEmpty
<1>3. Placed(cache.pages, pool) /\ Shown(cache, tables)
  BY <1>2 DEF Placed, Shown, LiveIn
<1> QED BY <1>1, <1>3 DEF IInv, Stored, Exact

\* In every configuration in which no page slot is used to its last generation, every page
\* in use is on storage of its own that the pool has handed out, and every table published
\* to a context lists such storage (allocate_page, copy_page_prefix, rollback_page,
\* retire_pages and update_page_table as manager.rs calls them).
THEOREM StorageInvariant ==
    ASSUME PageReuse < MaxGeneration
    PROVE  Spec => []Stored
<1>1. Init => Stored
  BY InitStored
<1>2. /\ Stored /\ (IInv /\ Owned(cache)) /\ (IInv /\ Owned(cache))' /\ [Next]_vars => Stored'
  <2> SUFFICES ASSUME Stored, IInv, Owned(cache), IInv', Owned(cache)', [Next]_vars
               PROVE  Stored'
    OBVIOUS
  <2>1. Exact(cache')
    BY DEF IInv, Sound, Owned, Exact
  <2>2. Keeping(cache, cache')
    BY NextKeeping, NeverStops
  <2> QED BY <2>1, <2>2, NextStored DEF Stepped
<1> QED BY <1>1, <1>2, OwnershipInvariant, PTL DEF Spec

\* For every configuration in which no page slot is used to its last generation, the table
\* published to the context of a live sequence lists the storage of its committed pages and
\* of its pending append, in order, with its committed position: also after evictions,
\* appends, branches and finishes of others, and after a backend call that failed
\* (admit, branch, reserve_append, commit_append and abort_append call update_page_table).
THEOREM TablesCorrect ==
    ASSUME PageReuse < MaxGeneration
    PROVE  Spec => []PublishedTablesExact
<1>1. Stored => PublishedTablesExact
  BY DEF Stored, Shown, TableOf, PublishedTablesExact, LiveSequences, LiveIn
<1> QED BY <1>1, StorageInvariant, PTL

\* In the same configurations the context of a live sequence reads no storage that the
\* pool may hand to another (retire_pages, rollback_page, allocate_page).
THEOREM ReadsCorrect ==
    ASSUME PageReuse < MaxGeneration
    PROVE  Spec => []TablesReadHeldPages
<1>1. Stored => TablesReadHeldPages
  <2> SUFFICES ASSUME Stored, NEW s \in LiveSequences, NEW x \in Range(tables[s].pages)
               PROVE  x \in InPool("held")
    BY DEF TablesReadHeldPages
  <2> DEFINE ids == Table(cache.sequences[s])
  <2>1. Exact(cache) /\ Placed(cache.pages, pool) /\ s \in LiveIn(cache.sequences)
    BY DEF Stored, LiveSequences, LiveIn
  <2>2. tables[s].pages = PhysicalRefs(cache, ids)
    <3>1. tables[s] = TableOf(cache, s)
      BY <2>1 DEF Stored, Shown
    <3> QED BY <3>1 DEF TableOf
  <2>3. AllLive(cache, ids)
    BY <2>1, HandlesLive
  <2> HIDE DEF ids
  <2>4. PICK i \in DOMAIN ids : x = cache.pages[ids[i].slot].physical
    BY <2>2 DEF PhysicalRefs, Range
  <2>5. ids[i].slot \in DOMAIN cache.pages /\ cache.pages[ids[i].slot].live
    BY <2>3 DEF AllLive, LivePage
  <2> QED BY <2>1, <2>4, <2>5 DEF Placed, InPool
<1> QED BY <1>1, StorageInvariant, PTL

----------------------------------------------------------------------------
(* Nothing is lost, and what is promised is there. *)

\* In those configurations a runtime that does not branch loses no storage: what is handed
\* out is under a page in use, and what retire_pages deferred is what deferred_pages charges
\* until poll_retirements returns it.
THEOREM AccountingInvariant ==
    ASSUME PageReuse < MaxGeneration, ~CanBranch
    PROVE  Spec => []Accounted
<1>1. Init => Accounted
  <2> SUFFICES ASSUME Init PROVE Accounted
    OBVIOUS
  <2>1. cache.pages = <<>> /\ cache.deferred_pages = 0
    BY InitEmpty
  <2>2. \A x \in PhysicalPages : pool[x] = "free"
    BY DEF Init
  <2>3. DeferredIn(pool) = {}
    BY <2>2 DEF DeferredIn
  <2>4. Filled(cache.pages, pool)
    BY <2>2 DEF Filled
  <2> QED BY <2>1, <2>3, <2>4, FS_EmptySet DEF Accounted
<1>2. /\ Accounted /\ Stored /\ (IInv /\ Owned(cache)) /\ (IInv /\ Owned(cache))' /\ [Next]_vars
      => Accounted'
  <2> SUFFICES ASSUME Accounted, Stored, IInv, Owned(cache), IInv', Owned(cache)', [Next]_vars
               PROVE  Accounted'
    OBVIOUS
  <2>1. Exact(cache')
    BY DEF IInv, Sound, Owned, Exact
  <2>2. Keeping(cache, cache')
    BY NextKeeping, NeverStops
  <2> QED BY <2>1, <2>2, NextStored DEF Stepped
<1> QED BY <1>1, <1>2, StorageInvariant, OwnershipInvariant, PTL DEF Spec

\* In every configuration without branches, and without a page slot used to its last
\* generation, the storage that is handed out is exactly that of the pages in use, one
\* each, and as much waits for a fence as the manager charges: whatever backend call fails
\* (rollback_page, retire_pages, poll_retirements). With branches it is not so: branch
\* loses its copy when the evictions after it fail.
THEOREM PhysicalPagesCorrect ==
    ASSUME PageReuse < MaxGeneration, ~CanBranch
    PROVE  Spec => []PhysicalPagesExact
<1>1. Stored /\ Accounted => PhysicalPagesExact
  <2> SUFFICES ASSUME Stored, Accounted PROVE PhysicalPagesExact
    OBVIOUS
  <2>1. Placed(cache.pages, pool) /\ Filled(cache.pages, pool)
    BY DEF Stored, Accounted
  <2>2. \A p, other \in LivePageSlots :
          cache.pages[p].physical = cache.pages[other].physical => p = other
    BY <2>1 DEF Placed, LivePageSlots
  <2>3. InPool("held") = {cache.pages[p].physical : p \in LivePageSlots}
    BY <2>1 DEF Placed, Filled, LivePageSlots, InPool
  <2>4. Cardinality(InPool("deferred")) = cache.deferred_pages
    BY DEF Accounted, InPool, DeferredIn
  <2> QED BY <2>2, <2>3, <2>4 DEF PhysicalPagesExact
<1> QED BY <1>1, StorageInvariant, AccountingInvariant, PTL

\* The slots in use are those that are not on the free list.
LEMMA LiveCount ==
    ASSUME NEW arena, NEW n \in Nat, DOMAIN arena = 1..n, NEW free \in Seq(Nat),
           FreeList(arena, free)
    PROVE  LET live == {p \in DOMAIN arena : arena[p].live}
           IN  IsFiniteSet(live) /\ Cardinality(live) = n - Len(free)
<1>1. \A k \in Nat : IsFiniteSet(1..k) /\ Cardinality(1..k) = k
  BY FS_Interval
<1>2. Len(free) \in Nat /\ IsFiniteSet(DOMAIN free) /\ Cardinality(DOMAIN free) = Len(free)
  <2>1. DOMAIN free = 1..Len(free) /\ Len(free) \in Nat
    OBVIOUS
  <2>2. IsFiniteSet(1..Len(free)) /\ Cardinality(1..Len(free)) = Len(free)
    BY <1>1, <2>1
  <2> QED BY <2>1, <2>2
<1>3. PICK slots : slots = DOMAIN arena
  OBVIOUS
<1>4. IsFiniteSet(slots) /\ Cardinality(slots) = n
  BY <1>1, <1>3
<1>5. PICK vacant : vacant = Range(free)
  OBVIOUS
<1>6. free \in Injection(DOMAIN free, vacant) /\ free \in Surjection(DOMAIN free, vacant)
  BY <1>5 DEF FreeList, IsInjective, Injection, Surjection, Range
<1>7. Cardinality(vacant) = Len(free)
  BY <1>2, <1>6, FS_Surjection
<1>8. PICK live : live = {p \in DOMAIN arena : arena[p].live}
  OBVIOUS
<1>9. live = slots \ vacant /\ slots \cap vacant = vacant
  BY <1>3, <1>5, <1>8 DEF FreeList, Range
<1>10. IsFiniteSet(live) /\ Cardinality(live) = Cardinality(slots) - Cardinality(slots \cap vacant)
  BY <1>4, <1>9, FS_Difference
<1>11. IsFiniteSet(live) /\ Cardinality(live) = n - Len(free)
  BY <1>4, <1>7, <1>9, <1>10
<1> QED BY <1>8, <1>11

\* What is free is what is neither in use nor waiting for a fence.
LEMMA FreeCount ==
    ASSUME IInv, Stored, Accounted
    PROVE  /\ Cardinality(InPool("free")) \in Nat
           /\ Cardinality(PhysicalPages) - Occupied(cache) <= Cardinality(InPool("free"))
<1>1. PICK pages : pages = cache.pages
  OBVIOUS
<1>2. PICK n \in Nat : n = Len(cache.pages) /\ DOMAIN pages = 1..n
  BY <1>1 DEF IInv, Sound, PagesOK
<1>3. PICK k \in Nat : k = Len(cache.free_page_slots)
  BY DEF IInv, Sound, PagesOK
<1>4. PICK live : live = {p \in DOMAIN pages : pages[p].live}
  OBVIOUS
<1>5. IsFiniteSet(live) /\ Cardinality(live) = n - k
  <2>1. cache.free_page_slots \in Seq(Nat) /\ FreeList(pages, cache.free_page_slots)
    BY <1>1 DEF IInv, Sound, PagesOK
  <2> QED BY <1>2, <1>3, <1>4, <2>1, LiveCount
<1>6. PICK held : held = InPool("held")
  OBVIOUS
<1>7. IsFiniteSet(held) /\ Cardinality(held) <= Cardinality(live)
  <2>1. PICK f : f = [p \in live |-> pages[p].physical]
    OBVIOUS
  <2>2. f \in Surjection(live, held)
    <3>1. /\ \A p \in live : f[p] \in held
          /\ \A x \in held : \E p \in live : f[p] = x
      BY <1>1, <1>4, <1>6, <2>1 DEF Stored, Accounted, Placed, Filled, InPool
    <3> QED BY <2>1, <3>1 DEF Surjection
  <2> QED BY <1>5, <2>2, FS_Surjection
<1>8. PICK waiting : waiting = DeferredIn(pool)
  OBVIOUS
<1>9. IsFiniteSet(waiting) /\ Cardinality(waiting) = cache.deferred_pages
  BY <1>8, DeferredFinite DEF Accounted
<1>10. PICK used : used = held \cup waiting
  OBVIOUS
<1>11. IsFiniteSet(used) /\ Cardinality(used) =
         Cardinality(held) + Cardinality(waiting) - Cardinality(held \cap waiting)
  BY <1>7, <1>9, <1>10, FS_Union
<1>12. held \cap waiting = {} /\ InPool("free") = PhysicalPages \ used
       /\ PhysicalPages \cap used = used
  BY <1>6, <1>8, <1>10 DEF IInv, Owners, InPool, DeferredIn
<1>13. PICK left : left = InPool("free")
  OBVIOUS
<1>14. IsFiniteSet(PhysicalPages)
  BY ConfigAssumption
<1>15. IsFiniteSet(left) /\ Cardinality(left) = Cardinality(PhysicalPages) - Cardinality(used)
  BY <1>12, <1>13, <1>14, FS_Difference
<1>16. /\ Cardinality(held) \in Nat /\ Cardinality(waiting) \in Nat /\ Cardinality(used) \in Nat
       /\ Cardinality(left) \in Nat /\ Cardinality(PhysicalPages) \in Nat
       /\ Cardinality(held \cap waiting) = 0
  BY <1>7, <1>9, <1>11, <1>12, <1>14, <1>15, FS_CardinalityType, FS_EmptySet
<1>17. Cardinality(used) = Cardinality(held) + Cardinality(waiting)
  BY <1>11, <1>16
<1>18. Occupied(cache) = n - k + Cardinality(waiting)
  BY <1>2, <1>3, <1>9 DEF Occupied
<1>19. Cardinality(PhysicalPages) - Occupied(cache) <= Cardinality(left)
  BY <1>5, <1>7, <1>15, <1>16, <1>17, <1>18
<1> QED BY <1>13, <1>16, <1>19

\* In the same configurations the pool has a page for every page that is promised to an
\* admitted sequence (admit: "an admitted sequence can always grow to its full length"):
\* whatever is evicted, deferred and reused in between. A copy that branch loses may be
\* one of them.
THEOREM ReservationsCorrect ==
    ASSUME PageReuse < MaxGeneration, ~CanBranch
    PROVE  Spec => []ReservationsBacked
<1>1. IInv /\ Stored /\ Accounted => ReservationsBacked
  <2> SUFFICES ASSUME IInv, Stored, Accounted PROVE ReservationsBacked
    OBVIOUS
  <2>1. /\ Cardinality(InPool("free")) \in Nat
        /\ Cardinality(PhysicalPages) - Occupied(cache) <= Cardinality(InPool("free"))
    BY FreeCount
  <2>2. /\ Occupied(cache) \in Nat /\ Occupied(cache) <= cache.stats.resident_pages
        /\ cache.stats.resident_pages + cache.stats.reserved_pages <= PageCapacity
    BY OccupiedNat DEF IInv, Ledger
  <2>3. cache.stats.resident_pages \in Nat /\ cache.stats.reserved_pages \in Nat
    BY DEF IInv, Sound, Stats
  <2>4. PageCapacity <= Cardinality(PhysicalPages) /\ Cardinality(PhysicalPages) \in Nat
        /\ PageCapacity \in Nat
    BY ConfigAssumption, FS_CardinalityType
  <2> QED BY <2>1, <2>2, <2>3, <2>4 DEF ReservationsBacked
<1> QED BY <1>1, StorageInvariant, AccountingInvariant, OwnershipInvariant, PTL

\* In the same configurations a call returns no backend error unless a backend operation
\* fails by itself: reserve_append finds the pages it needs in the pool.
THEOREM PressureCorrect ==
    ASSUME PageReuse < MaxGeneration, ~CanBranch
    PROVE  Spec => []PressureIsNeverAnError
<1>1. Init => PressureIsNeverAnError
  BY DEF Init, PressureIsNeverAnError
<1>2. PressureIsNeverAnError /\ ReservationsBacked /\ IInv /\ [Next]_vars
      => PressureIsNeverAnError'
  <2> SUFFICES ASSUME PressureIsNeverAnError, ReservationsBacked, IInv, [Next]_vars, Faults = {}
               PROVE  result' # "backend"
    BY DEF PressureIsNeverAnError
  <2>1. CASE UNCHANGED vars
    BY <2>1 DEF vars, PressureIsNeverAnError
  <2>2. \A s \in LiveSequences, rows \in Rows : ~ReserveAppendFails(s, rows)
    <3> SUFFICES ASSUME NEW s \in LiveSequences, NEW rows \in Rows, ReserveAppendFails(s, rows)
                 PROVE  FALSE
      OBVIOUS
    <3>1. PICK n : n = NewPageCount(cache.sequences[s], rows)
      OBVIOUS
    <3>2. n \in Nat /\ n <= cache.stats.reserved_pages
      BY <3>1 DEF ReserveAppendFails, CanReserve
    <3>3. Cardinality(InPool("free")) < n
      BY <3>1 DEF ReserveAppendFails
    <3>4. cache.stats.reserved_pages \in Nat
      BY DEF IInv, Sound, Stats
    <3>5. Cardinality(InPool("free")) \in Nat
      <4>1. IsFiniteSet(PhysicalPages) /\ InPool("free") \in SUBSET PhysicalPages
        BY ConfigAssumption DEF InPool
      <4> QED BY <4>1, FS_Subset, FS_CardinalityType
    <3> QED BY <3>2, <3>3, <3>4, <3>5 DEF ReservationsBacked
  <2>3. ASSUME NEW polled, NEW prefix, NEW request, NEW outcome,
               AdmitDeclined(polled, prefix, request, outcome)
        PROVE  result' # "backend"
    BY <2>3 DEF AdmitDeclined, AdmitDeclines
  <2>4. ASSUME NEW s, NEW request,
               Branch(s, request) \/ BranchFails(s, request) \/ BranchEvictionFails(s, request)
        PROVE  FALSE
    BY <2>4 DEF Branch, BranchFails, BranchEvictionFails, CanBranchFrom
  <2>5. ASSUME NEW s, NEW n, NEW key, NEW outcome, RetainDeclined(s, key, n, outcome)
        PROVE  result' # "backend"
    BY <2>5 DEF RetainDeclined, Unchanged
  <2>6. ~PollFails /\ ~RetireFails /\ \A s : ~FinalizeFails(s)
    BY DEF PollFails, RetireFails, FinalizeFails
  <2>7. CASE \/ \E polled \in SUBSET InPool("deferred") : ReclaimDeferred(polled)
             \/ \E polled \in SUBSET InPool("deferred"), prefix \in Matches, request \in Requests :
                  Admit(polled, prefix, request)
             \/ \E s \in LiveSequences, rows \in Rows :
                  ReserveAppend(s, rows) \/ CommitAppend(s, rows) \/ CommitAppendExhausted(s, rows)
             \/ \E s \in LiveSequences : AbortAppend(s) \/ AbortAppendExhausted(s) \/ Finish(s)
    <3>1. \A polled, prefix, request : Admit(polled, prefix, request) => result' # "backend"
      BY Zenon DEF Admit
    <3>2. \A polled : ReclaimDeferred(polled) => result' # "backend"
      BY Zenon DEF ReclaimDeferred
    <3>3. \A s, rows : ReserveAppend(s, rows) => result' # "backend"
      BY Zenon DEF ReserveAppend
    <3>4. \A s, rows : CommitAppend(s, rows) => result' # "backend"
      BY ZenonT(40) DEF CommitAppend
    <3>5. \A s, rows : CommitAppendExhausted(s, rows) => result' # "backend"
      BY Zenon DEF CommitAppendExhausted
    <3>6. \A s : AbortAppend(s) => result' # "backend"
      BY Zenon DEF AbortAppend
    <3>7. \A s : AbortAppendExhausted(s) => result' # "backend"
      BY Zenon DEF AbortAppendExhausted
    <3>8. \A s : Finish(s) => result' # "backend"
      BY Zenon DEF Finish
    <3> QED BY <2>7, <3>1, <3>2, <3>3, <3>4, <3>5, <3>6, <3>7, <3>8
  <2>8. CASE \/ \E prompt, tail : LookupPrefix(prompt, tail)
             \/ \E s, key : RetainDuplicate(s, key)
             \/ \E s, key, n : RetainPrefix(s, key, n)
             \/ \E id : EvictPrefix(id)
             \/ \E s, request : BranchWouldBlock(s, request)
    BY <2>8 DEF LookupPrefix, RetainDuplicate, RetainPrefix, EvictPrefix, BranchWouldBlock,
                Unchanged
  <2>9. CASE Next
    BY <2>2, <2>3, <2>4, <2>5, <2>6, <2>7, <2>8, <2>9 DEF Next
  <2> QED BY <2>1, <2>9
<1> QED BY <1>1, <1>2, ReservationsCorrect, OwnershipInvariant, PTL DEF Spec

----------------------------------------------------------------------------
(* The statistics that refresh_stats derives. *)

\* The derived statistics are what refresh_stats would make them.
Booked(c) ==
    /\ Balanced(c)
    /\ c.stats.active_sequences = Len(c.sequences) - Len(c.free_sequence_slots)
    /\ c.stats.retained_prefix_entries = Cardinality(DOMAIN c.prefixes)
    /\ c.stats.interned_token_blocks = BlockCount(c.tree)
    /\ c.stats.deferred_retirement_pages = c.deferred_pages
    /\ c.stats.free_pages = FreePages(c.stats.total_managed_bytes,
                                      c.stats.resident_pages + c.stats.reserved_pages)

\* refresh_stats.
LEMMA RefreshBooked ==
    ASSUME NEW x, NEW r, r = RefreshStats(x), DOMAIN r = Fields, r.stats \in Stats
    PROVE  Booked(r)
<1>1. DOMAIN x = Fields
  BY DEF RefreshStats
<1>2. /\ r.pages = x.pages /\ r.free_page_slots = x.free_page_slots
      /\ r.sequences = x.sequences /\ r.free_sequence_slots = x.free_sequence_slots
      /\ r.prefixes = x.prefixes /\ r.tree = x.tree /\ r.deferred_pages = x.deferred_pages
  BY <1>1 DEF RefreshStats, Fields
<1>3. Occupied(r) = Occupied(x)
  BY <1>2 DEF Occupied
<1> DEFINE total == (Occupied(x) + x.stats.reserved_pages) * PageBytes
                      + x.stats.active_private_state_bytes
                      + x.stats.retained_snapshot_bytes + x.stats.page_table_bytes
<1>4. r.stats = [x.stats EXCEPT
          !.resident_pages = Occupied(x),
          !.active_sequences = Len(x.sequences) - Len(x.free_sequence_slots),
          !.retained_prefix_entries = Cardinality(DOMAIN x.prefixes),
          !.interned_token_blocks = BlockCount(x.tree),
          !.deferred_retirement_pages = x.deferred_pages,
          !.total_managed_bytes = total,
          !.free_pages = FreePages(total, Occupied(x) + x.stats.reserved_pages)]
  BY <1>1 DEF RefreshStats, Occupied, Fields
<1> HIDE DEF total
<1>5. DOMAIN x.stats = DOMAIN r.stats
  BY <1>4
<1>6. /\ r.stats.reserved_pages = x.stats.reserved_pages
      /\ r.stats.active_private_state_bytes = x.stats.active_private_state_bytes
      /\ r.stats.retained_snapshot_bytes = x.stats.retained_snapshot_bytes
      /\ r.stats.page_table_bytes = x.stats.page_table_bytes
      /\ r.stats.resident_pages = Occupied(x)
      /\ r.stats.active_sequences = Len(x.sequences) - Len(x.free_sequence_slots)
      /\ r.stats.retained_prefix_entries = Cardinality(DOMAIN x.prefixes)
      /\ r.stats.interned_token_blocks = BlockCount(x.tree)
      /\ r.stats.deferred_retirement_pages = x.deferred_pages
      /\ r.stats.total_managed_bytes = total
      /\ r.stats.free_pages = FreePages(total, Occupied(x) + x.stats.reserved_pages)
  BY <1>4, <1>5 DEF Stats
<1>7. Balanced(r)
  BY <1>3, <1>6 DEF Balanced, total
<1> QED BY <1>2, <1>6, <1>7 DEF Booked

\* A touch changes no arena and no count.
LEMMA TouchBooked ==
    ASSUME NEW c, Sound(c), Booked(c), NEW id, NEW r, r = Touch(c, id)
    PROVE  Booked(r)
<1> DEFINE t == Tick(c)
<1>1. /\ DOMAIN t = Fields
      /\ t.pages = c.pages /\ t.free_page_slots = c.free_page_slots
      /\ t.sequences = c.sequences /\ t.free_sequence_slots = c.free_sequence_slots
      /\ t.tree = c.tree /\ t.deferred_pages = c.deferred_pages /\ t.stats = c.stats
  BY TickFields DEF Sound
<1>2. DOMAIN t.prefixes = DOMAIN c.prefixes
  BY TickPrefixes DEF Sound
<1>3. r = [t EXCEPT !.prefixes[id].last_used = t.clock,
                    !.lru = (@ \ {Stamp(t, id)}) \cup {<<t.clock, id>>}]
  BY DEF Touch
<1> HIDE DEF t
<1>4. /\ r.pages = c.pages /\ r.free_page_slots = c.free_page_slots
      /\ r.sequences = c.sequences /\ r.free_sequence_slots = c.free_sequence_slots
      /\ r.tree = c.tree /\ r.deferred_pages = c.deferred_pages /\ r.stats = c.stats
      /\ DOMAIN r.prefixes = DOMAIN c.prefixes
  BY <1>1, <1>2, <1>3 DEF Fields
<1>5. Balanced(r)
  BY <1>4 DEF Booked, Balanced, Occupied
<1> QED BY <1>4, <1>5 DEF Booked

\* Every step ends in refresh_stats, touches an entry or leaves the manager alone.
LEMMA NextRefreshes ==
    ASSUME PageReuse < MaxGeneration, IInv, Owned(cache), [Next]_vars
    PROVE  \/ \E x : cache' = RefreshStats(x)
           \/ \E id : cache' = Touch(cache, id)
           \/ cache' = cache
<1> DEFINE Done == \/ \E x : cache' = RefreshStats(x)
                   \/ \E id : cache' = Touch(cache, id)
                   \/ cache' = cache
<1> SUFFICES Done
  OBVIOUS
<1>1. ASSUME \/ \E polled \in SUBSET InPool("deferred") : ReclaimDeferred(polled)
             \/ \E polled \in SUBSET InPool("deferred"), prefix \in Matches, request \in Requests,
                   outcome \in {"would_block", "refused", "backend"} :
                  AdmitDeclined(polled, prefix, request, outcome)
      PROVE  Done
  BY <1>1, Zenon DEF ReclaimDeferred, AdmitDeclined, Reclaimed
<1>2. ASSUME NEW polled, NEW prefix, NEW request, Admit(polled, prefix, request) PROVE Done
  BY <1>2, Zenon DEF Admit
<1>3. ASSUME NEW s, NEW rows, ReserveAppend(s, rows) PROVE Done
  BY <1>3, Zenon DEF ReserveAppend
<1>4. ASSUME NEW s, NEW rows, CommitAppend(s, rows) PROVE Done
  BY <1>4, Zenon DEF CommitAppend, Released
<1>5. ASSUME NEW s, AbortAppend(s) PROVE Done
  BY <1>5, Zenon DEF AbortAppend, Released
<1>6. ASSUME NEW prompt, NEW tail, LookupPrefix(prompt, tail) PROVE Done
  BY <1>6, Zenon DEF LookupPrefix
<1>7. ASSUME NEW s, NEW key, RetainDuplicate(s, key) PROVE Done
  BY <1>7, Zenon DEF RetainDuplicate
<1>8. ASSUME NEW s, NEW key, NEW n, RetainPrefix(s, key, n) PROVE Done
  <2>1. \E e : cache' = InsertEntry(e, s, key, n)
    BY <1>8, Zenon DEF RetainPrefix
  <2> QED BY <2>1, Zenon DEF InsertEntry
<1>9. ASSUME NEW id, EvictPrefix(id) PROVE Done
  <2>1. \E slots, later : cache' = CommitEvictions(cache, {id}, slots, later)
    BY <1>9, Zenon DEF EvictPrefix
  <2> QED BY <2>1, Zenon DEF CommitEvictions
<1>10. ASSUME NEW s, NEW request, Branch(s, request) PROVE Done
  BY <1>10, Zenon DEF Branch
<1>11. ASSUME NEW s, Finish(s) PROVE Done
  BY <1>11, Zenon DEF Finish
<1>12. CASE \/ PollFails
            \/ \E s \in LiveSequences : FinalizeFails(s)
            \/ \E s \in LiveSequences, n \in SnapshotSizes, outcome \in {"refused", "backend"} :
                 \E key \in KeysFor(s) : RetainDeclined(s, key, n, outcome)
            \/ \E s \in LiveSequences, rows \in Rows : ReserveAppendFails(s, rows)
            \/ \E s \in LiveSequences, request \in Requests :
                 \/ BranchWouldBlock(s, request)
                 \/ BranchFails(s, request)
                 \/ BranchEvictionFails(s, request)
            \/ RetireFails
  <2>1. cache' = cache
    BY <1>12 DEF PollFails, FinalizeFails, RetainDeclined, ReserveAppendFails, BranchWouldBlock,
                 BranchFails, BranchEvictionFails, RetireFails, Unchanged
  <2> QED BY <2>1
<1>13. /\ ~\E s \in LiveSequences : AbortAppendExhausted(s)
       /\ ~\E s \in LiveSequences, rows \in Rows : CommitAppendExhausted(s, rows)
  BY NeverStops
<1>14. CASE UNCHANGED vars
  BY <1>14 DEF vars
<1>15. CASE Next
  <2> HIDE DEF Done
  <2> QED BY <1>1, <1>2, <1>3, <1>4, <1>5, <1>6, <1>7, <1>8, <1>9, <1>10, <1>11, <1>12, <1>13,
             <1>15 DEF Next
<1> QED BY <1>14, <1>15

\* In every state, for every configuration in which no page slot is used to its last
\* generation, the statistics that refresh_stats derives are those of the arenas, the
\* entries and the index as they are: no operation forgets to refresh them (refresh_stats
\* and its callers).
THEOREM DerivedStatsCorrect ==
    ASSUME PageReuse < MaxGeneration
    PROVE  Spec => []Booked(cache)
<1>1. Init => Booked(cache)
  <2> SUFFICES ASSUME Init PROVE Booked(cache)
    OBVIOUS
  <2>1. \E x : cache = RefreshStats(x)
    BY Zenon DEF Init, EmptyCache
  <2>2. Sound(cache)
    BY InitIInv DEF IInv
  <2> QED BY <2>1, <2>2, RefreshBooked DEF Sound
<1>2. /\ Booked(cache) /\ (IInv /\ Owned(cache)) /\ (IInv /\ Owned(cache))' /\ [Next]_vars
      => Booked(cache)'
  <2> SUFFICES ASSUME Booked(cache), IInv, Owned(cache), IInv', [Next]_vars
               PROVE  Booked(cache')
    OBVIOUS
  <2>1. Sound(cache) /\ Sound(cache')
    BY DEF IInv, Sound
  <2>2. ASSUME NEW x, cache' = RefreshStats(x) PROVE Booked(cache')
    BY <2>1, <2>2, RefreshBooked DEF Sound
  <2>3. ASSUME NEW id, cache' = Touch(cache, id) PROVE Booked(cache')
    BY <2>1, <2>3, TouchBooked
  <2> QED BY <2>2, <2>3, NextRefreshes
<1> QED BY <1>1, <1>2, OwnershipInvariant, PTL DEF Spec

----------------------------------------------------------------------------
(* Failed calls. *)

\* What a failed call must leave as it was.
Untouched ==
    /\ Ownership(cache') = Ownership(cache)
    /\ tables' = tables
    /\ InPool("held")' = InPool("held")

\* Taking the charge for d pages out of the bytes of n + d.
LEMMA Uncharged ==
    ASSUME NEW n \in Int, NEW d \in Int, NEW k \in Int, NEW rest \in Int
    PROVE  ((n + d + k) * PageBytes + rest) - d * PageBytes = (n + k) * PageBytes + rest
BY ConfigAssumption

\* What the manager is charged without the pages behind a fence.
Settled(c) ==
    /\ c.stats.resident_pages - c.deferred_pages = Len(c.pages) - Len(c.free_page_slots)
    /\ c.stats.total_managed_bytes - c.deferred_pages * PageBytes =
         (Len(c.pages) - Len(c.free_page_slots) + c.stats.reserved_pages) * PageBytes
           + (c.stats.active_private_state_bytes + c.stats.retained_snapshot_bytes
                + c.stats.page_table_bytes)

\* It does not depend on how many those are.
LEMMA BookedSettled ==
    ASSUME NEW c, Sound(c), Balanced(c)
    PROVE  Settled(c)
<1> DEFINE n == Len(c.pages) - Len(c.free_page_slots)
           k == c.stats.reserved_pages
           rest == c.stats.active_private_state_bytes + c.stats.retained_snapshot_bytes
                     + c.stats.page_table_bytes
<1>1. /\ c.stats.reserved_pages \in Int /\ c.stats.active_private_state_bytes \in Int
      /\ c.stats.retained_snapshot_bytes \in Int /\ c.stats.page_table_bytes \in Int
  BY DEF Sound, Stats
<1>2. n \in Int /\ c.deferred_pages \in Int
  BY DEF Sound, PagesOK
<1>3. /\ c.stats.resident_pages = n + c.deferred_pages
      /\ c.stats.total_managed_bytes = (n + c.deferred_pages + k) * PageBytes
           + c.stats.active_private_state_bytes + c.stats.retained_snapshot_bytes
           + c.stats.page_table_bytes
  BY DEF Balanced, Occupied
<1>4. k \in Int /\ rest \in Int /\ PageBytes \in Int
  BY <1>1, ConfigAssumption
<1>5. ASSUME NEW a \in Int, NEW u \in Int, NEW v \in Int, NEW w \in Int
      PROVE  a + u + v + w = a + (u + v + w)
  OBVIOUS
<1>6. ASSUME NEW a \in Int, NEW b \in Int
      PROVE  (a + b) - b = a /\ a + b \in Int /\ a * b \in Int
  OBVIOUS
<1> HIDE DEF n, k
<1>7. (n + c.deferred_pages + k) * PageBytes \in Int
  BY <1>2, <1>4, <1>6
<1>8. c.stats.total_managed_bytes = (n + c.deferred_pages + k) * PageBytes + rest
  BY <1>1, <1>3, <1>5, <1>7
<1> HIDE DEF rest
<1>9. ((n + c.deferred_pages + k) * PageBytes + rest) - c.deferred_pages * PageBytes
        = (n + k) * PageBytes + rest
  BY <1>2, <1>4, Uncharged
<1>10. c.stats.resident_pages - c.deferred_pages = n
  BY <1>2, <1>3, <1>6
<1>11. c.stats.total_managed_bytes - c.deferred_pages * PageBytes = (n + k) * PageBytes + rest
  BY <1>8, <1>9
<1> QED BY <1>10, <1>11 DEF Settled, n, k, rest

\* Two records with the same of everything but the pages behind a fence, their charge and
\* the free pages have the same Ownership.
LEMMA SameOwnership ==
    ASSUME NEW c, Sound(c), Settled(c), NEW r, Sound(r), Settled(r),
           r.pages = c.pages, r.free_page_slots = c.free_page_slots,
           r.sequences = c.sequences, r.free_sequence_slots = c.free_sequence_slots,
           r.prefixes = c.prefixes, r.lru = c.lru, r.tree = c.tree,
           r.next_prefix_id = c.next_prefix_id, r.clock = c.clock,
           r.stats.active_sequences = c.stats.active_sequences,
           r.stats.retained_prefix_entries = c.stats.retained_prefix_entries,
           r.stats.interned_token_blocks = c.stats.interned_token_blocks,
           r.stats.reserved_pages = c.stats.reserved_pages,
           r.stats.active_private_state_bytes = c.stats.active_private_state_bytes,
           r.stats.retained_snapshot_bytes = c.stats.retained_snapshot_bytes,
           r.stats.page_table_bytes = c.stats.page_table_bytes,
           r.stats.reclaimable_prefix_only_bytes = c.stats.reclaimable_prefix_only_bytes
    PROVE  Ownership(r) = Ownership(c)
<1> DEFINE Charges(x) == [x.stats EXCEPT
                 !.deferred_retirement_pages = 0,
                 !.resident_pages = @ - x.deferred_pages,
                 !.total_managed_bytes = @ - x.deferred_pages * PageBytes,
                 !.free_pages = 0]
<1>1. DOMAIN c = Fields /\ DOMAIN r = Fields /\ c.stats \in Stats /\ r.stats \in Stats
  BY DEF Sound
<1>2. /\ r.stats.resident_pages - r.deferred_pages = c.stats.resident_pages - c.deferred_pages
      /\ r.stats.total_managed_bytes - r.deferred_pages * PageBytes
           = c.stats.total_managed_bytes - c.deferred_pages * PageBytes
  BY DEF Settled
<1>3. Charges(r) = Charges(c)
  <2>1. DOMAIN Charges(r) = DOMAIN Charges(c)
    BY <1>1 DEF Stats
  <2>2. \A f \in DOMAIN c.stats : Charges(r)[f] = Charges(c)[f]
    BY <1>1, <1>2 DEF Stats
  <2> QED BY <1>1, <2>1, <2>2 DEF Stats
<1> HIDE DEF Charges
<1>4. /\ Ownership(r) = [r EXCEPT !.deferred_pages = 0, !.stats = Charges(r)]
      /\ Ownership(c) = [c EXCEPT !.deferred_pages = 0, !.stats = Charges(c)]
  BY DEF Ownership, Charges
<1>5. /\ DOMAIN Ownership(r) = Fields /\ DOMAIN Ownership(c) = Fields
      /\ \A f \in Fields : Ownership(r)[f] = Ownership(c)[f]
  BY <1>1, <1>3, <1>4 DEF Fields
<1> QED BY <1>4, <1>5

\* Of the manager's record, the poll at the start of admit changes what Ownership leaves out.
LEMMA PolledOwnership ==
    ASSUME IInv, Booked(cache), NEW polled \in SUBSET InPool("deferred"),
           cache.deferred_pages - Cardinality(polled) \in Nat
    PROVE  Ownership(Reclaimed(polled)) = Ownership(cache)
<1> DEFINE x == [cache EXCEPT !.deferred_pages = @ - Cardinality(polled)]
           r == Reclaimed(polled)
<1>1. /\ DOMAIN x = Fields /\ x.stats \in Stats /\ x.stats = cache.stats
      /\ x.pages = cache.pages /\ x.sequences = cache.sequences /\ x.prefixes = cache.prefixes
      /\ x.lru = cache.lru /\ x.tree = cache.tree /\ x.free_page_slots = cache.free_page_slots
      /\ x.free_sequence_slots = cache.free_sequence_slots
      /\ x.next_prefix_id = cache.next_prefix_id /\ x.clock = cache.clock
  BY DEF IInv, Sound, Fields
<1>2. r = RefreshStats(x) /\ Sound(r) /\ Sound(cache)
  BY PolledParts DEF Reclaimed, IInv
<1> HIDE DEF x, r
<1>3. /\ r.pages = x.pages /\ r.sequences = x.sequences /\ r.prefixes = x.prefixes
      /\ r.lru = x.lru /\ r.tree = x.tree /\ r.free_page_slots = x.free_page_slots
      /\ r.free_sequence_slots = x.free_sequence_slots
      /\ r.next_prefix_id = x.next_prefix_id /\ r.clock = x.clock
      /\ r.stats.reserved_pages = x.stats.reserved_pages
      /\ r.stats.active_private_state_bytes = x.stats.active_private_state_bytes
      /\ r.stats.retained_snapshot_bytes = x.stats.retained_snapshot_bytes
      /\ r.stats.page_table_bytes = x.stats.page_table_bytes
      /\ r.stats.reclaimable_prefix_only_bytes = x.stats.reclaimable_prefix_only_bytes
  BY <1>1, <1>2, RefreshFields
<1>4. Booked(r)
  BY <1>2, RefreshBooked DEF Sound
<1>5. /\ r.stats.active_sequences = cache.stats.active_sequences
      /\ r.stats.retained_prefix_entries = cache.stats.retained_prefix_entries
      /\ r.stats.interned_token_blocks = cache.stats.interned_token_blocks
  BY <1>1, <1>3, <1>4 DEF Booked
<1>6. Settled(r) /\ Settled(cache)
  BY <1>2, <1>4, BookedSettled DEF Booked
<1>7. Ownership(r) = Ownership(cache)
  BY <1>1, <1>2, <1>3, <1>5, <1>6, SameOwnership
<1> QED BY <1>7 DEF r

\* Storage that comes back from a fence was not handed out.
LEMMA PolledHeld ==
    ASSUME IInv, NEW polled \in SUBSET InPool("deferred"), pool' = Moved(pool, polled, "free")
    PROVE  InPool("held")' = InPool("held")
<1>1. \A x \in PhysicalPages : pool'[x] = "held" <=> pool[x] = "held"
  BY DEF InPool, Moved
<1> QED BY <1>1 DEF InPool

\* A rollback puts the storage back that the failed call took.
LEMMA RollbackHeld ==
    ASSUME NEW taken \in SUBSET InPool("free"),
           pool' = RollbackPages(Moved(pool, taken, "held"), taken)
    PROVE  InPool("held")' = InPool("held")
<1>1. \A x \in PhysicalPages : pool'[x] = pool[x]
  BY RolledBack
<1> QED BY <1>1 DEF InPool

\* A step that reports an error or WouldBlock changes nothing a caller can observe.
LEMMA NextAtomic ==
    ASSUME PageReuse < MaxGeneration, ~CanBranch, IInv, Owned(cache), Booked(cache), [Next]_vars,
           result' \notin {"ok", "assert"}
    PROVE  Untouched \/ UNCHANGED vars
<1> DEFINE Kept == Untouched \/ UNCHANGED vars
<1> SUFFICES Kept
  OBVIOUS
<1>1. ASSUME UNCHANGED <<cache, pool, tables>> PROVE Kept
  BY <1>1 DEF Untouched, InPool
<1>2. ASSUME NEW polled \in SUBSET InPool("deferred"), NEW prefix, NEW request, NEW outcome,
             AdmitDeclined(polled, prefix, request, outcome)
      PROVE  Kept
  <2>1. /\ cache.deferred_pages - Cardinality(polled) \in Nat
        /\ cache' = Reclaimed(polled) /\ pool' = Moved(pool, polled, "free") /\ UNCHANGED tables
    BY <1>2 DEF AdmitDeclined
  <2>2. Ownership(cache') = Ownership(cache)
    BY <2>1, PolledOwnership
  <2>3. InPool("held")' = InPool("held")
    BY <2>1, PolledHeld
  <2> QED BY <2>1, <2>2, <2>3 DEF Untouched
<1>3. ASSUME NEW s, NEW rows, ReserveAppendFails(s, rows) PROVE Kept
  <2>1. PICK taken \in SUBSET InPool("free") :
          pool' = RollbackPages(Moved(pool, taken, "held"), taken) /\ UNCHANGED <<cache, tables>>
    BY <1>3 DEF ReserveAppendFails
  <2>2. InPool("held")' = InPool("held")
    BY <2>1, RollbackHeld
  <2> QED BY <2>1, <2>2 DEF Untouched
<1>4. CASE \/ PollFails
           \/ \E s \in LiveSequences : FinalizeFails(s)
           \/ \E s \in LiveSequences, n \in SnapshotSizes, outcome \in {"refused", "backend"} :
                \E key \in KeysFor(s) : RetainDeclined(s, key, n, outcome)
           \/ \E s \in LiveSequences, request \in Requests : BranchWouldBlock(s, request)
           \/ RetireFails
  <2>1. UNCHANGED <<cache, pool, tables>>
    BY <1>4 DEF PollFails, FinalizeFails, RetainDeclined, BranchWouldBlock, RetireFails, Unchanged
  <2> QED BY <1>1, <2>1
<1>5. ~\E s \in LiveSequences, request \in Requests :
         \/ Branch(s, request) \/ BranchFails(s, request) \/ BranchEvictionFails(s, request)
  BY DEF Branch, BranchFails, BranchEvictionFails, CanBranchFrom
<1>6. /\ ~\E s \in LiveSequences : AbortAppendExhausted(s)
      /\ ~\E s \in LiveSequences, rows \in Rows : CommitAppendExhausted(s, rows)
  BY NeverStops
<1>7. ASSUME \/ \E polled \in SUBSET InPool("deferred") : ReclaimDeferred(polled)
             \/ \E polled \in SUBSET InPool("deferred"), prefix \in Matches,
                   request \in Requests : Admit(polled, prefix, request)
             \/ \E s \in LiveSequences, rows \in Rows :
                  ReserveAppend(s, rows) \/ CommitAppend(s, rows)
             \/ \E s \in LiveSequences : AbortAppend(s) \/ Finish(s)
             \/ \E prompt \in PromptBlocks, tail \in 0..(PageTokens - 1) :
                  LookupPrefix(prompt, tail)
             \/ \E s \in LiveSequences : \E key \in KeysFor(s) : RetainDuplicate(s, key)
             \/ \E s \in LiveSequences, n \in SnapshotSizes : \E key \in KeysFor(s) :
                  RetainPrefix(s, key, n)
             \/ \E id \in DOMAIN cache.prefixes : EvictPrefix(id)
      PROVE  result' = "ok"
  BY <1>7, ZenonT(60) DEF ReclaimDeferred, Admit, ReserveAppend, CommitAppend, AbortAppend, Finish,
              LookupPrefix, RetainDuplicate, RetainPrefix, EvictPrefix
<1>8. CASE UNCHANGED vars
  BY <1>8
<1>9. CASE Next
  <2> HIDE DEF Kept
  <2> QED BY <1>2, <1>3, <1>4, <1>5, <1>6, <1>7, <1>9 DEF Next
<1> QED BY <1>8, <1>9

\* For every configuration without branching in which no page slot is used to its last
\* generation, a call that reports an error or WouldBlock leaves the manager, but for pages
\* polled from behind a fence and their charge, the published tables and the storage handed
\* out as they were, whatever the backend refused and wherever it refused it (error.rs;
\* admit, reserve_append, commit_append, abort_append, retain_prefix, evict_prefix, finish).
THEOREM FailureCorrect ==
    ASSUME PageReuse < MaxGeneration, ~CanBranch
    PROVE  Spec => FailureAtomic
<1>1. IInv /\ Owned(cache) /\ Booked(cache) /\ [Next]_vars =>
        [result' \notin {"ok", "assert"} =>
           /\ Ownership(cache') = Ownership(cache)
           /\ tables' = tables
           /\ InPool("held")' = InPool("held")]_vars
  BY NextAtomic DEF Untouched
<1> QED BY <1>1, OwnershipInvariant, DerivedStatsCorrect, PTL DEF Spec, FailureAtomic

====
