------------------------ MODULE SequenceCacheProofs ------------------------
(***************************************************************************)
(* Proofs about SequenceCache, for every configuration: types, the free    *)
(* lists of both arenas and the capacity limits.                           *)
(*                                                                         *)
(* The three are one induction.  The limits hold only if no page count is  *)
(* wrong, the counts are slots minus free slots, and so need exact free    *)
(* lists; those need that no pending append names a slot twice; and the    *)
(* types of the counts (never below zero) need both.  IInv is their        *)
(* conjunction: Sound(cache) for arenas and types, Ledger(cache) for       *)
(* capacity.  The lemmas go from the operators of CacheState upward; each  *)
(* action has one lemma named <Action>IInv.                                *)
(***************************************************************************)
EXTENDS SequenceCache, FiniteSetTheorems, WellFoundedInduction, TLAPS

----------------------------------------------------------------------------
(* The inductive invariant: arenas and types. *)

\* The fields of the manager's record.
Fields ==
    {"pages", "free_page_slots", "sequences", "free_sequence_slots", "prefixes",
     "lru", "tree", "next_prefix_id", "clock", "deferred_pages", "stats"}

\* The page arena is typed and its free list exact.
PagesOK(pages, free) ==
    pages \in Seq(PageSlot) /\ free \in Seq(Nat) /\ FreeList(pages, free)

\* The same of the sequence arena; and no pending append names a slot twice, without
\* which a commit or an abort could push one slot on the free list twice.
SequencesOK(sequences, free) ==
    /\ sequences \in Seq(SequenceSlot) /\ free \in Seq(Nat) /\ FreeList(sequences, free)
    /\ \A s \in DOMAIN sequences : IsInjective(Slots(sequences[s].pending.new_pages))

\* The retained entries are typed, and the LRU set names only entries that exist.
PrefixesOK(prefixes, lru) ==
    /\ IsFiniteSet(DOMAIN prefixes) /\ DOMAIN prefixes \subseteq Nat
    /\ \A id \in DOMAIN prefixes : prefixes[id] \in PrefixEntry
    /\ lru \subseteq Nat \X Nat
    /\ \A e \in lru : e[2] \in DOMAIN prefixes

\* The prefix index is a finite map from sequences of blocks.
TreeOK(tree) == IsFiniteSet(DOMAIN tree) /\ DOMAIN tree \subseteq Seq(Blocks)

\* The part of the inductive invariant that is about the arenas and types of one
\* manager record.
Sound(c) ==
    /\ DOMAIN c = Fields
    /\ PagesOK(c.pages, c.free_page_slots)
    /\ SequencesOK(c.sequences, c.free_sequence_slots)
    /\ PrefixesOK(c.prefixes, c.lru)
    /\ TreeOK(c.tree)
    /\ c.next_prefix_id \in Nat /\ c.clock \in Nat /\ c.deferred_pages \in Nat
    /\ c.stats \in Stats

\* What refresh_stats takes for the resident pages: slots in use, and pages waiting
\* for a fence.
Occupied(c) == Len(c.pages) - Len(c.free_page_slots) + c.deferred_pages

----------------------------------------------------------------------------
(* Sequences, numbers, free lists. *)

\* What membership in Seq(S) gives: a length, a domain and the elements.
LEMMA SeqParts ==
    ASSUME NEW S, NEW q \in Seq(S)
    PROVE  Len(q) \in Nat /\ DOMAIN q = 1..Len(q) /\ \A i \in 1..Len(q) : q[i] \in S
OBVIOUS

\* A function on 1..n is a sequence of length n.
LEMMA SeqBuilt ==
    ASSUME NEW S, NEW n \in Nat, NEW q \in [1..n -> S]
    PROVE  q \in Seq(S) /\ Len(q) = n /\ DOMAIN q = 1..n
OBVIOUS

\* A free list, as facts about the indices of the list.
LEMMA FreeListParts ==
    ASSUME NEW arena, NEW free \in Seq(Nat), FreeList(arena, free)
    PROVE  /\ \A a, b \in 1..Len(free) : free[a] = free[b] => a = b
           /\ \A i \in 1..Len(free) : free[i] \in DOMAIN arena /\ ~arena[free[i]].live
           /\ \A s \in DOMAIN arena : arena[s].live \/ \E i \in 1..Len(free) : free[i] = s
<1>1. DOMAIN free = 1..Len(free)
  OBVIOUS
<1> QED BY <1>1 DEF FreeList, IsInjective

\* A byte or page total built by addition stays a natural number.
LEMMA SumNat == ASSUME NEW a \in Nat, NEW b \in Nat PROVE a + b \in Nat
OBVIOUS

\* The size of an interval from 1.
LEMMA OneToN == ASSUME NEW n \in Nat PROVE IsFiniteSet(1..n) /\ Cardinality(1..n) = n
BY FS_Interval

\* A free list is no longer than its arena, so the subtraction in refresh_stats never
\* underflows.
LEMMA FreeListShorter ==
    ASSUME NEW S, NEW arena \in Seq(S), NEW free \in Seq(Nat), FreeList(arena, free)
    PROVE  Len(free) <= Len(arena)
<1>1. free \in [1..Len(free) -> 1..Len(arena)]
  BY DEF FreeList
<1>2. \A a, b \in 1..Len(free) : free[a] = free[b] => a = b
  BY <1>1 DEF FreeList, IsInjective
<1>3. IsFiniteSet(1..Len(arena)) /\ Cardinality(1..Len(arena)) = Len(arena)
  BY OneToN
<1>4. IsFiniteSet(1..Len(free)) /\ Cardinality(1..Len(free)) = Len(free)
  BY OneToN
<1>5. SUFFICES ASSUME Len(free) > Len(arena) PROVE FALSE
  OBVIOUS
<1>6. \E x, y \in 1..Len(free) : x # y /\ free[x] = free[y]
  BY <1>1, <1>3, <1>4, <1>5, FS_PigeonHole
<1> QED BY <1>2, <1>6

\* The number of interned blocks is a natural number: the index is finite.
LEMMA BlockCountNat == ASSUME NEW tree, TreeOK(tree) PROVE BlockCount(tree) \in Nat
<1> DEFINE K == DOMAIN tree
           U == {Range(key) : key \in K}
<1>1. IsFiniteSet(U)
  <2> DEFINE f == [key \in K |-> Range(key)]
  <2>1. \A y \in U : \E x \in K : f[x] = y
    OBVIOUS
  <2>2. f \in [K -> U]
    OBVIOUS
  <2>3. f \in Surjection(K, U)
    BY <2>1, <2>2 DEF Surjection
  <2> QED BY <2>3, FS_Surjection DEF TreeOK
<1>2. \A T \in U : IsFiniteSet(T)
  <2> TAKE T \in U
  <2>1. PICK key \in K : T = Range(key)
    OBVIOUS
  <2>2. key \in Seq(Blocks)
    BY DEF TreeOK
  <2>3. IsFiniteSet(1..Len(key)) BY <2>2, FS_Interval
  <2>4. key \in Surjection(1..Len(key), T)
    BY <2>1, <2>2 DEF Range, Surjection
  <2> QED BY <2>3, <2>4, FS_Surjection
<1>3. IsFiniteSet(UNION U)
  BY <1>1, <1>2, FS_UNION
<1> QED BY <1>3, FS_CardinalityType DEF BlockCount

\* Products of naturals.
LEMMA TimesNat == ASSUME NEW a \in Nat, NEW b \in Nat PROVE a * b \in Nat
OBVIOUS

\* saturating_sub, and the division by page_bytes that follows it in refresh_stats.
LEMMA MonusNat ==
    ASSUME NEW a \in Nat, NEW b \in Nat
    PROVE  Monus(a, b) \in Nat /\ Monus(a, b) \div PageBytes \in Nat
<1>1. Monus(a, b) \in Nat
  BY DEF Monus
<1> QED BY <1>1, ConfigAssumption

\* Both subtractions of refresh_stats, of free slots from slots, stay in Nat.
LEMMA OccupiedNat ==
    ASSUME NEW c, Sound(c)
    PROVE  /\ Occupied(c) \in Nat
           /\ Len(c.sequences) - Len(c.free_sequence_slots) \in Nat
<1>1. Len(c.free_page_slots) <= Len(c.pages)
  BY FreeListShorter DEF Sound, PagesOK
<1>2. Len(c.free_sequence_slots) <= Len(c.sequences)
  BY FreeListShorter DEF Sound, SequencesOK
<1>3. /\ Len(c.pages) \in Nat /\ Len(c.free_page_slots) \in Nat /\ c.deferred_pages \in Nat
      /\ Len(c.sequences) \in Nat /\ Len(c.free_sequence_slots) \in Nat
  BY DEF Sound, PagesOK, SequencesOK
<1>4. Occupied(c) \in Nat
  <2>1. \A a, b, d \in Nat : b <= a => a - b + d \in Nat
    OBVIOUS
  <2> QED BY <2>1, <1>1, <1>3 DEF Occupied
<1>5. Len(c.sequences) - Len(c.free_sequence_slots) \in Nat
  BY <1>2, <1>3
<1> QED BY <1>4, <1>5

----------------------------------------------------------------------------
(* refresh_stats. *)

\* refresh_stats changes nothing but the statistics, and of those only the derived
\* ones.
LEMMA RefreshFields ==
    ASSUME NEW c, DOMAIN c = Fields, c.stats \in Stats
    PROVE  LET r == RefreshStats(c)
           IN  /\ DOMAIN r = Fields
               /\ r.pages = c.pages /\ r.free_page_slots = c.free_page_slots
               /\ r.sequences = c.sequences /\ r.free_sequence_slots = c.free_sequence_slots
               /\ r.prefixes = c.prefixes /\ r.lru = c.lru /\ r.tree = c.tree
               /\ r.next_prefix_id = c.next_prefix_id /\ r.clock = c.clock
               /\ r.deferred_pages = c.deferred_pages
               /\ DOMAIN r.stats = DOMAIN c.stats
               /\ r.stats.resident_pages = Occupied(c)
               /\ r.stats.reserved_pages = c.stats.reserved_pages
               /\ r.stats.active_private_state_bytes = c.stats.active_private_state_bytes
               /\ r.stats.retained_snapshot_bytes = c.stats.retained_snapshot_bytes
               /\ r.stats.page_table_bytes = c.stats.page_table_bytes
               /\ r.stats.reclaimable_prefix_only_bytes = c.stats.reclaimable_prefix_only_bytes
               /\ r.stats.total_managed_bytes =
                    (Occupied(c) + c.stats.reserved_pages) * PageBytes
                      + c.stats.active_private_state_bytes
                      + c.stats.retained_snapshot_bytes + c.stats.page_table_bytes
BY DEF Fields, RefreshStats, Stats, Occupied

\* refresh_stats keeps the manager sound.
LEMMA RefreshSound ==
    ASSUME NEW c, Sound(c)
    PROVE  Sound(RefreshStats(c))
<1> DEFINE r == RefreshStats(c)
           total == (Occupied(c) + c.stats.reserved_pages) * PageBytes
                      + c.stats.active_private_state_bytes
                      + c.stats.retained_snapshot_bytes + c.stats.page_table_bytes
           free == FreePages(total, Occupied(c) + c.stats.reserved_pages)
<1>1. DOMAIN c = Fields /\ c.stats \in Stats
  BY DEF Sound
<1>2. Occupied(c) \in Nat /\ Len(c.sequences) - Len(c.free_sequence_slots) \in Nat
  BY OccupiedNat
<1>3. BlockCount(c.tree) \in Nat
  BY BlockCountNat DEF Sound
<1>4. Cardinality(DOMAIN c.prefixes) \in Nat
  BY FS_CardinalityType DEF Sound, PrefixesOK
<1>d. Occupied(c) + c.stats.reserved_pages \in Nat
  <2>1. c.stats.reserved_pages \in Nat
    BY <1>1 DEF Stats
  <2> QED BY <2>1, <1>2, SumNat
<1>5. total \in Nat
  <2>1. Occupied(c) + c.stats.reserved_pages \in Nat
    BY <1>d
  <2>2. (Occupied(c) + c.stats.reserved_pages) * PageBytes \in Nat
    BY <2>1, TimesNat, ConfigAssumption
  <2> QED BY <2>2, <1>1 DEF Stats
<1>6. free \in Nat
  <2> HIDE DEF total
  <2>1. Occupied(c) + c.stats.reserved_pages \in Nat
    BY <1>d
  <2>2. Monus(MaxManagedBytes, total) \div PageBytes \in Nat
    BY <1>5, MonusNat, ConfigAssumption
  <2>3. Monus(PageCapacity, Occupied(c) + c.stats.reserved_pages) \in Nat
    BY <2>1, MonusNat, ConfigAssumption
  <2> QED BY <2>2, <2>3 DEF FreePages
<1>7. r.stats \in Stats
  <2> HIDE DEF total, free
  <2>1. r.stats =
          [active_sequences |-> Len(c.sequences) - Len(c.free_sequence_slots),
           retained_prefix_entries |-> Cardinality(DOMAIN c.prefixes),
           interned_token_blocks |-> BlockCount(c.tree),
           resident_pages |-> Occupied(c),
           free_pages |-> free,
           reserved_pages |-> c.stats.reserved_pages,
           deferred_retirement_pages |-> c.deferred_pages,
           active_private_state_bytes |-> c.stats.active_private_state_bytes,
           retained_snapshot_bytes |-> c.stats.retained_snapshot_bytes,
           page_table_bytes |-> c.stats.page_table_bytes,
           reclaimable_prefix_only_bytes |-> c.stats.reclaimable_prefix_only_bytes,
           total_managed_bytes |-> total]
    BY <1>1 DEF RefreshStats, Occupied, Fields, Stats, total, free
  <2>2. c.deferred_pages \in Nat
    BY DEF Sound
  <2> QED BY <2>1, <2>2, <1>1, <1>2, <1>3, <1>4, <1>5, <1>6 DEF Stats
<1> HIDE DEF r
<1> QED BY <1>1, <1>7, RefreshFields DEF Sound, r

\* The statistics right after refresh_stats: resident pages and total are derived from
\* the rest.
Balanced(c) ==
    /\ c.stats.resident_pages = Occupied(c)
    /\ c.stats.total_managed_bytes =
         (Occupied(c) + c.stats.reserved_pages) * PageBytes
           + c.stats.active_private_state_bytes
           + c.stats.retained_snapshot_bytes + c.stats.page_table_bytes

\* What a refresh establishes and what it preserves, in one statement.
LEMMA Refreshed ==
    ASSUME NEW c, Sound(c)
    PROVE  LET r == RefreshStats(c)
           IN  /\ Sound(r) /\ Balanced(r) /\ r.sequences = c.sequences /\ r.prefixes = c.prefixes
               /\ Occupied(r) = Occupied(c)
               /\ r.stats.reserved_pages = c.stats.reserved_pages
               /\ r.stats.active_private_state_bytes = c.stats.active_private_state_bytes
               /\ r.stats.page_table_bytes = c.stats.page_table_bytes
               /\ r.stats.retained_snapshot_bytes = c.stats.retained_snapshot_bytes
<1> DEFINE r == RefreshStats(c)
<1>1. DOMAIN c = Fields /\ c.stats \in Stats
  BY DEF Sound
<1>2. /\ r.pages = c.pages /\ r.free_page_slots = c.free_page_slots
      /\ r.sequences = c.sequences /\ r.prefixes = c.prefixes
      /\ r.deferred_pages = c.deferred_pages
      /\ r.stats.resident_pages = Occupied(c)
      /\ r.stats.reserved_pages = c.stats.reserved_pages
      /\ r.stats.active_private_state_bytes = c.stats.active_private_state_bytes
      /\ r.stats.retained_snapshot_bytes = c.stats.retained_snapshot_bytes
      /\ r.stats.page_table_bytes = c.stats.page_table_bytes
      /\ r.stats.total_managed_bytes =
           (Occupied(c) + c.stats.reserved_pages) * PageBytes
             + c.stats.active_private_state_bytes
             + c.stats.retained_snapshot_bytes + c.stats.page_table_bytes
  BY <1>1, RefreshFields
<1>3. Sound(r)
  BY RefreshSound
<1> HIDE DEF r
<1>4. Occupied(r) = Occupied(c)
  BY <1>2 DEF Occupied
<1>5. Balanced(r)
  BY <1>2, <1>4 DEF Balanced
<1> QED BY <1>2, <1>3, <1>4, <1>5 DEF r

----------------------------------------------------------------------------
(* The page arena. *)

\* remove_page for a list of slots, field by field.
LEMMA RemoveFields ==
    ASSUME NEW c, DOMAIN c = Fields, NEW slots
    PROVE  LET r == RemovePages(c, slots)
           IN  /\ DOMAIN r = Fields
               /\ r.pages = [s \in DOMAIN c.pages |->
                    IF s \in Range(slots) THEN VacantPage(c.pages[s].generation + 1)
                    ELSE c.pages[s]]
               /\ r.free_page_slots = c.free_page_slots \o slots
               /\ r.sequences = c.sequences /\ r.free_sequence_slots = c.free_sequence_slots
               /\ r.prefixes = c.prefixes /\ r.lru = c.lru /\ r.tree = c.tree
               /\ r.next_prefix_id = c.next_prefix_id /\ r.clock = c.clock
               /\ r.deferred_pages = c.deferred_pages /\ r.stats = c.stats
BY DEF Fields, RemovePages

\* A vacated page slot is typed and not live.
LEMMA VacantPageType == ASSUME NEW g \in Nat PROVE VacantPage(g) \in PageSlot /\ ~VacantPage(g).live
BY ConfigAssumption DEF VacantPage, PageSlot

\* remove_page for distinct live slots keeps the free list exact and lengthens it by
\* their number.
LEMMA RemoveArena ==
    ASSUME NEW c, DOMAIN c = Fields, PagesOK(c.pages, c.free_page_slots),
           NEW slots \in Seq(Nat), IsInjective(slots),
           \A i \in DOMAIN slots : slots[i] \in DOMAIN c.pages /\ c.pages[slots[i]].live
    PROVE  LET r == RemovePages(c, slots)
           IN  /\ PagesOK(r.pages, r.free_page_slots)
               /\ Len(r.pages) = Len(c.pages)
               /\ Len(r.free_page_slots) = Len(c.free_page_slots) + Len(slots)
<1> DEFINE pages == c.pages
           free == c.free_page_slots
           r == RemovePages(c, slots)
           after == r.pages
           list == r.free_page_slots
<1>0. /\ after = [s \in DOMAIN pages |->
             IF s \in Range(slots) THEN VacantPage(pages[s].generation + 1) ELSE pages[s]]
      /\ list = free \o slots
  BY RemoveFields
<1> HIDE DEF r
<1>1. pages \in Seq(PageSlot) /\ free \in Seq(Nat) /\ FreeList(pages, free)
  BY DEF PagesOK
<1>a. /\ Len(pages) \in Nat /\ Len(free) \in Nat /\ Len(slots) \in Nat
      /\ DOMAIN pages = 1..Len(pages) /\ DOMAIN slots = 1..Len(slots)
      /\ \A s \in 1..Len(pages) : pages[s] \in PageSlot
  BY <1>1, SeqParts
<1>b. /\ \A a, b \in 1..Len(free) : free[a] = free[b] => a = b
      /\ \A i \in 1..Len(free) : free[i] \in DOMAIN pages /\ ~pages[free[i]].live
      /\ \A s \in DOMAIN pages : pages[s].live \/ \E i \in 1..Len(free) : free[i] = s
  BY <1>1, FreeListParts
<1>2. \A s \in DOMAIN pages : pages[s] \in PageSlot /\ pages[s].generation + 1 \in Nat
  <2> TAKE s \in DOMAIN pages
  <2>1. pages[s] \in PageSlot
    BY <1>a
  <2> QED BY <2>1 DEF PageSlot
<1>3. \A s \in DOMAIN pages : after[s] \in PageSlot
  BY <1>0, <1>2, VacantPageType
<1>4. after \in Seq(PageSlot) /\ Len(after) = Len(pages) /\ DOMAIN after = DOMAIN pages
  <2>1. after \in [1..Len(pages) -> PageSlot]
    BY <1>0, <1>3, <1>a
  <2> HIDE DEF after
  <2> QED BY <2>1, <1>a, SeqBuilt
<1>5. /\ list \in Seq(Nat) /\ Len(list) = Len(free) + Len(slots)
      /\ \A i \in 1..Len(list) : list[i] = IF i <= Len(free) THEN free[i] ELSE slots[i - Len(free)]
  BY <1>0, <1>1
<1>6. \A s \in DOMAIN pages : after[s].live <=> (pages[s].live /\ s \notin Range(slots))
  BY <1>0, <1>2, VacantPageType
<1>7. Range(slots) = {slots[i] : i \in 1..Len(slots)}
  BY <1>a DEF Range
<1>c. \A i \in 1..Len(slots) : slots[i] \in DOMAIN pages /\ pages[slots[i]].live
  BY <1>a
<1>d. ASSUME NEW k \in 1..Len(list), ~(k <= Len(free))
      PROVE  k - Len(free) \in 1..Len(slots)
  <2> DEFINE m == Len(free)
             n == Len(slots)
  <2>1. m \in Nat /\ n \in Nat /\ k \in 1..(m + n)
    BY <1>a, <1>5
  <2>2. ~(k <= m)
    BY <1>d
  <2> HIDE DEF m, n
  <2>3. k - m \in 1..n
    BY <2>1, <2>2
  <2> QED BY <2>3 DEF m, n
<1>e. ASSUME NEW k \in 1..Len(list), k <= Len(free) PROVE k \in 1..Len(free)
  BY <1>a, <1>e
<1> HIDE DEF after, list, pages, free
<1>8. IsInjective(list)
  <2> SUFFICES ASSUME NEW i \in 1..Len(list), NEW j \in 1..Len(list), list[i] = list[j]
               PROVE  i = j
    BY <1>5 DEF IsInjective
  <2>1. CASE i <= Len(free) /\ j <= Len(free)
    <3>1. i \in 1..Len(free) /\ j \in 1..Len(free)
      BY <2>1, <1>e
    <3>2. free[i] = free[j]
      BY <2>1, <1>5
    <3> QED BY <3>1, <3>2, <1>b
  <2>2. CASE ~(i <= Len(free)) /\ ~(j <= Len(free))
    <3>1. i - Len(free) \in 1..Len(slots) /\ j - Len(free) \in 1..Len(slots)
      BY <2>2, <1>d, <1>e
    <3>2. slots[i - Len(free)] = slots[j - Len(free)]
      BY <2>2, <1>5
    <3> QED BY <3>1, <3>2, <1>1 DEF IsInjective
  <2>3. CASE i <= Len(free) /\ ~(j <= Len(free))
    <3>1. i \in 1..Len(free) /\ j - Len(free) \in 1..Len(slots)
      BY <2>3, <1>d, <1>e
    <3>2. free[i] = slots[j - Len(free)]
      BY <2>3, <1>5
    <3> QED BY <3>1, <3>2, <1>b, <1>c
  <2>4. CASE ~(i <= Len(free)) /\ j <= Len(free)
    <3>1. j \in 1..Len(free) /\ i - Len(free) \in 1..Len(slots)
      BY <2>4, <1>d, <1>e
    <3>2. free[j] = slots[i - Len(free)]
      BY <2>4, <1>5
    <3> QED BY <3>1, <3>2, <1>b, <1>c
  <2> QED BY <2>1, <2>2, <2>3, <2>4
<1>9. \A i \in 1..Len(list) : list[i] \in DOMAIN after /\ ~after[list[i]].live
  <2> TAKE i \in 1..Len(list)
  <2>1. CASE i <= Len(free)
    <3>1. i \in 1..Len(free)
      BY <2>1, <1>a
    <3>2. list[i] = free[i]
      BY <2>1, <1>5
    <3>3. list[i] \in DOMAIN pages /\ ~pages[list[i]].live
      BY <3>1, <3>2, <1>b
    <3> QED BY <3>3, <1>4, <1>6
  <2>2. CASE ~(i <= Len(free))
    <3>1. i - Len(free) \in 1..Len(slots)
      BY <2>2, <1>d, <1>e
    <3>2. list[i] = slots[i - Len(free)]
      BY <2>2, <1>5
    <3>3. list[i] \in Range(slots) /\ list[i] \in DOMAIN pages
      BY <3>1, <3>2, <1>7, <1>c
    <3> QED BY <3>3, <1>4, <1>6
  <2> QED BY <2>1, <2>2
<1>10. \A s \in DOMAIN after : after[s].live \/ \E i \in 1..Len(list) : list[i] = s
  <2> SUFFICES ASSUME NEW s \in DOMAIN pages, ~after[s].live
               PROVE  \E i \in 1..Len(list) : list[i] = s
    BY <1>4
  <2>1. CASE s \in Range(slots)
    <3>1. PICK j \in 1..Len(slots) : slots[j] = s
      BY <2>1, <1>7
    <3>2. j + Len(free) \in 1..Len(list) /\ list[j + Len(free)] = slots[j]
      <4>1. j + Len(free) \in 1..Len(list) /\ ~(j + Len(free) <= Len(free))
        BY <1>a, <1>5
      <4>2. (j + Len(free)) - Len(free) = j
        BY <1>a
      <4> QED BY <4>1, <4>2, <1>5
    <3> QED BY <3>1, <3>2
  <2>2. CASE s \notin Range(slots)
    <3>1. ~pages[s].live
      BY <2>2, <1>6
    <3>2. PICK j \in 1..Len(free) : free[j] = s
      BY <3>1, <1>b
    <3>3. j \in 1..Len(list) /\ list[j] = free[j]
      BY <1>1, <1>5
    <3> QED BY <3>2, <3>3
  <2> QED BY <2>1, <2>2
<1>11. FreeList(after, list)
  <2>1. DOMAIN list = 1..Len(list)
    BY <1>5
  <2> QED BY <2>1, <1>8, <1>9, <1>10 DEF FreeList
<1>12. PagesOK(after, list) /\ Len(after) = Len(pages) /\ Len(list) = Len(free) + Len(slots)
  BY <1>4, <1>5, <1>11 DEF PagesOK
<1> QED BY <1>12 DEF after, list, r, pages, free

\* The slots the next n pages get (off the free list from its end, then new ones) are
\* distinct and not live; what stays on the list and how far the arena grows.
LEMMA FreshSlots ==
    ASSUME NEW c, PagesOK(c.pages, c.free_page_slots), NEW n \in Nat
    PROVE  LET free  == Len(c.free_page_slots)
               kept  == Monus(free, n)
               grown == Len(c.pages) + Monus(n, free)
               fresh == {FreshSlot(c, i) : i \in 1..n}
           IN  /\ kept \in 0..free /\ grown \in Nat /\ Len(c.pages) <= grown
               /\ grown - kept = Len(c.pages) - free + n
               /\ \A i \in 1..n : FreshSlot(c, i) \in 1..grown
               /\ \A i, j \in 1..n : FreshSlot(c, i) = FreshSlot(c, j) => i = j
               /\ \A s \in (1..grown) \ fresh : s \in 1..Len(c.pages)
               /\ \A j \in 1..kept : c.free_page_slots[j] \notin fresh
               /\ \A s \in (1..Len(c.pages)) \ fresh :
                    c.pages[s].live \/ \E j \in 1..kept : c.free_page_slots[j] = s
<1> DEFINE list  == c.free_page_slots
           free  == Len(list)
           size  == Len(c.pages)
           kept  == Monus(free, n)
           grown == size + Monus(n, free)
           fresh == {FreshSlot(c, i) : i \in 1..n}
<1>1. c.pages \in Seq(PageSlot) /\ list \in Seq(Nat) /\ FreeList(c.pages, list)
  BY DEF PagesOK
<1>2. free \in Nat /\ size \in Nat /\ DOMAIN c.pages = 1..size
  BY <1>1, SeqParts
<1>3. /\ \A a, b \in 1..free : list[a] = list[b] => a = b
      /\ \A i \in 1..free : list[i] \in 1..size
      /\ \A s \in 1..size : c.pages[s].live \/ \E i \in 1..free : list[i] = s
  BY <1>1, <1>2, FreeListParts, SMTT(40)
<1>4. \A i \in 1..n : FreshSlot(c, i) = IF i <= free THEN list[free + 1 - i] ELSE size + i - free
  BY DEF FreshSlot
<1> HIDE DEF list, free, size
<1>5. /\ kept \in 0..free /\ grown \in Nat /\ size <= grown /\ grown - kept = size - free + n
      /\ kept = IF free > n THEN free - n ELSE 0
      /\ grown = IF n > free THEN size + (n - free) ELSE size
  BY <1>2 DEF Monus
<1> HIDE DEF kept, grown
<1>6. ASSUME NEW i \in 1..n
      PROVE  /\ i <= free => free + 1 - i \in 1..free /\ FreshSlot(c, i) \in 1..size
             /\ ~(i <= free) => FreshSlot(c, i) \in (size + 1)..grown
  <2>1. CASE i <= free
    <3>1. free + 1 - i \in 1..free
      BY <2>1, <1>2
    <3> QED BY <3>1, <2>1, <1>3, <1>4
  <2>2. CASE ~(i <= free)
    <3>1. size + i - free \in (size + 1)..grown
      BY <2>2, <1>2, <1>5
    <3> QED BY <3>1, <2>2, <1>4
  <2> QED BY <2>1, <2>2
<1>7. \A i \in 1..n : FreshSlot(c, i) \in 1..grown
  BY <1>2, <1>5, <1>6
<1>8. ASSUME NEW i \in 1..n, NEW j \in 1..n, FreshSlot(c, i) = FreshSlot(c, j) PROVE i = j
  <2>1. CASE i <= free /\ j <= free
    <3>1. list[free + 1 - i] = list[free + 1 - j]
      BY <2>1, <1>4, <1>8
    <3>2. free + 1 - i = free + 1 - j
      BY <3>1, <2>1, <1>3, <1>6
    <3> QED BY <3>2, <1>2
  <2>2. CASE ~(i <= free) /\ ~(j <= free)
    BY <2>2, <1>2, <1>4, <1>8
  <2>3. CASE (i <= free) # (j <= free)
    BY <2>3, <1>2, <1>5, <1>6, <1>8
  <2> QED BY <2>1, <2>2, <2>3
<1>9. ASSUME NEW s \in (1..grown) \ fresh PROVE s \in 1..size
  <2> SUFFICES ASSUME s > size PROVE FALSE
    BY <1>2, <1>5
  <2>1. n > free /\ s - size + free \in 1..n /\ ~(s - size + free <= free)
    BY <1>2, <1>5
  <2>2. FreshSlot(c, s - size + free) = size + (s - size + free) - free
    BY <2>1, <1>4
  <2>3. FreshSlot(c, s - size + free) = s
    BY <2>2, <1>2, <1>5
  <2> QED BY <2>1, <2>3
<1>10. ASSUME NEW j \in 1..kept PROVE list[j] \notin fresh
  <2> SUFFICES ASSUME NEW i \in 1..n, FreshSlot(c, i) = list[j] PROVE FALSE
    OBVIOUS
  <2>1. j \in 1..free /\ list[j] \in 1..size
    BY <1>2, <1>3, <1>5
  <2>2. i <= free
    BY <2>1, <1>2, <1>6, SMTT(40)
  <2>3. free + 1 - i = j
    BY <2>1, <2>2, <1>3, <1>4, <1>6
  <2> QED BY <2>2, <2>3, <1>2, <1>5
<1>11. ASSUME NEW s \in (1..size) \ fresh, ~c.pages[s].live PROVE \E j \in 1..kept : list[j] = s
  <2>1. PICK j \in 1..free : list[j] = s
    BY <1>3, <1>11
  <2>2. ASSUME j > kept PROVE FALSE
    <3>1. free + 1 - j \in 1..n /\ free + 1 - j <= free /\ free + 1 - (free + 1 - j) = j
      BY <2>2, <1>2, <1>5
    <3>2. FreshSlot(c, free + 1 - j) = s
      BY <3>1, <2>1, <1>4
    <3> QED BY <3>1, <3>2
  <2>3. j \in 1..kept
    BY <2>2, <1>2, <1>5
  <2> QED BY <2>1, <2>3
<1> QED BY <1>5, <1>7, <1>8, <1>9, <1>10, <1>11 DEF list, free, size, kept, grown

\* insert_page for a list of physical pages, field by field.
LEMMA InsertFields ==
    ASSUME NEW c, DOMAIN c = Fields, NEW physical, NEW valid
    PROVE  LET r     == InsertPages(c, physical, valid)
               n     == Len(physical)
               grown == Len(c.pages) + Monus(n, Len(c.free_page_slots))
               fresh == {FreshSlot(c, i) : i \in 1..n}
           IN  /\ DOMAIN r = Fields
               /\ r.pages = [s \in 1..grown |->
                    IF s \in fresh
                    THEN PrivatePage(FreshGeneration(c, s),
                                     physical[CHOOSE i \in 1..n : FreshSlot(c, i) = s], valid)
                    ELSE c.pages[s]]
               /\ r.free_page_slots =
                    SubSeq(c.free_page_slots, 1, Monus(Len(c.free_page_slots), n))
               /\ r.sequences = c.sequences /\ r.free_sequence_slots = c.free_sequence_slots
               /\ r.prefixes = c.prefixes /\ r.lru = c.lru /\ r.tree = c.tree
               /\ r.next_prefix_id = c.next_prefix_id /\ r.clock = c.clock
               /\ r.deferred_pages = c.deferred_pages /\ r.stats = c.stats
BY DEF Fields, InsertPages

\* A page just inserted is typed and live.
LEMMA PrivatePageType ==
    ASSUME NEW g \in Nat, NEW p \in PhysicalPages, NEW v \in 0..PageTokens
    PROVE  PrivatePage(g, p, v) \in PageSlot /\ PrivatePage(g, p, v).live
BY DEF PrivatePage, PageSlot

\* insert_page keeps the free list exact; the slots in use grow by the pages inserted.
LEMMA InsertArena ==
    ASSUME NEW c, DOMAIN c = Fields, PagesOK(c.pages, c.free_page_slots),
           NEW physical \in Seq(PhysicalPages), NEW valid \in 0..PageTokens
    PROVE  LET r == InsertPages(c, physical, valid)
           IN  /\ PagesOK(r.pages, r.free_page_slots)
               /\ Len(r.pages) - Len(r.free_page_slots)
                    = Len(c.pages) - Len(c.free_page_slots) + Len(physical)
<1> DEFINE r     == InsertPages(c, physical, valid)
           n     == Len(physical)
           list  == c.free_page_slots
           free  == Len(list)
           size  == Len(c.pages)
           kept  == Monus(free, n)
           grown == size + Monus(n, free)
           fresh == {FreshSlot(c, i) : i \in 1..n}
           page(s) == PrivatePage(FreshGeneration(c, s),
                                  physical[CHOOSE i \in 1..n : FreshSlot(c, i) = s], valid)
<1>1. c.pages \in Seq(PageSlot) /\ list \in Seq(Nat) /\ FreeList(c.pages, list)
  BY DEF PagesOK
<1>2. /\ free \in Nat /\ size \in Nat /\ DOMAIN c.pages = 1..size
      /\ \A s \in 1..size : c.pages[s] \in PageSlot
      /\ \A i \in 1..free : list[i] \in Nat
  BY <1>1, SeqParts
<1>3. n \in Nat /\ \A i \in 1..n : physical[i] \in PhysicalPages
  BY SeqParts
<1>4. /\ r.pages = [s \in 1..grown |-> IF s \in fresh THEN page(s) ELSE c.pages[s]]
      /\ r.free_page_slots = SubSeq(list, 1, kept)
  BY InsertFields
<1>5. /\ kept \in 0..free /\ grown \in Nat /\ size <= grown
      /\ grown - kept = size - free + n
      /\ \A i \in 1..n : FreshSlot(c, i) \in 1..grown
      /\ \A i, j \in 1..n : FreshSlot(c, i) = FreshSlot(c, j) => i = j
      /\ \A s \in (1..grown) \ fresh : s \in 1..size
      /\ \A j \in 1..kept : list[j] \notin fresh
      /\ \A s \in (1..size) \ fresh : c.pages[s].live \/ \E j \in 1..kept : list[j] = s
  BY <1>3, FreshSlots
<1>6. /\ \A a, b \in 1..free : list[a] = list[b] => a = b
      /\ \A i \in 1..free : list[i] \in 1..size /\ ~c.pages[list[i]].live
  BY <1>1, <1>2, FreeListParts, ZenonT(60)
<1> HIDE DEF r, n, kept, grown
<1>7. ASSUME NEW s \in fresh PROVE page(s) \in PageSlot /\ page(s).live
  <2>1. FreshGeneration(c, s) \in Nat
    <3>1. ASSUME s \in 1..size PROVE c.pages[s].generation \in Nat
      <4>1. c.pages[s] \in PageSlot
        BY <3>1, <1>2
      <4> QED BY <4>1 DEF PageSlot
    <3> QED BY <3>1, <1>2 DEF FreshGeneration
  <2>2. physical[CHOOSE i \in 1..n : FreshSlot(c, i) = s] \in PhysicalPages
    BY <1>3
  <2> QED BY <2>1, <2>2, PrivatePageType
<1> HIDE DEF page
<1>8. ASSUME NEW s \in 1..grown
      PROVE  /\ r.pages[s] = IF s \in fresh THEN page(s) ELSE c.pages[s]
             /\ r.pages[s] \in PageSlot
  BY <1>2, <1>4, <1>5, <1>7
<1>9. r.pages \in Seq(PageSlot) /\ Len(r.pages) = grown /\ DOMAIN r.pages = 1..grown
  <2>1. r.pages \in [1..grown -> PageSlot]
    BY <1>4, <1>8
  <2> QED BY <2>1, <1>5, SeqBuilt
<1>10. /\ r.free_page_slots \in Seq(Nat) /\ Len(r.free_page_slots) = kept
       /\ DOMAIN r.free_page_slots = 1..kept
       /\ \A j \in 1..kept : r.free_page_slots[j] = list[j]
  BY <1>1, <1>2, <1>4, <1>5
<1>11. ASSUME NEW j \in 1..kept
       PROVE  list[j] \in 1..grown /\ r.pages[list[j]] = c.pages[list[j]] /\ ~c.pages[list[j]].live
  <2>1. j \in 1..free
    BY <1>2, <1>5
  <2>2. list[j] \in 1..size /\ ~c.pages[list[j]].live /\ list[j] \notin fresh
    BY <2>1, <1>5, <1>6
  <2>3. list[j] \in 1..grown
    BY <2>2, <1>2, <1>5
  <2> QED BY <2>2, <2>3, <1>8
<1>12. \A a, b \in 1..kept : list[a] = list[b] => a = b
  <2>1. \A a \in 1..kept : a \in 1..free
    BY <1>2, <1>5
  <2> QED BY <2>1, <1>6
<1>13. ASSUME NEW s \in 1..grown, ~r.pages[s].live PROVE \E j \in 1..kept : list[j] = s
  <2>1. s \notin fresh
    BY <1>7, <1>8, <1>13
  <2>2. s \in 1..size /\ ~c.pages[s].live
    BY <2>1, <1>5, <1>8, <1>13
  <2> QED BY <2>1, <2>2, <1>5
<1>14. FreeList(r.pages, r.free_page_slots)
  <2>1. IsInjective(r.free_page_slots)
    BY <1>10, <1>12 DEF IsInjective
  <2>2. \A j \in 1..kept : r.free_page_slots[j] \in 1..grown /\ ~r.pages[r.free_page_slots[j]].live
    BY <1>10, <1>11
  <2>3. \A s \in 1..grown : r.pages[s].live \/ \E j \in 1..kept : r.free_page_slots[j] = s
    BY <1>10, <1>13
  <2> QED BY <2>1, <2>2, <2>3, <1>9, <1>10 DEF FreeList
<1>15. PagesOK(r.pages, r.free_page_slots)
  BY <1>9, <1>10, <1>14 DEF PagesOK
<1>16. Len(r.pages) - Len(r.free_page_slots) = size - free + n
  BY <1>5, <1>9, <1>10
<1> QED BY <1>15, <1>16 DEF r, n

----------------------------------------------------------------------------
(* The sequence arena. *)

\* What SequencesOK says of each slot and of the free list, as indices.
LEMMA SequencesParts ==
    ASSUME NEW sequences, NEW list, SequencesOK(sequences, list)
    PROVE  /\ Len(sequences) \in Nat /\ Len(list) \in Nat
           /\ DOMAIN sequences = 1..Len(sequences) /\ DOMAIN list = 1..Len(list)
           /\ sequences \in [1..Len(sequences) -> SequenceSlot]
           /\ \A s \in 1..Len(sequences) :
                /\ sequences[s] \in SequenceSlot
                /\ IsInjective(Slots(sequences[s].pending.new_pages))
           /\ \A a, b \in 1..Len(list) : list[a] = list[b] => a = b
           /\ \A i \in 1..Len(list) : list[i] \in 1..Len(sequences) /\ ~sequences[list[i]].live
           /\ \A s \in 1..Len(sequences) :
                sequences[s].live \/ \E i \in 1..Len(list) : list[i] = s
<1>1. sequences \in Seq(SequenceSlot) /\ list \in Seq(Nat) /\ FreeList(sequences, list)
  BY DEF SequencesOK
<1>2. /\ Len(sequences) \in Nat /\ DOMAIN sequences = 1..Len(sequences)
      /\ Len(list) \in Nat /\ DOMAIN list = 1..Len(list)
      /\ \A s \in 1..Len(sequences) : sequences[s] \in SequenceSlot
  BY <1>1, SeqParts
<1>3. /\ \A a, b \in 1..Len(list) : list[a] = list[b] => a = b
      /\ \A i \in 1..Len(list) : list[i] \in DOMAIN sequences /\ ~sequences[list[i]].live
      /\ \A s \in DOMAIN sequences :
           sequences[s].live \/ \E i \in 1..Len(list) : list[i] = s
  BY <1>1, FreeListParts
<1>4. sequences \in [1..Len(sequences) -> SequenceSlot]
  BY <1>1
<1>5. \A s \in 1..Len(sequences) : IsInjective(Slots(sequences[s].pending.new_pages))
  BY <1>2 DEF SequencesOK
<1> QED BY <1>2, <1>3, <1>4, <1>5

\* Updating one live sequence in place keeps the sequence arena sound.
LEMMA SequenceUpdated ==
    ASSUME NEW sequences, NEW list, SequencesOK(sequences, list), NEW s \in DOMAIN sequences,
           NEW after \in [DOMAIN sequences -> SequenceSlot],
           \A q \in DOMAIN sequences : q # s => after[q] = sequences[q],
           after[s].live = sequences[s].live,
           IsInjective(Slots(after[s].pending.new_pages))
    PROVE  /\ SequencesOK(after, list)
           /\ Len(after) = Len(sequences) /\ DOMAIN after = DOMAIN sequences
<1> DEFINE size == Len(sequences)
<1>1. /\ size \in Nat /\ DOMAIN sequences = 1..size /\ DOMAIN list = 1..Len(list)
      /\ \A q \in 1..size : IsInjective(Slots(sequences[q].pending.new_pages))
  BY SequencesParts
<1>2. list \in Seq(Nat) /\ FreeList(sequences, list)
  BY DEF SequencesOK
<1>3. after \in Seq(SequenceSlot) /\ Len(after) = size /\ DOMAIN after = 1..size
  BY <1>1, SeqBuilt
<1>4. \A q \in 1..size : after[q].live = sequences[q].live
  BY <1>1
<1>5. FreeList(after, list)
  BY <1>1, <1>2, <1>3, <1>4 DEF FreeList
<1>6. \A q \in 1..size : IsInjective(Slots(after[q].pending.new_pages))
  BY <1>1
<1> QED BY <1>1, <1>2, <1>3, <1>5, <1>6 DEF SequencesOK

\* A vacated sequence slot is typed, not live and has nothing pending.
LEMMA VacantSequenceType ==
    ASSUME NEW g \in Nat
    PROVE  /\ VacantSequence(g) \in SequenceSlot /\ ~VacantSequence(g).live
           /\ IsInjective(Slots(VacantSequence(g).pending.new_pages))
<1>1. VacantSequence(g) \in SequenceSlot /\ ~VacantSequence(g).live
  BY DEF VacantSequence, SequenceSlot, NoPending
<1>2. VacantSequence(g).pending.new_pages = << >>
  BY DEF VacantSequence, NoPending
<1> QED BY <1>1, <1>2 DEF Slots, IsInjective

\* remove_sequence keeps the free list of the sequence arena exact.
LEMMA RemoveSequenceArena ==
    ASSUME NEW sequences, NEW list, SequencesOK(sequences, list),
           NEW s \in DOMAIN sequences, sequences[s].live, NEW after,
           after = [sequences EXCEPT ![s] = VacantSequence(sequences[s].generation + 1)]
    PROVE  SequencesOK(after, Append(list, s)) /\ DOMAIN after = DOMAIN sequences
<1> DEFINE vacant == VacantSequence(sequences[s].generation + 1)
           size  == Len(sequences)
           free  == Len(list)
           longer == Append(list, s)
<1>1. /\ size \in Nat /\ free \in Nat /\ DOMAIN sequences = 1..size /\ DOMAIN list = 1..free
      /\ sequences \in [1..size -> SequenceSlot]
      /\ \A q \in 1..size : IsInjective(Slots(sequences[q].pending.new_pages))
      /\ \A a, b \in 1..free : list[a] = list[b] => a = b
      /\ \A i \in 1..free : list[i] \in 1..size /\ ~sequences[list[i]].live
      /\ \A q \in 1..size : sequences[q].live \/ \E i \in 1..free : list[i] = q
  BY SequencesParts
<1>2. list \in Seq(Nat)
  BY DEF SequencesOK
<1>3. sequences[s].generation + 1 \in Nat
  <2>1. sequences[s] \in SequenceSlot
    BY <1>1
  <2> QED BY <2>1 DEF SequenceSlot
<1>4. /\ vacant \in SequenceSlot /\ ~vacant.live
      /\ IsInjective(Slots(vacant.pending.new_pages))
  BY <1>3, VacantSequenceType
<1>0. after = [sequences EXCEPT ![s] = vacant]
  OBVIOUS
<1> HIDE DEF vacant
<1>5. after \in [1..size -> SequenceSlot] /\ \A q \in 1..size : after[q] = IF q = s THEN vacant ELSE sequences[q]
  BY <1>0, <1>1, <1>4
<1>6. /\ longer \in Seq(Nat) /\ Len(longer) = free + 1 /\ DOMAIN longer = 1..(free + 1)
      /\ \A i \in 1..free : longer[i] = list[i]
      /\ longer[free + 1] = s
  BY <1>1, <1>2
<1> HIDE DEF longer
<1>7. after \in Seq(SequenceSlot) /\ Len(after) = size /\ DOMAIN after = 1..size
  BY <1>1, <1>5, SeqBuilt
<1>8. ASSUME NEW i \in 1..(free + 1)
      PROVE  /\ i \in 1..free \/ i = free + 1
             /\ longer[i] \in 1..size /\ ~after[longer[i]].live
  <2>1. i \in 1..free \/ i = free + 1
    BY <1>1
  <2>2. CASE i \in 1..free
    BY <2>1, <2>2, <1>1, <1>4, <1>5, <1>6
  <2>3. CASE i = free + 1
    BY <2>1, <2>3, <1>1, <1>4, <1>5, <1>6
  <2> QED BY <2>1, <2>2, <2>3
<1>9. \A i \in 1..free : list[i] # s
  BY <1>1
<1>10. IsInjective(longer)
  <2> SUFFICES ASSUME NEW i \in 1..(free + 1), NEW j \in 1..(free + 1), longer[i] = longer[j]
               PROVE  i = j
    BY <1>6 DEF IsInjective
  <2> QED BY <1>1, <1>6, <1>8, <1>9
<1>11. ASSUME NEW q \in 1..size, ~after[q].live PROVE \E i \in 1..(free + 1) : longer[i] = q
  <2>1. CASE q = s
    BY <2>1, <1>1, <1>6
  <2>2. CASE q # s
    <3>1. PICK i \in 1..free : list[i] = q
      BY <2>2, <1>1, <1>5, <1>11
    <3>2. i \in 1..(free + 1)
      BY <1>1
    <3> QED BY <3>1, <3>2, <1>6
  <2> QED BY <2>1, <2>2
<1>12. FreeList(after, longer)
  BY <1>6, <1>7, <1>8, <1>10, <1>11 DEF FreeList
<1>13. \A q \in 1..size : IsInjective(Slots(after[q].pending.new_pages))
  BY <1>1, <1>4, <1>5
<1>14. SequencesOK(after, longer) /\ DOMAIN after = DOMAIN sequences
  BY <1>1, <1>6, <1>7, <1>12, <1>13 DEF SequencesOK
<1> QED BY <1>14 DEF longer

\* The slot the next sequence gets: the end of the free list, or a new one.
LEMMA NextSlotParts ==
    ASSUME NEW c, SequencesOK(c.sequences, c.free_sequence_slots)
    PROVE  /\ NextSequenceSlot(c) \in 1..(Len(c.sequences) + 1)
           /\ NextSequenceGeneration(c) \in Nat
           /\ c.free_sequence_slots = << >> => NextSequenceSlot(c) = Len(c.sequences) + 1
           /\ c.free_sequence_slots # << >> =>
                /\ Len(c.free_sequence_slots) > 0
                /\ NextSequenceSlot(c) = c.free_sequence_slots[Len(c.free_sequence_slots)]
                /\ NextSequenceSlot(c) \in 1..Len(c.sequences)
<1> DEFINE list == c.free_sequence_slots
           size == Len(c.sequences)
<1>1. /\ size \in Nat /\ Len(list) \in Nat
      /\ \A q \in 1..size : c.sequences[q] \in SequenceSlot
      /\ \A i \in 1..Len(list) : list[i] \in 1..size
  BY SequencesParts
<1>2. list \in Seq(Nat)
  BY DEF SequencesOK
<1>3. CASE list = << >>
  BY <1>1, <1>3 DEF NextSequenceSlot, NextSequenceGeneration
<1>4. CASE list # << >>
  <2>1. Len(list) > 0 /\ Len(list) \in 1..Len(list)
    BY <1>2, <1>4
  <2>2. NextSequenceSlot(c) = list[Len(list)]
    BY <1>4 DEF NextSequenceSlot, Last
  <2>3. NextSequenceSlot(c) \in 1..size
    BY <2>1, <2>2, <1>1
  <2>4. c.sequences[NextSequenceSlot(c)] \in SequenceSlot
    BY <2>3, <1>1
  <2>5. NextSequenceGeneration(c) \in Nat
    BY <2>4, <1>4 DEF NextSequenceGeneration, SequenceSlot
  <2>6. NextSequenceSlot(c) \in 1..(size + 1)
    BY <2>3, <1>1
  <2> QED BY <2>1, <2>2, <2>3, <2>5, <2>6, <1>4
<1> QED BY <1>3, <1>4

\* insert_sequence keeps the free list of the sequence arena exact.
LEMMA InsertSequenceArena ==
    ASSUME NEW c, SequencesOK(c.sequences, c.free_sequence_slots),
           NEW record \in SequenceSlot, record.live,
           IsInjective(Slots(record.pending.new_pages)), NEW after, NEW list,
           after = [s \in DOMAIN c.sequences \cup {NextSequenceSlot(c)} |->
                      IF s = NextSequenceSlot(c) THEN record ELSE c.sequences[s]],
           list = IF c.free_sequence_slots = << >> THEN c.free_sequence_slots
                  ELSE Front(c.free_sequence_slots)
    PROVE  SequencesOK(after, list)
<1> DEFINE old   == c.free_sequence_slots
           free  == Len(old)
           size  == Len(c.sequences)
           slot  == NextSequenceSlot(c)
           grown == IF old = << >> THEN size + 1 ELSE size
           kept  == IF old = << >> THEN 0 ELSE free - 1
<1>a. size \in Nat /\ free \in Nat /\ DOMAIN c.sequences = 1..size
  BY SequencesParts
<1>b. \A q \in 1..size : /\ c.sequences[q] \in SequenceSlot
                         /\ IsInjective(Slots(c.sequences[q].pending.new_pages))
  BY SequencesParts
<1>1. /\ \A a, b \in 1..free : old[a] = old[b] => a = b
      /\ \A i \in 1..free : old[i] \in 1..size /\ ~c.sequences[old[i]].live
      /\ \A q \in 1..size : c.sequences[q].live \/ \E i \in 1..free : old[i] = q
  BY SequencesParts
<1>2. old \in Seq(Nat)
  BY DEF SequencesOK
<1>3. /\ old = << >> => slot = size + 1
      /\ old # << >> => free > 0 /\ slot = old[free] /\ slot \in 1..size
  BY NextSlotParts
<1>4. grown \in Nat /\ DOMAIN c.sequences \cup {slot} = 1..grown
  <2>1. CASE old = << >>
    <3>1. slot = size + 1 /\ grown = size + 1
      BY <2>1, <1>3
    <3> QED BY <3>1, <1>a, <1>b, <1>1
  <2>2. CASE old # << >>
    <3>1. slot \in 1..size /\ grown = size
      BY <2>2, <1>3
    <3> QED BY <3>1, <1>a, <1>b, <1>1
  <2> QED BY <2>1, <2>2
<1>5. /\ list \in Seq(Nat) /\ Len(list) = kept /\ DOMAIN list = 1..kept
      /\ \A i \in 1..kept : list[i] = old[i]
      /\ kept \in Nat /\ \A i \in 1..kept : i \in 1..free /\ (old # << >> => i # free)
  <2>1. CASE old = << >>
    BY <2>1
  <2>2. CASE old # << >>
    <3>1. list = SubSeq(old, 1, free - 1) /\ kept = free - 1 /\ free - 1 \in Nat
      BY <2>2, <1>a, <1>b, <1>1, <1>3 DEF Front
    <3>2. /\ SubSeq(old, 1, free - 1) \in Seq(Nat) /\ Len(SubSeq(old, 1, free - 1)) = free - 1
          /\ \A i \in 1..(free - 1) : SubSeq(old, 1, free - 1)[i] = old[i]
      BY <3>1, <1>a, <1>b, <1>1, <1>2, SMTT(40)
    <3>3. \A i \in 1..kept : i \in 1..free /\ i # free
      BY <3>1, <1>a, <1>b, <1>1
    <3> QED BY <3>1, <3>2, <3>3, SeqParts, ZenonT(60)
  <2> QED BY <2>1, <2>2
<1>c. after = [s \in DOMAIN c.sequences \cup {slot} |->
               IF s = slot THEN record ELSE c.sequences[s]]
  OBVIOUS
<1> HIDE DEF slot, grown, kept, old, free, size
<1>6. /\ after \in [1..grown -> SequenceSlot]
      /\ \A q \in 1..grown : after[q] = IF q = slot THEN record ELSE c.sequences[q]
      /\ \A q \in 1..grown : q # slot => q \in 1..size
  <2>1. \A q \in 1..grown : q # slot => q \in 1..size
    BY <1>a, <1>4
  <2>2. after = [q \in 1..grown |-> IF q = slot THEN record ELSE c.sequences[q]]
    BY <1>c, <1>4
  <2>3. \A q \in 1..grown : after[q] = IF q = slot THEN record ELSE c.sequences[q]
    BY <2>2
  <2>4. \A q \in 1..grown : after[q] \in SequenceSlot
    BY <2>1, <2>3, <1>b
  <2> QED BY <2>1, <2>2, <2>3, <2>4
<1>7. after \in Seq(SequenceSlot) /\ Len(after) = grown /\ DOMAIN after = 1..grown
  BY <1>4, <1>6, SeqBuilt
<1>8. ASSUME NEW i \in 1..kept
      PROVE  list[i] \in 1..grown /\ list[i] # slot /\ ~after[list[i]].live
  <2>1. i \in 1..free /\ list[i] = old[i]
    BY <1>5
  <2>2. old[i] \in 1..size /\ ~c.sequences[old[i]].live
    BY <2>1, <1>a, <1>b, <1>1
  <2>3. old[i] # slot
    <3>1. CASE old = << >>
      BY <3>1, <2>2, <1>a, <1>b, <1>1, <1>3
    <3>2. CASE old # << >>
      <4>0. free > 0 /\ i # free
        BY <3>2, <1>3, <1>5
      <4>1. free \in 1..free /\ i # free
        BY <4>0, <1>a
      <4>2. slot = old[free]
        BY <3>2, <1>3
      <4> QED BY <4>1, <4>2, <2>1, <1>a, <1>b, <1>1
    <3> QED BY <3>1, <3>2
  <2>4. old[i] \in 1..grown
    BY <2>2, <1>a, <1>b, <1>1, <1>4
  <2> QED BY <2>1, <2>2, <2>3, <2>4, <1>6
<1>9. IsInjective(list)
  BY <1>a, <1>b, <1>1, <1>5 DEF IsInjective
<1>10. ASSUME NEW q \in 1..grown, ~after[q].live PROVE \E i \in 1..kept : list[i] = q
  <2>1. q # slot
    BY <1>6, <1>10
  <2>2. q \in 1..size /\ ~c.sequences[q].live
    BY <2>1, <1>6, <1>10
  <2>3. PICK i \in 1..free : old[i] = q
    BY <2>2, <1>a, <1>b, <1>1
  <2>4. i \in 1..kept
    <3>1. old # << >>
      BY <2>3, <1>a, <1>b, <1>1, <1>2 DEF free
    <3>2. i # free /\ kept = free - 1
      BY <3>1, <2>1, <2>3, <1>3 DEF kept
    <3> QED BY <3>2, <1>a, <1>b, <1>1
  <2> QED BY <2>3, <2>4, <1>5
<1>11. FreeList(after, list)
  <2>1. DOMAIN list = 1..kept /\ DOMAIN after = 1..grown
    BY <1>5, <1>7
  <2>2. \A i \in DOMAIN list : list[i] \in DOMAIN after /\ ~after[list[i]].live
    BY <2>1, <1>8
  <2>3. \A q \in DOMAIN after : after[q].live \/ \E i \in DOMAIN list : list[i] = q
    BY <2>1, <1>10
  <2> QED BY <2>2, <2>3, <1>9 DEF FreeList
<1>12. \A q \in 1..grown : IsInjective(Slots(after[q].pending.new_pages))
  BY <1>a, <1>b, <1>1, <1>6
<1> QED BY <1>5, <1>7, <1>11, <1>12 DEF SequencesOK

----------------------------------------------------------------------------
(* The LRU clock and the entries. *)

\* tick touches only the clock, the stamps and the LRU set.
LEMMA TickFields ==
    ASSUME NEW c, DOMAIN c = Fields
    PROVE  LET r == Tick(c)
           IN  /\ DOMAIN r = Fields
               /\ r.pages = c.pages /\ r.free_page_slots = c.free_page_slots
               /\ r.sequences = c.sequences /\ r.free_sequence_slots = c.free_sequence_slots
               /\ r.tree = c.tree /\ r.next_prefix_id = c.next_prefix_id
               /\ r.deferred_pages = c.deferred_pages /\ r.stats = c.stats
BY DEF Fields, Tick

\* tick, renumbering or not, keeps the entries typed and the LRU set on existing
\* entries.
LEMMA TickPrefixes ==
    ASSUME NEW c, DOMAIN c = Fields, PrefixesOK(c.prefixes, c.lru), c.clock \in Nat
    PROVE  LET r == Tick(c)
           IN  /\ PrefixesOK(r.prefixes, r.lru) /\ r.clock \in Nat
               /\ DOMAIN r.prefixes = DOMAIN c.prefixes
<1> DEFINE r == Tick(c)
           D == DOMAIN c.prefixes
           ranked == [id \in D |-> [c.prefixes[id] EXCEPT !.last_used = LruRank(c, id)]]
           order == {<<LruRank(c, id), id>> : id \in D}
<1>1. IsFiniteSet(D) /\ D \subseteq Nat /\ \A id \in D : c.prefixes[id] \in PrefixEntry
  BY DEF PrefixesOK
<1>2. CASE c.clock # MaxClock
  <2>1. r.prefixes = c.prefixes /\ r.lru = c.lru /\ r.clock = c.clock + 1
    BY <1>2 DEF Tick, Fields
  <2> QED BY <2>1
<1>3. CASE c.clock = MaxClock
  <2>1. r.prefixes = ranked /\ r.lru = order /\ r.clock = Cardinality(D) + 1
    BY <1>3 DEF Tick, Fields
  <2>2. \A id \in D : LruRank(c, id) \in Nat
    <3> TAKE id \in D
    <3> DEFINE E == {other \in D : NotHotter(Stamp(c, other), Stamp(c, id))}
    <3>1. IsFiniteSet(E)
      BY <1>1, FS_Subset
    <3> QED BY <3>1, FS_CardinalityType DEF LruRank
  <2>3. DOMAIN ranked = D /\ \A id \in D : ranked[id] \in PrefixEntry
    BY <2>2, <1>1 DEF PrefixEntry
  <2>4. order \subseteq Nat \X Nat /\ \A e \in order : e[2] \in D
    BY <2>2, <1>1
  <2>5. Cardinality(D) + 1 \in Nat
    BY <1>1, FS_CardinalityType
  <2> HIDE DEF ranked, order, r
  <2>6. PrefixesOK(r.prefixes, r.lru)
    BY <2>1, <2>3, <2>4, <1>1 DEF PrefixesOK
  <2> QED BY <2>1, <2>3, <2>5, <2>6 DEF r
<1> QED BY <1>2, <1>3

\* Touching an entry (lookup_prefix, a duplicate retain) leaves ownership and
\* statistics alone.
LEMMA TouchSound ==
    ASSUME NEW c, Sound(c), NEW id \in DOMAIN c.prefixes
    PROVE  LET r == Touch(c, id)
           IN  /\ Sound(r)
               /\ r.pages = c.pages /\ r.free_page_slots = c.free_page_slots
               /\ r.sequences = c.sequences
               /\ r.deferred_pages = c.deferred_pages /\ r.stats = c.stats
               /\ DOMAIN r.prefixes = DOMAIN c.prefixes
<1> DEFINE t == Tick(c)
           r == Touch(c, id)
           entries == [t.prefixes EXCEPT ![id] = [@ EXCEPT !.last_used = t.clock]]
           order == (t.lru \ {Stamp(t, id)}) \cup {<<t.clock, id>>}
<1>1. DOMAIN c = Fields /\ PrefixesOK(c.prefixes, c.lru) /\ c.clock \in Nat
  BY DEF Sound
<1>2. /\ DOMAIN t = Fields
      /\ t.pages = c.pages /\ t.free_page_slots = c.free_page_slots
      /\ t.sequences = c.sequences /\ t.free_sequence_slots = c.free_sequence_slots
      /\ t.tree = c.tree /\ t.next_prefix_id = c.next_prefix_id
      /\ t.deferred_pages = c.deferred_pages /\ t.stats = c.stats
  BY <1>1, TickFields
<1>3. PrefixesOK(t.prefixes, t.lru) /\ t.clock \in Nat /\ DOMAIN t.prefixes = DOMAIN c.prefixes
  BY <1>1, TickPrefixes
<1> HIDE DEF t
<1>4. /\ DOMAIN r = Fields /\ r.prefixes = entries /\ r.lru = order
      /\ r.pages = t.pages /\ r.free_page_slots = t.free_page_slots
      /\ r.sequences = t.sequences /\ r.free_sequence_slots = t.free_sequence_slots
      /\ r.tree = t.tree /\ r.next_prefix_id = t.next_prefix_id /\ r.clock = t.clock
      /\ r.deferred_pages = t.deferred_pages /\ r.stats = t.stats
  BY <1>2 DEF Touch, t, Fields
<1>5. DOMAIN entries = DOMAIN t.prefixes /\ \A x \in DOMAIN entries : entries[x] \in PrefixEntry
  BY <1>3 DEF PrefixesOK, PrefixEntry
<1>6. order \subseteq Nat \X Nat /\ \A e \in order : e[2] \in DOMAIN t.prefixes
  BY <1>3 DEF PrefixesOK
<1> HIDE DEF r, entries, order
<1>7. PrefixesOK(r.prefixes, r.lru)
  BY <1>3, <1>4, <1>5, <1>6 DEF PrefixesOK
<1>8. Sound(r)
  BY <1>2, <1>3, <1>4, <1>7 DEF Sound
<1> QED BY <1>2, <1>3, <1>4, <1>5, <1>8 DEF r

\* Removing entries from the index, the LRU set and the entries keeps the manager
\* sound.
LEMMA DropSound ==
    ASSUME NEW c, Sound(c), NEW ids,
           c.stats.retained_snapshot_bytes - SnapshotBytes(c.prefixes, ids) \in Nat
    PROVE  Sound(DropEntries(c, ids))
<1> DEFINE r == DropEntries(c, ids)
           D == DOMAIN c.prefixes \ ids
           K == {key \in DOMAIN c.tree : c.tree[key] \notin ids}
<1>1. DOMAIN c = Fields /\ c.stats \in Stats /\ PrefixesOK(c.prefixes, c.lru) /\ TreeOK(c.tree)
  BY DEF Sound
<1>2. /\ DOMAIN r = Fields
      /\ r.pages = c.pages /\ r.free_page_slots = c.free_page_slots
      /\ r.sequences = c.sequences /\ r.free_sequence_slots = c.free_sequence_slots
      /\ r.prefixes = Restrict(c.prefixes, D) /\ r.lru = {e \in c.lru : e[2] \notin ids}
      /\ r.tree = Restrict(c.tree, K)
      /\ r.next_prefix_id = c.next_prefix_id /\ r.clock = c.clock
      /\ r.deferred_pages = c.deferred_pages
      /\ r.stats = [c.stats EXCEPT !.retained_snapshot_bytes =
                       @ - SnapshotBytes(c.prefixes, ids)]
  BY <1>1 DEF DropEntries, Fields, Stats
<1> HIDE DEF r
<1>3. r.stats \in Stats
  BY <1>1, <1>2 DEF Stats
<1>4. IsFiniteSet(D) /\ IsFiniteSet(K)
  <2>1. IsFiniteSet(DOMAIN c.prefixes) /\ D \in SUBSET DOMAIN c.prefixes
    BY <1>1 DEF PrefixesOK
  <2>2. IsFiniteSet(DOMAIN c.tree) /\ K \in SUBSET DOMAIN c.tree
    BY <1>1 DEF TreeOK
  <2> QED BY <2>1, <2>2, FS_Subset
<1>5. DOMAIN r.prefixes = D /\ \A id \in D : r.prefixes[id] = c.prefixes[id]
  BY <1>2 DEF Restrict
<1>6. PrefixesOK(r.prefixes, r.lru)
  BY <1>1, <1>2, <1>4, <1>5 DEF PrefixesOK
<1>7. DOMAIN r.tree = K
  BY <1>2 DEF Restrict
<1>8. TreeOK(r.tree)
  BY <1>1, <1>4, <1>7 DEF TreeOK
<1>9. Sound(r)
  BY <1>2, <1>3, <1>6, <1>8 DEF Sound
<1> QED BY <1>9 DEF r

----------------------------------------------------------------------------
(* Retirement, reference counts, eviction. *)

\* An enumeration of a finite set of slots is an injective sequence of its elements.
LEMMA SeqOfSet ==
    ASSUME NEW S \in SUBSET Nat, IsFiniteSet(S), NEW slots \in SetToSeqs(S)
    PROVE  /\ slots \in Seq(Nat) /\ IsInjective(slots)
           /\ Len(slots) = Cardinality(S) /\ DOMAIN slots = 1..Cardinality(S)
           /\ \A i \in DOMAIN slots : slots[i] \in S
           /\ Range(slots) = S
<1> DEFINE n == Cardinality(S)
<1>1. n \in Nat
  BY FS_CardinalityType
<1>2. slots \in [1..n -> S] /\ \A i, j \in 1..n : i # j => slots[i] # slots[j]
  BY DEF SetToSeqs
<1>3. slots \in Injection(1..n, S)
  BY <1>2 DEF Injection, IsInjective
<1>4. IsFiniteSet(1..n) /\ Cardinality(1..n) = n
  BY <1>1, OneToN
<1>5. slots \in Surjection(1..n, S)
  BY <1>3, <1>4, FS_Injection
<1>6. Range(slots) = S
  BY <1>2, <1>5, ZenonT(60) DEF Surjection, Range
<1>7. slots \in [1..n -> Nat]
  BY <1>2
<1>8. slots \in Seq(Nat) /\ Len(slots) = n
  BY <1>1, <1>7, SeqBuilt
<1> QED BY <1>2, <1>6, <1>8 DEF IsInjective

\* The bytes reclaimable from some slots are a natural number.
LEMMA ReclaimableBytesInt ==
    ASSUME NEW c, PagesOK(c.pages, c.free_page_slots), NEW slots \in SUBSET DOMAIN c.pages
    PROVE  IsFiniteSet(slots) /\ slots \in SUBSET Nat /\ ReclaimableBytes(c, slots) \in Nat
<1>1. Len(c.pages) \in Nat /\ DOMAIN c.pages = 1..Len(c.pages)
  BY SeqParts DEF PagesOK
<1>2. IsFiniteSet(DOMAIN c.pages)
  BY <1>1, OneToN
<1>3. IsFiniteSet(slots) /\ slots \in SUBSET Nat
  BY <1>1, <1>2, FS_Subset
<1> DEFINE some == {s \in slots : Reclaimable(c.pages[s])}
<1>4. Cardinality(some) \in Nat
  BY <1>3, FS_Subset, FS_CardinalityType
<1>5. PageBytes * Cardinality(some) \in Nat
  BY <1>4, TimesNat, ConfigAssumption
<1> QED BY <1>3, <1>5 DEF ReclaimableBytes

\* retire_page_ids, field by field.
LEMMA RetireFields ==
    ASSUME NEW c, DOMAIN c = Fields, c.stats \in Stats, NEW slots, NEW later
    PROVE  LET r == RetirePages(c, slots, later)
               m == RemovePages(c, slots)
           IN  /\ DOMAIN r = Fields
               /\ r.pages = m.pages /\ r.free_page_slots = m.free_page_slots
               /\ r.sequences = c.sequences /\ r.free_sequence_slots = c.free_sequence_slots
               /\ r.prefixes = c.prefixes /\ r.lru = c.lru /\ r.tree = c.tree
               /\ r.next_prefix_id = c.next_prefix_id /\ r.clock = c.clock
               /\ r.deferred_pages = c.deferred_pages + later
               /\ r.stats = [c.stats EXCEPT !.reclaimable_prefix_only_bytes =
                                @ - ReclaimableBytes(c, Range(slots))]
<1> DEFINE m == RemovePages(c, slots)
<1>1. /\ DOMAIN m = Fields
      /\ m.sequences = c.sequences /\ m.free_sequence_slots = c.free_sequence_slots
      /\ m.prefixes = c.prefixes /\ m.lru = c.lru /\ m.tree = c.tree
      /\ m.next_prefix_id = c.next_prefix_id /\ m.clock = c.clock
      /\ m.deferred_pages = c.deferred_pages /\ m.stats = c.stats
  BY RemoveFields
<1> HIDE DEF m
<1> QED BY <1>1 DEF RetirePages, Fields, Stats, m

\* retire_page_ids keeps the manager sound; the deferred pages stay charged.
LEMMA RetireSound ==
    ASSUME NEW c, Sound(c), NEW S \in SUBSET DOMAIN c.pages, \A s \in S : c.pages[s].live,
           CanRetire(c, S), NEW slots \in SetToSeqs(S), NEW later \in Nat
    PROVE  LET r == RetirePages(c, slots, later)
           IN  /\ Sound(r)
               /\ Occupied(r) = Occupied(c) - Cardinality(S) + later
               /\ Len(r.pages) = Len(c.pages)
               /\ Range(slots) = S /\ Cardinality(S) \in Nat
<1> DEFINE r == RetirePages(c, slots, later)
           m == RemovePages(c, slots)
<1>1. DOMAIN c = Fields /\ c.stats \in Stats /\ PagesOK(c.pages, c.free_page_slots)
      /\ c.deferred_pages \in Nat
  BY DEF Sound
<1>2. IsFiniteSet(S) /\ S \in SUBSET Nat /\ ReclaimableBytes(c, S) \in Nat
  BY <1>1, ReclaimableBytesInt
<1>3. /\ slots \in Seq(Nat) /\ IsInjective(slots) /\ Len(slots) = Cardinality(S)
      /\ \A i \in DOMAIN slots : slots[i] \in S
      /\ Range(slots) = S
  BY <1>2, SeqOfSet
<1>4. Cardinality(S) \in Nat
  BY <1>2, FS_CardinalityType
<1>5. /\ DOMAIN r = Fields
      /\ r.pages = m.pages /\ r.free_page_slots = m.free_page_slots
      /\ r.sequences = c.sequences /\ r.free_sequence_slots = c.free_sequence_slots
      /\ r.prefixes = c.prefixes /\ r.lru = c.lru /\ r.tree = c.tree
      /\ r.next_prefix_id = c.next_prefix_id /\ r.clock = c.clock
      /\ r.deferred_pages = c.deferred_pages + later
      /\ r.stats = [c.stats EXCEPT !.reclaimable_prefix_only_bytes =
                       @ - ReclaimableBytes(c, Range(slots))]
  BY <1>1, RetireFields
<1>7. /\ PagesOK(m.pages, m.free_page_slots) /\ Len(m.pages) = Len(c.pages)
      /\ Len(m.free_page_slots) = Len(c.free_page_slots) + Len(slots)
  <2>1. \A i \in DOMAIN slots : slots[i] \in DOMAIN c.pages /\ c.pages[slots[i]].live
    BY <1>3
  <2> QED BY <2>1, <1>1, <1>3, RemoveArena
<1> HIDE DEF r, m
<1>8. r.stats \in Stats
  <2>1. c.stats.reclaimable_prefix_only_bytes - ReclaimableBytes(c, S) \in Nat
    BY DEF CanRetire, CanShare
  <2> QED BY <2>1, <1>1, <1>3, <1>5 DEF Stats
<1>9. r.deferred_pages \in Nat
  BY <1>1, <1>5
<1>10. Sound(r)
  BY <1>5, <1>7, <1>8, <1>9 DEF Sound
<1>11. Occupied(r) = Occupied(c) - Cardinality(S) + later
  <2>1. /\ Len(r.pages) = Len(c.pages) /\ r.deferred_pages = c.deferred_pages + later
        /\ Len(r.free_page_slots) = Len(c.free_page_slots) + Cardinality(S)
    BY <1>3, <1>5, <1>7
  <2>2. Len(c.pages) \in Nat /\ Len(c.free_page_slots) \in Nat
    BY <1>1, SeqParts DEF PagesOK
  <2> DEFINE a == Len(c.pages)
             b == Len(c.free_page_slots)
             d == c.deferred_pages
             k == Cardinality(S)
  <2>3. Occupied(r) = a - (b + k) + (d + later) /\ Occupied(c) = a - b + d
    BY <2>1 DEF Occupied
  <2>4. a \in Nat /\ b \in Nat /\ d \in Nat /\ k \in Nat
    BY <2>2, <1>1, <1>4
  <2> HIDE DEF a, b, d, k
  <2>5. Occupied(r) = Occupied(c) - k + later
    BY <2>3, <2>4
  <2> QED BY <2>5 DEF k
<1>12. Len(r.pages) = Len(c.pages)
  BY <1>5, <1>7
<1> QED BY <1>3, <1>4, <1>10, <1>11, <1>12 DEF r

\* d differs from c in pages, free page slots and statistics only.
SameRest(d, c) ==
    /\ DOMAIN d = Fields
    /\ d.sequences = c.sequences /\ d.free_sequence_slots = c.free_sequence_slots
    /\ d.prefixes = c.prefixes /\ d.lru = c.lru /\ d.tree = c.tree
    /\ d.next_prefix_id = c.next_prefix_id /\ d.clock = c.clock
    /\ d.deferred_pages = c.deferred_pages

\* Updating page records in place, without vacating any, keeps the manager sound.
LEMMA PagesUpdated ==
    ASSUME NEW c, Sound(c), NEW d, SameRest(d, c), d.free_page_slots = c.free_page_slots,
           d.pages \in [DOMAIN c.pages -> PageSlot],
           \A s \in DOMAIN c.pages : d.pages[s].live = c.pages[s].live,
           d.stats \in Stats
    PROVE  Sound(d) /\ Occupied(d) = Occupied(c) /\ DOMAIN d.pages = DOMAIN c.pages
<1>1. c.pages \in Seq(PageSlot) /\ c.free_page_slots \in Seq(Nat)
      /\ FreeList(c.pages, c.free_page_slots)
  BY DEF Sound, PagesOK
<1>2. Len(c.pages) \in Nat /\ DOMAIN c.pages = 1..Len(c.pages)
  BY <1>1, SeqParts
<1>3. d.pages \in Seq(PageSlot) /\ Len(d.pages) = Len(c.pages)
      /\ DOMAIN d.pages = DOMAIN c.pages
  <2>1. d.pages \in [1..Len(c.pages) -> PageSlot]
    BY <1>2
  <2> QED BY <2>1, <1>2, SeqBuilt
<1>4. FreeList(d.pages, d.free_page_slots)
  BY <1>1, <1>3 DEF FreeList
<1>5. PagesOK(d.pages, d.free_page_slots)
  BY <1>1, <1>3, <1>4 DEF PagesOK
<1>6. Sound(d)
  BY <1>5 DEF Sound, SameRest
<1>7. Occupied(d) = Occupied(c)
  BY <1>3 DEF Occupied, SameRest
<1> QED BY <1>3, <1>6, <1>7

\* The size in bytes of a set of pages.
LEMMA BytesOfSome ==
    ASSUME NEW c, PagesOK(c.pages, c.free_page_slots), NEW S \in SUBSET DOMAIN c.pages
    PROVE  PageBytes * Cardinality(S) \in Nat
<1>1. IsFiniteSet(S)
  BY ReclaimableBytesInt
<1>2. Cardinality(S) \in Nat
  BY <1>1, FS_CardinalityType
<1> QED BY <1>2, TimesNat, ConfigAssumption

\* increment_active_ref over a set of pages.
LEMMA IncrementActiveSound ==
    ASSUME NEW c, Sound(c), NEW S \in SUBSET DOMAIN c.pages, CanShare(c, S)
    PROVE  LET r == IncrementActiveRefs(c, S)
           IN  /\ Sound(r) /\ Occupied(r) = Occupied(c) /\ SameRest(r, c)
               /\ DOMAIN r.pages = DOMAIN c.pages
               /\ r.free_page_slots = c.free_page_slots
               /\ \A s \in DOMAIN c.pages : r.pages[s].live = c.pages[s].live
               /\ r.stats = [c.stats EXCEPT !.reclaimable_prefix_only_bytes =
                                @ - ReclaimableBytes(c, S)]
<1> DEFINE r == IncrementActiveRefs(c, S)
<1>1. DOMAIN c = Fields /\ c.stats \in Stats /\ PagesOK(c.pages, c.free_page_slots)
  BY DEF Sound
<1>2. /\ SameRest(r, c) /\ r.free_page_slots = c.free_page_slots
      /\ r.pages = [s \in DOMAIN c.pages |->
           IF s \in S THEN [c.pages[s] EXCEPT !.active_refs = @ + 1] ELSE c.pages[s]]
      /\ r.stats = [c.stats EXCEPT !.reclaimable_prefix_only_bytes = @ - ReclaimableBytes(c, S)]
  <2>1. SameRest(r, c) /\ r.free_page_slots = c.free_page_slots
    BY <1>1 DEF IncrementActiveRefs, Fields, SameRest
  <2>2. r.pages = [s \in DOMAIN c.pages |->
          IF s \in S THEN [c.pages[s] EXCEPT !.active_refs = @ + 1] ELSE c.pages[s]]
    BY <1>1 DEF IncrementActiveRefs, Fields
  <2>3. r.stats = [c.stats EXCEPT !.reclaimable_prefix_only_bytes = @ - ReclaimableBytes(c, S)]
    BY <1>1 DEF IncrementActiveRefs, Fields
  <2> QED BY <2>1, <2>2, <2>3
<1> HIDE DEF r
<1>3. \A s \in DOMAIN c.pages : c.pages[s] \in PageSlot
  BY <1>1, SeqParts DEF PagesOK
<1>4. r.pages \in [DOMAIN c.pages -> PageSlot]
  <2>1. \A s \in DOMAIN c.pages : r.pages[s] \in PageSlot
    BY <1>2, <1>3 DEF PageSlot
  <2> QED BY <2>1, <1>2
<1>5. \A s \in DOMAIN c.pages : r.pages[s].live = c.pages[s].live
  BY <1>2, <1>3 DEF PageSlot
<1>6. r.stats \in Stats
  BY <1>1, <1>2 DEF Stats, CanShare
<1>7. Sound(r) /\ Occupied(r) = Occupied(c) /\ DOMAIN r.pages = DOMAIN c.pages
  BY <1>2, <1>4, <1>5, <1>6, PagesUpdated
<1> QED BY <1>2, <1>5, <1>7 DEF r

\* decrement_active_ref over a set of pages.
LEMMA DecrementActiveSound ==
    ASSUME NEW c, Sound(c), NEW S \in SUBSET DOMAIN c.pages,
           \A s \in S : c.pages[s].active_refs # 0
    PROVE  LET r == DecrementActiveRefs(c, S)
           IN  /\ Sound(r) /\ Occupied(r) = Occupied(c) /\ SameRest(r, c)
               /\ \E n \in Nat : r.stats =
                    [c.stats EXCEPT !.reclaimable_prefix_only_bytes = @ + n]
<1> DEFINE r == DecrementActiveRefs(c, S)
           becomes == {s \in S : c.pages[s].active_refs = 1 /\ c.pages[s].prefix_refs # 0}
           bytes == PageBytes * Cardinality(becomes)
<1>1. DOMAIN c = Fields /\ c.stats \in Stats /\ PagesOK(c.pages, c.free_page_slots)
  BY DEF Sound
<1>2. /\ SameRest(r, c) /\ r.free_page_slots = c.free_page_slots
      /\ r.pages = [s \in DOMAIN c.pages |->
           IF s \in S THEN [c.pages[s] EXCEPT !.active_refs = @ - 1] ELSE c.pages[s]]
      /\ r.stats = [c.stats EXCEPT !.reclaimable_prefix_only_bytes = @ + bytes]
  <2>1. SameRest(r, c) /\ r.free_page_slots = c.free_page_slots
    BY <1>1 DEF DecrementActiveRefs, Fields, SameRest
  <2>2. r.pages = [s \in DOMAIN c.pages |->
          IF s \in S THEN [c.pages[s] EXCEPT !.active_refs = @ - 1] ELSE c.pages[s]]
    BY <1>1 DEF DecrementActiveRefs, Fields
  <2>3. r.stats = [c.stats EXCEPT !.reclaimable_prefix_only_bytes = @ + bytes]
    BY <1>1 DEF DecrementActiveRefs, Fields
  <2> QED BY <2>1, <2>2, <2>3
<1>3. bytes \in Nat
  BY <1>1, BytesOfSome
<1> HIDE DEF r, bytes
<1>4. \A s \in DOMAIN c.pages : c.pages[s] \in PageSlot
  BY <1>1, SeqParts DEF PagesOK
<1>5. r.pages \in [DOMAIN c.pages -> PageSlot]
  <2>1. \A s \in DOMAIN c.pages : r.pages[s] \in PageSlot
    BY <1>2, <1>4 DEF PageSlot
  <2> QED BY <2>1, <1>2
<1>6. \A s \in DOMAIN c.pages : r.pages[s].live = c.pages[s].live
  BY <1>2, <1>4 DEF PageSlot
<1>7. r.stats \in Stats
  BY <1>1, <1>2, <1>3 DEF Stats
<1>8. Sound(r) /\ Occupied(r) = Occupied(c)
  BY <1>2, <1>5, <1>6, <1>7, PagesUpdated
<1> QED BY <1>2, <1>3, <1>8 DEF r

\* increment_prefix_ref over a set of pages.
LEMMA IncrementPrefixSound ==
    ASSUME NEW c, Sound(c), NEW S \in SUBSET DOMAIN c.pages
    PROVE  LET r == IncrementPrefixRefs(c, S)
           IN  /\ Sound(r) /\ Occupied(r) = Occupied(c) /\ SameRest(r, c)
               /\ \E n \in Nat : r.stats =
                    [c.stats EXCEPT !.reclaimable_prefix_only_bytes = @ + n]
<1> DEFINE r == IncrementPrefixRefs(c, S)
           unowned == {s \in S : c.pages[s].active_refs = 0 /\ c.pages[s].prefix_refs = 0}
           bytes == PageBytes * Cardinality(unowned)
<1>1. DOMAIN c = Fields /\ c.stats \in Stats /\ PagesOK(c.pages, c.free_page_slots)
  BY DEF Sound
<1>2. /\ SameRest(r, c) /\ r.free_page_slots = c.free_page_slots
      /\ r.pages = [s \in DOMAIN c.pages |->
           IF s \in S THEN [c.pages[s] EXCEPT !.prefix_refs = @ + 1] ELSE c.pages[s]]
      /\ r.stats = [c.stats EXCEPT !.reclaimable_prefix_only_bytes = @ + bytes]
  <2>1. SameRest(r, c) /\ r.free_page_slots = c.free_page_slots
    BY <1>1 DEF IncrementPrefixRefs, Fields, SameRest
  <2>2. r.pages = [s \in DOMAIN c.pages |->
          IF s \in S THEN [c.pages[s] EXCEPT !.prefix_refs = @ + 1] ELSE c.pages[s]]
    BY <1>1 DEF IncrementPrefixRefs, Fields
  <2>3. r.stats = [c.stats EXCEPT !.reclaimable_prefix_only_bytes = @ + bytes]
    BY <1>1 DEF IncrementPrefixRefs, Fields
  <2> QED BY <2>1, <2>2, <2>3
<1>3. bytes \in Nat
  BY <1>1, BytesOfSome
<1> HIDE DEF r, bytes
<1>4. \A s \in DOMAIN c.pages : c.pages[s] \in PageSlot
  BY <1>1, SeqParts DEF PagesOK
<1>5. r.pages \in [DOMAIN c.pages -> PageSlot]
  <2>1. \A s \in DOMAIN c.pages : r.pages[s] \in PageSlot
    BY <1>2, <1>4 DEF PageSlot
  <2> QED BY <2>1, <1>2
<1>6. \A s \in DOMAIN c.pages : r.pages[s].live = c.pages[s].live
  BY <1>2, <1>4 DEF PageSlot
<1>7. r.stats \in Stats
  BY <1>1, <1>2, <1>3 DEF Stats
<1>8. Sound(r) /\ Occupied(r) = Occupied(c)
  BY <1>2, <1>5, <1>6, <1>7, PagesUpdated
<1> QED BY <1>2, <1>3, <1>8 DEF r

\* The pages an eviction retires are live pages of the arena.
LEMMA RetireSlotsParts ==
    ASSUME NEW c, NEW ids
    PROVE  /\ RetireSlots(c, ids) \in SUBSET DOMAIN c.pages
           /\ \A s \in RetireSlots(c, ids) : c.pages[s].live
BY DEF RetireSlots

\* commit_evictions: the manager stays sound and its books balance, and what it
\* changes.
LEMMA EvictSound ==
    ASSUME NEW c, Sound(c), NEW ids, CanEvict(c, ids),
           NEW slots \in SetToSeqs(RetireSlots(c, ids)), NEW later \in Nat
    PROVE  LET r == CommitEvictions(c, ids, slots, later)
           IN  /\ Sound(r) /\ Balanced(r)
               /\ r.sequences = c.sequences /\ r.free_sequence_slots = c.free_sequence_slots
               /\ r.next_prefix_id = c.next_prefix_id
               /\ DOMAIN r.pages = DOMAIN c.pages
               /\ DOMAIN r.prefixes = DOMAIN c.prefixes \ ids
               /\ Cardinality(RetireSlots(c, ids)) \in Nat
               /\ Occupied(r) = Occupied(c) - Cardinality(RetireSlots(c, ids)) + later
               /\ r.stats.reserved_pages = c.stats.reserved_pages
               /\ r.stats.active_private_state_bytes = c.stats.active_private_state_bytes
               /\ r.stats.page_table_bytes = c.stats.page_table_bytes
               /\ r.stats.retained_snapshot_bytes =
                    c.stats.retained_snapshot_bytes - SnapshotBytes(c.prefixes, ids)
<1> DEFINE S == RetireSlots(c, ids)
           t == RetirePages(c, slots, later)
           m == RemovePages(c, slots)
           p == [t EXCEPT !.pages = [s \in DOMAIN @ |->
                   IF s \in Range(slots) THEN @[s]
                   ELSE [t.pages[s] EXCEPT !.prefix_refs = @ - RemovedRefs(c, ids, s)]]]
           d == DropEntries(p, ids)
           r == CommitEvictions(c, ids, slots, later)
<1>1. DOMAIN c = Fields /\ c.stats \in Stats /\ PagesOK(c.pages, c.free_page_slots)
  BY DEF Sound
<1>2. S \in SUBSET DOMAIN c.pages /\ (\A s \in S : c.pages[s].live) /\ CanRetire(c, S)
  BY RetireSlotsParts DEF CanEvict
<1>3. /\ Sound(t) /\ Occupied(t) = Occupied(c) - Cardinality(S) + later
      /\ Range(slots) = S /\ Cardinality(S) \in Nat
  BY <1>2, RetireSound
<1>4. /\ DOMAIN t = Fields
      /\ t.pages = m.pages /\ t.free_page_slots = m.free_page_slots
      /\ t.sequences = c.sequences /\ t.free_sequence_slots = c.free_sequence_slots
      /\ t.prefixes = c.prefixes /\ t.lru = c.lru /\ t.tree = c.tree
      /\ t.next_prefix_id = c.next_prefix_id /\ t.clock = c.clock
      /\ t.deferred_pages = c.deferred_pages + later
      /\ t.stats = [c.stats EXCEPT !.reclaimable_prefix_only_bytes =
                       @ - ReclaimableBytes(c, Range(slots))]
  BY <1>1, RetireFields
<1>5. t.pages = [s \in DOMAIN c.pages |->
         IF s \in Range(slots) THEN VacantPage(c.pages[s].generation + 1) ELSE c.pages[s]]
  BY <1>1, <1>4, RemoveFields
<1>6. r = RefreshStats(d)
  BY DEF CommitEvictions
<1> HIDE DEF t
<1>7. DOMAIN t = Fields /\ t.stats \in Stats /\ \A s \in DOMAIN t.pages : t.pages[s] \in PageSlot
  BY <1>3, SeqParts DEF Sound, PagesOK
<1>8. /\ SameRest(p, t) /\ p.free_page_slots = t.free_page_slots /\ p.stats = t.stats
      /\ p.pages = [s \in DOMAIN t.pages |->
           IF s \in Range(slots) THEN t.pages[s]
           ELSE [t.pages[s] EXCEPT !.prefix_refs = @ - RemovedRefs(c, ids, s)]]
  BY <1>7 DEF Fields, SameRest
<1> HIDE DEF p
<1>9. \A s \in DOMAIN t.pages : p.pages[s] \in PageSlot /\ p.pages[s].live = t.pages[s].live
  <2> TAKE s \in DOMAIN t.pages
  <2>1. CASE s \in Range(slots)
    BY <2>1, <1>7, <1>8
  <2>2. CASE s \notin Range(slots)
    <3>1. t.pages[s] = c.pages[s] /\ s \in DOMAIN c.pages
      BY <2>2, <1>5
    <3>2. t.pages[s].prefix_refs - RemovedRefs(c, ids, s) \in Nat
      BY <3>1 DEF CanEvict
    <3>3. p.pages[s] = [t.pages[s] EXCEPT !.prefix_refs = @ - RemovedRefs(c, ids, s)]
      BY <2>2, <1>8
    <3> QED BY <3>2, <3>3, <1>7 DEF PageSlot
  <2> QED BY <2>1, <2>2
<1>10. Sound(p) /\ Occupied(p) = Occupied(t) /\ DOMAIN p.pages = DOMAIN c.pages
  <2>1. p.pages \in [DOMAIN t.pages -> PageSlot]
    BY <1>8, <1>9
  <2>2. DOMAIN t.pages = DOMAIN c.pages
    BY <1>5
  <2>3. \A s \in DOMAIN t.pages : p.pages[s].live = t.pages[s].live
    BY <1>9
  <2> QED BY <2>1, <2>2, <2>3, <1>3, <1>7, <1>8, PagesUpdated
<1>11. /\ p.prefixes = c.prefixes /\ p.sequences = c.sequences
       /\ p.free_sequence_slots = c.free_sequence_slots /\ p.next_prefix_id = c.next_prefix_id
       /\ p.stats.reserved_pages = c.stats.reserved_pages
       /\ p.stats.active_private_state_bytes = c.stats.active_private_state_bytes
       /\ p.stats.page_table_bytes = c.stats.page_table_bytes
       /\ p.stats.retained_snapshot_bytes = c.stats.retained_snapshot_bytes
       /\ p.stats \in Stats /\ DOMAIN p = Fields
  BY <1>1, <1>4, <1>7, <1>8 DEF SameRest, Stats
<1>12. Sound(d)
  BY <1>10, <1>11, DropSound DEF CanEvict
<1>13. /\ d.sequences = c.sequences /\ d.free_sequence_slots = c.free_sequence_slots
       /\ d.next_prefix_id = c.next_prefix_id /\ d.pages = p.pages
       /\ d.free_page_slots = p.free_page_slots /\ d.deferred_pages = p.deferred_pages
       /\ DOMAIN d.prefixes = DOMAIN c.prefixes \ ids
       /\ d.stats = [p.stats EXCEPT !.retained_snapshot_bytes =
                        @ - SnapshotBytes(c.prefixes, ids)]
  BY <1>11 DEF DropEntries, Fields, Restrict
<1> HIDE DEF d, r
<1>14. Occupied(d) = Occupied(c) - Cardinality(S) + later
  BY <1>3, <1>10, <1>13 DEF Occupied
<1>15. /\ d.stats.reserved_pages = c.stats.reserved_pages
       /\ d.stats.active_private_state_bytes = c.stats.active_private_state_bytes
       /\ d.stats.page_table_bytes = c.stats.page_table_bytes
       /\ d.stats.retained_snapshot_bytes =
            c.stats.retained_snapshot_bytes - SnapshotBytes(c.prefixes, ids)
  BY <1>11, <1>13 DEF Stats
<1>16. DOMAIN d = Fields /\ d.stats \in Stats
  BY <1>12 DEF Sound
<1>17. /\ Sound(r)
       /\ r.sequences = d.sequences /\ r.free_sequence_slots = d.free_sequence_slots
       /\ r.next_prefix_id = d.next_prefix_id /\ r.pages = d.pages
       /\ r.free_page_slots = d.free_page_slots /\ r.deferred_pages = d.deferred_pages
       /\ r.prefixes = d.prefixes
       /\ r.stats.reserved_pages = d.stats.reserved_pages
       /\ r.stats.active_private_state_bytes = d.stats.active_private_state_bytes
       /\ r.stats.page_table_bytes = d.stats.page_table_bytes
       /\ r.stats.retained_snapshot_bytes = d.stats.retained_snapshot_bytes
  BY <1>6, <1>12, <1>16, RefreshSound, RefreshFields
<1>18. Occupied(r) = Occupied(d)
  BY <1>17 DEF Occupied
<1>19. Balanced(r)
  BY <1>6, <1>12, Refreshed
<1> QED BY <1>3, <1>10, <1>13, <1>14, <1>15, <1>17, <1>18, <1>19 DEF r

----------------------------------------------------------------------------
(* Sequences come and go. *)

\* The type of AdmissionRequest.
Request == [max_position : Nat, private_state_bytes : Nat,
            page_table_bytes : Nat, allow_emergency : BOOLEAN]

\* r is c with one more sequence, its reservation and its private bytes charged.
SequenceAdded(r, c, reserved, request) ==
    /\ Occupied(r) = Occupied(c)
    /\ r.prefixes = c.prefixes
    /\ DOMAIN r.sequences = DOMAIN c.sequences \cup {NextSequenceSlot(c)}
    /\ r.stats.reserved_pages = c.stats.reserved_pages + reserved
    /\ r.stats.active_private_state_bytes =
         c.stats.active_private_state_bytes + request.private_state_bytes
    /\ r.stats.page_table_bytes = c.stats.page_table_bytes + request.page_table_bytes
    /\ r.stats.retained_snapshot_bytes = c.stats.retained_snapshot_bytes

\* insert_sequence keeps the manager sound and charges the request.
LEMMA InsertSequenceSound ==
    ASSUME NEW c, Sound(c), NEW pages \in Seq(PageId), NEW position \in Nat,
           NEW reserved \in Nat, NEW request \in Request
    PROVE  LET r == InsertSequence(c, pages, position, reserved, request)
           IN  Sound(r) /\ SequenceAdded(r, c, reserved, request)
<1> DEFINE r == InsertSequence(c, pages, position, reserved, request)
<1> DEFINE slot == NextSequenceSlot(c)
           generation == NextSequenceGeneration(c)
           record == [generation |-> generation, live |-> TRUE, pages |-> pages,
                      position |-> position, max_position |-> request.max_position,
                      reserved_pages |-> reserved,
                      private_state_bytes |-> request.private_state_bytes,
                      page_table_bytes |-> request.page_table_bytes, pending |-> NoPending]
<1>1. /\ DOMAIN c = Fields /\ c.stats \in Stats
      /\ SequencesOK(c.sequences, c.free_sequence_slots)
  BY DEF Sound
<1>2. /\ DOMAIN r = Fields
      /\ r.pages = c.pages /\ r.free_page_slots = c.free_page_slots
      /\ r.prefixes = c.prefixes /\ r.lru = c.lru /\ r.tree = c.tree
      /\ r.next_prefix_id = c.next_prefix_id /\ r.clock = c.clock
      /\ r.deferred_pages = c.deferred_pages
  BY <1>1 DEF InsertSequence, Fields
<1>3. r.sequences = [s \in DOMAIN c.sequences \cup {slot} |->
                       IF s = slot THEN record ELSE c.sequences[s]]
  BY <1>1 DEF InsertSequence, Fields
<1>4. r.free_sequence_slots = IF c.free_sequence_slots = << >> THEN c.free_sequence_slots
                              ELSE Front(c.free_sequence_slots)
  BY <1>1 DEF InsertSequence, Fields
<1>5. r.stats = [c.stats EXCEPT
         !.reserved_pages = @ + reserved,
         !.active_private_state_bytes = @ + request.private_state_bytes,
         !.page_table_bytes = @ + request.page_table_bytes]
  BY <1>1 DEF InsertSequence, Fields
<1> HIDE DEF r
<1>6. generation \in Nat
  BY <1>1, NextSlotParts
<1> HIDE DEF generation, slot
<1>7. /\ record \in SequenceSlot /\ record.live
      /\ record.pending.new_pages = << >>
  <2>1. NoPending \in [rows : Nat, new_pages : Seq(PageId)] /\ NoPending.new_pages = << >>
    BY DEF NoPending
  <2> QED BY <2>1, <1>6 DEF SequenceSlot, Request
<1> HIDE DEF record
<1>8. IsInjective(Slots(record.pending.new_pages))
  BY <1>7 DEF Slots, IsInjective
<1>9. SequencesOK(r.sequences, r.free_sequence_slots)
  <2>1. r.sequences = [s \in DOMAIN c.sequences \cup {NextSequenceSlot(c)} |->
                         IF s = NextSequenceSlot(c) THEN record ELSE c.sequences[s]]
    BY <1>3 DEF slot
  <2> QED BY <2>1, <1>1, <1>4, <1>7, <1>8, InsertSequenceArena
<1>10. /\ r.stats \in Stats
      /\ r.stats.reserved_pages = c.stats.reserved_pages + reserved
      /\ r.stats.active_private_state_bytes = c.stats.active_private_state_bytes + request.private_state_bytes
      /\ r.stats.page_table_bytes = c.stats.page_table_bytes + request.page_table_bytes
      /\ r.stats.retained_snapshot_bytes = c.stats.retained_snapshot_bytes
  <2>1. /\ c.stats.reserved_pages \in Nat /\ c.stats.active_private_state_bytes \in Nat
        /\ c.stats.page_table_bytes \in Nat
    BY <1>1 DEF Stats
  <2>2. request.private_state_bytes \in Nat /\ request.page_table_bytes \in Nat
    BY DEF Request
  <2>3. /\ c.stats.reserved_pages + reserved \in Nat
        /\ c.stats.active_private_state_bytes + request.private_state_bytes \in Nat
        /\ c.stats.page_table_bytes + request.page_table_bytes \in Nat
    <3>1. \A m, n \in Nat : m + n \in Nat
      OBVIOUS
    <3> QED BY <2>1, <2>2, <3>1
  <2> DEFINE reserve == c.stats.reserved_pages + reserved
             private == c.stats.active_private_state_bytes + request.private_state_bytes
             table   == c.stats.page_table_bytes + request.page_table_bytes
  <2>4. reserve \in Nat /\ private \in Nat /\ table \in Nat
    BY <2>3
  <2> DEFINE x == [c.stats EXCEPT !.reserved_pages = reserve]
             y == [x EXCEPT !.active_private_state_bytes = private]
             z == [y EXCEPT !.page_table_bytes = table]
  <2>5. r.stats = z
    BY <1>5
  <2> HIDE DEF reserve, private, table
  <2>6. /\ x \in Stats /\ x.reserved_pages = reserve
        /\ x.retained_snapshot_bytes = c.stats.retained_snapshot_bytes
    BY <2>4, <1>1 DEF Stats
  <2> HIDE DEF x
  <2>7. /\ y \in Stats /\ y.active_private_state_bytes = private
        /\ y.reserved_pages = x.reserved_pages
        /\ y.retained_snapshot_bytes = x.retained_snapshot_bytes
    BY <2>4, <2>6 DEF Stats
  <2> HIDE DEF y
  <2>8. /\ z \in Stats /\ z.page_table_bytes = table
        /\ z.reserved_pages = y.reserved_pages
        /\ z.active_private_state_bytes = y.active_private_state_bytes
        /\ z.retained_snapshot_bytes = y.retained_snapshot_bytes
    BY <2>4, <2>7 DEF Stats
  <2> HIDE DEF z
  <2> QED BY <2>5, <2>6, <2>7, <2>8 DEF reserve, private, table
<1>11. Sound(r)
  BY <1>2, <1>9, <1>10 DEF Sound
<1>12. Occupied(r) = Occupied(c)
  BY <1>2 DEF Occupied
<1>13. DOMAIN r.sequences = DOMAIN c.sequences \cup {NextSequenceSlot(c)}
  BY <1>3 DEF slot
<1>14. SequenceAdded(r, c, reserved, request)
  BY <1>2, <1>10, <1>12, <1>13 DEF SequenceAdded
<1> QED BY <1>11, <1>14 DEF r

\* remove_sequence keeps the manager sound and never charges more.
LEMMA RemoveSequenceSound ==
    ASSUME NEW c, Sound(c), NEW s \in DOMAIN c.sequences, c.sequences[s].live,
           CanRemoveSequence(c, s)
    PROVE  LET r == RemoveSequence(c, s)
           IN  /\ Sound(r) /\ Occupied(r) = Occupied(c)
               /\ r.prefixes = c.prefixes
               /\ DOMAIN r.sequences = DOMAIN c.sequences
               /\ r.stats.reserved_pages = c.stats.reserved_pages - c.sequences[s].reserved_pages
               /\ r.stats.active_private_state_bytes =
                    c.stats.active_private_state_bytes - c.sequences[s].private_state_bytes
               /\ r.stats.page_table_bytes = c.stats.page_table_bytes - c.sequences[s].page_table_bytes
               /\ r.stats.retained_snapshot_bytes = c.stats.retained_snapshot_bytes
<1> DEFINE r == RemoveSequence(c, s)
<1>1. /\ DOMAIN c = Fields /\ c.stats \in Stats
      /\ SequencesOK(c.sequences, c.free_sequence_slots)
  BY DEF Sound
<1>2. /\ DOMAIN r = Fields
      /\ r.pages = c.pages /\ r.free_page_slots = c.free_page_slots
      /\ r.prefixes = c.prefixes /\ r.lru = c.lru /\ r.tree = c.tree
      /\ r.next_prefix_id = c.next_prefix_id /\ r.clock = c.clock
      /\ r.deferred_pages = c.deferred_pages
  BY <1>1 DEF RemoveSequence, Fields
<1>3. r.sequences = [c.sequences EXCEPT ![s] = VacantSequence(c.sequences[s].generation + 1)]
  BY <1>1 DEF RemoveSequence, Fields
<1>4. r.free_sequence_slots = Append(c.free_sequence_slots, s)
  BY <1>1 DEF RemoveSequence, Fields
<1>5. r.stats = [c.stats EXCEPT
         !.reserved_pages = @ - c.sequences[s].reserved_pages,
         !.active_private_state_bytes = @ - c.sequences[s].private_state_bytes,
         !.page_table_bytes = @ - c.sequences[s].page_table_bytes]
  BY <1>1 DEF RemoveSequence, Fields
<1> HIDE DEF r
<1>6. SequencesOK(r.sequences, r.free_sequence_slots) /\ DOMAIN r.sequences = DOMAIN c.sequences
  BY <1>1, <1>3, <1>4, RemoveSequenceArena
<1>7. /\ r.stats \in Stats
      /\ r.stats.reserved_pages = c.stats.reserved_pages - c.sequences[s].reserved_pages
      /\ r.stats.active_private_state_bytes = c.stats.active_private_state_bytes - c.sequences[s].private_state_bytes
      /\ r.stats.page_table_bytes = c.stats.page_table_bytes - c.sequences[s].page_table_bytes
      /\ r.stats.retained_snapshot_bytes = c.stats.retained_snapshot_bytes
  <2>1. /\ c.stats.reserved_pages - c.sequences[s].reserved_pages \in Nat
        /\ c.stats.active_private_state_bytes - c.sequences[s].private_state_bytes \in Nat
        /\ c.stats.page_table_bytes - c.sequences[s].page_table_bytes \in Nat
    BY DEF CanRemoveSequence
  <2> DEFINE reserve == c.stats.reserved_pages - c.sequences[s].reserved_pages
             private == c.stats.active_private_state_bytes - c.sequences[s].private_state_bytes
             table   == c.stats.page_table_bytes - c.sequences[s].page_table_bytes
  <2>4. reserve \in Nat /\ private \in Nat /\ table \in Nat
    BY <2>1
  <2> DEFINE x == [c.stats EXCEPT !.reserved_pages = reserve]
             y == [x EXCEPT !.active_private_state_bytes = private]
             z == [y EXCEPT !.page_table_bytes = table]
  <2>5. r.stats = z
    BY <1>5
  <2> HIDE DEF reserve, private, table
  <2>6. /\ x \in Stats /\ x.reserved_pages = reserve
        /\ x.retained_snapshot_bytes = c.stats.retained_snapshot_bytes
    BY <2>4, <1>1 DEF Stats
  <2> HIDE DEF x
  <2>7. /\ y \in Stats /\ y.active_private_state_bytes = private
        /\ y.reserved_pages = x.reserved_pages
        /\ y.retained_snapshot_bytes = x.retained_snapshot_bytes
    BY <2>4, <2>6 DEF Stats
  <2> HIDE DEF y
  <2>8. /\ z \in Stats /\ z.page_table_bytes = table
        /\ z.reserved_pages = y.reserved_pages
        /\ z.active_private_state_bytes = y.active_private_state_bytes
        /\ z.retained_snapshot_bytes = y.retained_snapshot_bytes
    BY <2>4, <2>7 DEF Stats
  <2> HIDE DEF z
  <2> QED BY <2>5, <2>6, <2>7, <2>8 DEF reserve, private, table
<1>8. Sound(r)
  BY <1>2, <1>6, <1>7 DEF Sound
<1>9. Occupied(r) = Occupied(c)
  BY <1>2 DEF Occupied
<1> QED BY <1>2, <1>6, <1>7, <1>8, <1>9 DEF r

----------------------------------------------------------------------------
(* Appends. *)

\* Division by PageTokens: quotient, remainder and their bounds.
LEMMA DivFacts ==
    ASSUME NEW n \in Nat
    PROVE  /\ DivCeil(n) \in Nat /\ DivCeil(n) * PageTokens <= n + PageTokens - 1
           /\ n \div PageTokens \in Nat
<1>1. PageTokens \in Nat /\ PageTokens # 0 /\ n + PageTokens - 1 \in Nat
  BY ConfigAssumption
<1>2. \A a, b \in Nat : b # 0 => a \div b \in Nat /\ (a \div b) * b <= a
  OBVIOUS
<1> DEFINE m == n + PageTokens - 1
<1>3. DivCeil(n) = m \div PageTokens /\ m \in Nat
  BY <1>1 DEF DivCeil
<1> HIDE DEF m
<1>4. DivCeil(n) \in Nat /\ DivCeil(n) * PageTokens <= m /\ n \div PageTokens \in Nat
  BY <1>1, <1>2, <1>3
<1> QED BY <1>4 DEF m

\* A page of the committed span holds between 0 and PageTokens tokens.
LEMMA RowsInPageType ==
    ASSUME NEW position \in Nat, NEW i \in Int, i <= DivCeil(position)
    PROVE  RowsInPage(position, i) \in 0..PageTokens
<1> DEFINE d == DivCeil(position)
<1>1. d \in Nat /\ d * PageTokens <= position + PageTokens - 1 /\ PageTokens \in Nat
  BY DivFacts, ConfigAssumption
<1> HIDE DEF d
<1>2. i * PageTokens <= d * PageTokens
  <2>1. \A a, b \in Int, n \in Nat : a <= b => a * n <= b * n
    OBVIOUS
  <2> QED BY <2>1, <1>1 DEF d
<1>3. (i - 1) * PageTokens = i * PageTokens - PageTokens
  BY <1>1
<1>4. i * PageTokens \in Int /\ d * PageTokens \in Int
  BY <1>1
<1>5. CASE i * PageTokens <= position
  BY <1>1, <1>5 DEF RowsInPage
<1>6. CASE ~(i * PageTokens <= position)
  <2>1. RowsInPage(position, i) = position - (i - 1) * PageTokens
    BY <1>6 DEF RowsInPage
  <2> DEFINE x == i * PageTokens
             y == d * PageTokens
  <2>2. /\ x \in Int /\ y \in Int /\ x <= y /\ y <= position + PageTokens - 1
        /\ ~(x <= position) /\ RowsInPage(position, i) = position - (x - PageTokens)
    BY <2>1, <1>1, <1>2, <1>3, <1>4, <1>6
  <2> HIDE DEF x, y
  <2> QED BY <2>2, <1>1
<1> QED BY <1>5, <1>6

\* Marking committed tokens on pages keeps the manager sound.
LEMMA MarkCommittedSound ==
    ASSUME NEW c, Sound(c), NEW q, q.position \in Nat, NEW table, NEW rows \in Nat
    PROVE  LET r == MarkCommitted(c, q, table, rows)
           IN  /\ Sound(r) /\ Occupied(r) = Occupied(c) /\ SameRest(r, c)
               /\ r.free_page_slots = c.free_page_slots /\ r.stats = c.stats
               /\ DOMAIN r.pages = DOMAIN c.pages
               /\ \A s \in DOMAIN c.pages : r.pages[s].live = c.pages[s].live
<1> DEFINE r == MarkCommitted(c, q, table, rows)
           span == CommittedSpan(q, rows)
           touched(s) == \E i \in span : table[i].slot = s
           valid(s) == RowsInPage(q.position + rows, CHOOSE i \in span : table[i].slot = s)
<1>1. DOMAIN c = Fields /\ c.stats \in Stats /\ PagesOK(c.pages, c.free_page_slots)
  BY DEF Sound
<1>2. SameRest(r, c) /\ r.free_page_slots = c.free_page_slots /\ r.stats = c.stats
  BY <1>1 DEF MarkCommitted, Fields, SameRest
<1>3. r.pages = [s \in DOMAIN c.pages |->
         IF touched(s)
         THEN [c.pages[s] EXCEPT !.valid_tokens = valid(s), !.sealed = (valid(s) = PageTokens)]
         ELSE c.pages[s]]
  BY <1>1 DEF MarkCommitted, Fields
<1> HIDE DEF r
<1>4. ASSUME NEW s, touched(s) PROVE valid(s) \in 0..PageTokens
  <2> DEFINE i == CHOOSE i \in span : table[i].slot = s
  <2>1. i \in span
    BY <1>4
  <2>2. q.position + rows \in Nat
    OBVIOUS
  <2>3. i \in Int /\ i <= DivCeil(q.position + rows)
    <3>1. q.position \div PageTokens + 1 \in Int /\ DivCeil(q.position + rows) \in Int
      BY <2>2, DivFacts
    <3> HIDE DEF i
    <3> QED BY <2>1, <3>1 DEF CommittedSpan
  <2> HIDE DEF i
  <2>4. RowsInPage(q.position + rows, i) \in 0..PageTokens
    BY <2>2, <2>3, RowsInPageType
  <2> QED BY <2>4 DEF i
<1> HIDE DEF valid, touched
<1>5. \A s \in DOMAIN c.pages : c.pages[s] \in PageSlot
  BY <1>1, SeqParts DEF PagesOK
<1>6. \A s \in DOMAIN c.pages : r.pages[s] \in PageSlot /\ r.pages[s].live = c.pages[s].live
  <2> TAKE s \in DOMAIN c.pages
  <2>1. CASE touched(s)
    <3> DEFINE v == valid(s)
               a == [c.pages[s] EXCEPT !.valid_tokens = v]
               b == [a EXCEPT !.sealed = (v = PageTokens)]
    <3>1. v \in 0..PageTokens
      BY <2>1, <1>4
    <3>2. r.pages[s] = b
      BY <2>1, <1>3
    <3> HIDE DEF v
    <3>3. a \in PageSlot /\ a.live = c.pages[s].live
      BY <3>1, <1>5 DEF PageSlot
    <3> HIDE DEF a
    <3>4. b \in PageSlot /\ b.live = a.live
      BY <3>3 DEF PageSlot
    <3> HIDE DEF b
    <3> QED BY <3>2, <3>3, <3>4
  <2>2. CASE ~touched(s)
    BY <2>2, <1>3, <1>5
  <2> QED BY <2>1, <2>2
<1>7. r.pages \in [DOMAIN c.pages -> PageSlot]
  BY <1>3, <1>6
<1>8. Sound(r) /\ Occupied(r) = Occupied(c) /\ DOMAIN r.pages = DOMAIN c.pages
  BY <1>1, <1>2, <1>6, <1>7, PagesUpdated
<1> QED BY <1>2, <1>6, <1>8 DEF r

\* The slots of a sequence of page handles.
LEMMA SlotsParts ==
    ASSUME NEW ids \in Seq(PageId)
    PROVE  /\ Slots(ids) \in Seq(Nat) /\ Len(Slots(ids)) = Len(ids)
           /\ DOMAIN Slots(ids) = 1..Len(ids) /\ Len(ids) \in Nat
           /\ \A i \in 1..Len(ids) : Slots(ids)[i] = ids[i].slot
<1>1. Len(ids) \in Nat /\ DOMAIN ids = 1..Len(ids) /\ \A i \in 1..Len(ids) : ids[i] \in PageId
  BY SeqParts
<1>2. Slots(ids) = [i \in 1..Len(ids) |-> ids[i].slot]
  BY <1>1 DEF Slots
<1>3. \A i \in 1..Len(ids) : ids[i].slot \in Nat
  BY <1>1 DEF PageId
<1>4. Slots(ids) \in [1..Len(ids) -> Nat]
  BY <1>2, <1>3
<1>5. Slots(ids) \in Seq(Nat) /\ Len(Slots(ids)) = Len(ids) /\ DOMAIN Slots(ids) = 1..Len(ids)
  BY <1>1, <1>4, SeqBuilt
<1> QED BY <1>1, <1>2, <1>5

\* The handles name live slots of the arena.
Present(c, ids) ==
    \A i \in 1..Len(ids) : ids[i].slot \in DOMAIN c.pages /\ c.pages[ids[i].slot].live

\* remove_page for distinct live handles keeps the manager sound.
LEMMA RemovePagesSound ==
    ASSUME NEW c, Sound(c), NEW ids \in Seq(PageId), IsInjective(Slots(ids)), Present(c, ids)
    PROVE  LET r == RemovePages(c, Slots(ids))
           IN  /\ Sound(r) /\ SameRest(r, c) /\ r.stats = c.stats
               /\ Len(r.pages) = Len(c.pages) /\ Len(ids) \in Nat
               /\ Occupied(r) = Occupied(c) - Len(ids)
<1> DEFINE r == RemovePages(c, Slots(ids))
<1>1. DOMAIN c = Fields /\ PagesOK(c.pages, c.free_page_slots) /\ c.deferred_pages \in Nat
  BY DEF Sound
<1>2. /\ Slots(ids) \in Seq(Nat) /\ Len(Slots(ids)) = Len(ids) /\ Len(ids) \in Nat
      /\ DOMAIN Slots(ids) = 1..Len(ids)
      /\ \A i \in 1..Len(ids) : Slots(ids)[i] = ids[i].slot
  BY SlotsParts
<1>3. \A i \in DOMAIN Slots(ids) : Slots(ids)[i] \in DOMAIN c.pages /\ c.pages[Slots(ids)[i]].live
  BY <1>2 DEF Present
<1>4. /\ PagesOK(r.pages, r.free_page_slots) /\ Len(r.pages) = Len(c.pages)
      /\ Len(r.free_page_slots) = Len(c.free_page_slots) + Len(Slots(ids))
  BY <1>1, <1>2, <1>3, RemoveArena
<1>5. SameRest(r, c) /\ r.stats = c.stats
  BY <1>1 DEF RemovePages, Fields, SameRest
<1> HIDE DEF r
<1>6. Sound(r)
  BY <1>4, <1>5 DEF Sound, SameRest
<1>7. Occupied(r) = Occupied(c) - Len(ids)
  <2> DEFINE a == Len(c.pages)
             b == Len(c.free_page_slots)
             k == Len(ids)
             d == c.deferred_pages
  <2>1. a \in Nat /\ b \in Nat /\ k \in Nat /\ d \in Nat
    BY <1>1, <1>2, SeqParts DEF PagesOK
  <2>2. Occupied(r) = a - (b + k) + d /\ Occupied(c) = a - b + d
    BY <1>2, <1>4, <1>5 DEF Occupied, SameRest
  <2> HIDE DEF a, b, k, d
  <2>3. Occupied(r) = Occupied(c) - k
    BY <2>1, <2>2
  <2> QED BY <2>3 DEF k
<1> QED BY <1>2, <1>4, <1>5, <1>6, <1>7 DEF r

\* The end of commit_append and abort_append: released pages leave and are promised
\* again, so occupied and promised pages together do not change.
LEMMA ReleasedSound ==
    ASSUME NEW c, Sound(c), NEW s \in DOMAIN c.sequences,
           NEW released \in Seq(PageId), IsInjective(Slots(released)), Present(c, released)
    PROVE  LET r == Released(c, s, released)
           IN  /\ Sound(r) /\ DOMAIN r.sequences = DOMAIN c.sequences
               /\ r.prefixes = c.prefixes /\ Len(released) \in Nat
               /\ Occupied(r) = Occupied(c) - Len(released)
               /\ r.stats.reserved_pages = c.stats.reserved_pages + Len(released)
               /\ r.stats.active_private_state_bytes = c.stats.active_private_state_bytes
               /\ r.stats.page_table_bytes = c.stats.page_table_bytes
               /\ r.stats.retained_snapshot_bytes = c.stats.retained_snapshot_bytes
               /\ Balanced(r)
<1> DEFINE n == Len(released)
           m == RemovePages(c, Slots(released))
           x == [m EXCEPT
                   !.sequences[s].reserved_pages = @ + n,
                   !.sequences[s].pending = NoPending,
                   !.stats.reserved_pages = @ + n]
           r == Released(c, s, released)
<1>1. /\ Sound(m) /\ SameRest(m, c) /\ m.stats = c.stats
      /\ n \in Nat /\ Occupied(m) = Occupied(c) - n
  BY RemovePagesSound
<1>2. r = RefreshStats(x)
  BY DEF Released
<1> HIDE DEF n, m
<1>3. /\ DOMAIN m = Fields /\ m.stats \in Stats /\ s \in DOMAIN m.sequences
      /\ SequencesOK(m.sequences, m.free_sequence_slots)
  BY <1>1 DEF Sound, SameRest
<1>4. /\ DOMAIN x = Fields
      /\ x.pages = m.pages /\ x.free_page_slots = m.free_page_slots
      /\ x.prefixes = m.prefixes /\ x.lru = m.lru /\ x.tree = m.tree
      /\ x.free_sequence_slots = m.free_sequence_slots
      /\ x.next_prefix_id = m.next_prefix_id /\ x.clock = m.clock
      /\ x.deferred_pages = m.deferred_pages
  BY <1>3 DEF Fields
<1>5. x.stats = [m.stats EXCEPT !.reserved_pages = @ + n]
  BY <1>3 DEF Fields
<1> DEFINE a == [m.sequences[s] EXCEPT !.reserved_pages = @ + n]
           b == [a EXCEPT !.pending = NoPending]
<1>6. x.sequences = [m.sequences EXCEPT ![s] = b]
  BY <1>3 DEF Fields
<1> HIDE DEF x
<1>7. m.sequences[s] \in SequenceSlot /\ m.sequences \in [DOMAIN m.sequences -> SequenceSlot]
  BY <1>3, SequencesParts
<1>8. a \in SequenceSlot /\ a.live = m.sequences[s].live
  <2> DEFINE v == m.sequences[s].reserved_pages + n
  <2>1. m.sequences[s].reserved_pages \in Nat
    BY <1>7 DEF SequenceSlot
  <2>2. v \in Nat
    BY <2>1, <1>1
  <2>3. a = [m.sequences[s] EXCEPT !.reserved_pages = v]
    OBVIOUS
  <2> HIDE DEF v, a
  <2> QED BY <2>2, <2>3, <1>7 DEF SequenceSlot
<1> HIDE DEF a
<1>9. b \in SequenceSlot /\ b.live = a.live /\ b.pending.new_pages = << >>
  <2>1. NoPending \in [rows : Nat, new_pages : Seq(PageId)] /\ NoPending.new_pages = << >>
    BY DEF NoPending
  <2> QED BY <2>1, <1>8 DEF SequenceSlot
<1> HIDE DEF b
<1>10. SequencesOK(x.sequences, x.free_sequence_slots) /\ DOMAIN x.sequences = DOMAIN c.sequences
  <2>1. /\ x.sequences \in [DOMAIN m.sequences -> SequenceSlot]
        /\ \A o \in DOMAIN m.sequences : o # s => x.sequences[o] = m.sequences[o]
        /\ x.sequences[s] = b
    BY <1>3, <1>6, <1>7, <1>9
  <2>2. IsInjective(Slots(x.sequences[s].pending.new_pages))
    BY <2>1, <1>9 DEF Slots, IsInjective
  <2>3. x.sequences[s].live = m.sequences[s].live
    BY <2>1, <1>8, <1>9
  <2>4. SequencesOK(x.sequences, m.free_sequence_slots)
        /\ DOMAIN x.sequences = DOMAIN m.sequences
    BY <2>1, <2>2, <2>3, <1>3, SequenceUpdated
  <2> QED BY <2>4, <1>1, <1>4 DEF SameRest
<1>11. x.stats \in Stats
  <2> DEFINE v == m.stats.reserved_pages + n
  <2>1. m.stats.reserved_pages \in Nat
    BY <1>3 DEF Stats
  <2>2. v \in Nat
    BY <2>1, <1>1
  <2>3. x.stats = [m.stats EXCEPT !.reserved_pages = v]
    BY <1>5
  <2> HIDE DEF v
  <2> QED BY <2>2, <2>3, <1>3 DEF Stats
<1>12. Sound(x)
  BY <1>1, <1>4, <1>10, <1>11 DEF Sound
<1>13. Occupied(x) = Occupied(c) - n
  BY <1>1, <1>4 DEF Occupied
<1>14. /\ x.stats.reserved_pages = c.stats.reserved_pages + n
       /\ x.stats.active_private_state_bytes = c.stats.active_private_state_bytes
       /\ x.stats.page_table_bytes = c.stats.page_table_bytes
       /\ x.stats.retained_snapshot_bytes = c.stats.retained_snapshot_bytes
  BY <1>1, <1>3, <1>5 DEF Stats
<1>15. x.prefixes = c.prefixes
  BY <1>1, <1>4 DEF SameRest
<1> HIDE DEF r
<1>16. /\ Sound(r) /\ Balanced(r) /\ r.sequences = x.sequences /\ r.prefixes = x.prefixes
       /\ Occupied(r) = Occupied(x)
       /\ r.stats.reserved_pages = x.stats.reserved_pages
       /\ r.stats.active_private_state_bytes = x.stats.active_private_state_bytes
       /\ r.stats.page_table_bytes = x.stats.page_table_bytes
       /\ r.stats.retained_snapshot_bytes = x.stats.retained_snapshot_bytes
  BY <1>2, <1>12, Refreshed
<1> QED BY <1>1, <1>10, <1>13, <1>14, <1>15, <1>16 DEF r, n

\* A nonempty set of indices has a least element.
LEMMA Smallest ==
    ASSUME NEW T, T \subseteq Nat, T # {}
    PROVE  Min(T) \in T
<1> DEFINE R == OpToRel(<, Nat)
<1>1. IsWellFoundedOn(R, Nat)
  BY NatLessThanWellFounded
<1>2. \A x, y \in Nat : <<x, y>> \in R <=> x < y
  BY DEF OpToRel
<1> HIDE DEF R
<1>3. PICK x \in T : \A y \in T : ~ (<<y, x>> \in R)
  BY <1>1, WFMin
<1>4. x \in Nat /\ \A y \in T : y \in Nat
  OBVIOUS
<1>5. \A y \in T : ~(y < x)
  BY <1>2, <1>3, <1>4
<1>6. \A y \in T : x <= y
  BY <1>4, <1>5
<1> QED BY <1>6 DEF Min

\* A removal that stops at an exhausted slot leaves the manager sound: the exhausted
\* slot stays live and off the free list.
LEMMA StopSound ==
    ASSUME NEW c, Sound(c), NEW s \in DOMAIN c.sequences,
           NEW released \in Seq(PageId), IsInjective(Slots(released)), Present(c, released),
           Exhausted(released) # {}
    PROVE  LET r == StopAtExhausted(c, s, released)
           IN  /\ Sound(r) /\ DOMAIN r.sequences = DOMAIN c.sequences
               /\ r.prefixes = c.prefixes /\ r.stats = c.stats
               /\ Occupied(r) <= Occupied(c)
<1> DEFINE stop == Min(Exhausted(released))
           gone == SubSeq(released, 1, stop - 1)
           slot == released[stop].slot
           m == RemovePages(c, Slots(gone))
           r == StopAtExhausted(c, s, released)
<1>1. stop \in 1..Len(released) /\ Len(released) \in Nat
  <2>1. DOMAIN released = 1..Len(released) /\ Len(released) \in Nat
    OBVIOUS
  <2>2. Exhausted(released) \subseteq Nat /\ Exhausted(released) \subseteq 1..Len(released)
    BY <2>1 DEF Exhausted
  <2> QED BY <2>1, <2>2, Smallest
<1>2. r = [m EXCEPT !.pages[slot].physical = None, !.sequences[s].pending = NoPending]
  BY DEF StopAtExhausted
<1> HIDE DEF stop
<1>3. /\ gone \in Seq(PageId) /\ Len(gone) = stop - 1
      /\ \A i \in 1..(stop - 1) : gone[i] = released[i] /\ i \in 1..Len(released)
  BY <1>1
<1>4. slot \in DOMAIN c.pages
  BY <1>1 DEF Present
<1> HIDE DEF gone
<1>5. Present(c, gone)
  BY <1>3 DEF Present
<1>6. IsInjective(Slots(gone))
  <2>1. /\ DOMAIN Slots(gone) = 1..(stop - 1)
        /\ \A i \in 1..(stop - 1) : Slots(gone)[i] = gone[i].slot
    BY <1>3, SlotsParts
  <2>2. /\ DOMAIN Slots(released) = 1..Len(released)
        /\ \A i \in 1..Len(released) : Slots(released)[i] = released[i].slot
    BY SlotsParts
  <2>3. \A i, j \in 1..(stop - 1) :
          Slots(gone)[i] = Slots(gone)[j] => Slots(released)[i] = Slots(released)[j]
    BY <2>1, <2>2, <1>3
  <2> QED BY <2>1, <2>2, <2>3, <1>3 DEF IsInjective
<1>7. /\ Sound(m) /\ SameRest(m, c) /\ m.stats = c.stats
      /\ Len(m.pages) = Len(c.pages) /\ Occupied(m) = Occupied(c) - (stop - 1)
  BY <1>3, <1>5, <1>6, RemovePagesSound
<1> HIDE DEF m, slot
<1>8. /\ DOMAIN m = Fields /\ m.stats \in Stats /\ s \in DOMAIN m.sequences
      /\ SequencesOK(m.sequences, m.free_sequence_slots)
      /\ PagesOK(m.pages, m.free_page_slots)
  BY <1>7 DEF Sound, SameRest
<1>9. slot \in DOMAIN m.pages
  <2>1. c.pages \in Seq(PageSlot) /\ m.pages \in Seq(PageSlot)
    BY <1>8 DEF Sound, PagesOK
  <2>2. DOMAIN c.pages = 1..Len(c.pages) /\ DOMAIN m.pages = 1..Len(m.pages)
    BY <2>1
  <2> QED BY <2>2, <1>4, <1>7
<1> DEFINE page == [m.pages[slot] EXCEPT !.physical = None]
           record == [m.sequences[s] EXCEPT !.pending = NoPending]
           d == [m EXCEPT !.pages = [m.pages EXCEPT ![slot] = page]]
<1>10. r = [d EXCEPT !.sequences = [m.sequences EXCEPT ![s] = record]]
  BY <1>2, <1>8 DEF Fields
<1>11. /\ SameRest(d, m) /\ d.free_page_slots = m.free_page_slots /\ d.stats = m.stats
       /\ d.pages = [m.pages EXCEPT ![slot] = page]
  BY <1>8 DEF SameRest, Fields
<1> HIDE DEF d
<1>12. \A p \in DOMAIN m.pages : m.pages[p] \in PageSlot
  BY <1>8, SeqParts DEF PagesOK
<1>13. page \in PageSlot /\ page.live = m.pages[slot].live
  BY <1>9, <1>12 DEF PageSlot
<1> HIDE DEF page
<1>14. Sound(d) /\ Occupied(d) = Occupied(m)
  <2>1. \A p \in DOMAIN m.pages : d.pages[p] = IF p = slot THEN page ELSE m.pages[p]
    BY <1>9, <1>11
  <2>2. \A p \in DOMAIN m.pages : d.pages[p] \in PageSlot /\ d.pages[p].live = m.pages[p].live
    BY <2>1, <1>12, <1>13
  <2>3. d.pages \in [DOMAIN m.pages -> PageSlot]
    BY <2>2, <1>11
  <2> QED BY <2>2, <2>3, <1>7, <1>8, <1>11, PagesUpdated
<1>15. /\ record \in SequenceSlot /\ record.live = m.sequences[s].live
       /\ record.pending.new_pages = << >>
       /\ m.sequences \in [DOMAIN m.sequences -> SequenceSlot]
  <2>1. NoPending \in [rows : Nat, new_pages : Seq(PageId)] /\ NoPending.new_pages = << >>
    BY DEF NoPending
  <2>2. m.sequences[s] \in SequenceSlot /\ m.sequences \in [DOMAIN m.sequences -> SequenceSlot]
    BY <1>8, SequencesParts
  <2> QED BY <2>1, <2>2 DEF SequenceSlot
<1> HIDE DEF record
<1>16. /\ DOMAIN r = Fields
       /\ r.pages = d.pages /\ r.free_page_slots = d.free_page_slots
       /\ r.prefixes = d.prefixes /\ r.lru = d.lru /\ r.tree = d.tree
       /\ r.free_sequence_slots = m.free_sequence_slots
       /\ r.next_prefix_id = d.next_prefix_id /\ r.clock = d.clock
       /\ r.deferred_pages = d.deferred_pages /\ r.stats = d.stats
       /\ r.sequences = [m.sequences EXCEPT ![s] = record]
  BY <1>10, <1>11 DEF SameRest, Fields
<1> HIDE DEF r
<1>17. SequencesOK(r.sequences, r.free_sequence_slots) /\ DOMAIN r.sequences = DOMAIN c.sequences
  <2>1. /\ r.sequences \in [DOMAIN m.sequences -> SequenceSlot]
        /\ \A o \in DOMAIN m.sequences : o # s => r.sequences[o] = m.sequences[o]
        /\ r.sequences[s] = record
    BY <1>8, <1>15, <1>16
  <2>2. IsInjective(Slots(r.sequences[s].pending.new_pages))
    BY <2>1, <1>15 DEF Slots, IsInjective
  <2>3. r.sequences[s].live = m.sequences[s].live
    BY <2>1, <1>15
  <2>4. SequencesOK(r.sequences, m.free_sequence_slots)
        /\ DOMAIN r.sequences = DOMAIN m.sequences
    BY <2>1, <2>2, <2>3, <1>8, SequenceUpdated
  <2> QED BY <2>4, <1>7, <1>16 DEF SameRest
<1>18. Sound(r)
  BY <1>14, <1>16, <1>17 DEF Sound
<1>19. Occupied(r) <= Occupied(c)
  <2>1. Occupied(r) = Occupied(c) - (stop - 1)
    BY <1>7, <1>14, <1>16 DEF Occupied
  <2>2. Occupied(c) \in Nat
    BY OccupiedNat
  <2> QED BY <2>1, <2>2, <1>1
<1>20. r.prefixes = c.prefixes /\ r.stats = c.stats
  BY <1>7, <1>11, <1>16 DEF SameRest
<1> QED BY <1>17, <1>18, <1>19, <1>20 DEF r

----------------------------------------------------------------------------
(* Retained prefixes. *)

\* retain_prefix after its evictions: one more entry, its snapshot charged.
LEMMA InsertEntrySound ==
    ASSUME NEW c, Sound(c), NEW s \in DOMAIN c.sequences, NEW key \in Seq(Blocks),
           SlotsOf(c.sequences[s].pages) \in SUBSET DOMAIN c.pages, NEW bytes \in Nat
    PROVE  LET r == InsertEntry(c, s, key, bytes)
           IN  /\ Sound(r) /\ Balanced(r) /\ Occupied(r) = Occupied(c)
               /\ r.sequences = c.sequences
               /\ DOMAIN r.prefixes = DOMAIN c.prefixes \cup {c.next_prefix_id}
               /\ r.stats.reserved_pages = c.stats.reserved_pages
               /\ r.stats.active_private_state_bytes = c.stats.active_private_state_bytes
               /\ r.stats.page_table_bytes = c.stats.page_table_bytes
               /\ r.stats.retained_snapshot_bytes = c.stats.retained_snapshot_bytes + bytes
<1> DEFINE id      == c.next_prefix_id
           pages   == c.sequences[s].pages
           counted == IncrementPrefixRefs(c, SlotsOf(pages))
           k       == [counted EXCEPT
                        !.next_prefix_id = id + 1,
                        !.tree = [x \in DOMAIN @ \cup {key} |-> IF x = key THEN id ELSE @[x]]]
           t       == Tick(k)
           entry   == [key |-> key, pages |-> pages, position |-> c.sequences[s].position,
                       snapshot_bytes |-> bytes, last_used |-> t.clock]
           x       == [t EXCEPT
                        !.prefixes = [i \in DOMAIN @ \cup {id} |-> IF i = id THEN entry ELSE @[i]],
                        !.lru = @ \cup {<<t.clock, id>>},
                        !.stats.retained_snapshot_bytes = @ + bytes]
           r       == InsertEntry(c, s, key, bytes)
<1>1. DOMAIN c = Fields /\ c.stats \in Stats /\ id \in Nat /\ c.sequences[s] \in SequenceSlot
  <2>1. SequencesOK(c.sequences, c.free_sequence_slots)
    BY DEF Sound
  <2>2. c.sequences[s] \in SequenceSlot
    BY <2>1, SequencesParts
  <2> QED BY <2>2 DEF Sound
<1>2. /\ Sound(counted) /\ Occupied(counted) = Occupied(c) /\ SameRest(counted, c)
      /\ \E n \in Nat : counted.stats = [c.stats EXCEPT !.reclaimable_prefix_only_bytes = @ + n]
  BY IncrementPrefixSound
<1>3. r = RefreshStats(x)
  BY DEF InsertEntry
<1>4. pages \in Seq(PageId) /\ c.sequences[s].position \in Nat
  BY <1>1 DEF SequenceSlot
<1> HIDE DEF counted, id, pages, r
<1>5. /\ counted.stats \in Stats
      /\ counted.stats.reserved_pages = c.stats.reserved_pages
      /\ counted.stats.active_private_state_bytes = c.stats.active_private_state_bytes
      /\ counted.stats.page_table_bytes = c.stats.page_table_bytes
      /\ counted.stats.retained_snapshot_bytes = c.stats.retained_snapshot_bytes
  <2>1. PICK n \in Nat : counted.stats = [c.stats EXCEPT !.reclaimable_prefix_only_bytes = @ + n]
    BY <1>2
  <2>2. counted.stats \in Stats
    BY <1>2 DEF Sound
  <2> QED BY <2>1, <2>2, <1>1 DEF Stats
<1>6. DOMAIN counted = Fields
  BY <1>2 DEF SameRest
<1>7. /\ DOMAIN k = Fields
      /\ k.pages = counted.pages /\ k.free_page_slots = counted.free_page_slots
      /\ k.sequences = counted.sequences
      /\ k.free_sequence_slots = counted.free_sequence_slots
      /\ k.prefixes = counted.prefixes /\ k.lru = counted.lru
      /\ k.next_prefix_id = id + 1 /\ k.clock = counted.clock
      /\ k.deferred_pages = counted.deferred_pages /\ k.stats = counted.stats
      /\ k.tree = [y \in DOMAIN counted.tree \cup {key} |->
                     IF y = key THEN id ELSE counted.tree[y]]
  BY <1>6 DEF Fields
<1> HIDE DEF k
<1>8. TreeOK(k.tree)
  <2>1. TreeOK(counted.tree)
    BY <1>2 DEF Sound
  <2>2. DOMAIN k.tree = DOMAIN counted.tree \cup {key}
    BY <1>7
  <2>3. IsFiniteSet(DOMAIN counted.tree \cup {key})
    BY <2>1, FS_AddElement DEF TreeOK
  <2> QED BY <2>1, <2>2, <2>3 DEF TreeOK
<1>9. PrefixesOK(k.prefixes, k.lru) /\ k.clock \in Nat
  BY <1>2, <1>7 DEF Sound
<1>10. /\ DOMAIN t = Fields
       /\ t.pages = k.pages /\ t.free_page_slots = k.free_page_slots
       /\ t.sequences = k.sequences /\ t.free_sequence_slots = k.free_sequence_slots
       /\ t.tree = k.tree /\ t.next_prefix_id = k.next_prefix_id
       /\ t.deferred_pages = k.deferred_pages /\ t.stats = k.stats
  BY <1>7, TickFields
<1>11. PrefixesOK(t.prefixes, t.lru) /\ t.clock \in Nat /\ DOMAIN t.prefixes = DOMAIN k.prefixes
  BY <1>7, <1>9, TickPrefixes
<1> HIDE DEF t
<1>12. entry \in PrefixEntry
  BY <1>4, <1>11 DEF PrefixEntry
<1> HIDE DEF entry
<1>13. /\ DOMAIN x = Fields
       /\ x.pages = t.pages /\ x.free_page_slots = t.free_page_slots
       /\ x.sequences = t.sequences /\ x.free_sequence_slots = t.free_sequence_slots
       /\ x.tree = t.tree /\ x.next_prefix_id = t.next_prefix_id /\ x.clock = t.clock
       /\ x.deferred_pages = t.deferred_pages
       /\ x.lru = t.lru \cup {<<t.clock, id>>}
  BY <1>10 DEF Fields
<1>14. x.prefixes = [i \in DOMAIN t.prefixes \cup {id} |-> IF i = id THEN entry ELSE t.prefixes[i]]
  BY <1>10 DEF Fields
<1>15. x.stats = [t.stats EXCEPT !.retained_snapshot_bytes = @ + bytes]
  BY <1>10 DEF Fields
<1> HIDE DEF x
<1>16. PrefixesOK(x.prefixes, x.lru)
  <2>1. /\ IsFiniteSet(DOMAIN t.prefixes) /\ DOMAIN t.prefixes \subseteq Nat
        /\ \A i \in DOMAIN t.prefixes : t.prefixes[i] \in PrefixEntry
        /\ t.lru \subseteq Nat \X Nat
        /\ \A e \in t.lru : e[2] \in DOMAIN t.prefixes
    BY <1>11 DEF PrefixesOK
  <2>2. DOMAIN x.prefixes = DOMAIN t.prefixes \cup {id}
    BY <1>14
  <2>3. IsFiniteSet(DOMAIN t.prefixes \cup {id})
    BY <2>1, FS_AddElement
  <2>4. \A i \in DOMAIN x.prefixes : x.prefixes[i] \in PrefixEntry
    BY <2>1, <2>2, <1>12, <1>14
  <2>5. x.lru \subseteq Nat \X Nat /\ \A e \in x.lru : e[2] \in DOMAIN x.prefixes
    BY <2>1, <2>2, <1>1, <1>11, <1>13 DEF id
  <2>6. DOMAIN x.prefixes \subseteq Nat
    BY <2>1, <2>2, <1>1
  <2> QED BY <2>2, <2>3, <2>4, <2>5, <2>6 DEF PrefixesOK
<1>17. /\ x.stats \in Stats
       /\ x.stats.reserved_pages = c.stats.reserved_pages
       /\ x.stats.active_private_state_bytes = c.stats.active_private_state_bytes
       /\ x.stats.page_table_bytes = c.stats.page_table_bytes
       /\ x.stats.retained_snapshot_bytes = c.stats.retained_snapshot_bytes + bytes
  <2> DEFINE v == c.stats.retained_snapshot_bytes + bytes
  <2>0. c.stats.retained_snapshot_bytes \in Nat
    BY <1>1 DEF Stats
  <2>1. v \in Nat
    BY <2>0, SumNat
  <2>2. x.stats = [counted.stats EXCEPT !.retained_snapshot_bytes = v]
    BY <1>5, <1>7, <1>10, <1>15
  <2> HIDE DEF v
  <2>3. x.stats.retained_snapshot_bytes = v
    BY <2>2, <1>5 DEF Stats
  <2>4. x.stats \in Stats
    BY <2>1, <2>2, <1>5 DEF Stats
  <2>5. /\ x.stats.reserved_pages = c.stats.reserved_pages
        /\ x.stats.active_private_state_bytes = c.stats.active_private_state_bytes
        /\ x.stats.page_table_bytes = c.stats.page_table_bytes
    BY <2>2, <1>5 DEF Stats
  <2> QED BY <2>3, <2>4, <2>5 DEF v
<1>18. Sound(x)
  <2>1. x.next_prefix_id \in Nat /\ x.clock \in Nat
    BY <1>1, <1>7, <1>10, <1>11, <1>13
  <2> QED BY <2>1, <1>2, <1>7, <1>8, <1>10, <1>13, <1>16, <1>17 DEF Sound
<1>19. Occupied(x) = Occupied(c)
  BY <1>2, <1>7, <1>10, <1>13 DEF Occupied
<1>20. DOMAIN x.prefixes = DOMAIN c.prefixes \cup {id} /\ x.sequences = c.sequences
  BY <1>2, <1>7, <1>10, <1>11, <1>13, <1>14 DEF SameRest
<1>21. /\ Sound(r) /\ Balanced(r) /\ r.sequences = x.sequences /\ r.prefixes = x.prefixes
       /\ Occupied(r) = Occupied(x)
       /\ r.stats.reserved_pages = x.stats.reserved_pages
       /\ r.stats.active_private_state_bytes = x.stats.active_private_state_bytes
       /\ r.stats.page_table_bytes = x.stats.page_table_bytes
       /\ r.stats.retained_snapshot_bytes = x.stats.retained_snapshot_bytes
  BY <1>3, <1>18, Refreshed
<1> QED BY <1>17, <1>19, <1>20, <1>21 DEF r, id

\* Polling the backend only lowers the occupied pages.
LEMMA ReclaimedSound ==
    ASSUME Sound(cache), NEW polled, Cardinality(polled) \in Nat,
           cache.deferred_pages - Cardinality(polled) \in Nat
    PROVE  LET r == Reclaimed(polled)
           IN  /\ Sound(r) /\ Balanced(r) /\ Occupied(r) <= Occupied(cache)
               /\ r.pages = cache.pages /\ r.sequences = cache.sequences
               /\ r.free_sequence_slots = cache.free_sequence_slots
               /\ r.prefixes = cache.prefixes
               /\ r.stats.reserved_pages = cache.stats.reserved_pages
               /\ r.stats.active_private_state_bytes = cache.stats.active_private_state_bytes
               /\ r.stats.page_table_bytes = cache.stats.page_table_bytes
               /\ r.stats.retained_snapshot_bytes = cache.stats.retained_snapshot_bytes
<1> DEFINE x == [cache EXCEPT !.deferred_pages = @ - Cardinality(polled)]
           r == Reclaimed(polled)
<1>1. DOMAIN cache = Fields
  BY DEF Sound
<1>2. r = RefreshStats(x)
  BY DEF Reclaimed
<1>3. /\ DOMAIN x = Fields
      /\ x.pages = cache.pages /\ x.free_page_slots = cache.free_page_slots
      /\ x.sequences = cache.sequences /\ x.free_sequence_slots = cache.free_sequence_slots
      /\ x.prefixes = cache.prefixes /\ x.lru = cache.lru /\ x.tree = cache.tree
      /\ x.next_prefix_id = cache.next_prefix_id /\ x.clock = cache.clock
      /\ x.stats = cache.stats
      /\ x.deferred_pages = cache.deferred_pages - Cardinality(polled)
  BY <1>1 DEF Fields
<1> HIDE DEF x, r
<1>4. Sound(x)
  BY <1>3 DEF Sound
<1>5. Occupied(x) <= Occupied(cache)
  <2> DEFINE a == Len(cache.pages)
             b == Len(cache.free_page_slots)
             d == cache.deferred_pages
             k == Cardinality(polled)
  <2>1. a \in Nat /\ b \in Nat /\ d \in Nat /\ k \in Nat
    BY SeqParts DEF Sound, PagesOK
  <2>2. Occupied(x) = a - b + (d - k) /\ Occupied(cache) = a - b + d
    BY <1>3 DEF Occupied
  <2> HIDE DEF a, b, d, k
  <2> QED BY <2>1, <2>2
<1>6. r.pages = x.pages /\ r.free_sequence_slots = x.free_sequence_slots
  <2>1. x.stats \in Stats
    BY <1>4 DEF Sound
  <2> QED BY <2>1, <1>2, <1>3, RefreshFields
<1>7. /\ Sound(r) /\ Balanced(r) /\ r.sequences = x.sequences /\ r.prefixes = x.prefixes
      /\ Occupied(r) = Occupied(x)
      /\ r.stats.reserved_pages = x.stats.reserved_pages
      /\ r.stats.active_private_state_bytes = x.stats.active_private_state_bytes
      /\ r.stats.page_table_bytes = x.stats.page_table_bytes
      /\ r.stats.retained_snapshot_bytes = x.stats.retained_snapshot_bytes
  BY <1>2, <1>4, Refreshed
<1> QED BY <1>3, <1>5, <1>6, <1>7 DEF r

----------------------------------------------------------------------------
(* The inductive invariant: capacity. *)

\* The part of the inductive invariant that is about capacity.  Occupied pages never
\* exceed the recorded resident ones (they fall behind when a removal stops half way),
\* the recorded total is made of the recorded parts, and the four limits hold.
Ledger(c) ==
    /\ Occupied(c) <= c.stats.resident_pages
    /\ c.stats.total_managed_bytes =
         (c.stats.resident_pages + c.stats.reserved_pages) * PageBytes
           + c.stats.active_private_state_bytes
           + c.stats.retained_snapshot_bytes + c.stats.page_table_bytes
    /\ c.stats.total_managed_bytes <= MaxManagedBytes
    /\ c.stats.resident_pages + c.stats.reserved_pages <= PageCapacity
    /\ c.stats.retained_snapshot_bytes <= MaxSnapshotBytes
    /\ Cardinality(DOMAIN c.prefixes) <= MaxPrefixEntries

\* Multiplication by page_bytes is monotone.
LEMMA TimesMonotone ==
    ASSUME NEW a \in Int, NEW b \in Int, NEW n \in Nat, a <= b
    PROVE  a * n <= b * n /\ a * n \in Int /\ b * n \in Int
OBVIOUS

\* A refresh after which nothing counts for more than before keeps every limit.
LEMMA LedgerKept ==
    ASSUME NEW c, Sound(c), Ledger(c), NEW r, Sound(r), Balanced(r),
           Occupied(r) + r.stats.reserved_pages <= Occupied(c) + c.stats.reserved_pages,
           r.stats.active_private_state_bytes <= c.stats.active_private_state_bytes,
           r.stats.page_table_bytes <= c.stats.page_table_bytes,
           r.stats.retained_snapshot_bytes <= c.stats.retained_snapshot_bytes,
           DOMAIN r.prefixes \subseteq DOMAIN c.prefixes
    PROVE  Ledger(r)
<1> DEFINE o == Occupied(c)
           v == c.stats.reserved_pages
           m == c.stats.resident_pages
           i == c.stats.active_private_state_bytes
           j == c.stats.page_table_bytes
           k == c.stats.retained_snapshot_bytes
           o2 == Occupied(r)
           v2 == r.stats.reserved_pages
           i2 == r.stats.active_private_state_bytes
           j2 == r.stats.page_table_bytes
           k2 == r.stats.retained_snapshot_bytes
           t == c.stats.total_managed_bytes
           t2 == r.stats.total_managed_bytes
<1>1. c.stats \in Stats /\ r.stats \in Stats
  BY DEF Sound
<1>2. v \in Nat /\ m \in Nat /\ i \in Nat /\ j \in Nat /\ k \in Nat /\ t \in Nat
  BY <1>1 DEF Stats
<1>3. v2 \in Nat /\ i2 \in Nat /\ j2 \in Nat /\ k2 \in Nat /\ t2 \in Nat
  BY <1>1 DEF Stats
<1>4. o \in Nat /\ o2 \in Nat /\ PageBytes \in Nat /\ PageCapacity \in Nat /\ MaxManagedBytes \in Nat
      /\ MaxSnapshotBytes \in Nat
  BY OccupiedNat, ConfigAssumption
<1>5. /\ o2 + v2 <= o + v /\ i2 <= i /\ j2 <= j /\ k2 <= k
      /\ t2 = (o2 + v2) * PageBytes + i2 + k2 + j2
      /\ r.stats.resident_pages = o2
  BY DEF Balanced
<1>6. /\ o <= m /\ t = (m + v) * PageBytes + i + k + j
      /\ t <= MaxManagedBytes /\ m + v <= PageCapacity /\ k <= MaxSnapshotBytes
  BY DEF Ledger
<1>7. Cardinality(DOMAIN r.prefixes) <= MaxPrefixEntries
  <2>1. IsFiniteSet(DOMAIN c.prefixes)
    BY DEF Sound, PrefixesOK
  <2>2. Cardinality(DOMAIN r.prefixes) <= Cardinality(DOMAIN c.prefixes)
        /\ Cardinality(DOMAIN r.prefixes) \in Nat /\ Cardinality(DOMAIN c.prefixes) \in Nat
    BY <2>1, FS_Subset, FS_CardinalityType
  <2>3. Cardinality(DOMAIN c.prefixes) <= MaxPrefixEntries /\ MaxPrefixEntries \in Nat
    BY ConfigAssumption DEF Ledger
  <2> QED BY <2>2, <2>3
<1> HIDE DEF o, v, m, i, j, k, o2, v2, i2, j2, k2, t, t2
<1>8. o2 + v2 <= m + v /\ o2 + v2 \in Int /\ m + v \in Int
  BY <1>2, <1>3, <1>4, <1>5, <1>6
<1>9. (o2 + v2) * PageBytes <= (m + v) * PageBytes
      /\ (o2 + v2) * PageBytes \in Int /\ (m + v) * PageBytes \in Int
  BY <1>4, <1>8, TimesMonotone
<1>10. t2 <= MaxManagedBytes
  <2> DEFINE x == (o2 + v2) * PageBytes
             y == (m + v) * PageBytes
  <2>1. x <= y /\ x \in Int /\ y \in Int /\ t2 = x + i2 + k2 + j2 /\ t = y + i + k + j
    BY <1>5, <1>6, <1>9
  <2> HIDE DEF x, y
  <2> QED BY <2>1, <1>2, <1>3, <1>4, <1>5, <1>6
<1>11. o2 + v2 <= PageCapacity /\ k2 <= MaxSnapshotBytes
  BY <1>2, <1>3, <1>4, <1>5, <1>6, <1>8
<1>12. o2 <= o2
  BY <1>4
<1> QED BY <1>5, <1>7, <1>10, <1>11, <1>12 DEF Ledger, o2, v2, i2, j2, k2, t2

\* A refresh after growth that a plan approved (Fits) keeps every limit.
LEMMA LedgerGrown ==
    ASSUME NEW c, Sound(c), Ledger(c), NEW r, Sound(r), Balanced(r),
           NEW ids, ids \subseteq DOMAIN c.prefixes, NEW demand, Fits(c, ids, demand),
           CanEvict(c, ids), Cardinality(RetireSlots(c, ids)) \in Nat,
           NEW later \in Nat, later <= Cardinality(RetireSlots(c, ids)), Immediate => later = 0,
           NEW private \in Nat, NEW table \in Nat,
           demand.pages \in Nat, demand.snapshots \in Nat, demand.entries \in Nat,
           demand.bytes = demand.pages * PageBytes + private + table + demand.snapshots,
           demand.limit \in Int, demand.limit <= MaxManagedBytes,
           Occupied(r) + r.stats.reserved_pages
             = Occupied(c) - Cardinality(RetireSlots(c, ids)) + later
                 + c.stats.reserved_pages + demand.pages,
           r.stats.active_private_state_bytes = c.stats.active_private_state_bytes + private,
           r.stats.page_table_bytes = c.stats.page_table_bytes + table,
           r.stats.retained_snapshot_bytes =
             c.stats.retained_snapshot_bytes - SnapshotBytes(c.prefixes, ids) + demand.snapshots,
           Cardinality(DOMAIN r.prefixes)
             <= Cardinality(DOMAIN c.prefixes) - Cardinality(ids) + demand.entries
    PROVE  Ledger(r)
<1> DEFINE B == PageBytes
           o == Occupied(c)
           v == c.stats.reserved_pages
           m == c.stats.resident_pages
           i == c.stats.active_private_state_bytes
           j == c.stats.page_table_bytes
           k == c.stats.retained_snapshot_bytes
           t == c.stats.total_managed_bytes
           o2 == Occupied(r)
           v2 == r.stats.reserved_pages
           i2 == r.stats.active_private_state_bytes
           j2 == r.stats.page_table_bytes
           k2 == r.stats.retained_snapshot_bytes
           t2 == r.stats.total_managed_bytes
           R == Cardinality(RetireSlots(c, ids))
           S == SnapshotBytes(c.prefixes, ids)
           f == IF Immediate THEN R ELSE 0
           p == demand.pages
           n == demand.snapshots
           e == Cardinality(DOMAIN c.prefixes)
           e2 == Cardinality(DOMAIN r.prefixes)
           g == Cardinality(ids)
<1>1. c.stats \in Stats /\ r.stats \in Stats
  BY DEF Sound
<1>2. v \in Nat /\ m \in Nat /\ i \in Nat /\ j \in Nat /\ k \in Nat /\ t \in Nat
  BY <1>1 DEF Stats
<1>3. v2 \in Nat /\ i2 \in Nat /\ j2 \in Nat /\ k2 \in Nat /\ t2 \in Nat
  BY <1>1 DEF Stats
<1>4. /\ o \in Nat /\ o2 \in Nat /\ B \in Nat /\ PageCapacity \in Nat
      /\ MaxManagedBytes \in Nat /\ MaxSnapshotBytes \in Nat /\ MaxPrefixEntries \in Nat
  BY OccupiedNat, ConfigAssumption
<1>5. /\ e \in Nat /\ g \in Nat /\ e2 \in Nat /\ e2 <= e - g + demand.entries
      /\ e + demand.entries - g <= MaxPrefixEntries
  <2>1. IsFiniteSet(DOMAIN c.prefixes) /\ IsFiniteSet(DOMAIN r.prefixes)
    BY DEF Sound, PrefixesOK
  <2>2. e \in Nat /\ g \in Nat /\ e2 \in Nat
    BY <2>1, FS_Subset, FS_CardinalityType
  <2> QED BY <2>2 DEF Fits
<1>6. R \in Nat /\ S \in Nat /\ p \in Nat /\ n \in Nat
  BY DEF CanEvict
<1>7. f \in Nat /\ R >= f /\ later - R <= 0 - f
  <2>1. CASE Immediate
    BY <2>1, <1>6
  <2>2. CASE ~Immediate
    BY <2>2, <1>6
  <2> QED BY <2>1, <2>2
<1>8. /\ o2 + v2 = o - R + later + v + p
      /\ i2 = i + private /\ j2 = j + table /\ k2 = k - S + n
      /\ t2 = (o2 + v2) * B + i2 + k2 + j2
      /\ r.stats.resident_pages = o2
  BY DEF Balanced
<1>9. o <= m /\ t = (m + v) * B + i + k + j
  BY DEF Ledger
<1>10. /\ t + (p * B + private + table + n) - S - f * B <= demand.limit
       /\ m + v + p - f <= PageCapacity
       /\ k + n - S <= MaxSnapshotBytes
  BY DEF Fits
<1> HIDE DEF B, o, v, m, i, j, k, t, o2, v2, i2, j2, k2, t2, R, S, f, p, n, e, e2, g
<1>11. e2 <= MaxPrefixEntries
  BY <1>4, <1>5
<1>12. k2 <= MaxSnapshotBytes
  BY <1>2, <1>3, <1>4, <1>6, <1>8, <1>10
<1>13. o2 + v2 <= m + v + p - f /\ o2 + v2 \in Int /\ m + v + p - f \in Int
  BY <1>2, <1>3, <1>4, <1>6, <1>7, <1>8, <1>9
<1>14. o2 + v2 <= PageCapacity
  BY <1>4, <1>10, <1>13
<1>15. t2 <= MaxManagedBytes
  <2> DEFINE x == (o2 + v2) * B
             y == (m + v + p - f) * B
             a == (m + v) * B
             b == p * B
             d == f * B
  <2>1. x <= y /\ x \in Int /\ y \in Int
    BY <1>4, <1>13, TimesMonotone
  <2>2. y = a + b - d
    <3>1. \A w \in Int, q, u, z \in Int : (w + q - u) * z = w * z + q * z - u * z
      OBVIOUS
    <3>2. m + v \in Int
      BY <1>2
    <3> DEFINE w == m + v
    <3>3. y = (w + p - f) * B /\ a = w * B /\ w \in Int
      BY <3>2
    <3> HIDE DEF w, y, a
    <3> QED BY <3>1, <3>3, <1>4, <1>6, <1>7 DEF b, d
  <2>3. a \in Int /\ b \in Int /\ d \in Int
    BY <1>2, <1>4, <1>6, <1>7
  <2>4. /\ t2 = x + i2 + k2 + j2 /\ t = a + i + k + j
        /\ t + (b + private + table + n) - S - d <= demand.limit
    BY <1>8, <1>9, <1>10
  <2> HIDE DEF x, y, a, b, d
  <2> QED BY <2>1, <2>2, <2>3, <2>4, <1>2, <1>3, <1>4, <1>6, <1>8
<1>16. o2 <= o2
  BY <1>4
<1> QED BY <1>8, <1>11, <1>12, <1>14, <1>15, <1>16 DEF Ledger, o2, v2, i2, j2, k2, t2, e2, B

----------------------------------------------------------------------------
(* The backend. *)

\* Who may own a physical page.
Owners == {"free", "held", "deferred"}
\* The type of a published page table.
TableType == [pages : Seq(PhysicalPages \cup {None}), position : Nat]
\* What a call may return.
Results == {"ok", "would_block", "refused", "backend", "assert"}

\* Publishing for a slot in range or one past the end keeps the tables a sequence.
LEMMA PublishedType ==
    ASSUME tables \in Seq(TableType), NEW slot \in 1..(Len(tables) + 1),
           NEW physical \in Seq(PhysicalPages \cup {None}), NEW position \in Nat
    PROVE  /\ Published(slot, physical, position) \in Seq(TableType)
           /\ DOMAIN Published(slot, physical, position) = DOMAIN tables \cup {slot}
<1> DEFINE r == Published(slot, physical, position)
           n == IF slot = Len(tables) + 1 THEN Len(tables) + 1 ELSE Len(tables)
           row == [pages |-> physical, position |-> position]
<1>1. /\ Len(tables) \in Nat /\ DOMAIN tables = 1..Len(tables)
      /\ \A s \in 1..Len(tables) : tables[s] \in TableType
  BY SeqParts
<1>2. n \in Nat /\ DOMAIN tables \cup {slot} = 1..n
  BY <1>1
<1>3. r = [s \in 1..n |-> IF s = slot THEN row ELSE tables[s]]
  BY <1>2 DEF Published
<1>4. row \in TableType
  BY DEF TableType
<1> HIDE DEF row, r, n
<1>5. \A s \in 1..n : (IF s = slot THEN row ELSE tables[s]) \in TableType
  BY <1>1, <1>2, <1>4
<1>6. r \in [1..n -> TableType]
  BY <1>3, <1>5
<1>7. r \in Seq(TableType) /\ DOMAIN r = 1..n
  BY <1>2, <1>6, SeqBuilt
<1> QED BY <1>2, <1>7 DEF r

\* Live handles have slots in the arena and physical references.
LEMMA LivePages ==
    ASSUME NEW c, Sound(c), NEW ids \in Seq(PageId), AllLive(c, ids)
    PROVE  /\ Present(c, ids)
           /\ SlotsOf(ids) \in SUBSET DOMAIN c.pages
           /\ PhysicalRefs(c, ids) \in Seq(PhysicalPages \cup {None})
<1>1. Len(ids) \in Nat /\ DOMAIN ids = 1..Len(ids)
  BY SeqParts
<1>2. Present(c, ids)
  BY <1>1 DEF AllLive, LivePage, Present
<1>3. SlotsOf(ids) \in SUBSET DOMAIN c.pages
  BY <1>1, <1>2 DEF SlotsOf, Present
<1>4. \A s \in DOMAIN c.pages : c.pages[s] \in PageSlot
  BY SeqParts DEF Sound, PagesOK
<1>5. \A s \in DOMAIN c.pages : c.pages[s].physical \in PhysicalPages \cup {None}
  BY <1>4 DEF PageSlot
<1>6. PhysicalRefs(c, ids) = [i \in 1..Len(ids) |-> c.pages[ids[i].slot].physical]
  BY <1>1 DEF PhysicalRefs
<1>7. \A i \in 1..Len(ids) : c.pages[ids[i].slot].physical \in PhysicalPages \cup {None}
  BY <1>2, <1>5 DEF Present
<1>8. PhysicalRefs(c, ids) \in [1..Len(ids) -> PhysicalPages \cup {None}]
  BY <1>6, <1>7
<1> QED BY <1>1, <1>2, <1>3, <1>8, SeqBuilt

\* Moving pages between owners keeps the pool typed.
LEMMA MovedType ==
    ASSUME NEW pl \in [PhysicalPages -> Owners], NEW ps, NEW owner \in Owners
    PROVE  Moved(pl, ps, owner) \in [PhysicalPages -> Owners]
BY DEF Moved

\* The pool operations keep the pool typed.
LEMMA PoolSteps ==
    ASSUME NEW pl \in [PhysicalPages -> Owners], NEW ps, NEW later
    PROVE  /\ Moved(pl, ps, "free") \in [PhysicalPages -> Owners]
           /\ Moved(pl, ps, "held") \in [PhysicalPages -> Owners]
           /\ RetirePhysical(pl, ps, later) \in [PhysicalPages -> Owners]
           /\ RollbackPages(Moved(pl, ps, "held"), ps) \in [PhysicalPages -> Owners]
<1>1. "free" \in Owners /\ "held" \in Owners /\ "deferred" \in Owners
  BY DEF Owners
<1>2. /\ Moved(pl, ps, "free") \in [PhysicalPages -> Owners]
      /\ Moved(pl, ps, "held") \in [PhysicalPages -> Owners]
  BY <1>1, MovedType
<1>3. Moved(Moved(pl, ps, "free"), later, "deferred") \in [PhysicalPages -> Owners]
  BY <1>1, <1>2, MovedType
<1>4. Moved(Moved(pl, ps, "held"), ps, "free") \in [PhysicalPages -> Owners]
  BY <1>1, <1>2, MovedType
<1> QED BY <1>2, <1>3, <1>4 DEF RetirePhysical, RollbackPages

\* The pages a retirement defers are no more than it retires, and none for a backend
\* that retires at once.
LEMMA DeferrableBound ==
    ASSUME NEW c, NEW S, IsFiniteSet(S), NEW later \in Deferrable({c.pages[s].physical : s \in S})
    PROVE  /\ Cardinality(later) \in Nat /\ Cardinality(later) <= Cardinality(S)
           /\ Immediate => Cardinality(later) = 0
<1> DEFINE f == [s \in S |-> c.pages[s].physical]
           T == {c.pages[s].physical : s \in S}
<1>1. f \in Surjection(S, T)
  <2>1. f \in [S -> T] /\ \A y \in T : \E x \in S : f[x] = y
    OBVIOUS
  <2> QED BY <2>1 DEF Surjection
<1>2. IsFiniteSet(T) /\ Cardinality(T) <= Cardinality(S)
  BY <1>1, FS_Surjection
<1> HIDE DEF T
<1>3. later \subseteq T /\ (Immediate => later = {})
  BY DEF Deferrable, T
<1>4. Cardinality(later) \in Nat /\ Cardinality(later) <= Cardinality(T)
      /\ Cardinality(T) \in Nat /\ Cardinality(S) \in Nat
  BY <1>2, <1>3, FS_Subset, FS_CardinalityType
<1>5. Cardinality({}) = 0
  BY FS_EmptySet
<1> QED BY <1>2, <1>3, <1>4, <1>5, SMTT(40)

\* A plan evicts existing entries.
LEMMA EvictionRunsParts ==
    ASSUME NEW c, Sound(c), NEW protected, NEW ids \in EvictionRuns(c, protected)
    PROVE  ids \subseteq DOMAIN c.prefixes
<1>1. \A e \in c.lru : e[2] \in DOMAIN c.prefixes
  BY DEF Sound, PrefixesOK
<1> QED BY <1>1 DEF EvictionRuns

\* A poll reports finitely many pages.
LEMMA PollFinite ==
    ASSUME NEW polled \in SUBSET InPool("deferred")
    PROVE  Cardinality(polled) \in Nat
<1>1. polled \subseteq PhysicalPages
  BY DEF InPool
<1> QED BY <1>1, FS_Subset, FS_CardinalityType, ConfigAssumption

\* commit_evictions with the number of pages deferred bounded by the pages retired.
LEMMA EvictedParts ==
    ASSUME NEW c, Sound(c), NEW ids, ids \subseteq DOMAIN c.prefixes, CanEvict(c, ids),
           NEW slots \in SetToSeqs(RetireSlots(c, ids)),
           NEW later \in Deferrable({c.pages[s].physical : s \in Range(slots)})
    PROVE  LET r == CommitEvictions(c, ids, slots, Cardinality(later))
           IN  /\ Sound(r) /\ Balanced(r)
               /\ r.sequences = c.sequences /\ r.free_sequence_slots = c.free_sequence_slots
               /\ DOMAIN r.pages = DOMAIN c.pages
               /\ DOMAIN r.prefixes = DOMAIN c.prefixes \ ids
               /\ r.next_prefix_id = c.next_prefix_id
               /\ Cardinality(RetireSlots(c, ids)) \in Nat
               /\ Cardinality(later) \in Nat
               /\ Cardinality(later) <= Cardinality(RetireSlots(c, ids))
               /\ Immediate => Cardinality(later) = 0
               /\ Cardinality(DOMAIN r.prefixes) = Cardinality(DOMAIN c.prefixes) - Cardinality(ids)
               /\ Occupied(r) = Occupied(c) - Cardinality(RetireSlots(c, ids)) + Cardinality(later)
               /\ r.stats.reserved_pages = c.stats.reserved_pages
               /\ r.stats.active_private_state_bytes = c.stats.active_private_state_bytes
               /\ r.stats.page_table_bytes = c.stats.page_table_bytes
               /\ r.stats.retained_snapshot_bytes =
                    c.stats.retained_snapshot_bytes - SnapshotBytes(c.prefixes, ids)
<1> DEFINE S == RetireSlots(c, ids)
           r == CommitEvictions(c, ids, slots, Cardinality(later))
<1>1. S \in SUBSET DOMAIN c.pages /\ PagesOK(c.pages, c.free_page_slots)
  BY RetireSlotsParts DEF Sound
<1>2. IsFiniteSet(S) /\ S \in SUBSET Nat
  BY <1>1, ReclaimableBytesInt
<1>3. Range(slots) = S
  BY <1>2, SeqOfSet
<1>4. /\ Cardinality(later) \in Nat /\ Cardinality(later) <= Cardinality(S)
      /\ Immediate => Cardinality(later) = 0
  BY <1>2, <1>3, DeferrableBound
<1>5. /\ Sound(r) /\ Balanced(r)
      /\ r.sequences = c.sequences /\ r.free_sequence_slots = c.free_sequence_slots
      /\ r.next_prefix_id = c.next_prefix_id
      /\ DOMAIN r.pages = DOMAIN c.pages
      /\ DOMAIN r.prefixes = DOMAIN c.prefixes \ ids
      /\ Cardinality(S) \in Nat
      /\ Occupied(r) = Occupied(c) - Cardinality(S) + Cardinality(later)
      /\ r.stats.reserved_pages = c.stats.reserved_pages
      /\ r.stats.active_private_state_bytes = c.stats.active_private_state_bytes
      /\ r.stats.page_table_bytes = c.stats.page_table_bytes
      /\ r.stats.retained_snapshot_bytes =
           c.stats.retained_snapshot_bytes - SnapshotBytes(c.prefixes, ids)
  BY <1>4, EvictSound
<1> HIDE DEF r, S
<1>6. Cardinality(DOMAIN r.prefixes) = Cardinality(DOMAIN c.prefixes) - Cardinality(ids)
  <2>1. IsFiniteSet(DOMAIN c.prefixes)
    BY DEF Sound, PrefixesOK
  <2>2. (DOMAIN c.prefixes) \cap ids = ids
    OBVIOUS
  <2>3. Cardinality(DOMAIN c.prefixes \ ids)
          = Cardinality(DOMAIN c.prefixes) - Cardinality((DOMAIN c.prefixes) \cap ids)
    BY <2>1, FS_Difference
  <2> QED BY <2>2, <2>3, <1>5
<1> QED BY <1>4, <1>5, <1>6 DEF r, S

----------------------------------------------------------------------------
(* The invariant, and one lemma per action. *)

\* The inductive invariant of the specification.
IInv ==
    /\ Sound(cache) /\ Ledger(cache)
    /\ pool \in [PhysicalPages -> Owners]
    /\ tables \in Seq(TableType) /\ DOMAIN tables = DOMAIN cache.sequences
    /\ result \in Results

\* The empty cache satisfies the inductive invariant.
LEMMA InitIInv == Init => IInv
<1> SUFFICES ASSUME Init PROVE IInv
  OBVIOUS
<1> DEFINE e == [pages |-> <<>>, free_page_slots |-> <<>>,
                 sequences |-> <<>>, free_sequence_slots |-> <<>>,
                 prefixes |-> <<>>, lru |-> {}, tree |-> <<>>,
                 next_prefix_id |-> 0, clock |-> 0, deferred_pages |-> 0,
                 stats |-> EmptyStats]
<1>1. cache = RefreshStats(e)
  BY DEF Init, EmptyCache
<1>2. FreeList(<< >>, << >>)
  BY DEF FreeList, IsInjective
<1>3. EmptyStats \in Stats
  BY DEF EmptyStats, Stats
<1>4. PagesOK(<< >>, << >>) /\ SequencesOK(<< >>, << >>)
  BY <1>2 DEF PagesOK, SequencesOK
<1>5. PrefixesOK(<< >>, {}) /\ TreeOK(<< >>)
  BY FS_EmptySet DEF PrefixesOK, TreeOK
<1>6. Sound(e)
  BY <1>3, <1>4, <1>5 DEF Sound, Fields
<1>7. /\ Sound(cache) /\ Balanced(cache) /\ cache.sequences = e.sequences
      /\ cache.prefixes = e.prefixes /\ Occupied(cache) = Occupied(e)
      /\ cache.stats.reserved_pages = e.stats.reserved_pages
      /\ cache.stats.active_private_state_bytes = e.stats.active_private_state_bytes
      /\ cache.stats.page_table_bytes = e.stats.page_table_bytes
      /\ cache.stats.retained_snapshot_bytes = e.stats.retained_snapshot_bytes
  BY <1>1, <1>6, Refreshed
<1>8. Occupied(e) = 0
  BY DEF Occupied
<1>9. Cardinality(DOMAIN cache.prefixes) = 0
  BY <1>7, FS_EmptySet
<1>10. /\ cache.stats.reserved_pages = 0 /\ cache.stats.active_private_state_bytes = 0
       /\ cache.stats.page_table_bytes = 0 /\ cache.stats.retained_snapshot_bytes = 0
       /\ cache.stats.resident_pages = 0 /\ Occupied(cache) = 0
  BY <1>7, <1>8 DEF EmptyStats, Balanced
<1>11. cache.stats.total_managed_bytes = (0 + 0) * PageBytes + 0 + 0 + 0
  BY <1>7, <1>10 DEF Balanced
<1>12. (0 + 0) * PageBytes = 0
  BY ConfigAssumption
<1>13. Ledger(cache)
  BY <1>9, <1>10, <1>11, <1>12, ConfigAssumption DEF Ledger
<1>14. pool \in [PhysicalPages -> Owners] /\ result \in Results /\ tables = << >>
  BY DEF Init, Owners, Results
<1> QED BY <1>7, <1>13, <1>14 DEF IInv

\* A step that leaves the manager and the tables alone keeps the invariant.
LEMMA KeepIInv ==
    ASSUME IInv, UNCHANGED <<cache, tables>>, pool' \in [PhysicalPages -> Owners],
           result' \in Results
    PROVE  IInv'
BY DEF IInv

\* LedgerKept where reservations and private bytes are unchanged.
LEMMA SameOrLess ==
    ASSUME NEW c, Sound(c), Ledger(c), NEW r, Sound(r), Balanced(r),
           Occupied(r) <= Occupied(c), DOMAIN r.prefixes \subseteq DOMAIN c.prefixes,
           r.stats.reserved_pages = c.stats.reserved_pages,
           r.stats.active_private_state_bytes = c.stats.active_private_state_bytes,
           r.stats.page_table_bytes = c.stats.page_table_bytes,
           r.stats.retained_snapshot_bytes <= c.stats.retained_snapshot_bytes
    PROVE  Ledger(r)
<1>1. c.stats \in Stats
  BY DEF Sound
<1>2. /\ c.stats.reserved_pages \in Nat /\ c.stats.active_private_state_bytes \in Nat
      /\ c.stats.page_table_bytes \in Nat
  BY <1>1 DEF Stats
<1>3. Occupied(c) \in Nat /\ Occupied(r) \in Nat
  BY OccupiedNat
<1>4. Occupied(r) + r.stats.reserved_pages <= Occupied(c) + c.stats.reserved_pages
  <2> DEFINE v == c.stats.reserved_pages
  <2>1. v \in Nat /\ r.stats.reserved_pages = v
    BY <1>2
  <2> HIDE DEF v
  <2>2. Occupied(r) + v <= Occupied(c) + v
    BY <2>1, <1>3
  <2> QED BY <2>1, <2>2 DEF v
<1>5. /\ r.stats.active_private_state_bytes <= c.stats.active_private_state_bytes
      /\ r.stats.page_table_bytes <= c.stats.page_table_bytes
  BY <1>2
<1> QED BY <1>4, <1>5, LedgerKept

\* The manager after the poll at the start of admit, or in reclaim_deferred.
LEMMA PolledParts ==
    ASSUME IInv, NEW polled \in SUBSET InPool("deferred"),
           cache.deferred_pages - Cardinality(polled) \in Nat
    PROVE  LET r == Reclaimed(polled)
           IN  Sound(r) /\ Ledger(r) /\ r.sequences = cache.sequences
<1> DEFINE r == Reclaimed(polled)
<1>1. Sound(cache) /\ Ledger(cache)
  BY DEF IInv
<1>2. Cardinality(polled) \in Nat
  BY PollFinite
<1>3. /\ Sound(r) /\ Balanced(r) /\ Occupied(r) <= Occupied(cache)
      /\ r.sequences = cache.sequences /\ r.prefixes = cache.prefixes
      /\ r.stats.reserved_pages = cache.stats.reserved_pages
      /\ r.stats.active_private_state_bytes = cache.stats.active_private_state_bytes
      /\ r.stats.page_table_bytes = cache.stats.page_table_bytes
      /\ r.stats.retained_snapshot_bytes = cache.stats.retained_snapshot_bytes
  BY <1>1, <1>2, ReclaimedSound
<1> HIDE DEF r
<1>4. Ledger(r)
  <2>1. cache.stats \in Stats
    BY <1>1 DEF Sound
  <2>2. cache.stats.retained_snapshot_bytes \in Nat
    BY <2>1 DEF Stats
  <2>3. r.stats.retained_snapshot_bytes <= cache.stats.retained_snapshot_bytes
    BY <2>2, <1>3
  <2> QED BY <2>3, <1>1, <1>3, SameOrLess
<1> QED BY <1>3, <1>4 DEF r

\* A step that only polls keeps the invariant.
LEMMA PolledIInv ==
    ASSUME IInv, NEW polled \in SUBSET InPool("deferred"),
           cache.deferred_pages - Cardinality(polled) \in Nat,
           cache' = Reclaimed(polled), pool' = Moved(pool, polled, "free"),
           UNCHANGED tables, result' \in Results
    PROVE  IInv'
<1>1. Sound(cache') /\ Ledger(cache') /\ cache'.sequences = cache.sequences
  BY PolledParts
<1>2. pool' \in [PhysicalPages -> Owners]
  BY PoolSteps DEF IInv
<1> QED BY <1>1, <1>2 DEF IInv

\* reclaim_deferred keeps the invariant.
LEMMA ReclaimDeferredIInv ==
    ASSUME IInv, NEW polled \in SUBSET InPool("deferred"), ReclaimDeferred(polled)
    PROVE  IInv'
BY PolledIInv DEF ReclaimDeferred, Results

\* An admission that is refused, or fails, keeps the invariant.
LEMMA AdmitDeclinedIInv ==
    ASSUME IInv, NEW polled \in SUBSET InPool("deferred"), NEW prefix, NEW request,
           NEW outcome \in {"would_block", "refused", "backend"},
           AdmitDeclined(polled, prefix, request, outcome)
    PROVE  IInv'
BY PolledIInv DEF AdmitDeclined, Results

\* The demand of an admission, and that its limit is at most max_managed_bytes.
LEMMA DemandParts ==
    ASSUME NEW pages \in Nat, NEW request \in Request
    PROVE  LET d == AdmissionDemand(pages, request)
           IN  /\ d.pages = pages /\ d.snapshots = 0 /\ d.entries = 0
               /\ d.bytes = pages * PageBytes + request.private_state_bytes
                              + request.page_table_bytes
               /\ d.limit \in Int /\ d.limit <= MaxManagedBytes
<1>1. AdmissionLimit(request) \in Int /\ AdmissionLimit(request) <= MaxManagedBytes
  BY ConfigAssumption DEF AdmissionLimit
<1> QED BY <1>1 DEF AdmissionDemand

\* insert_sequence followed by refresh_stats.
LEMMA InsertedSequence ==
    ASSUME NEW c, Sound(c), NEW pages \in Seq(PageId), NEW position \in Nat,
           NEW reserved \in Nat, NEW request \in Request
    PROVE  LET r == RefreshStats(InsertSequence(c, pages, position, reserved, request))
           IN  Sound(r) /\ Balanced(r) /\ SequenceAdded(r, c, reserved, request)
<1> DEFINE y == InsertSequence(c, pages, position, reserved, request)
           r == RefreshStats(y)
<1>1. Sound(y) /\ SequenceAdded(y, c, reserved, request)
  BY InsertSequenceSound
<1> HIDE DEF y
<1>2. /\ Sound(r) /\ Balanced(r) /\ r.sequences = y.sequences /\ r.prefixes = y.prefixes
      /\ Occupied(r) = Occupied(y)
      /\ r.stats.reserved_pages = y.stats.reserved_pages
      /\ r.stats.active_private_state_bytes = y.stats.active_private_state_bytes
      /\ r.stats.page_table_bytes = y.stats.page_table_bytes
      /\ r.stats.retained_snapshot_bytes = y.stats.retained_snapshot_bytes
  BY <1>1, Refreshed
<1> HIDE DEF r
<1>3. SequenceAdded(r, c, reserved, request)
  BY <1>1, <1>2 DEF SequenceAdded
<1> QED BY <1>2, <1>3 DEF r, y

\* The capacity argument of admit and branch: the plan fits, it counts no page as
\* freed that a fence may still hold, and the pages copied and promised add up to the
\* pages planned for.
LEMMA NewSequence ==
    ASSUME NEW c, Sound(c), Ledger(c), NEW ids, ids \subseteq DOMAIN c.prefixes,
           CanEvict(c, ids), NEW promised \in Nat, NEW request \in Request,
           Fits(c, ids, AdmissionDemand(promised, request)),
           Cardinality(RetireSlots(c, ids)) \in Nat, NEW l \in Nat,
           l <= Cardinality(RetireSlots(c, ids)), Immediate => l = 0,
           NEW r, Sound(r), Balanced(r), NEW copies \in Nat, NEW reserved \in Nat,
           reserved + copies = promised,
           Occupied(r) = Occupied(c) - Cardinality(RetireSlots(c, ids)) + l + copies,
           Cardinality(DOMAIN r.prefixes) = Cardinality(DOMAIN c.prefixes) - Cardinality(ids),
           r.stats.reserved_pages = c.stats.reserved_pages + reserved,
           r.stats.active_private_state_bytes =
             c.stats.active_private_state_bytes + request.private_state_bytes,
           r.stats.page_table_bytes = c.stats.page_table_bytes + request.page_table_bytes,
           r.stats.retained_snapshot_bytes =
             c.stats.retained_snapshot_bytes - SnapshotBytes(c.prefixes, ids)
    PROVE  Ledger(r)
<1> DEFINE d == AdmissionDemand(promised, request)
           R == Cardinality(RetireSlots(c, ids))
<1>5. /\ d.pages = promised /\ d.snapshots = 0 /\ d.entries = 0
      /\ d.bytes = promised * PageBytes + request.private_state_bytes + request.page_table_bytes
      /\ d.limit \in Int /\ d.limit <= MaxManagedBytes
  BY DemandParts
<1>6. request.private_state_bytes \in Nat /\ request.page_table_bytes \in Nat
  BY DEF Request
<1>7. Fits(c, ids, d) /\ R \in Nat
  OBVIOUS
<1> HIDE DEF R, d
<1>8. c.stats \in Stats /\ Occupied(c) \in Nat
  BY OccupiedNat DEF Sound
<1>9. Occupied(r) + r.stats.reserved_pages
        = Occupied(c) - R + l + c.stats.reserved_pages + d.pages
  <2> DEFINE v == c.stats.reserved_pages
             o == Occupied(c)
  <2>1. v \in Nat /\ o \in Nat
    BY <1>8 DEF Stats
  <2>2. Occupied(r) = o - R + l + copies /\ r.stats.reserved_pages = v + reserved
    BY DEF R
  <2>3. d.pages = reserved + copies
    BY <1>5
  <2> HIDE DEF v, o
  <2>4. (o - R + l + copies) + (v + reserved) = o - R + l + v + (reserved + copies)
    BY <2>1, <1>7
  <2>5. Occupied(r) + r.stats.reserved_pages = o - R + l + v + d.pages
    BY <2>2, <2>3, <2>4
  <2> QED BY <2>5 DEF v, o
<1>10. r.stats.retained_snapshot_bytes =
         c.stats.retained_snapshot_bytes - SnapshotBytes(c.prefixes, ids) + d.snapshots
  <2> DEFINE k == c.stats.retained_snapshot_bytes - SnapshotBytes(c.prefixes, ids)
  <2>1. k \in Nat /\ r.stats.retained_snapshot_bytes = k
    BY DEF CanEvict
  <2> HIDE DEF k
  <2>2. k = k + d.snapshots
    BY <2>1, <1>5
  <2> QED BY <2>1, <2>2 DEF k
<1>11. Cardinality(DOMAIN r.prefixes)
         <= Cardinality(DOMAIN c.prefixes) - Cardinality(ids) + d.entries
  <2> DEFINE k == Cardinality(DOMAIN c.prefixes) - Cardinality(ids)
  <2>1. IsFiniteSet(DOMAIN c.prefixes)
    BY DEF Sound, PrefixesOK
  <2>2. Cardinality(DOMAIN c.prefixes) \in Nat /\ Cardinality(ids) \in Nat
    BY <2>1, FS_Subset, FS_CardinalityType
  <2>3. k \in Int /\ Cardinality(DOMAIN r.prefixes) = k
    BY <2>2
  <2> HIDE DEF k
  <2>4. k <= k + d.entries
    BY <2>3, <1>5
  <2> QED BY <2>3, <2>4 DEF k
<1>12. d.bytes = d.pages * PageBytes + request.private_state_bytes + request.page_table_bytes
                   + d.snapshots
  <2> DEFINE k == promised * PageBytes + request.private_state_bytes + request.page_table_bytes
  <2>1. promised * PageBytes \in Nat
    BY TimesNat, ConfigAssumption
  <2>2. k \in Nat
    BY <2>1, <1>6
  <2>3. d.bytes = k
    BY <1>5
  <2>4. d.pages * PageBytes + request.private_state_bytes + request.page_table_bytes
          + d.snapshots = k + 0
    BY <1>5
  <2> HIDE DEF k
  <2> QED BY <2>2, <2>3, <2>4
<1>14. d.pages \in Nat /\ d.snapshots \in Nat /\ d.entries \in Nat
  BY <1>5
<1> QED BY <1>5, <1>6, <1>7, <1>9, <1>10, <1>11, <1>12, <1>14, LedgerGrown DEF R

\* x is e with `copies' more occupied pages and the same books.
PagesTaken(x, e, copies) ==
    /\ Occupied(x) = Occupied(e) + copies
    /\ x.sequences = e.sequences /\ x.free_sequence_slots = e.free_sequence_slots
    /\ x.prefixes = e.prefixes
    /\ x.stats.reserved_pages = e.stats.reserved_pages
    /\ x.stats.active_private_state_bytes = e.stats.active_private_state_bytes
    /\ x.stats.page_table_bytes = e.stats.page_table_bytes
    /\ x.stats.retained_snapshot_bytes = e.stats.retained_snapshot_bytes

\* The end of admit and branch keeps the manager sound and within capacity.
LEMMA AdmittedSound ==
    ASSUME NEW c, Sound(c), Ledger(c), NEW ids, ids \subseteq DOMAIN c.prefixes,
           CanEvict(c, ids), NEW promised \in Nat, NEW request \in Request,
           Fits(c, ids, AdmissionDemand(promised, request)),
           NEW slots \in SetToSeqs(RetireSlots(c, ids)),
           NEW later \in Deferrable({c.pages[s].physical : s \in Range(slots)}),
           NEW x, Sound(x), NEW copies \in Nat, NEW reserved \in Nat, reserved + copies = promised,
           PagesTaken(x, CommitEvictions(c, ids, slots, Cardinality(later)), copies),
           NEW pages \in Seq(PageId), NEW position \in Nat
    PROVE  LET r == RefreshStats(InsertSequence(x, pages, position, reserved, request))
           IN  /\ Sound(r) /\ Ledger(r)
               /\ DOMAIN r.sequences = DOMAIN c.sequences \cup {NextSequenceSlot(c)}
<1> DEFINE e == CommitEvictions(c, ids, slots, Cardinality(later))
           r == RefreshStats(InsertSequence(x, pages, position, reserved, request))
           R == Cardinality(RetireSlots(c, ids))
           l == Cardinality(later)
<1>1. /\ Sound(e)
      /\ e.sequences = c.sequences /\ e.free_sequence_slots = c.free_sequence_slots
      /\ R \in Nat /\ l \in Nat /\ l <= R /\ (Immediate => l = 0)
      /\ Cardinality(DOMAIN e.prefixes) = Cardinality(DOMAIN c.prefixes) - Cardinality(ids)
      /\ Occupied(e) = Occupied(c) - R + l
      /\ e.stats.reserved_pages = c.stats.reserved_pages
      /\ e.stats.active_private_state_bytes = c.stats.active_private_state_bytes
      /\ e.stats.page_table_bytes = c.stats.page_table_bytes
      /\ e.stats.retained_snapshot_bytes =
           c.stats.retained_snapshot_bytes - SnapshotBytes(c.prefixes, ids)
  BY EvictedParts
<1>2. PagesTaken(x, e, copies)
  OBVIOUS
<1>3. Sound(r) /\ Balanced(r) /\ SequenceAdded(r, x, reserved, request)
  BY InsertedSequence
<1> HIDE DEF e, r, l, R
<1>4. NextSequenceSlot(x) = NextSequenceSlot(c)
  BY <1>1, <1>2 DEF NextSequenceSlot, PagesTaken
<1>5. DOMAIN r.sequences = DOMAIN c.sequences \cup {NextSequenceSlot(c)}
  BY <1>1, <1>2, <1>3, <1>4 DEF PagesTaken, SequenceAdded
<1>6. Occupied(r) = Occupied(c) - R + l + copies
  BY <1>1, <1>2, <1>3 DEF PagesTaken, SequenceAdded
<1>7. Cardinality(DOMAIN r.prefixes) = Cardinality(DOMAIN c.prefixes) - Cardinality(ids)
  BY <1>1, <1>2, <1>3 DEF PagesTaken, SequenceAdded
<1>8. /\ r.stats.reserved_pages = c.stats.reserved_pages + reserved
      /\ r.stats.active_private_state_bytes =
           c.stats.active_private_state_bytes + request.private_state_bytes
      /\ r.stats.page_table_bytes = c.stats.page_table_bytes + request.page_table_bytes
      /\ r.stats.retained_snapshot_bytes =
           c.stats.retained_snapshot_bytes - SnapshotBytes(c.prefixes, ids)
  BY <1>1, <1>2, <1>3 DEF PagesTaken, SequenceAdded
<1>9. Ledger(r)
  BY <1>1, <1>3, <1>6, <1>7, <1>8, NewSequence DEF R
<1> QED BY <1>3, <1>5, <1>9 DEF r

\* The pages and the position of a matched prefix are typed.
LEMMA SharedParts ==
    ASSUME NEW c, Sound(c), NEW prefix, prefix \subseteq DOMAIN c.prefixes
    PROVE  SharedPages(c, prefix) \in Seq(PageId) /\ PrefixPosition(c, prefix) \in Nat
<1> DEFINE id == CHOOSE i \in prefix : TRUE
<1>1. CASE prefix = {}
  BY <1>1 DEF SharedPages, PrefixPosition
<1>2. CASE prefix # {}
  <2>1. id \in prefix
    BY <1>2
  <2>2. c.prefixes[id] \in PrefixEntry
    BY <2>1 DEF Sound, PrefixesOK
  <2>3. SharedPages(c, prefix) = c.prefixes[id].pages
        /\ PrefixPosition(c, prefix) = c.prefixes[id].position
    BY <1>2 DEF SharedPages, PrefixPosition
  <2> HIDE DEF id
  <2> QED BY <2>2, <2>3 DEF PrefixEntry
<1> QED BY <1>1, <1>2

\* The requests of the model have the type of AdmissionRequest.
LEMMA RequestType == ASSUME NEW request \in Requests PROVE request \in Request
BY InputAssumption DEF Request

\* Publishing the table of a new sequence adds its slot to the tables.
LEMMA TablesGrow ==
    ASSUME IInv, NEW c, Sound(c), c.sequences = cache.sequences,
           NEW physical \in Seq(PhysicalPages \cup {None}), NEW position \in Nat
    PROVE  /\ Published(NextSequenceSlot(c), physical, position) \in Seq(TableType)
           /\ DOMAIN Published(NextSequenceSlot(c), physical, position)
                = DOMAIN c.sequences \cup {NextSequenceSlot(c)}
<1>1. NextSequenceSlot(c) \in 1..(Len(c.sequences) + 1)
  BY NextSlotParts DEF Sound
<1>2. tables \in Seq(TableType) /\ DOMAIN tables = DOMAIN c.sequences
  BY DEF IInv
<1>3. Len(tables) = Len(c.sequences)
  <2>1. c.sequences \in Seq(SequenceSlot)
    BY DEF Sound, SequencesOK
  <2>2. Len(tables) \in Nat /\ Len(c.sequences) \in Nat /\ 1..Len(tables) = 1..Len(c.sequences)
    BY <2>1, <1>2, SeqParts
  <2>3. \A a, b \in Nat : 1..a = 1..b => a = b
    OBVIOUS
  <2> QED BY <2>2, <2>3
<1>4. NextSequenceSlot(c) \in 1..(Len(tables) + 1)
  BY <1>1, <1>3
<1> QED BY <1>2, <1>4, PublishedType

\* Sharing pages takes none.
LEMMA SharedTaken ==
    ASSUME NEW e, Sound(e), NEW S \in SUBSET DOMAIN e.pages, CanShare(e, S)
    PROVE  LET x == IncrementActiveRefs(e, S)
           IN  Sound(x) /\ PagesTaken(x, e, 0)
<1> DEFINE x == IncrementActiveRefs(e, S)
           n == ReclaimableBytes(e, S)
<1>1. /\ Sound(x) /\ Occupied(x) = Occupied(e) /\ SameRest(x, e)
      /\ x.stats = [e.stats EXCEPT !.reclaimable_prefix_only_bytes = @ - n]
  BY IncrementActiveSound
<1> HIDE DEF x, n
<1>2. e.stats \in Stats
  BY DEF Sound
<1>3. /\ x.stats.reserved_pages = e.stats.reserved_pages
      /\ x.stats.active_private_state_bytes = e.stats.active_private_state_bytes
      /\ x.stats.page_table_bytes = e.stats.page_table_bytes
      /\ x.stats.retained_snapshot_bytes = e.stats.retained_snapshot_bytes
  BY <1>1, <1>2 DEF Stats
<1>4. Occupied(x) = Occupied(e) + 0
  BY <1>1, OccupiedNat
<1>5. PagesTaken(x, e, 0)
  BY <1>1, <1>3, <1>4 DEF PagesTaken, SameRest
<1> QED BY <1>1, <1>5 DEF x

\* admit keeps the invariant.
LEMMA AdmitIInv ==
    ASSUME IInv, NEW polled \in SUBSET InPool("deferred"), NEW prefix, NEW request \in Requests,
           Admit(polled, prefix, request)
    PROVE  IInv'
<1> DEFINE c == Reclaimed(polled)
           shared == SharedPages(c, prefix)
           position == PrefixPosition(c, prefix)
           promised == PagesToReserve(request, Len(shared))
           demand == AdmitDemand(c, prefix, request)
<1>1. cache.deferred_pages - Cardinality(polled) \in Nat
  BY DEF Admit
<1>2. Admissible(c, prefix, request)
  BY DEF Admit
<1>3. PICK ids \in EvictionRuns(c, prefix) :
        /\ EvictionPlan(c, ids, prefix, demand)
        /\ CanEvict(c, ids)
        /\ \E slots \in SetToSeqs(RetireSlots(c, ids)) :
           \E later \in Deferrable({c.pages[s].physical : s \in Range(slots)}) :
           LET evicted == CommitEvictions(c, ids, slots, Cardinality(later))
           IN  /\ CanShare(evicted, SlotsOf(shared))
               /\ cache' = RefreshStats(InsertSequence(
                    IncrementActiveRefs(evicted, SlotsOf(shared)),
                    shared, position, demand.pages, request))
               /\ pool' = RetirePhysical(Moved(pool, polled, "free"),
                            {c.pages[s].physical : s \in Range(slots)}, later)
  BY DEF Admit
<1>4. /\ tables' = Published(NextSequenceSlot(c), PhysicalRefs(c, shared), position)
      /\ result' = "ok"
  BY DEF Admit
<1>5. Sound(c) /\ Ledger(c) /\ c.sequences = cache.sequences
  BY <1>1, PolledParts
<1> HIDE DEF c
<1>6. shared \in Seq(PageId) /\ position \in Nat
  BY <1>2, <1>5, SharedParts DEF Admissible
<1>7. promised \in Nat /\ AllLive(c, shared)
  BY <1>2 DEF Admissible
<1>8. request \in Request
  BY RequestType
<1>9. demand = AdmissionDemand(promised, request) /\ demand.pages = promised
  BY DEF AdmitDemand, AdmissionDemand
<1> HIDE DEF shared, position, promised, demand
<1>10. /\ SlotsOf(shared) \in SUBSET DOMAIN c.pages
       /\ PhysicalRefs(c, shared) \in Seq(PhysicalPages \cup {None})
  BY <1>5, <1>6, <1>7, LivePages
<1>a. PICK slots \in SetToSeqs(RetireSlots(c, ids)) :
         \E later \in Deferrable({c.pages[s].physical : s \in Range(slots)}) :
         LET evicted == CommitEvictions(c, ids, slots, Cardinality(later))
         IN  /\ CanShare(evicted, SlotsOf(shared))
             /\ cache' = RefreshStats(InsertSequence(
                  IncrementActiveRefs(evicted, SlotsOf(shared)),
                  shared, position, demand.pages, request))
             /\ pool' = RetirePhysical(Moved(pool, polled, "free"),
                          {c.pages[s].physical : s \in Range(slots)}, later)
  BY <1>3
<1>11. PICK later \in Deferrable({c.pages[s].physical : s \in Range(slots)}) :
         LET evicted == CommitEvictions(c, ids, slots, Cardinality(later))
         IN  /\ CanShare(evicted, SlotsOf(shared))
             /\ cache' = RefreshStats(InsertSequence(
                  IncrementActiveRefs(evicted, SlotsOf(shared)),
                  shared, position, demand.pages, request))
             /\ pool' = RetirePhysical(Moved(pool, polled, "free"),
                          {c.pages[s].physical : s \in Range(slots)}, later)
  BY <1>a
<1> DEFINE e == CommitEvictions(c, ids, slots, Cardinality(later))
           x == IncrementActiveRefs(e, SlotsOf(shared))
<1>12. /\ CanShare(e, SlotsOf(shared))
       /\ cache' = RefreshStats(InsertSequence(x, shared, position, promised, request))
       /\ pool' = RetirePhysical(Moved(pool, polled, "free"),
                    {c.pages[s].physical : s \in Range(slots)}, later)
  BY <1>9, <1>11
<1>13. ids \subseteq DOMAIN c.prefixes /\ CanEvict(c, ids) /\ Fits(c, ids, demand)
  BY <1>3, <1>5, EvictionRunsParts DEF EvictionPlan
<1>14. Sound(e) /\ DOMAIN e.pages = DOMAIN c.pages
  BY <1>5, <1>13, EvictedParts
<1>15. Sound(x) /\ PagesTaken(x, e, 0)
  <2> HIDE DEF e
  <2> QED BY <1>10, <1>12, <1>14, SharedTaken
<1> HIDE DEF x
<1>16. /\ Sound(cache') /\ Ledger(cache')
       /\ DOMAIN cache'.sequences = DOMAIN c.sequences \cup {NextSequenceSlot(c)}
  <2>1. promised + 0 = promised
    BY <1>7
  <2>2. Fits(c, ids, AdmissionDemand(promised, request))
    BY <1>9, <1>13
  <2> DEFINE r == RefreshStats(InsertSequence(x, shared, position, promised, request))
  <2>3. /\ Sound(r) /\ Ledger(r)
        /\ DOMAIN r.sequences = DOMAIN c.sequences \cup {NextSequenceSlot(c)}
    BY <2>1, <2>2, <1>5, <1>6, <1>7, <1>8, <1>13, <1>15, AdmittedSound
  <2> QED BY <2>3, <1>12
<1>17. pool' \in [PhysicalPages -> Owners]
  BY <1>12, PoolSteps DEF IInv
<1>18. tables' \in Seq(TableType) /\ DOMAIN tables' = DOMAIN cache'.sequences
  BY <1>4, <1>5, <1>6, <1>10, <1>16, TablesGrow
<1> QED BY <1>4, <1>16, <1>17, <1>18 DEF IInv, Results

\* Calls that return an error before they changed anything keep the invariant.
LEMMA QuietIInv ==
    ASSUME IInv,
           \/ PollFails
           \/ \E s \in LiveSequences : FinalizeFails(s)
           \/ \E s \in LiveSequences, n \in SnapshotSizes, outcome \in {"refused", "backend"} :
                \E key \in KeysFor(s) : RetainDeclined(s, key, n, outcome)
           \/ \E s \in LiveSequences, request \in Requests : BranchWouldBlock(s, request)
           \/ RetireFails
    PROVE  IInv'
<1>1. UNCHANGED <<cache, pool, tables>> /\ result' \in Results
  BY DEF PollFails, FinalizeFails, RetainDeclined, BranchWouldBlock, RetireFails,
         Unchanged, Results
<1> QED BY <1>1 DEF IInv

\* Calls that fail after they took physical pages keep the invariant.
LEMMA RolledBackIInv ==
    ASSUME IInv,
           \/ \E s \in LiveSequences, rows \in Rows : ReserveAppendFails(s, rows)
           \/ \E s \in LiveSequences, request \in Requests : BranchFails(s, request)
           \/ \E s \in LiveSequences, request \in Requests : BranchEvictionFails(s, request)
    PROVE  IInv'
<1>1. UNCHANGED <<cache, tables>> /\ result' \in Results
  BY DEF ReserveAppendFails, BranchFails, BranchEvictionFails, Results
<1>2. \/ \E taken : pool' = RollbackPages(Moved(pool, taken, "held"), taken)
      \/ \E taken : pool' = Moved(pool, taken, "held")
  BY DEF ReserveAppendFails, BranchFails, BranchEvictionFails
<1>3. pool' \in [PhysicalPages -> Owners]
  BY <1>2, PoolSteps, ZenonT(60) DEF IInv
<1> QED BY <1>1, <1>3, KeepIInv

\* A step that touches an entry keeps the invariant.
LEMMA TouchedIInv ==
    ASSUME IInv, NEW id \in DOMAIN cache.prefixes, cache' = Touch(cache, id),
           UNCHANGED <<pool, tables>>, result' = "ok"
    PROVE  IInv'
<1>1. Sound(cache) /\ Ledger(cache)
  BY DEF IInv
<1>2. /\ Sound(cache')
      /\ cache'.pages = cache.pages /\ cache'.free_page_slots = cache.free_page_slots
      /\ cache'.sequences = cache.sequences
      /\ cache'.deferred_pages = cache.deferred_pages /\ cache'.stats = cache.stats
      /\ DOMAIN cache'.prefixes = DOMAIN cache.prefixes
  <2> DEFINE r == Touch(cache, id)
  <2>1. /\ Sound(r)
        /\ r.pages = cache.pages /\ r.free_page_slots = cache.free_page_slots
        /\ r.sequences = cache.sequences
        /\ r.deferred_pages = cache.deferred_pages /\ r.stats = cache.stats
        /\ DOMAIN r.prefixes = DOMAIN cache.prefixes
    BY <1>1, TouchSound
  <2> QED BY <2>1
<1>3. Occupied(cache') = Occupied(cache)
  BY <1>2 DEF Occupied
<1>4. Ledger(cache')
  BY <1>1, <1>2, <1>3 DEF Ledger
<1> QED BY <1>2, <1>4 DEF IInv, Results

\* lookup_prefix keeps the invariant.
LEMMA LookupPrefixIInv ==
    ASSUME IInv, NEW prompt, NEW tail, LookupPrefix(prompt, tail)
    PROVE  IInv'
BY TouchedIInv DEF LookupPrefix

\* retain_prefix of a key that is already retained keeps the invariant.
LEMMA RetainDuplicateIInv ==
    ASSUME IInv, NEW s, NEW key, RetainDuplicate(s, key)
    PROVE  IInv'
BY TouchedIInv DEF RetainDuplicate

\* evict_prefix keeps the invariant.
LEMMA EvictPrefixIInv ==
    ASSUME IInv, NEW id \in DOMAIN cache.prefixes, EvictPrefix(id)
    PROVE  IInv'
<1>1. Sound(cache) /\ Ledger(cache)
  BY DEF IInv
<1>2. CanEvict(cache, {id}) /\ result' = "ok" /\ UNCHANGED tables
  BY DEF EvictPrefix
<1>3. PICK slots \in SetToSeqs(RetireSlots(cache, {id})) :
        \E later \in Deferrable({cache.pages[p].physical : p \in Range(slots)}) :
          /\ cache' = CommitEvictions(cache, {id}, slots, Cardinality(later))
          /\ pool' = RetirePhysical(pool, {cache.pages[p].physical : p \in Range(slots)}, later)
  BY DEF EvictPrefix
<1>4. PICK later \in Deferrable({cache.pages[p].physical : p \in Range(slots)}) :
        /\ cache' = CommitEvictions(cache, {id}, slots, Cardinality(later))
        /\ pool' = RetirePhysical(pool, {cache.pages[p].physical : p \in Range(slots)}, later)
  BY <1>3
<1> DEFINE ids == {id}
           r == CommitEvictions(cache, ids, slots, Cardinality(later))
           R == Cardinality(RetireSlots(cache, ids))
           l == Cardinality(later)
<1>5. ids \subseteq DOMAIN cache.prefixes /\ CanEvict(cache, ids)
      /\ slots \in SetToSeqs(RetireSlots(cache, ids)) /\ cache' = r
  BY <1>2, <1>4
<1> HIDE DEF ids
<1>6. /\ Sound(r) /\ Balanced(r) /\ r.sequences = cache.sequences
      /\ R \in Nat /\ l \in Nat /\ l <= R
      /\ DOMAIN r.prefixes = DOMAIN cache.prefixes \ ids
      /\ Occupied(r) = Occupied(cache) - R + l
      /\ r.stats.reserved_pages = cache.stats.reserved_pages
      /\ r.stats.active_private_state_bytes = cache.stats.active_private_state_bytes
      /\ r.stats.page_table_bytes = cache.stats.page_table_bytes
      /\ r.stats.retained_snapshot_bytes =
           cache.stats.retained_snapshot_bytes - SnapshotBytes(cache.prefixes, ids)
  BY <1>1, <1>5, EvictedParts
<1> HIDE DEF r, R, l
<1>7. Occupied(r) <= Occupied(cache)
  <2>1. Occupied(cache) \in Nat
    BY <1>1, OccupiedNat
  <2> QED BY <2>1, <1>6
<1>8. r.stats.retained_snapshot_bytes <= cache.stats.retained_snapshot_bytes
  <2> DEFINE a == cache.stats.retained_snapshot_bytes
             b == SnapshotBytes(cache.prefixes, ids)
  <2>1. b \in Nat
    BY <1>5 DEF CanEvict
  <2>2. cache.stats \in Stats
    BY <1>1 DEF Sound
  <2>3. a \in Nat
    BY <2>2 DEF Stats
  <2>4. r.stats.retained_snapshot_bytes = a - b
    BY <1>6
  <2> HIDE DEF a, b
  <2>5. r.stats.retained_snapshot_bytes <= a
    BY <2>1, <2>3, <2>4
  <2> QED BY <2>5 DEF a
<1>9. Ledger(r)
  <2>1. DOMAIN r.prefixes \subseteq DOMAIN cache.prefixes
    BY <1>6
  <2> QED BY <2>1, <1>1, <1>6, <1>7, <1>8, SameOrLess
<1>10. pool' \in [PhysicalPages -> Owners]
  BY <1>4, PoolSteps DEF IInv
<1> QED BY <1>2, <1>5, <1>6, <1>9, <1>10 DEF IInv, Results

\* The fields of a sequence slot.
LEMMA SequenceParts ==
    ASSUME NEW c, Sound(c), NEW s \in DOMAIN c.sequences
    PROVE  /\ c.sequences[s] \in SequenceSlot
           /\ c.sequences[s].pages \in Seq(PageId) /\ c.sequences[s].position \in Nat
           /\ c.sequences[s].reserved_pages \in Nat
           /\ c.sequences[s].pending.rows \in Nat
           /\ c.sequences[s].pending.new_pages \in Seq(PageId)
           /\ IsInjective(Slots(c.sequences[s].pending.new_pages))
<1>1. /\ c.sequences[s] \in SequenceSlot
      /\ IsInjective(Slots(c.sequences[s].pending.new_pages))
  BY SequencesParts DEF Sound
<1>2. c.sequences[s].pending \in [rows : Nat, new_pages : Seq(PageId)]
  BY <1>1 DEF SequenceSlot
<1>3. c.sequences[s].pending.rows \in Nat /\ c.sequences[s].pending.new_pages \in Seq(PageId)
  BY <1>2
<1> QED BY <1>1, <1>3 DEF SequenceSlot

\* div_ceil, quotient and remainder are natural numbers.
LEMMA DivNat ==
    ASSUME NEW n \in Nat
    PROVE  /\ n \div PageTokens \in Nat /\ n % PageTokens \in 0..PageTokens
           /\ DivCeil(n) \in Nat
<1>1. PageTokens \in Nat \ {0}
  BY ConfigAssumption
<1>2. \A a \in Nat, b \in Nat \ {0} : a \div b \in Nat /\ a % b \in 0..b
  OBVIOUS
<1>3. n + PageTokens - 1 \in Nat
  BY <1>1
<1> QED BY <1>1, <1>2, <1>3 DEF DivCeil

\* A key for a sequence is a sequence of blocks.
LEMMA KeyType ==
    ASSUME IInv, NEW s \in LiveSequences, NEW key \in KeysFor(s)
    PROVE  key \in Seq(Blocks)
<1> DEFINE n == cache.sequences[s].position \div PageTokens
<1>1. s \in DOMAIN cache.sequences /\ Sound(cache)
  BY DEF LiveSequences, IInv
<1>2. n \in Nat
  BY <1>1, SequenceParts, DivNat
<1>3. key \in [1..n -> Blocks]
  BY DEF KeysFor
<1> HIDE DEF n
<1> QED BY <1>2, <1>3, SeqBuilt

\* retain_prefix keeps the invariant.
LEMMA RetainPrefixIInv ==
    ASSUME IInv, NEW s \in LiveSequences, NEW n \in SnapshotSizes, NEW key \in KeysFor(s),
           RetainPrefix(s, key, n)
    PROVE  IInv'
<1> DEFINE d == RetainDemand(n)
<1>1. Sound(cache) /\ Ledger(cache)
  BY DEF IInv
<1>2. /\ CanRetain(s) /\ result' = "ok" /\ UNCHANGED tables
  BY DEF RetainPrefix
<1>3. PICK ids \in EvictionRuns(cache, {}) :
        /\ EvictionPlan(cache, ids, {}, d)
        /\ CanEvict(cache, ids)
        /\ \E slots \in SetToSeqs(RetireSlots(cache, ids)) :
           \E later \in Deferrable({cache.pages[p].physical : p \in Range(slots)}) :
             /\ cache' = InsertEntry(CommitEvictions(cache, ids, slots, Cardinality(later)),
                                     s, key, n)
             /\ pool' = RetirePhysical(pool, {cache.pages[p].physical : p \in Range(slots)}, later)
  BY DEF RetainPrefix
<1> HIDE DEF d
<1>4. PICK slots \in SetToSeqs(RetireSlots(cache, ids)) :
        \E later \in Deferrable({cache.pages[p].physical : p \in Range(slots)}) :
          /\ cache' = InsertEntry(CommitEvictions(cache, ids, slots, Cardinality(later)),
                                  s, key, n)
          /\ pool' = RetirePhysical(pool, {cache.pages[p].physical : p \in Range(slots)}, later)
  BY <1>3
<1>5. PICK later \in Deferrable({cache.pages[p].physical : p \in Range(slots)}) :
        /\ cache' = InsertEntry(CommitEvictions(cache, ids, slots, Cardinality(later)),
                                s, key, n)
        /\ pool' = RetirePhysical(pool, {cache.pages[p].physical : p \in Range(slots)}, later)
  BY <1>4
<1> DEFINE e == CommitEvictions(cache, ids, slots, Cardinality(later))
           r == InsertEntry(e, s, key, n)
           R == Cardinality(RetireSlots(cache, ids))
           l == Cardinality(later)
<1>6. ids \subseteq DOMAIN cache.prefixes /\ CanEvict(cache, ids) /\ Fits(cache, ids, d)
  BY <1>1, <1>3, EvictionRunsParts DEF EvictionPlan
<1>7. /\ Sound(e) /\ e.sequences = cache.sequences /\ DOMAIN e.pages = DOMAIN cache.pages
      /\ R \in Nat /\ l \in Nat /\ l <= R /\ (Immediate => l = 0)
      /\ Cardinality(DOMAIN e.prefixes) = Cardinality(DOMAIN cache.prefixes) - Cardinality(ids)
      /\ Occupied(e) = Occupied(cache) - R + l
      /\ e.stats.reserved_pages = cache.stats.reserved_pages
      /\ e.stats.active_private_state_bytes = cache.stats.active_private_state_bytes
      /\ e.stats.page_table_bytes = cache.stats.page_table_bytes
      /\ e.stats.retained_snapshot_bytes =
           cache.stats.retained_snapshot_bytes - SnapshotBytes(cache.prefixes, ids)
  BY <1>1, <1>6, EvictedParts
<1>8. cache' = r
  BY <1>5
<1>9. s \in DOMAIN cache.sequences /\ key \in Seq(Blocks) /\ n \in Nat
  BY KeyType, InputAssumption DEF LiveSequences
<1>10. SlotsOf(cache.sequences[s].pages) \in SUBSET DOMAIN cache.pages
  BY <1>1, <1>2, <1>9, SequenceParts, LivePages DEF CanRetain
<1> HIDE DEF e
<1>11. /\ Sound(r) /\ Balanced(r) /\ Occupied(r) = Occupied(e)
       /\ r.sequences = e.sequences
       /\ DOMAIN r.prefixes = DOMAIN e.prefixes \cup {e.next_prefix_id}
       /\ r.stats.reserved_pages = e.stats.reserved_pages
       /\ r.stats.active_private_state_bytes = e.stats.active_private_state_bytes
       /\ r.stats.page_table_bytes = e.stats.page_table_bytes
       /\ r.stats.retained_snapshot_bytes = e.stats.retained_snapshot_bytes + n
  <2>1. s \in DOMAIN e.sequences /\ SlotsOf(e.sequences[s].pages) \in SUBSET DOMAIN e.pages
    BY <1>7, <1>9, <1>10
  <2> QED BY <2>1, <1>7, <1>9, InsertEntrySound
<1> HIDE DEF r, R, l
<1>12. /\ d.bytes = n /\ d.pages = 0 /\ d.limit = MaxManagedBytes /\ d.snapshots = n
       /\ d.entries = 1
  BY DEF d, RetainDemand
<1>13. Cardinality(DOMAIN r.prefixes)
         <= Cardinality(DOMAIN cache.prefixes) - Cardinality(ids) + d.entries
  <2> DEFINE k == Cardinality(DOMAIN e.prefixes)
  <2>1. IsFiniteSet(DOMAIN e.prefixes)
    BY <1>7 DEF Sound, PrefixesOK
  <2>2. k \in Nat /\ Cardinality(DOMAIN r.prefixes) \in {k, k + 1}
    BY <2>1, <1>11, FS_AddElement, FS_CardinalityType
  <2>3. k = Cardinality(DOMAIN cache.prefixes) - Cardinality(ids)
    BY <1>7
  <2> HIDE DEF k
  <2>4. Cardinality(DOMAIN r.prefixes) <= k + d.entries
    BY <2>2, <1>12
  <2> QED BY <2>3, <2>4
<1>14. cache.stats \in Stats /\ Occupied(cache) \in Nat
  BY <1>1, OccupiedNat DEF Sound
<1>15. Occupied(r) + r.stats.reserved_pages
         = Occupied(cache) - R + l + cache.stats.reserved_pages + d.pages
  <2> DEFINE v == cache.stats.reserved_pages
             o == Occupied(cache)
  <2>1. v \in Nat /\ o \in Nat
    BY <1>14 DEF Stats
  <2>2. Occupied(r) = o - R + l /\ r.stats.reserved_pages = v
    BY <1>7, <1>11
  <2> HIDE DEF v, o
  <2>3. Occupied(r) + r.stats.reserved_pages = o - R + l + v + d.pages
    BY <2>1, <2>2, <1>7, <1>12
  <2> QED BY <2>3 DEF v, o
<1>16. /\ r.stats.active_private_state_bytes = cache.stats.active_private_state_bytes + 0
       /\ r.stats.page_table_bytes = cache.stats.page_table_bytes + 0
  <2>1. /\ cache.stats.active_private_state_bytes \in Nat
        /\ cache.stats.page_table_bytes \in Nat
    BY <1>14 DEF Stats
  <2> QED BY <2>1, <1>7, <1>11
<1>17. r.stats.retained_snapshot_bytes =
         cache.stats.retained_snapshot_bytes - SnapshotBytes(cache.prefixes, ids) + d.snapshots
  BY <1>7, <1>11, <1>12
<1>18. d.bytes = d.pages * PageBytes + 0 + 0 + d.snapshots
  <2>1. 0 * PageBytes = 0
    BY ConfigAssumption
  <2>2. n = 0 + 0 + 0 + n
    BY <1>9
  <2> QED BY <2>1, <2>2, <1>12
<1>19. Ledger(r)
  <2>1. d.pages \in Nat /\ d.snapshots \in Nat /\ d.entries \in Nat
    BY <1>9, <1>12
  <2>2. d.limit \in Int /\ d.limit <= MaxManagedBytes
    BY <1>12, ConfigAssumption
  <2>3. 0 \in Nat
    OBVIOUS
  <2> QED BY <2>1, <2>2, <2>3, <1>1, <1>6, <1>7, <1>11, <1>13, <1>15, <1>16, <1>17, <1>18,
             LedgerGrown DEF R
<1>20. pool' \in [PhysicalPages -> Owners]
  BY <1>5, PoolSteps DEF IInv
<1> QED BY <1>2, <1>7, <1>8, <1>11, <1>19, <1>20 DEF IInv, Results

\* finish: sole pages retired, shared ones released, the sequence removed; the manager
\* stays sound and within capacity.
LEMMA FinishSound ==
    ASSUME NEW c, Sound(c), Ledger(c), NEW s \in DOMAIN c.sequences, c.sequences[s].live,
           CanRemoveSequence(c, s), NEW S \in SUBSET DOMAIN c.pages,
           \A p \in S : c.pages[p].live, CanRetire(c, S), NEW slots \in SetToSeqs(S),
           NEW later \in Nat, later <= Cardinality(S),
           NEW T \in SUBSET DOMAIN c.pages, \A p \in T : c.pages[p].active_refs # 0,
           T \cap S = {}
    PROVE  LET r == RefreshStats(RemoveSequence(
                      DecrementActiveRefs(RetirePages(c, slots, later), T), s))
           IN  Sound(r) /\ Ledger(r) /\ DOMAIN r.sequences = DOMAIN c.sequences
<1> DEFINE t == RetirePages(c, slots, later)
           m == RemovePages(c, slots)
           x == DecrementActiveRefs(t, T)
           y == RemoveSequence(x, s)
           r == RefreshStats(y)
           q == c.sequences[s]
<1>1. DOMAIN c = Fields /\ c.stats \in Stats /\ PagesOK(c.pages, c.free_page_slots)
  BY DEF Sound
<1>2. /\ Sound(t) /\ Occupied(t) = Occupied(c) - Cardinality(S) + later
      /\ Range(slots) = S /\ Cardinality(S) \in Nat
  BY RetireSound, SMTT(40)
<1>3. /\ DOMAIN t = Fields
      /\ t.pages = m.pages /\ t.free_page_slots = m.free_page_slots
      /\ t.sequences = c.sequences /\ t.free_sequence_slots = c.free_sequence_slots
      /\ t.prefixes = c.prefixes /\ t.lru = c.lru /\ t.tree = c.tree
      /\ t.next_prefix_id = c.next_prefix_id /\ t.clock = c.clock
      /\ t.deferred_pages = c.deferred_pages + later
      /\ t.stats = [c.stats EXCEPT !.reclaimable_prefix_only_bytes =
                       @ - ReclaimableBytes(c, Range(slots))]
  BY <1>1, RetireFields
<1>4. t.pages = [p \in DOMAIN c.pages |->
         IF p \in Range(slots) THEN VacantPage(c.pages[p].generation + 1) ELSE c.pages[p]]
  BY <1>1, <1>3, RemoveFields
<1> HIDE DEF t, m
<1>5. T \in SUBSET DOMAIN t.pages /\ \A p \in T : t.pages[p].active_refs # 0
  BY <1>2, <1>4
<1>6. /\ Sound(x) /\ Occupied(x) = Occupied(t) /\ SameRest(x, t)
      /\ \E n \in Nat : x.stats = [t.stats EXCEPT !.reclaimable_prefix_only_bytes = @ + n]
  BY <1>2, <1>5, DecrementActiveSound
<1>7. PICK n \in Nat : x.stats = [t.stats EXCEPT !.reclaimable_prefix_only_bytes = @ + n]
  BY <1>6
<1> HIDE DEF x
<1>8. x.sequences = c.sequences /\ x.prefixes = c.prefixes
  BY <1>3, <1>6 DEF SameRest
<1>9. /\ x.stats.reserved_pages = c.stats.reserved_pages
      /\ x.stats.active_private_state_bytes = c.stats.active_private_state_bytes
      /\ x.stats.page_table_bytes = c.stats.page_table_bytes
      /\ x.stats.retained_snapshot_bytes = c.stats.retained_snapshot_bytes
  BY <1>1, <1>3, <1>7 DEF Stats
<1>10. s \in DOMAIN x.sequences /\ x.sequences[s].live /\ x.sequences[s] = q
  BY <1>8
<1>11. CanRemoveSequence(x, s)
  BY <1>9, <1>10 DEF CanRemoveSequence
<1>12. /\ Sound(y) /\ Occupied(y) = Occupied(x)
       /\ y.prefixes = x.prefixes
       /\ DOMAIN y.sequences = DOMAIN x.sequences
       /\ y.stats.reserved_pages = x.stats.reserved_pages - x.sequences[s].reserved_pages
       /\ y.stats.active_private_state_bytes =
            x.stats.active_private_state_bytes - x.sequences[s].private_state_bytes
       /\ y.stats.page_table_bytes = x.stats.page_table_bytes - x.sequences[s].page_table_bytes
       /\ y.stats.retained_snapshot_bytes = x.stats.retained_snapshot_bytes
  BY <1>6, <1>10, <1>11, RemoveSequenceSound
<1> HIDE DEF y
<1>13. /\ Sound(r) /\ Balanced(r) /\ r.sequences = y.sequences /\ r.prefixes = y.prefixes
       /\ Occupied(r) = Occupied(y)
       /\ r.stats.reserved_pages = y.stats.reserved_pages
       /\ r.stats.active_private_state_bytes = y.stats.active_private_state_bytes
       /\ r.stats.page_table_bytes = y.stats.page_table_bytes
       /\ r.stats.retained_snapshot_bytes = y.stats.retained_snapshot_bytes
  BY <1>12, Refreshed
<1> HIDE DEF r
<1>14. q \in SequenceSlot
  BY SequencesParts DEF Sound
<1>15. q.reserved_pages \in Nat /\ q.private_state_bytes \in Nat /\ q.page_table_bytes \in Nat
  BY <1>14 DEF SequenceSlot
<1> DEFINE i == c.stats.active_private_state_bytes
           j == c.stats.page_table_bytes
           k == c.stats.retained_snapshot_bytes
           v == c.stats.reserved_pages
           o == Occupied(c)
           R == Cardinality(S)
<1>16. i \in Nat /\ j \in Nat /\ k \in Nat /\ v \in Nat /\ o \in Nat /\ R \in Nat
  BY <1>1, <1>2, OccupiedNat DEF Stats
<1>17. /\ r.stats.active_private_state_bytes = i - q.private_state_bytes
       /\ r.stats.page_table_bytes = j - q.page_table_bytes
       /\ r.stats.retained_snapshot_bytes = k
       /\ r.stats.reserved_pages = v - q.reserved_pages
       /\ Occupied(r) = o - R + later /\ later <= R
  BY <1>2, <1>6, <1>9, <1>10, <1>12, <1>13
<1> HIDE DEF i, j, k, v, o, R
<1>18. /\ r.stats.active_private_state_bytes <= i
       /\ r.stats.page_table_bytes <= j
       /\ r.stats.retained_snapshot_bytes <= k
       /\ Occupied(r) + r.stats.reserved_pages <= o + v
  <2> DEFINE a == q.reserved_pages
             b == q.private_state_bytes
             d == q.page_table_bytes
  <2>1. a \in Nat /\ b \in Nat /\ d \in Nat
    BY <1>15
  <2>2. /\ r.stats.active_private_state_bytes = i - b
        /\ r.stats.page_table_bytes = j - d
        /\ r.stats.retained_snapshot_bytes = k
        /\ r.stats.reserved_pages = v - a
        /\ Occupied(r) = o - R + later /\ later <= R
    BY <1>17
  <2> HIDE DEF a, b, d
  <2>3. (o - R + later) + (v - a) <= o + v /\ i - b <= i /\ j - d <= j /\ k <= k
    BY <2>1, <2>2, <1>16
  <2> QED BY <2>2, <2>3
<1>19. DOMAIN r.prefixes \subseteq DOMAIN c.prefixes /\ DOMAIN r.sequences = DOMAIN c.sequences
  BY <1>8, <1>12, <1>13
<1>20. Ledger(r)
  BY <1>13, <1>18, <1>19, LedgerKept DEF i, j, k, v, o
<1> QED BY <1>13, <1>19, <1>20 DEF r, y, x, t

\* finish keeps the invariant.
LEMMA FinishIInv ==
    ASSUME IInv, NEW s \in LiveSequences, Finish(s)
    PROVE  IInv'
<1> DEFINE q == cache.sequences[s]
           S == SoleSlots(q)
           T == SlotsOf(q.pages) \ S
           physical == {cache.pages[p].physical : p \in S}
<1>1. /\ Sound(cache) /\ Ledger(cache) /\ s \in DOMAIN cache.sequences
      /\ cache.sequences[s].live
  BY DEF IInv, LiveSequences
<1>2. /\ CanFinish(s) /\ result' = "ok" /\ tables' = [tables EXCEPT ![s] = EmptyTable]
  BY DEF Finish
<1>3. PICK slots \in SetToSeqs(S), later \in Deferrable(physical) :
        /\ cache' = RefreshStats(RemoveSequence(
             DecrementActiveRefs(RetirePages(cache, slots, Cardinality(later)), T), s))
        /\ pool' = RetirePhysical(pool, physical, later)
  BY DEF Finish
<1>4. SlotsOf(q.pages) \in SUBSET DOMAIN cache.pages /\ Present(cache, q.pages)
      /\ q.pages \in Seq(PageId)
  BY <1>1, <1>2, SequenceParts, LivePages DEF CanFinish
<1>5. \A p \in SlotsOf(q.pages) : cache.pages[p].live
  <2>1. DOMAIN q.pages = 1..Len(q.pages)
    BY <1>4, SeqParts
  <2> QED BY <2>1, <1>4 DEF SlotsOf, Present
<1>6. S \subseteq SlotsOf(q.pages) /\ CanRetire(cache, S) /\ CanRemoveSequence(cache, s)
      /\ \A p \in SlotsOf(q.pages) : cache.pages[p].active_refs # 0
  BY <1>2 DEF SoleSlots, CanFinish
<1> HIDE DEF S, q
<1>7. /\ S \in SUBSET DOMAIN cache.pages /\ (\A p \in S : cache.pages[p].live)
      /\ T \in SUBSET DOMAIN cache.pages /\ (\A p \in T : cache.pages[p].active_refs # 0)
      /\ T \cap S = {}
  BY <1>4, <1>5, <1>6
<1> HIDE DEF T
<1>8. IsFiniteSet(S)
  BY <1>1, <1>7, ReclaimableBytesInt DEF Sound
<1>9. Cardinality(later) \in Nat /\ Cardinality(later) <= Cardinality(S)
  BY <1>8, DeferrableBound
<1>10. Sound(cache') /\ Ledger(cache') /\ DOMAIN cache'.sequences = DOMAIN cache.sequences
  <2> DEFINE r == RefreshStats(RemoveSequence(
                    DecrementActiveRefs(RetirePages(cache, slots, Cardinality(later)), T), s))
  <2>1. Sound(r) /\ Ledger(r) /\ DOMAIN r.sequences = DOMAIN cache.sequences
    BY <1>1, <1>6, <1>7, <1>9, FinishSound
  <2> QED BY <2>1, <1>3
<1>11. pool' \in [PhysicalPages -> Owners]
  BY <1>3, PoolSteps DEF IInv
<1>12. tables' \in Seq(TableType) /\ DOMAIN tables' = DOMAIN tables
  <2>1. EmptyTable \in TableType
    BY DEF EmptyTable, TableType
  <2>2. tables \in Seq(TableType)
    BY DEF IInv
  <2>3. /\ Len(tables) \in Nat /\ DOMAIN tables = 1..Len(tables)
        /\ \A i \in 1..Len(tables) : tables[i] \in TableType
    BY <2>2, SeqParts
  <2>4. tables' \in [1..Len(tables) -> TableType]
    BY <2>1, <2>3, <1>2
  <2> QED BY <2>3, <2>4, SeqBuilt
<1> QED BY <1>2, <1>10, <1>11, <1>12 DEF IInv, Results

\* A part of a list of live, distinct handles is one too.
LEMMA SubPages ==
    ASSUME NEW c, NEW ids \in Seq(PageId), IsInjective(Slots(ids)), AllLive(c, ids),
           NEW a \in 1..(Len(ids) + 1), NEW b \in 0..Len(ids)
    PROVE  LET sub == SubSeq(ids, a, b)
           IN  sub \in Seq(PageId) /\ IsInjective(Slots(sub)) /\ AllLive(c, sub)
<1> DEFINE sub == SubSeq(ids, a, b)
           n == IF a <= b THEN b - a + 1 ELSE 0
<1>1. Len(ids) \in Nat /\ DOMAIN ids = 1..Len(ids)
  BY SeqParts
<1>2. /\ sub \in Seq(PageId) /\ Len(sub) = n /\ n \in Nat
      /\ \A i \in 1..n : i + a - 1 \in 1..Len(ids) /\ sub[i] = ids[i + a - 1]
  BY <1>1
<1>3. DOMAIN sub = 1..n
  BY <1>2, SeqParts
<1> HIDE DEF sub, n
<1>4. AllLive(c, sub)
  BY <1>1, <1>2, <1>3 DEF AllLive
<1>5. /\ DOMAIN Slots(ids) = 1..Len(ids) /\ \A i \in 1..Len(ids) : Slots(ids)[i] = ids[i].slot
  BY SlotsParts
<1>6. /\ DOMAIN Slots(sub) = 1..n /\ \A i \in 1..n : Slots(sub)[i] = sub[i].slot
  BY <1>2, SlotsParts
<1>7. \A i, j \in 1..Len(ids) : ids[i].slot = ids[j].slot => i = j
  BY <1>5 DEF IsInjective
<1>8. \A i, j \in 1..n : Slots(sub)[i] = Slots(sub)[j] => i = j
  <2> TAKE i, j \in 1..n
  <2> HAVE Slots(sub)[i] = Slots(sub)[j]
  <2>1. ids[i + a - 1].slot = ids[j + a - 1].slot
    BY <1>2, <1>6
  <2>2. i + a - 1 = j + a - 1
    BY <2>1, <1>2, <1>7
  <2> QED BY <2>2, <1>1, <1>2
<1>9. IsInjective(Slots(sub))
  BY <1>6, <1>8 DEF IsInjective
<1> QED BY <1>2, <1>4, <1>9 DEF sub

\* Live handles joined to live handles.
LEMMA JoinedPages ==
    ASSUME NEW c, NEW p \in Seq(PageId), NEW k \in Seq(PageId), AllLive(c, p), AllLive(c, k)
    PROVE  p \o k \in Seq(PageId) /\ AllLive(c, p \o k)
<1> DEFINE j == p \o k
<1>1. /\ Len(p) \in Nat /\ DOMAIN p = 1..Len(p) /\ Len(k) \in Nat /\ DOMAIN k = 1..Len(k)
  BY SeqParts
<1>2. /\ j \in Seq(PageId) /\ Len(j) = Len(p) + Len(k)
      /\ \A i \in 1..(Len(p) + Len(k)) : j[i] = IF i <= Len(p) THEN p[i] ELSE k[i - Len(p)]
  BY <1>1
<1>3. DOMAIN j = 1..(Len(p) + Len(k))
  BY <1>2, SeqParts
<1> HIDE DEF j
<1>4. \A i \in DOMAIN j : LivePage(c, j[i])
  <2> TAKE i \in DOMAIN j
  <2>1. CASE i <= Len(p)
    <3>1. i \in 1..Len(p) /\ j[i] = p[i]
      BY <2>1, <1>1, <1>2, <1>3
    <3> QED BY <3>1, <1>1 DEF AllLive
  <2>2. CASE ~(i <= Len(p))
    <3>1. i - Len(p) \in 1..Len(k) /\ j[i] = k[i - Len(p)]
      BY <2>2, <1>1, <1>2, <1>3
    <3> QED BY <3>1, <1>1 DEF AllLive
  <2> QED BY <2>1, <2>2
<1> QED BY <1>2, <1>4 DEF AllLive, j

\* Publishing a table for an existing slot.
LEMMA TablesUpdated ==
    ASSUME IInv, NEW s \in DOMAIN cache.sequences,
           NEW physical \in Seq(PhysicalPages \cup {None}), NEW position \in Nat
    PROVE  /\ Published(s, physical, position) \in Seq(TableType)
           /\ DOMAIN Published(s, physical, position) = DOMAIN cache.sequences
<1>1. tables \in Seq(TableType) /\ DOMAIN tables = DOMAIN cache.sequences
  BY DEF IInv
<1>2. Len(tables) \in Nat /\ DOMAIN tables = 1..Len(tables)
  BY <1>1, SeqParts
<1>3. s \in 1..(Len(tables) + 1)
  BY <1>1, <1>2
<1>4. /\ Published(s, physical, position) \in Seq(TableType)
      /\ DOMAIN Published(s, physical, position) = DOMAIN tables \cup {s}
  BY <1>1, <1>3, PublishedType
<1> QED BY <1>1, <1>4

\* ReleasedSound with the capacity argument.
LEMMA ReleasedLedger ==
    ASSUME NEW c, Sound(c), Ledger(c), NEW s \in DOMAIN c.sequences,
           NEW released \in Seq(PageId), IsInjective(Slots(released)), Present(c, released)
    PROVE  LET r == Released(c, s, released)
           IN  Sound(r) /\ Ledger(r) /\ DOMAIN r.sequences = DOMAIN c.sequences
<1> DEFINE r == Released(c, s, released)
           n == Len(released)
<1>1. /\ Sound(r) /\ DOMAIN r.sequences = DOMAIN c.sequences
      /\ r.prefixes = c.prefixes /\ n \in Nat
      /\ Occupied(r) = Occupied(c) - n
      /\ r.stats.reserved_pages = c.stats.reserved_pages + n
      /\ r.stats.active_private_state_bytes = c.stats.active_private_state_bytes
      /\ r.stats.page_table_bytes = c.stats.page_table_bytes
      /\ r.stats.retained_snapshot_bytes = c.stats.retained_snapshot_bytes
      /\ Balanced(r)
  BY ReleasedSound
<1> HIDE DEF r, n
<1>2. c.stats \in Stats /\ Occupied(c) \in Nat
  BY OccupiedNat DEF Sound
<1> DEFINE i == c.stats.active_private_state_bytes
           j == c.stats.page_table_bytes
           k == c.stats.retained_snapshot_bytes
           v == c.stats.reserved_pages
           o == Occupied(c)
<1>3. i \in Nat /\ j \in Nat /\ k \in Nat /\ v \in Nat /\ o \in Nat
  BY <1>2 DEF Stats
<1>4. /\ r.stats.active_private_state_bytes = i /\ r.stats.page_table_bytes = j
      /\ r.stats.retained_snapshot_bytes = k /\ r.stats.reserved_pages = v + n
      /\ Occupied(r) = o - n
  BY <1>1
<1> HIDE DEF i, j, k, v, o
<1>5. /\ r.stats.active_private_state_bytes <= i /\ r.stats.page_table_bytes <= j
      /\ r.stats.retained_snapshot_bytes <= k
      /\ Occupied(r) + r.stats.reserved_pages <= o + v
  <2>1. (o - n) + (v + n) <= o + v /\ i <= i /\ j <= j /\ k <= k
    BY <1>1, <1>3
  <2> QED BY <2>1, <1>4
<1>6. DOMAIN r.prefixes \subseteq DOMAIN c.prefixes
  BY <1>1
<1>7. Ledger(r)
  BY <1>1, <1>5, <1>6, LedgerKept DEF i, j, k, v, o
<1> QED BY <1>1, <1>7 DEF r

\* abort_append keeps the invariant.
LEMMA AbortAppendIInv ==
    ASSUME IInv, NEW s \in LiveSequences, AbortAppend(s)
    PROVE  IInv'
<1> DEFINE q == cache.sequences[s]
           released == q.pending.new_pages
<1>1. Sound(cache) /\ Ledger(cache) /\ s \in DOMAIN cache.sequences
  BY DEF IInv, LiveSequences
<1>2. /\ PendingAppend(s) /\ result' = "ok"
      /\ cache' = Released(cache, s, released)
      /\ pool' = Moved(pool, Range(PhysicalRefs(cache, released)), "free")
      /\ tables' = Published(s, PhysicalRefs(cache, q.pages), q.position)
  BY DEF AbortAppend
<1>3. /\ q.pages \in Seq(PageId) /\ q.position \in Nat
      /\ released \in Seq(PageId) /\ IsInjective(Slots(released))
  BY <1>1, SequenceParts
<1>4. AllLive(cache, q.pages) /\ AllLive(cache, released)
  BY <1>2 DEF PendingAppend
<1> HIDE DEF q, released
<1>5. Present(cache, released)
  BY <1>1, <1>3, <1>4, LivePages
<1>6. PhysicalRefs(cache, q.pages) \in Seq(PhysicalPages \cup {None})
  BY <1>1, <1>3, <1>4, LivePages
<1>7. Sound(cache') /\ Ledger(cache') /\ DOMAIN cache'.sequences = DOMAIN cache.sequences
  <2> DEFINE r == Released(cache, s, released)
  <2>1. Sound(r) /\ Ledger(r) /\ DOMAIN r.sequences = DOMAIN cache.sequences
    BY <1>1, <1>3, <1>5, ReleasedLedger
  <2> QED BY <2>1, <1>2
<1>8. tables' \in Seq(TableType) /\ DOMAIN tables' = DOMAIN cache.sequences
  BY <1>1, <1>2, <1>3, <1>6, TablesUpdated
<1>9. pool' \in [PhysicalPages -> Owners]
  BY <1>2, PoolSteps DEF IInv
<1> QED BY <1>2, <1>7, <1>8, <1>9 DEF IInv, Results

\* The number of rows of an append is a natural number.
LEMMA RowsNat == ASSUME NEW rows \in Rows PROVE rows \in Nat
<1> DEFINE m == Max({0} \cup {request.max_position : request \in Requests})
<1>1. rows \in 1..m
  BY DEF Rows
<1> HIDE DEF m
<1> QED BY <1>1

\* What a commit splits the pending pages into.
LEMMA CommitParts ==
    ASSUME IInv, NEW s \in LiveSequences, PendingAppend(s), NEW rows \in Rows,
           NewPageCount(cache.sequences[s], rows) \in 0..Len(cache.sequences[s].pending.new_pages)
    PROVE  LET q == cache.sequences[s]
               table == q.pages \o KeptPages(q, rows)
               released == ReleasedPages(q, rows)
           IN  /\ q.position \in Nat /\ q.position + rows \in Nat /\ rows \in Nat
               /\ table \in Seq(PageId)
               /\ PhysicalRefs(cache, table) \in Seq(PhysicalPages \cup {None})
               /\ released \in Seq(PageId) /\ IsInjective(Slots(released))
               /\ Present(cache, released)
<1> DEFINE q == cache.sequences[s]
           new == q.pending.new_pages
           n == NewPageCount(q, rows)
           kept == SubSeq(new, 1, n)
           released == SubSeq(new, n + 1, Len(new))
           table == q.pages \o kept
<1>1. Sound(cache) /\ s \in DOMAIN cache.sequences
  BY DEF IInv, LiveSequences
<1>2. /\ q.pages \in Seq(PageId) /\ q.position \in Nat
      /\ new \in Seq(PageId) /\ IsInjective(Slots(new))
  BY <1>1, SequenceParts
<1>3. AllLive(cache, q.pages) /\ AllLive(cache, new)
  BY DEF PendingAppend
<1>4. n \in 0..Len(new)
  OBVIOUS
<1>5. kept = KeptPages(q, rows) /\ released = ReleasedPages(q, rows)
  BY DEF KeptPages, ReleasedPages
<1> HIDE DEF q, new, n
<1>6. Len(new) \in Nat
  BY <1>2, SeqParts
<1>7. 1 \in 1..(Len(new) + 1) /\ n + 1 \in 1..(Len(new) + 1) /\ Len(new) \in 0..Len(new)
  BY <1>4, <1>6
<1>8. kept \in Seq(PageId) /\ AllLive(cache, kept)
  BY <1>2, <1>3, <1>4, <1>7, SubPages
<1>9. released \in Seq(PageId) /\ IsInjective(Slots(released)) /\ AllLive(cache, released)
  BY <1>2, <1>3, <1>4, <1>7, SubPages
<1> HIDE DEF kept, released
<1>10. table \in Seq(PageId) /\ AllLive(cache, table)
  BY <1>2, <1>3, <1>8, JoinedPages
<1> HIDE DEF table
<1>11. PhysicalRefs(cache, table) \in Seq(PhysicalPages \cup {None}) /\ Present(cache, released)
  BY <1>1, <1>9, <1>10, LivePages
<1>12. rows \in Nat
  BY RowsNat
<1>13. q.position + rows \in Nat
  BY <1>2, <1>12
<1> QED BY <1>2, <1>5, <1>9, <1>10, <1>11, <1>12, <1>13 DEF q, table

\* StopSound with the capacity argument: statistics are not refreshed, and occupied
\* pages only fall.
LEMMA StopLedger ==
    ASSUME NEW c, Sound(c), Ledger(c), NEW s \in DOMAIN c.sequences,
           NEW released \in Seq(PageId), IsInjective(Slots(released)), Present(c, released),
           Exhausted(released) # {}
    PROVE  LET r == StopAtExhausted(c, s, released)
           IN  Sound(r) /\ Ledger(r) /\ DOMAIN r.sequences = DOMAIN c.sequences
<1> DEFINE r == StopAtExhausted(c, s, released)
<1>1. /\ Sound(r) /\ DOMAIN r.sequences = DOMAIN c.sequences
      /\ r.prefixes = c.prefixes /\ r.stats = c.stats
      /\ Occupied(r) <= Occupied(c)
  BY StopSound
<1> HIDE DEF r
<1>2. c.stats \in Stats
  BY DEF Sound
<1> DEFINE m == c.stats.resident_pages
<1>3. Occupied(r) \in Nat /\ Occupied(c) \in Nat /\ m \in Nat /\ Occupied(c) <= m
  BY <1>1, <1>2, OccupiedNat DEF Stats, Ledger
<1>4. Occupied(r) <= r.stats.resident_pages
  <2>1. r.stats.resident_pages = m
    BY <1>1
  <2> HIDE DEF m
  <2>2. Occupied(r) <= m
    BY <1>1, <1>3
  <2> QED BY <2>1, <2>2
<1>5. Ledger(r)
  BY <1>1, <1>4 DEF Ledger
<1> QED BY <1>1, <1>5 DEF r

\* abort_append that stops at an exhausted slot keeps the invariant.
LEMMA AbortAppendExhaustedIInv ==
    ASSUME IInv, NEW s \in LiveSequences, AbortAppendExhausted(s)
    PROVE  IInv'
<1> DEFINE q == cache.sequences[s]
           released == q.pending.new_pages
<1>1. Sound(cache) /\ Ledger(cache) /\ s \in DOMAIN cache.sequences
  BY DEF IInv, LiveSequences
<1>2. /\ PendingAppend(s) /\ Exhausted(released) # {} /\ result' = "refused"
      /\ cache' = StopAtExhausted(cache, s, released)
      /\ pool' = Moved(pool, Range(PhysicalRefs(cache, released)), "free")
      /\ tables' = Published(s, PhysicalRefs(cache, q.pages), q.position)
  BY DEF AbortAppendExhausted
<1>3. /\ q.pages \in Seq(PageId) /\ q.position \in Nat
      /\ released \in Seq(PageId) /\ IsInjective(Slots(released))
  BY <1>1, SequenceParts
<1>4. AllLive(cache, q.pages) /\ AllLive(cache, released)
  BY <1>2 DEF PendingAppend
<1> HIDE DEF q, released
<1>5. Present(cache, released)
  BY <1>1, <1>3, <1>4, LivePages
<1>6. PhysicalRefs(cache, q.pages) \in Seq(PhysicalPages \cup {None})
  BY <1>1, <1>3, <1>4, LivePages
<1>7. Sound(cache') /\ Ledger(cache') /\ DOMAIN cache'.sequences = DOMAIN cache.sequences
  <2> DEFINE r == StopAtExhausted(cache, s, released)
  <2>1. Sound(r) /\ Ledger(r) /\ DOMAIN r.sequences = DOMAIN cache.sequences
    BY <1>1, <1>2, <1>3, <1>5, StopLedger
  <2> QED BY <2>1, <1>2
<1>8. tables' \in Seq(TableType) /\ DOMAIN tables' = DOMAIN cache.sequences
  BY <1>1, <1>2, <1>3, <1>6, TablesUpdated
<1>9. pool' \in [PhysicalPages -> Owners]
  BY <1>2, PoolSteps DEF IInv
<1> QED BY <1>2, <1>7, <1>8, <1>9 DEF IInv, Results

\* MarkCommittedSound with the capacity argument.
LEMMA MarkedLedger ==
    ASSUME NEW c, Sound(c), Ledger(c), NEW q, q.position \in Nat, NEW table, NEW rows \in Nat,
           NEW released, Present(c, released)
    PROVE  LET m == MarkCommitted(c, q, table, rows)
           IN  /\ Sound(m) /\ Ledger(m) /\ SameRest(m, c) /\ m.stats = c.stats
               /\ m.free_page_slots = c.free_page_slots /\ Occupied(m) = Occupied(c)
               /\ DOMAIN m.pages = DOMAIN c.pages /\ Present(m, released)
<1> DEFINE m == MarkCommitted(c, q, table, rows)
<1>1. /\ Sound(m) /\ Occupied(m) = Occupied(c) /\ SameRest(m, c)
      /\ m.free_page_slots = c.free_page_slots /\ m.stats = c.stats
      /\ DOMAIN m.pages = DOMAIN c.pages
      /\ \A s \in DOMAIN c.pages : m.pages[s].live = c.pages[s].live
  BY MarkCommittedSound
<1> HIDE DEF m
<1>2. Present(m, released)
  BY <1>1 DEF Present
<1>3. Ledger(m)
  BY <1>1 DEF Ledger, SameRest
<1> QED BY <1>1, <1>2, <1>3 DEF m

\* commit_append that stops at an exhausted slot keeps the invariant.
LEMMA CommitAppendExhaustedIInv ==
    ASSUME IInv, NEW s \in LiveSequences, NEW rows \in Rows, CommitAppendExhausted(s, rows)
    PROVE  IInv'
<1> DEFINE q == cache.sequences[s]
           table == q.pages \o KeptPages(q, rows)
           released == ReleasedPages(q, rows)
           m == MarkCommitted(cache, q, table, rows)
<1>1. Sound(cache) /\ Ledger(cache) /\ s \in DOMAIN cache.sequences
  BY DEF IInv, LiveSequences
<1>2. /\ PendingAppend(s) /\ Exhausted(released) # {} /\ result' = "refused"
      /\ NewPageCount(q, rows) \in 0..Len(q.pending.new_pages)
      /\ cache' = StopAtExhausted(m, s, released)
      /\ pool' = Moved(pool, Range(PhysicalRefs(cache, released)), "free")
      /\ tables' = Published(s, PhysicalRefs(cache, table), q.position + rows)
  BY DEF CommitAppendExhausted
<1>3. /\ q.position \in Nat /\ q.position + rows \in Nat /\ rows \in Nat
      /\ table \in Seq(PageId)
      /\ PhysicalRefs(cache, table) \in Seq(PhysicalPages \cup {None})
      /\ released \in Seq(PageId) /\ IsInjective(Slots(released))
      /\ Present(cache, released)
  BY <1>2, CommitParts
<1> HIDE DEF q, table, released
<1>4. /\ Sound(m) /\ Ledger(m) /\ SameRest(m, cache) /\ Present(m, released)
  BY <1>1, <1>3, MarkedLedger
<1> HIDE DEF m
<1>5. s \in DOMAIN m.sequences /\ DOMAIN m.sequences = DOMAIN cache.sequences
  BY <1>1, <1>4 DEF SameRest
<1>6. Sound(cache') /\ Ledger(cache') /\ DOMAIN cache'.sequences = DOMAIN cache.sequences
  <2> DEFINE r == StopAtExhausted(m, s, released)
  <2>1. Sound(r) /\ Ledger(r) /\ DOMAIN r.sequences = DOMAIN m.sequences
    BY <1>2, <1>3, <1>4, <1>5, StopLedger
  <2> QED BY <2>1, <1>2, <1>5
<1>7. tables' \in Seq(TableType) /\ DOMAIN tables' = DOMAIN cache.sequences
  BY <1>1, <1>2, <1>3, TablesUpdated
<1>8. pool' \in [PhysicalPages -> Owners]
  BY <1>2, PoolSteps DEF IInv
<1> QED BY <1>2, <1>6, <1>7, <1>8 DEF IInv, Results

\* Setting a sequence's table and position keeps the manager sound and within
\* capacity.
LEMMA CommittedSound ==
    ASSUME NEW c, Sound(c), Ledger(c), NEW s \in DOMAIN c.sequences,
           NEW table \in Seq(PageId), NEW rows \in Nat, NEW released, Present(c, released)
    PROVE  LET x == [c EXCEPT !.sequences[s].pages = table, !.sequences[s].position = @ + rows]
           IN  /\ Sound(x) /\ Ledger(x) /\ DOMAIN x.sequences = DOMAIN c.sequences
               /\ Present(x, released)
<1> DEFINE x == [c EXCEPT !.sequences[s].pages = table, !.sequences[s].position = @ + rows]
           a == [c.sequences[s] EXCEPT !.pages = table]
           b == [a EXCEPT !.position = @ + rows]
<1>1. /\ DOMAIN c = Fields /\ SequencesOK(c.sequences, c.free_sequence_slots)
  BY DEF Sound
<1>2. /\ DOMAIN x = Fields
      /\ x.pages = c.pages /\ x.free_page_slots = c.free_page_slots
      /\ x.prefixes = c.prefixes /\ x.lru = c.lru /\ x.tree = c.tree
      /\ x.free_sequence_slots = c.free_sequence_slots
      /\ x.next_prefix_id = c.next_prefix_id /\ x.clock = c.clock
      /\ x.deferred_pages = c.deferred_pages /\ x.stats = c.stats
  BY <1>1 DEF Fields
<1>3. x.sequences = [c.sequences EXCEPT ![s] = b]
  BY <1>1 DEF Fields
<1> HIDE DEF x
<1>4. c.sequences[s] \in SequenceSlot /\ c.sequences \in [DOMAIN c.sequences -> SequenceSlot]
  BY <1>1, SequencesParts
<1>5. /\ a \in SequenceSlot /\ a.live = c.sequences[s].live
      /\ a.pending = c.sequences[s].pending
  BY <1>4 DEF SequenceSlot
<1> HIDE DEF a
<1>6. b \in SequenceSlot /\ b.live = a.live /\ b.pending = a.pending
  <2> DEFINE v == a.position + rows
  <2>1. a.position \in Nat
    BY <1>5 DEF SequenceSlot
  <2>2. v \in Nat
    BY <2>1
  <2>3. b = [a EXCEPT !.position = v]
    OBVIOUS
  <2> HIDE DEF v, b
  <2> QED BY <2>2, <2>3, <1>5 DEF SequenceSlot
<1> HIDE DEF b
<1>7. SequencesOK(x.sequences, x.free_sequence_slots) /\ DOMAIN x.sequences = DOMAIN c.sequences
  <2>1. /\ x.sequences \in [DOMAIN c.sequences -> SequenceSlot]
        /\ \A o \in DOMAIN c.sequences : o # s => x.sequences[o] = c.sequences[o]
        /\ x.sequences[s] = b
    BY <1>3, <1>4, <1>6
  <2>2. IsInjective(Slots(c.sequences[s].pending.new_pages))
    BY SequenceParts
  <2>3. IsInjective(Slots(x.sequences[s].pending.new_pages))
    BY <2>1, <2>2, <1>5, <1>6
  <2>4. x.sequences[s].live = c.sequences[s].live
    BY <2>1, <1>5, <1>6
  <2>5. SequencesOK(x.sequences, c.free_sequence_slots)
        /\ DOMAIN x.sequences = DOMAIN c.sequences
    BY <2>1, <2>3, <2>4, <1>1, SequenceUpdated
  <2> QED BY <2>5, <1>2
<1>8. Sound(x)
  BY <1>2, <1>7 DEF Sound
<1>9. Occupied(x) = Occupied(c)
  BY <1>2 DEF Occupied
<1>10. Ledger(x) /\ Present(x, released)
  BY <1>2, <1>9 DEF Ledger, Present
<1> QED BY <1>7, <1>8, <1>10 DEF x

\* commit_append keeps the invariant.
LEMMA CommitAppendIInv ==
    ASSUME IInv, NEW s \in LiveSequences, NEW rows \in Rows, CommitAppend(s, rows)
    PROVE  IInv'
<1> DEFINE q == cache.sequences[s]
           table == q.pages \o KeptPages(q, rows)
           released == ReleasedPages(q, rows)
           m == MarkCommitted(cache, q, table, rows)
           x == [m EXCEPT !.sequences[s].pages = table, !.sequences[s].position = @ + rows]
<1>1. Sound(cache) /\ Ledger(cache) /\ s \in DOMAIN cache.sequences
  BY DEF IInv, LiveSequences
<1>2. /\ PendingAppend(s) /\ result' = "ok"
      /\ NewPageCount(q, rows) \in 0..Len(q.pending.new_pages)
      /\ cache' = Released(x, s, released)
      /\ pool' = Moved(pool, Range(PhysicalRefs(cache, released)), "free")
      /\ tables' = Published(s, PhysicalRefs(cache, table), q.position + rows)
  BY DEF CommitAppend
<1>3. /\ q.position \in Nat /\ q.position + rows \in Nat /\ rows \in Nat
      /\ table \in Seq(PageId)
      /\ PhysicalRefs(cache, table) \in Seq(PhysicalPages \cup {None})
      /\ released \in Seq(PageId) /\ IsInjective(Slots(released))
      /\ Present(cache, released)
  BY <1>2, CommitParts
<1> HIDE DEF q, table, released
<1>4. /\ Sound(m) /\ Ledger(m) /\ SameRest(m, cache) /\ Present(m, released)
  BY <1>1, <1>3, MarkedLedger
<1> HIDE DEF m
<1>5. s \in DOMAIN m.sequences /\ DOMAIN m.sequences = DOMAIN cache.sequences
  BY <1>1, <1>4 DEF SameRest
<1>6. /\ Sound(x) /\ Ledger(x) /\ DOMAIN x.sequences = DOMAIN m.sequences
      /\ Present(x, released)
  BY <1>3, <1>4, <1>5, CommittedSound
<1> HIDE DEF x
<1>7. Sound(cache') /\ Ledger(cache') /\ DOMAIN cache'.sequences = DOMAIN cache.sequences
  <2> DEFINE r == Released(x, s, released)
  <2>1. Sound(r) /\ Ledger(r) /\ DOMAIN r.sequences = DOMAIN x.sequences
    BY <1>3, <1>5, <1>6, ReleasedLedger
  <2> QED BY <2>1, <1>2, <1>5, <1>6
<1>8. tables' \in Seq(TableType) /\ DOMAIN tables' = DOMAIN cache.sequences
  BY <1>1, <1>2, <1>3, TablesUpdated
<1>9. pool' \in [PhysicalPages -> Owners]
  BY <1>2, PoolSteps DEF IInv
<1> QED BY <1>2, <1>7, <1>8, <1>9 DEF IInv, Results

\* insert_page for a list of physical pages keeps the manager sound.
LEMMA InsertPagesSound ==
    ASSUME NEW c, Sound(c), NEW physical \in Seq(PhysicalPages), NEW valid \in 0..PageTokens
    PROVE  LET r == InsertPages(c, physical, valid)
           IN  /\ Sound(r) /\ SameRest(r, c) /\ r.stats = c.stats
               /\ Occupied(r) = Occupied(c) + Len(physical) /\ Len(physical) \in Nat
<1> DEFINE r == InsertPages(c, physical, valid)
           n == Len(physical)
<1>1. DOMAIN c = Fields /\ PagesOK(c.pages, c.free_page_slots)
  BY DEF Sound
<1>2. /\ PagesOK(r.pages, r.free_page_slots)
      /\ Len(r.pages) - Len(r.free_page_slots) = Len(c.pages) - Len(c.free_page_slots) + n
  BY <1>1, InsertArena
<1>3. /\ DOMAIN r = Fields
      /\ r.sequences = c.sequences /\ r.free_sequence_slots = c.free_sequence_slots
      /\ r.prefixes = c.prefixes /\ r.lru = c.lru /\ r.tree = c.tree
      /\ r.next_prefix_id = c.next_prefix_id /\ r.clock = c.clock
      /\ r.deferred_pages = c.deferred_pages /\ r.stats = c.stats
  BY <1>1 DEF InsertPages, Fields
<1> HIDE DEF r
<1>4. SameRest(r, c)
  BY <1>3 DEF SameRest
<1>5. Sound(r)
  BY <1>2, <1>3 DEF Sound
<1>6. n \in Nat
  BY SeqParts
<1>7. Occupied(r) = Occupied(c) + n
  <2> DEFINE a == Len(r.pages)
             b == Len(r.free_page_slots)
             e == Len(c.pages)
             f == Len(c.free_page_slots)
             d == c.deferred_pages
  <2>1. a \in Nat /\ b \in Nat
    BY <1>2, SeqParts DEF PagesOK
  <2>2. e \in Nat /\ f \in Nat /\ d \in Nat
    BY <1>1, SeqParts DEF PagesOK, Sound
  <2>3. Occupied(r) = a - b + d /\ Occupied(c) = e - f + d /\ a - b = e - f + n
    BY <1>2, <1>3 DEF Occupied
  <2> HIDE DEF a, b, e, f, d, n
  <2>4. (e - f + n) + d = (e - f + d) + n
    BY <2>2, <1>6
  <2> QED BY <2>3, <2>4
<1> QED BY <1>3, <1>4, <1>5, <1>6, <1>7 DEF r

\* The handles of the next n pages are typed and name distinct slots.
LEMMA FreshPageIds ==
    ASSUME NEW c, Sound(c), NEW n \in Nat
    PROVE  LET ids == [i \in 1..n |-> FreshPageId(c, i)]
           IN  ids \in Seq(PageId) /\ Len(ids) = n /\ IsInjective(Slots(ids))
<1> DEFINE ids == [i \in 1..n |-> FreshPageId(c, i)]
           grown == Len(c.pages) + Monus(n, Len(c.free_page_slots))
<1>1. PagesOK(c.pages, c.free_page_slots)
  BY DEF Sound
<1>2. /\ grown \in Nat /\ \A i \in 1..n : FreshSlot(c, i) \in 1..grown
      /\ \A i, j \in 1..n : FreshSlot(c, i) = FreshSlot(c, j) => i = j
  BY <1>1, FreshSlots
<1> HIDE DEF grown
<1>3. \A s : FreshGeneration(c, s) \in Nat
  <2> TAKE s
  <2>1. CASE s \in DOMAIN c.pages
    <3>1. c.pages[s] \in PageSlot
      BY <2>1, <1>1, SeqParts DEF PagesOK
    <3> QED BY <2>1, <3>1 DEF FreshGeneration, PageSlot
  <2>2. CASE s \notin DOMAIN c.pages
    BY <2>2 DEF FreshGeneration
  <2> QED BY <2>1, <2>2
<1>4. \A i \in 1..n : FreshPageId(c, i) \in PageId /\ FreshPageId(c, i).slot = FreshSlot(c, i)
  BY <1>2, <1>3 DEF FreshPageId, PageId
<1>5. ids \in [1..n -> PageId]
  BY <1>4
<1>6. \A i \in 1..n : ids[i].slot = FreshSlot(c, i)
  BY <1>4
<1> HIDE DEF ids
<1>7. ids \in Seq(PageId) /\ Len(ids) = n
  BY <1>5, SeqBuilt
<1>8. /\ DOMAIN Slots(ids) = 1..n /\ \A i \in 1..n : Slots(ids)[i] = ids[i].slot
  BY <1>7, SlotsParts
<1>9. IsInjective(Slots(ids))
  <2>1. \A i \in 1..n : Slots(ids)[i] = FreshSlot(c, i)
    BY <1>6, <1>8
  <2>2. \A i, j \in 1..n : Slots(ids)[i] = Slots(ids)[j] => i = j
    <3> TAKE i, j \in 1..n
    <3> HAVE Slots(ids)[i] = Slots(ids)[j]
    <3>1. FreshSlot(c, i) = FreshSlot(c, j)
      BY <2>1
    <3> QED BY <3>1, <1>2
  <2> QED BY <2>2, <1>8 DEF IsInjective
<1> QED BY <1>7, <1>9 DEF ids

\* An allocation is a sequence of physical pages.
LEMMA AllocatedPages ==
    ASSUME NEW n \in Nat, NEW physical \in Injection(1..n, InPool("free"))
    PROVE  /\ physical \in Seq(PhysicalPages) /\ Len(physical) = n
           /\ physical \in Seq(PhysicalPages \cup {None})
<1>1. physical \in [1..n -> InPool("free")]
  BY DEF Injection
<1>2. InPool("free") \subseteq PhysicalPages
  BY DEF InPool
<1>3. physical \in [1..n -> PhysicalPages]
  BY <1>1, <1>2
<1>4. physical \in [1..n -> PhysicalPages \cup {None}]
  BY <1>1, <1>2
<1> QED BY <1>3, <1>4, SeqBuilt

\* The update of reserve_append, as an operator of its inputs.
ReservedFor(c, s, n, rows, new_pages) ==
    [c EXCEPT
      !.sequences[s].reserved_pages = @ - n,
      !.sequences[s].pending = [rows |-> rows, new_pages |-> new_pages],
      !.stats.reserved_pages = @ - n]

\* The update of reserve_append keeps the manager sound and lowers the promised pages
\* by n.
LEMMA ReservedSound ==
    ASSUME NEW c, Sound(c), NEW s \in DOMAIN c.sequences, NEW n \in Nat,
           n <= c.sequences[s].reserved_pages, n <= c.stats.reserved_pages,
           NEW rows \in Nat, NEW new_pages \in Seq(PageId), IsInjective(Slots(new_pages))
    PROVE  LET x == ReservedFor(c, s, n, rows, new_pages)
           IN  /\ Sound(x) /\ DOMAIN x.sequences = DOMAIN c.sequences
               /\ x.prefixes = c.prefixes /\ Occupied(x) = Occupied(c)
               /\ x.stats.reserved_pages = c.stats.reserved_pages - n
               /\ x.stats.active_private_state_bytes = c.stats.active_private_state_bytes
               /\ x.stats.page_table_bytes = c.stats.page_table_bytes
               /\ x.stats.retained_snapshot_bytes = c.stats.retained_snapshot_bytes
<1> DEFINE new == [rows |-> rows, new_pages |-> new_pages]
           x == ReservedFor(c, s, n, rows, new_pages)
           a == [c.sequences[s] EXCEPT !.reserved_pages = @ - n]
           b == [a EXCEPT !.pending = new]
<1>1. /\ DOMAIN c = Fields /\ c.stats \in Stats
      /\ SequencesOK(c.sequences, c.free_sequence_slots)
  BY DEF Sound
<1>2. /\ DOMAIN x = Fields
      /\ x.pages = c.pages /\ x.free_page_slots = c.free_page_slots
      /\ x.prefixes = c.prefixes /\ x.lru = c.lru /\ x.tree = c.tree
      /\ x.free_sequence_slots = c.free_sequence_slots
      /\ x.next_prefix_id = c.next_prefix_id /\ x.clock = c.clock
      /\ x.deferred_pages = c.deferred_pages
  BY <1>1 DEF Fields, ReservedFor
<1>3. x.stats = [c.stats EXCEPT !.reserved_pages = @ - n]
  BY <1>1 DEF Fields, ReservedFor
<1>4. x.sequences = [c.sequences EXCEPT ![s] = b]
  BY <1>1 DEF Fields, ReservedFor
<1> HIDE DEF x
<1>5. c.sequences[s] \in SequenceSlot /\ c.sequences \in [DOMAIN c.sequences -> SequenceSlot]
  BY <1>1, SequencesParts
<1>6. a \in SequenceSlot /\ a.live = c.sequences[s].live
  <2> DEFINE u == c.sequences[s].reserved_pages
             v == u - n
  <2>1. u \in Nat /\ n <= u
    BY <1>5 DEF SequenceSlot
  <2>2. a = [c.sequences[s] EXCEPT !.reserved_pages = v]
    OBVIOUS
  <2> HIDE DEF u, a
  <2>3. v \in Nat
    BY <2>1
  <2> HIDE DEF v
  <2> QED BY <2>2, <2>3, <1>5 DEF SequenceSlot
<1> HIDE DEF a
<1>7. new \in [rows : Nat, new_pages : Seq(PageId)] /\ new.new_pages = new_pages
  OBVIOUS
<1> HIDE DEF new
<1>8. b \in SequenceSlot /\ b.live = a.live /\ b.pending = new
  BY <1>6, <1>7 DEF SequenceSlot
<1> HIDE DEF b
<1>9. SequencesOK(x.sequences, x.free_sequence_slots) /\ DOMAIN x.sequences = DOMAIN c.sequences
  <2>1. /\ x.sequences \in [DOMAIN c.sequences -> SequenceSlot]
        /\ \A o \in DOMAIN c.sequences : o # s => x.sequences[o] = c.sequences[o]
        /\ x.sequences[s] = b
    BY <1>4, <1>5, <1>8
  <2>2. IsInjective(Slots(x.sequences[s].pending.new_pages))
    BY <2>1, <1>7, <1>8
  <2>3. x.sequences[s].live = c.sequences[s].live
    BY <2>1, <1>6, <1>8
  <2>4. SequencesOK(x.sequences, c.free_sequence_slots)
        /\ DOMAIN x.sequences = DOMAIN c.sequences
    BY <2>1, <2>2, <2>3, <1>1, SequenceUpdated
  <2> QED BY <2>4, <1>2
<1>10. x.stats \in Stats
  <2> DEFINE u == c.stats.reserved_pages
             v == u - n
  <2>1. u \in Nat /\ n <= u
    BY <1>1 DEF Stats
  <2>2. x.stats = [c.stats EXCEPT !.reserved_pages = v]
    BY <1>3
  <2> HIDE DEF u
  <2>3. v \in Nat
    BY <2>1
  <2> HIDE DEF v
  <2> QED BY <2>2, <2>3, <1>1 DEF Stats
<1>11. Sound(x)
  BY <1>2, <1>9, <1>10 DEF Sound
<1>12. Occupied(x) = Occupied(c)
  BY <1>2 DEF Occupied
<1>13. /\ x.stats.reserved_pages = c.stats.reserved_pages - n
       /\ x.stats.active_private_state_bytes = c.stats.active_private_state_bytes
       /\ x.stats.page_table_bytes = c.stats.page_table_bytes
       /\ x.stats.retained_snapshot_bytes = c.stats.retained_snapshot_bytes
  BY <1>1, <1>3 DEF Stats
<1> QED BY <1>2, <1>9, <1>11, <1>12, <1>13 DEF x

\* reserve_append keeps the invariant: what it occupies is what it no longer promises.
LEMMA ReserveAppendIInv ==
    ASSUME IInv, NEW s \in LiveSequences, NEW rows \in Rows, ReserveAppend(s, rows)
    PROVE  IInv'
<1> DEFINE q == cache.sequences[s]
           n == NewPageCount(q, rows)
           new_pages == [i \in 1..n |-> FreshPageId(cache, i)]
<1>1. Sound(cache) /\ Ledger(cache) /\ s \in DOMAIN cache.sequences
  BY DEF IInv, LiveSequences
<1>2. CanReserve(s, rows) /\ result' = "ok"
  BY SMTT(40) DEF ReserveAppend
<1>3. PICK physical \in Injection(1..n, InPool("free")) :
        /\ cache' = RefreshStats([InsertPages(cache, physical, 0) EXCEPT
             !.sequences[s].reserved_pages = @ - n,
             !.sequences[s].pending = [rows |-> rows, new_pages |-> new_pages],
             !.stats.reserved_pages = @ - n])
        /\ pool' = Moved(pool, Range(physical), "held")
        /\ tables' = IF n = 0 THEN tables
                     ELSE Published(s, PhysicalRefs(cache, q.pages) \o physical, q.position)
  BY ZenonT(60) DEF ReserveAppend
<1>4. /\ n \in Nat /\ n <= q.reserved_pages /\ n <= cache.stats.reserved_pages
      /\ AllLive(cache, q.pages)
  BY <1>2 DEF CanReserve
<1>5. q.pages \in Seq(PageId) /\ q.position \in Nat /\ rows \in Nat
  BY <1>1, SequenceParts, RowsNat
<1> HIDE DEF n
<1>6. new_pages \in Seq(PageId) /\ IsInjective(Slots(new_pages))
  BY <1>1, <1>4, FreshPageIds
<1> HIDE DEF new_pages
<1>7. /\ physical \in Seq(PhysicalPages) /\ Len(physical) = n
      /\ physical \in Seq(PhysicalPages \cup {None})
  BY <1>4, AllocatedPages
<1> DEFINE m == InsertPages(cache, physical, 0)
           x == ReservedFor(m, s, n, rows, new_pages)
           r == RefreshStats(x)
<1>8. /\ Sound(m) /\ SameRest(m, cache) /\ m.stats = cache.stats
      /\ Occupied(m) = Occupied(cache) + n
  <2>1. 0 \in 0..PageTokens
    BY ConfigAssumption
  <2>2. /\ Sound(m) /\ SameRest(m, cache) /\ m.stats = cache.stats
        /\ Occupied(m) = Occupied(cache) + Len(physical) /\ Len(physical) \in Nat
    BY <2>1, <1>1, <1>7, InsertPagesSound
  <2> QED BY <2>2, <1>7
<1>9. cache' = r
  BY <1>3 DEF ReservedFor
<1> HIDE DEF m
<1>10. /\ s \in DOMAIN m.sequences /\ m.sequences = cache.sequences
       /\ m.prefixes = cache.prefixes
       /\ n <= m.sequences[s].reserved_pages /\ n <= m.stats.reserved_pages
  BY <1>1, <1>4, <1>8 DEF SameRest
<1>11. /\ Sound(x) /\ DOMAIN x.sequences = DOMAIN m.sequences
       /\ x.prefixes = m.prefixes /\ Occupied(x) = Occupied(m)
       /\ x.stats.reserved_pages = m.stats.reserved_pages - n
       /\ x.stats.active_private_state_bytes = m.stats.active_private_state_bytes
       /\ x.stats.page_table_bytes = m.stats.page_table_bytes
       /\ x.stats.retained_snapshot_bytes = m.stats.retained_snapshot_bytes
  <2> HIDE DEF q
  <2> QED BY <1>4, <1>5, <1>6, <1>8, <1>10, ReservedSound
<1> HIDE DEF x
<1>12. /\ Sound(r) /\ Balanced(r) /\ r.sequences = x.sequences /\ r.prefixes = x.prefixes
       /\ Occupied(r) = Occupied(x)
       /\ r.stats.reserved_pages = x.stats.reserved_pages
       /\ r.stats.active_private_state_bytes = x.stats.active_private_state_bytes
       /\ r.stats.page_table_bytes = x.stats.page_table_bytes
       /\ r.stats.retained_snapshot_bytes = x.stats.retained_snapshot_bytes
  BY <1>11, Refreshed
<1> HIDE DEF r
<1>13. Ledger(r)
  <2> DEFINE i == cache.stats.active_private_state_bytes
             j == cache.stats.page_table_bytes
             k == cache.stats.retained_snapshot_bytes
             v == cache.stats.reserved_pages
             o == Occupied(cache)
  <2>1. cache.stats \in Stats
    BY <1>1 DEF Sound
  <2>2. i \in Nat /\ j \in Nat /\ k \in Nat /\ v \in Nat /\ o \in Nat
    BY <2>1, <1>1, OccupiedNat DEF Stats
  <2>3. /\ r.stats.active_private_state_bytes = i /\ r.stats.page_table_bytes = j
        /\ r.stats.retained_snapshot_bytes = k /\ r.stats.reserved_pages = v - n
        /\ Occupied(r) = o + n
    BY <1>8, <1>11, <1>12
  <2> HIDE DEF i, j, k, v, o
  <2>4. /\ r.stats.active_private_state_bytes <= i /\ r.stats.page_table_bytes <= j
        /\ r.stats.retained_snapshot_bytes <= k
        /\ Occupied(r) + r.stats.reserved_pages <= o + v
    <3>1. (o + n) + (v - n) <= o + v /\ i <= i /\ j <= j /\ k <= k
      BY <2>2, <1>4
    <3> QED BY <3>1, <2>3
  <2>5. DOMAIN r.prefixes \subseteq DOMAIN cache.prefixes
    BY <1>10, <1>11, <1>12
  <2> QED BY <2>4, <2>5, <1>1, <1>12, LedgerKept DEF i, j, k, v, o
<1>14. DOMAIN r.sequences = DOMAIN cache.sequences
  BY <1>10, <1>11, <1>12
<1>15. tables' \in Seq(TableType) /\ DOMAIN tables' = DOMAIN cache.sequences
  <2>1. CASE n = 0
    BY <2>1, <1>3 DEF IInv
  <2>2. CASE n # 0
    <3> DEFINE refs == PhysicalRefs(cache, q.pages) \o physical
    <3>1. PhysicalRefs(cache, q.pages) \in Seq(PhysicalPages \cup {None})
      BY <1>1, <1>4, <1>5, LivePages
    <3>2. refs \in Seq(PhysicalPages \cup {None})
      BY <3>1, <1>7
    <3>3. tables' = Published(s, refs, q.position)
      BY <2>2, <1>3
    <3> HIDE DEF refs, q
    <3> QED BY <3>2, <3>3, <1>1, <1>5, TablesUpdated
  <2> QED BY <2>1, <2>2
<1>16. pool' \in [PhysicalPages -> Owners]
  BY <1>3, PoolSteps DEF IInv
<1> QED BY <1>2, <1>9, <1>12, <1>13, <1>14, <1>15, <1>16 DEF IInv, Results

\* Copying the partial tail takes one page.
LEMMA CopyTaken ==
    ASSUME NEW e, NEW x, Sound(x), Sound(e), PagesTaken(x, e, 0),
           NEW copied \in Seq(PhysicalPages), NEW valid \in 0..PageTokens
    PROVE  LET y == InsertPages(x, copied, valid)
           IN  Sound(y) /\ PagesTaken(y, e, Len(copied))
<1> DEFINE y == InsertPages(x, copied, valid)
<1>1. /\ Sound(y) /\ SameRest(y, x) /\ y.stats = x.stats
      /\ Occupied(y) = Occupied(x) + Len(copied) /\ Len(copied) \in Nat
  BY InsertPagesSound
<1> HIDE DEF y
<1>2. Occupied(y) = Occupied(e) + Len(copied)
  <2>1. Occupied(x) = Occupied(e) + 0 /\ Occupied(e) \in Nat
    BY OccupiedNat DEF PagesTaken
  <2> QED BY <2>1, <1>1
<1>3. PagesTaken(y, e, Len(copied))
  BY <1>1, <1>2 DEF PagesTaken, SameRest
<1> QED BY <1>1, <1>3 DEF y

\* The first n of a list of live handles.
LEMMA FirstPages ==
    ASSUME NEW c, NEW ids \in Seq(PageId), AllLive(c, ids), NEW n \in 0..Len(ids)
    PROVE  /\ SubSeq(ids, 1, n) \in Seq(PageId) /\ Len(SubSeq(ids, 1, n)) = n
           /\ AllLive(c, SubSeq(ids, 1, n))
<1> DEFINE sub == SubSeq(ids, 1, n)
<1>1. Len(ids) \in Nat /\ DOMAIN ids = 1..Len(ids)
  BY SeqParts
<1>2. sub \in Seq(PageId) /\ Len(sub) = n /\ \A i \in 1..n : i \in 1..Len(ids) /\ sub[i] = ids[i]
  BY <1>1
<1>3. DOMAIN sub = 1..n
  BY <1>2, SeqParts
<1> HIDE DEF sub
<1>4. AllLive(c, sub)
  BY <1>1, <1>2, <1>3 DEF AllLive
<1> QED BY <1>2, <1>4 DEF sub

\* The pages branch shares and copies, and that what it promises covers the copy.
LEMMA BranchParts ==
    ASSUME IInv, NEW s \in LiveSequences, NEW request \in Requests, CanBranchFrom(s, request)
    PROVE  LET q        == cache.sequences[s]
               shared   == CompletePages(q)
               promised == PagesToReserve(request, Len(shared))
           IN  /\ shared \in Seq(PageId) /\ AllLive(cache, shared) /\ q.position \in Nat
               /\ CopiedPages(q) \in Nat /\ promised \in Nat
               /\ promised - CopiedPages(q) \in Nat
               /\ (promised - CopiedPages(q)) + CopiedPages(q) = promised
               /\ q.position % PageTokens \in 0..PageTokens
<1> DEFINE q == cache.sequences[s]
           shared == CompletePages(q)
           promised == PagesToReserve(request, Len(shared))
           n == q.position \div PageTokens
           copies == CopiedPages(q)
           total == DivCeil(request.max_position)
<1>1. Sound(cache) /\ s \in DOMAIN cache.sequences
  BY DEF IInv, LiveSequences
<1>2. q.pages \in Seq(PageId) /\ q.position \in Nat
  BY <1>1, SequenceParts
<1>3. AllLive(cache, q.pages) /\ n + copies <= Len(q.pages) /\ total - (Len(shared) + copies) \in Nat
  BY DEF CanBranchFrom, PagesToReserve
<1>4. copies \in Nat
  BY DEF CopiedPages
<1>5. n \in Nat /\ q.position % PageTokens \in 0..PageTokens
  BY <1>2, DivNat
<1>6. total \in Nat
  <2>1. request.max_position \in Nat
    BY InputAssumption
  <2> QED BY <2>1, DivNat
<1>7. Len(q.pages) \in Nat
  BY <1>2, SeqParts
<1>8. shared = SubSeq(q.pages, 1, n) /\ promised = total - Len(shared)
  BY DEF CompletePages, PagesToReserve
<1> HIDE DEF q, n, copies, total, promised, shared
<1>9. n \in 0..Len(q.pages)
  BY <1>3, <1>4, <1>5, <1>7
<1>10. shared \in Seq(PageId) /\ Len(shared) = n /\ AllLive(cache, shared)
  BY <1>2, <1>3, <1>8, <1>9, FirstPages
<1>11. /\ promised \in Nat /\ promised - copies \in Nat
       /\ (promised - copies) + copies = promised
  <2>1. promised = total - n /\ total - (n + copies) \in Nat
    BY <1>3, <1>8, <1>10
  <2> QED BY <2>1, <1>4, <1>5, <1>6
<1> QED BY <1>2, <1>4, <1>5, <1>10, <1>11 DEF q, copies, promised, shared

\* branch keeps the invariant, although it copies before it evicts.
LEMMA BranchIInv ==
    ASSUME IInv, NEW s \in LiveSequences, NEW request \in Requests, Branch(s, request)
    PROVE  IInv'
<1> DEFINE q == cache.sequences[s]
           shared == CompletePages(q)
           copies == CopiedPages(q)
           promised == PagesToReserve(request, Len(shared))
           demand == BranchDemand(q, request)
           reserved == demand.pages - copies
           partial == q.position % PageTokens
           From(e) == IncrementActiveRefs(e, SlotsOf(shared))
           TailOf(e) == [i \in 1..copies |-> FreshPageId(e, i)]
           Sharing(e, copied) ==
             /\ RoomForPages(e, copies)
             /\ CanShare(e, SlotsOf(shared))
             /\ cache' = RefreshStats(InsertSequence(InsertPages(From(e), copied, partial),
                           shared \o TailOf(e), q.position, reserved, request))
             /\ tables' = Published(NextSequenceSlot(cache),
                            PhysicalRefs(cache, shared) \o copied, q.position)
             /\ result' = IF copies = 0 \/ FreshPageId(cache, 1) = TailOf(e)[1]
                          THEN "ok" ELSE "assert"
           Evicted(copied, slots, later) ==
             pool' = RetirePhysical(Moved(pool, Range(copied), "held"),
                       {cache.pages[p].physical : p \in Range(slots)}, later)
<1>1. Sound(cache) /\ Ledger(cache) /\ s \in DOMAIN cache.sequences
  BY DEF IInv, LiveSequences
<1>2. CanBranchFrom(s, request)
  BY DEF Branch
<1>3. demand = AdmissionDemand(promised, request) /\ demand.pages = promised
  BY DEF BranchDemand, AdmissionDemand
<1>4. PICK ids \in EvictionRuns(cache, {}) :
        /\ EvictionPlan(cache, ids, {}, demand)
        /\ CanEvict(cache, ids)
        /\ \E copied \in Injection(1..copies, InPool("free")) :
           \E slots \in SetToSeqs(RetireSlots(cache, ids)) :
           \E later \in Deferrable({cache.pages[p].physical : p \in Range(slots)}) :
             /\ Sharing(CommitEvictions(cache, ids, slots, Cardinality(later)), copied)
             /\ Evicted(copied, slots, later)
  BY ZenonT(90) DEF Branch
<1>5. /\ shared \in Seq(PageId) /\ AllLive(cache, shared) /\ q.position \in Nat
      /\ copies \in Nat /\ promised \in Nat /\ reserved \in Nat
      /\ reserved + copies = promised /\ partial \in 0..PageTokens
  <2>1. reserved = promised - copies
    BY <1>3
  <2> QED BY <2>1, <1>2, BranchParts
<1> HIDE DEF shared, copies, promised, demand, reserved, partial, Sharing, Evicted, From, TailOf
<1>6. PICK copied \in Injection(1..copies, InPool("free")) :
        \E slots \in SetToSeqs(RetireSlots(cache, ids)) :
        \E later \in Deferrable({cache.pages[p].physical : p \in Range(slots)}) :
          /\ Sharing(CommitEvictions(cache, ids, slots, Cardinality(later)), copied)
          /\ Evicted(copied, slots, later)
  BY <1>4
<1>7. PICK slots \in SetToSeqs(RetireSlots(cache, ids)) :
        \E later \in Deferrable({cache.pages[p].physical : p \in Range(slots)}) :
          /\ Sharing(CommitEvictions(cache, ids, slots, Cardinality(later)), copied)
          /\ Evicted(copied, slots, later)
  BY <1>6
<1>8. PICK later \in Deferrable({cache.pages[p].physical : p \in Range(slots)}) :
        /\ Sharing(CommitEvictions(cache, ids, slots, Cardinality(later)), copied)
        /\ Evicted(copied, slots, later)
  BY <1>7
<1> DEFINE e == CommitEvictions(cache, ids, slots, Cardinality(later))
           x == From(e)
           y == InsertPages(x, copied, partial)
           pages == shared \o TailOf(e)
<1>9. /\ CanShare(e, SlotsOf(shared))
      /\ cache' = RefreshStats(InsertSequence(y, pages, q.position, reserved, request))
      /\ tables' = Published(NextSequenceSlot(cache),
                     PhysicalRefs(cache, shared) \o copied, q.position)
      /\ result' \in {"ok", "assert"}
  BY <1>8 DEF Sharing
<1>10. pool' \in [PhysicalPages -> Owners]
  <2>1. Moved(pool, Range(copied), "held") \in [PhysicalPages -> Owners]
    BY PoolSteps DEF IInv
  <2> QED BY <2>1, <1>8, PoolSteps DEF Evicted
<1>11. ids \subseteq DOMAIN cache.prefixes /\ CanEvict(cache, ids) /\ Fits(cache, ids, demand)
  BY <1>1, <1>4, EvictionRunsParts DEF EvictionPlan
<1>12. Sound(e) /\ DOMAIN e.pages = DOMAIN cache.pages
  BY <1>1, <1>11, EvictedParts
<1>13. /\ SlotsOf(shared) \in SUBSET DOMAIN cache.pages
       /\ PhysicalRefs(cache, shared) \in Seq(PhysicalPages \cup {None})
  BY <1>1, <1>5, LivePages
<1>14. /\ copied \in Seq(PhysicalPages) /\ Len(copied) = copies
       /\ copied \in Seq(PhysicalPages \cup {None})
  BY <1>5, AllocatedPages
<1>15. Sound(x) /\ PagesTaken(x, e, 0)
  <2> HIDE DEF e
  <2> QED BY <1>9, <1>12, <1>13, SharedTaken DEF From
<1>16. pages \in Seq(PageId)
  <2> HIDE DEF e
  <2>1. TailOf(e) \in Seq(PageId)
    BY <1>5, <1>12, FreshPageIds DEF TailOf
  <2> QED BY <2>1, <1>5
<1>17. Sound(y) /\ PagesTaken(y, e, copies)
  <2> HIDE DEF e, x
  <2>1. Sound(y) /\ PagesTaken(y, e, Len(copied))
    BY <1>5, <1>12, <1>14, <1>15, CopyTaken
  <2> QED BY <2>1, <1>14
<1> HIDE DEF y, x, pages
<1>18. /\ Sound(cache') /\ Ledger(cache')
       /\ DOMAIN cache'.sequences = DOMAIN cache.sequences \cup {NextSequenceSlot(cache)}
  <2>1. Fits(cache, ids, AdmissionDemand(promised, request)) /\ request \in Request
    BY <1>3, <1>11, RequestType
  <2> DEFINE r == RefreshStats(InsertSequence(y, pages, q.position, reserved, request))
  <2> HIDE DEF q
  <2>2. /\ Sound(r) /\ Ledger(r)
        /\ DOMAIN r.sequences = DOMAIN cache.sequences \cup {NextSequenceSlot(cache)}
    <3>1. Sound(cache) /\ Ledger(cache) /\ ids \subseteq DOMAIN cache.prefixes /\ CanEvict(cache, ids)
      BY <1>1, <1>11
    <3>2. /\ promised \in Nat /\ copies \in Nat /\ reserved \in Nat /\ reserved + copies = promised
          /\ q.position \in Nat
      BY <1>5
    <3> QED BY <3>1, <3>2, <2>1, <1>16, <1>17, AdmittedSound
  <2> QED BY <2>2, <1>9
<1>19. tables' \in Seq(TableType) /\ DOMAIN tables' = DOMAIN cache'.sequences
  <2> DEFINE refs == PhysicalRefs(cache, shared) \o copied
  <2>1. refs \in Seq(PhysicalPages \cup {None})
    BY <1>13, <1>14
  <2>2. tables' = Published(NextSequenceSlot(cache), refs, q.position)
    BY <1>9
  <2> HIDE DEF refs, q
  <2> QED BY <2>1, <2>2, <1>1, <1>5, <1>18, TablesGrow
<1> QED BY <1>9, <1>10, <1>18, <1>19 DEF IInv, Results

----------------------------------------------------------------------------
(* The theorems. *)

\* Every step keeps the invariant.
LEMMA NextIInv == IInv /\ [Next]_vars => IInv'
<1> SUFFICES ASSUME IInv, [Next]_vars PROVE IInv'
  OBVIOUS
<1>1. CASE UNCHANGED vars
  BY <1>1 DEF vars, IInv
<1>2. ASSUME NEW polled \in SUBSET InPool("deferred"), ReclaimDeferred(polled) PROVE IInv'
  BY <1>2, ReclaimDeferredIInv
<1>3. ASSUME NEW polled \in SUBSET InPool("deferred"), NEW prefix \in Matches,
             NEW request \in Requests, Admit(polled, prefix, request)
      PROVE  IInv'
  BY <1>3, AdmitIInv
<1>4. ASSUME NEW polled \in SUBSET InPool("deferred"), NEW prefix \in Matches,
             NEW request \in Requests, NEW outcome \in {"would_block", "refused", "backend"},
             AdmitDeclined(polled, prefix, request, outcome)
      PROVE  IInv'
  BY <1>4, AdmitDeclinedIInv
<1>5. ASSUME NEW s \in LiveSequences, NEW rows \in Rows, ReserveAppend(s, rows) PROVE IInv'
  BY <1>5, ReserveAppendIInv
<1>6. ASSUME NEW s \in LiveSequences, NEW rows \in Rows, CommitAppend(s, rows) PROVE IInv'
  BY <1>6, CommitAppendIInv
<1>7. ASSUME NEW s \in LiveSequences, NEW rows \in Rows, CommitAppendExhausted(s, rows)
      PROVE  IInv'
  BY <1>7, CommitAppendExhaustedIInv
<1>8. ASSUME NEW s \in LiveSequences, AbortAppend(s) PROVE IInv'
  BY <1>8, AbortAppendIInv
<1>9. ASSUME NEW s \in LiveSequences, AbortAppendExhausted(s) PROVE IInv'
  BY <1>9, AbortAppendExhaustedIInv
<1>10. ASSUME NEW prompt, NEW tail, LookupPrefix(prompt, tail) PROVE IInv'
  BY <1>10, LookupPrefixIInv
<1>11. ASSUME NEW s \in LiveSequences, NEW key \in KeysFor(s), RetainDuplicate(s, key) PROVE IInv'
  BY <1>11, RetainDuplicateIInv
<1>12. ASSUME NEW s \in LiveSequences, NEW n \in SnapshotSizes, NEW key \in KeysFor(s),
              RetainPrefix(s, key, n)
       PROVE  IInv'
  BY <1>12, RetainPrefixIInv
<1>13. ASSUME NEW id \in DOMAIN cache.prefixes, EvictPrefix(id) PROVE IInv'
  BY <1>13, EvictPrefixIInv
<1>14. ASSUME NEW s \in LiveSequences, NEW request \in Requests, Branch(s, request) PROVE IInv'
  BY <1>14, BranchIInv
<1>15. ASSUME NEW s \in LiveSequences, Finish(s) PROVE IInv'
  BY <1>15, FinishIInv
<1>16. CASE \/ PollFails
            \/ \E s \in LiveSequences : FinalizeFails(s)
            \/ \E s \in LiveSequences, n \in SnapshotSizes, outcome \in {"refused", "backend"} :
                 \E key \in KeysFor(s) : RetainDeclined(s, key, n, outcome)
            \/ \E s \in LiveSequences, request \in Requests : BranchWouldBlock(s, request)
            \/ RetireFails
  BY <1>16, QuietIInv
<1>17. CASE \/ \E s \in LiveSequences, rows \in Rows : ReserveAppendFails(s, rows)
            \/ \E s \in LiveSequences, request \in Requests : BranchFails(s, request)
            \/ \E s \in LiveSequences, request \in Requests : BranchEvictionFails(s, request)
  BY <1>17, RolledBackIInv
<1>18. CASE Next
  BY <1>2, <1>3, <1>4, <1>5, <1>6, <1>7, <1>8, <1>9, <1>10, <1>11, <1>12, <1>13, <1>14, <1>15,
     <1>16, <1>17, <1>18 DEF Next
<1> QED BY <1>1, <1>18

\* The invariant holds of every state of the specification.
THEOREM InductiveInvariant == Spec => []IInv
<1>1. Init => IInv
  BY InitIInv
<1>2. IInv /\ [Next]_vars => IInv'
  BY NextIInv
<1> QED BY <1>1, <1>2, PTL DEF Spec

\* Every variable keeps its type, for every configuration: no reference count, byte
\* total, reservation or page count is ever negative after any call, although most are
\* maintained by increments and decrements, and a page never holds more than
\* PageTokens tokens.
THEOREM TypeCorrect == Spec => []TypeOK
<1>1. IInv => TypeOK
  BY DEF IInv, TypeOK, CacheTyped, Sound, Fields, PagesOK, SequencesOK, PrefixesOK, TreeOK,
         Owners, TableType, Results
<1> QED BY <1>1, InductiveInvariant, PTL

\* For every configuration, the free lists of both arenas always name each vacated
\* slot exactly once, whatever calls succeed, fail or stop half way (insert_page,
\* remove_page, insert_sequence, remove_sequence).
THEOREM FreeListsCorrect == Spec => []FreeListsExact
<1>1. IInv => FreeListsExact
  BY DEF IInv, FreeListsExact, Sound, PagesOK, SequencesOK
<1> QED BY <1>1, InductiveInvariant, PTL

\* For every configuration, the four limits of plan_evictions (managed bytes, pages,
\* snapshot bytes, prefix entries) hold in every state, with deferred retirement,
\* after every error path and between the steps of an append.
THEOREM CapacityCorrect == Spec => []CapacityRespected
<1>1. IInv => CapacityRespected
  BY DEF IInv, CapacityRespected, Ledger
<1> QED BY <1>1, InductiveInvariant, PTL

====
