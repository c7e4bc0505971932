----------------------------- MODULE CacheState -----------------------------
(***************************************************************************)
(* The manager's state (struct SequenceCache, src/src/manager.rs) as one   *)
(* record, and the private helper functions of its impl as operators that  *)
(* take such a record and return the next one, the way the helpers take    *)
(* &mut self.  The public operations are the actions of SequenceCache.     *)
(*                                                                         *)
(* An Option-valued arena slot is a flat record with a `live' flag; a      *)
(* vacated slot has its fields reset.  Arena slots count from 1.           *)
(*                                                                         *)
(* An operator whose comment starts with Mutant is a wrong variant of the  *)
(* definition after it, which nothing uses: substituted for it, a property *)
(* of SequenceCache must fail.                                             *)
(***************************************************************************)
EXTENDS Integers, FiniteSets, FiniteSetsExt, Functions, Sequences, SequencesExt

CONSTANTS
    PageTokens,       \* CacheConfig::page_tokens
    PageBytes,        \* PageBackend::page_bytes
    PageCapacity,     \* PageBackend::page_capacity
    MaxManagedBytes,  \* CacheConfig::max_managed_bytes
    MaxSnapshotBytes, \* CacheConfig::max_snapshot_bytes
    EmergencyBytes,   \* CacheConfig::emergency_bytes
    MaxPrefixEntries, \* CacheConfig::max_prefix_entries
    Immediate,        \* PageBackend::retirement_is_immediate
    MaxGeneration,    \* u32::MAX, scaled down
    MaxClock,         \* u64::MAX of the LRU clock, scaled down
    PhysicalPages,    \* the backend's storage pages
    None              \* no physical page

\* What validate_config accepts, and that a fixed pool has the capacity it reports.
\* At most MaxPrefixEntries entries exist when the clock is renumbered; the code has
\* room for them because u64::MAX entries do not fit in memory.
ASSUME ConfigAssumption ==
    /\ PageTokens \in Nat \ {0}
    /\ PageBytes \in Nat \ {0}
    /\ MaxManagedBytes \in Nat
    /\ PageBytes <= MaxManagedBytes
    /\ EmergencyBytes \in 0..MaxManagedBytes
    /\ MaxSnapshotBytes \in 0..MaxManagedBytes
    /\ PageCapacity \in Nat
    /\ MaxPrefixEntries \in Nat
    /\ Immediate \in BOOLEAN
    /\ MaxGeneration \in Nat
    /\ MaxClock \in Nat /\ MaxPrefixEntries < MaxClock
    /\ IsFiniteSet(PhysicalPages)
    /\ PageCapacity <= Cardinality(PhysicalPages)
    /\ None \notin PhysicalPages

DivCeil(n) == (n + PageTokens - 1) \div PageTokens

Monus(a, b) == IF a > b THEN a - b ELSE 0

----------------------------------------------------------------------------
(* The page arena: pages and free_page_slots, a stack. *)

VacantPage(generation) ==
    [generation |-> generation, live |-> FALSE, physical |-> None,
     active_refs |-> 0, prefix_refs |-> 0, valid_tokens |-> 0, sealed |-> FALSE]

\* A page as reserve_append and branch insert it: private and writable.
PrivatePage(generation, physical, valid) ==
    [generation |-> generation, live |-> TRUE, physical |-> physical,
     active_refs |-> 1, prefix_refs |-> 0, valid_tokens |-> valid, sealed |-> FALSE]

PageIdAt(c, s) == [slot |-> s, generation |-> c.pages[s].generation]

\* page_record succeeds: the handle's generation is the slot's and the slot is taken.
LivePage(c, id) ==
    /\ id.slot \in DOMAIN c.pages
    /\ c.pages[id.slot].live
    /\ c.pages[id.slot].generation = id.generation

AllLive(c, ids) == \A i \in DOMAIN ids : LivePage(c, ids[i])

\* physical_refs_from, for ids that AllLive.
PhysicalRefs(c, ids) == [i \in DOMAIN ids |-> c.pages[ids[i].slot].physical]

SlotsOf(ids) == {ids[i].slot : i \in DOMAIN ids}

Reclaimable(page) == page.live /\ page.active_refs = 0 /\ page.prefix_refs # 0

\* The slot of the i-th of several pages inserted in a row: popped from the free
\* stack while it lasts, then pushed at the end of the arena.
FreshSlot(c, i) ==
    LET free == Len(c.free_page_slots) IN
    IF i <= free THEN c.free_page_slots[free + 1 - i] ELSE Len(c.pages) + i - free

FreshGeneration(c, s) == IF s \in DOMAIN c.pages THEN c.pages[s].generation ELSE 0

FreshPageId(c, i) ==
    [slot |-> FreshSlot(c, i), generation |-> FreshGeneration(c, FreshSlot(c, i))]

\* insert_page for each of the physical pages in turn.
InsertPages(c, physical, valid) ==
    LET n     == Len(physical)
        free  == Len(c.free_page_slots)
        grown == Len(c.pages) + Monus(n, free)
        fresh == {FreshSlot(c, i) : i \in 1..n}
    IN  [c EXCEPT
          !.pages = [s \in 1..grown |->
              IF s \in fresh
              THEN PrivatePage(FreshGeneration(c, s),
                               physical[CHOOSE i \in 1..n : FreshSlot(c, i) = s], valid)
              ELSE c.pages[s]],
          !.free_page_slots = SubSeq(@, 1, Monus(free, n))]

\* Mutant: the generation is not advanced.
RemovePagesKeepingGeneration(c, slots) ==
    [c EXCEPT
      !.pages = [s \in DOMAIN @ |->
          IF s \in Range(slots) THEN VacantPage(@[s].generation) ELSE @[s]],
      !.free_page_slots = @ \o slots]

\* remove_page for each slot of a sequence of slots in turn.
RemovePages(c, slots) ==
    [c EXCEPT
      !.pages = [s \in DOMAIN @ |->
          IF s \in Range(slots) THEN VacantPage(@[s].generation + 1) ELSE @[s]],
      !.free_page_slots = @ \o slots]

----------------------------------------------------------------------------
(* Reference counts, with the reclaimable bytes they move. *)

ReclaimableBytes(c, slots) ==
    PageBytes * Cardinality({s \in slots : Reclaimable(c.pages[s])})

\* increment_active_ref finds the pages it takes out of the reclaimable bytes in them.
CanShare(c, slots) ==
    c.stats.reclaimable_prefix_only_bytes - ReclaimableBytes(c, slots) \in Nat

\* Mutant: the count is a flag.
IncrementActiveRefsOnce(c, slots) ==
    [c EXCEPT
      !.pages = [s \in DOMAIN @ |->
          IF s \in slots THEN [@[s] EXCEPT !.active_refs = 1] ELSE @[s]],
      !.stats.reclaimable_prefix_only_bytes = @ - ReclaimableBytes(c, slots)]

IncrementActiveRefs(c, slots) ==
    [c EXCEPT
      !.pages = [s \in DOMAIN @ |->
          IF s \in slots THEN [c.pages[s] EXCEPT !.active_refs = @ + 1] ELSE @[s]],
      !.stats.reclaimable_prefix_only_bytes = @ - ReclaimableBytes(c, slots)]

\* Mutant: pages that only prefixes keep do not become reclaimable.
DecrementActiveRefsUncounted(c, slots) ==
    [c EXCEPT
      !.pages = [s \in DOMAIN @ |->
          IF s \in slots THEN [c.pages[s] EXCEPT !.active_refs = @ - 1] ELSE @[s]]]

DecrementActiveRefs(c, slots) ==
    LET becomes == {s \in slots : c.pages[s].active_refs = 1 /\ c.pages[s].prefix_refs # 0}
    IN  [c EXCEPT
          !.pages = [s \in DOMAIN @ |->
              IF s \in slots THEN [c.pages[s] EXCEPT !.active_refs = @ - 1] ELSE @[s]],
          !.stats.reclaimable_prefix_only_bytes = @ + PageBytes * Cardinality(becomes)]

\* Only live sequences retain, so no page is unowned before the increment and the
\* reclaimable bytes stay (increment_prefix_ref adds them for an unowned page).
IncrementPrefixRefs(c, slots) ==
    LET unowned == {s \in slots : c.pages[s].active_refs = 0 /\ c.pages[s].prefix_refs = 0}
    IN  [c EXCEPT
          !.pages = [s \in DOMAIN @ |->
              IF s \in slots THEN [c.pages[s] EXCEPT !.prefix_refs = @ + 1] ELSE @[s]],
          !.stats.reclaimable_prefix_only_bytes = @ + PageBytes * Cardinality(unowned)]

----------------------------------------------------------------------------
(* The sequence arena: sequences and free_sequence_slots. *)

NoPending == [rows |-> 0, new_pages |-> <<>>]

VacantSequence(generation) ==
    [generation |-> generation, live |-> FALSE, pages |-> <<>>, position |-> 0,
     max_position |-> 0, reserved_pages |-> 0, private_state_bytes |-> 0,
     page_table_bytes |-> 0, pending |-> NoPending]

\* The slot insert_sequence takes.
NextSequenceSlot(c) ==
    IF c.free_sequence_slots = <<>> THEN Len(c.sequences) + 1 ELSE Last(c.free_sequence_slots)

NextSequenceGeneration(c) ==
    IF c.free_sequence_slots = <<>> THEN 0 ELSE c.sequences[NextSequenceSlot(c)].generation

InsertSequence(c, pages, position, reserved, request) ==
    LET slot   == NextSequenceSlot(c)
        record == [generation |-> NextSequenceGeneration(c), live |-> TRUE, pages |-> pages,
                   position |-> position, max_position |-> request.max_position,
                   reserved_pages |-> reserved,
                   private_state_bytes |-> request.private_state_bytes,
                   page_table_bytes |-> request.page_table_bytes, pending |-> NoPending]
    IN  [c EXCEPT
          !.sequences = [s \in DOMAIN @ \cup {slot} |-> IF s = slot THEN record ELSE @[s]],
          !.free_sequence_slots = IF @ = <<>> THEN @ ELSE Front(@),
          !.stats = [c.stats EXCEPT
              !.reserved_pages = @ + reserved,
              !.active_private_state_bytes = @ + request.private_state_bytes,
              !.page_table_bytes = @ + request.page_table_bytes]]

\* prepare_remove_sequence, and the checked subtractions of remove_sequence.
CanRemoveSequence(c, slot) ==
    LET record == c.sequences[slot]
    IN  /\ record.generation # MaxGeneration
        /\ c.stats.reserved_pages - record.reserved_pages \in Nat
        /\ c.stats.active_private_state_bytes - record.private_state_bytes \in Nat
        /\ c.stats.page_table_bytes - record.page_table_bytes \in Nat

RemoveSequence(c, slot) ==
    LET record == c.sequences[slot]
    IN  [c EXCEPT
          !.sequences[slot] = VacantSequence(record.generation + 1),
          !.free_sequence_slots = Append(@, slot),
          !.stats = [c.stats EXCEPT
              !.reserved_pages = @ - record.reserved_pages,
              !.active_private_state_bytes = @ - record.private_state_bytes,
              !.page_table_bytes = @ - record.page_table_bytes]]

----------------------------------------------------------------------------
(* Accounting. *)

\* PrefixIndex::block_count: the distinct token blocks of the retained keys.
BlockCount(tree) == Cardinality(UNION {Range(key) : key \in DOMAIN tree})

FreePages(total, committed) ==
    LET by_bytes == Monus(MaxManagedBytes, total) \div PageBytes
        by_slots == Monus(PageCapacity, committed)
    IN  IF by_bytes <= by_slots THEN by_bytes ELSE by_slots

\* Mutant: pages behind a fence are not charged.
RefreshStatsUncharged(c) ==
    LET st       == c.stats
        resident == Len(c.pages) - Len(c.free_page_slots)
        total    == (resident + st.reserved_pages) * PageBytes
                      + st.active_private_state_bytes
                      + st.retained_snapshot_bytes + st.page_table_bytes
    IN  [c EXCEPT !.stats = [@ EXCEPT
          !.resident_pages = resident,
          !.total_managed_bytes = total]]

\* refresh_stats: the fields the helpers do not maintain, from the sizes of the arenas.
RefreshStats(c) ==
    LET st       == c.stats
        resident == Len(c.pages) - Len(c.free_page_slots) + c.deferred_pages
        total    == (resident + st.reserved_pages) * PageBytes
                      + st.active_private_state_bytes
                      + st.retained_snapshot_bytes + st.page_table_bytes
    IN  [c EXCEPT !.stats = [@ EXCEPT
          !.resident_pages = resident,
          !.active_sequences = Len(c.sequences) - Len(c.free_sequence_slots),
          !.retained_prefix_entries = Cardinality(DOMAIN c.prefixes),
          !.interned_token_blocks = BlockCount(c.tree),
          !.deferred_retirement_pages = c.deferred_pages,
          !.total_managed_bytes = total,
          !.free_pages = FreePages(total, resident + st.reserved_pages)]]

EmptyStats ==
    [active_sequences |-> 0, retained_prefix_entries |-> 0, interned_token_blocks |-> 0,
     resident_pages |-> 0, free_pages |-> 0, reserved_pages |-> 0,
     deferred_retirement_pages |-> 0, active_private_state_bytes |-> 0,
     retained_snapshot_bytes |-> 0, page_table_bytes |-> 0,
     reclaimable_prefix_only_bytes |-> 0, total_managed_bytes |-> 0]

EmptyCache ==
    RefreshStats([pages |-> <<>>, free_page_slots |-> <<>>,
                  sequences |-> <<>>, free_sequence_slots |-> <<>>,
                  prefixes |-> <<>>, lru |-> {}, tree |-> <<>>,
                  next_prefix_id |-> 0, clock |-> 0, deferred_pages |-> 0,
                  stats |-> EmptyStats])

----------------------------------------------------------------------------
(* The LRU clock. *)

\* Whether the LRU pair e = <<last_used, id>> sorts before or at f.
NotHotter(e, f) == e[1] < f[1] \/ (e[1] = f[1] /\ e[2] <= f[2])

Stamp(c, id) == <<c.prefixes[id].last_used, id>>

\* Mutant: renumbers by age instead of by use.
LruRankById(c, id) == Cardinality({other \in DOMAIN c.prefixes : other <= id})

LruRank(c, id) ==
    Cardinality({other \in DOMAIN c.prefixes : NotHotter(Stamp(c, other), Stamp(c, id))})

\* Mutant: the LRU set keeps the stamps from before the renumbering.
TickKeepingLru(c) ==
    IF c.clock # MaxClock
    THEN [c EXCEPT !.clock = @ + 1]
    ELSE [c EXCEPT
           !.prefixes = [id \in DOMAIN @ |-> [@[id] EXCEPT !.last_used = LruRank(c, id)]],
           !.clock = Cardinality(DOMAIN c.prefixes) + 1]

\* tick: at the last representable clock the entries are first renumbered in order.
Tick(c) ==
    IF c.clock # MaxClock
    THEN [c EXCEPT !.clock = @ + 1]
    ELSE [c EXCEPT
           !.prefixes = [id \in DOMAIN @ |-> [@[id] EXCEPT !.last_used = LruRank(c, id)]],
           !.lru = {<<LruRank(c, id), id>> : id \in DOMAIN c.prefixes},
           !.clock = Cardinality(DOMAIN c.prefixes) + 1]

\* A lookup hit or a duplicate retention makes the entry the hottest.
Touch(c, id) ==
    LET t == Tick(c)
    IN  [t EXCEPT !.prefixes[id].last_used = t.clock,
                  !.lru = (@ \ {Stamp(t, id)}) \cup {<<t.clock, id>>}]

----------------------------------------------------------------------------
(* Evictions. *)

\* How many of the entries ids list the page in slot s (each at most once).
RemovedRefs(c, ids, s) ==
    Cardinality({id \in ids : PageIdAt(c, s) \in Range(c.prefixes[id].pages)})

\* Mutant: pages of live sequences are retired too.
RetireSlotsInUse(c, ids) ==
    {s \in DOMAIN c.pages : /\ c.pages[s].live
                            /\ RemovedRefs(c, ids, s) # 0
                            /\ c.pages[s].prefix_refs = RemovedRefs(c, ids, s)}

\* Mutant: pages that another entry lists are retired too.
RetireSlotsShared(c, ids) ==
    {s \in DOMAIN c.pages : /\ c.pages[s].live
                            /\ c.pages[s].active_refs = 0
                            /\ RemovedRefs(c, ids, s) # 0}

\* The slots of the pages that nobody references once the entries ids are gone.
RetireSlots(c, ids) ==
    {s \in DOMAIN c.pages : /\ c.pages[s].live
                            /\ c.pages[s].active_refs = 0
                            /\ RemovedRefs(c, ids, s) # 0
                            /\ c.pages[s].prefix_refs = RemovedRefs(c, ids, s)}

SnapshotBytes(prefixes, ids) == MapThenSumSet(LAMBDA id : prefixes[id].snapshot_bytes, ids)

\* Mutant: the walk starts at the hottest entry.
EvictionRunsHottest(c, protected) ==
    {{}} \cup
    {{e[2] : e \in {x \in c.lru : NotHotter(f, x)}} \ protected :
        f \in {x \in c.lru : x[2] \notin protected}}

\* Mutant: the walk stops short of the last entry.
EvictionRunsShort(c, protected) ==
    {{}} \cup
    {{e[2] : e \in {x \in c.lru : x # f /\ NotHotter(x, f)}} \ protected :
        f \in {x \in c.lru : x[2] \notin protected}}

\* Mutant: the walk does not pass over the protected entry.
EvictionRunsUnprotected(c, protected) ==
    {{}} \cup {{e[2] : e \in {x \in c.lru : NotHotter(x, f)}} : f \in c.lru}

\* The sets of entries plan_evictions collects as it walks the LRU order, coldest
\* first, past the protected entry: nothing, or everything up to some entry.
EvictionRuns(c, protected) ==
    {{}} \cup
    {{e[2] : e \in {x \in c.lru : NotHotter(x, f)}} \ protected :
        f \in {x \in c.lru : x[2] \notin protected}}

\* Mutant: pages count as freed before their fence.
FitsBeforeFence(c, ids, demand) ==
    LET freed == Cardinality(RetireSlots(c, ids))
        bytes == SnapshotBytes(c.prefixes, ids)
        st    == c.stats
    IN  /\ st.total_managed_bytes + demand.bytes - bytes - freed * PageBytes <= demand.limit
        /\ st.resident_pages + st.reserved_pages + demand.pages - freed <= PageCapacity
        /\ st.retained_snapshot_bytes + demand.snapshots - bytes <= MaxSnapshotBytes
        /\ Cardinality(DOMAIN c.prefixes) + demand.entries - Cardinality(ids)
             <= MaxPrefixEntries

\* The four limits of plan_evictions, after a demand and without the entries ids.
\* Pages count as freed only when the backend retires immediately.
Fits(c, ids, demand) ==
    LET freed == IF Immediate THEN Cardinality(RetireSlots(c, ids)) ELSE 0
        bytes == SnapshotBytes(c.prefixes, ids)
        st    == c.stats
    IN  /\ st.total_managed_bytes + demand.bytes - bytes - freed * PageBytes <= demand.limit
        /\ st.resident_pages + st.reserved_pages + demand.pages - freed <= PageCapacity
        /\ st.retained_snapshot_bytes + demand.snapshots - bytes <= MaxSnapshotBytes
        /\ Cardinality(DOMAIN c.prefixes) + demand.entries - Cardinality(ids)
             <= MaxPrefixEntries

\* plan_evictions returns Some(ids): the shortest run that fits.
EvictionPlan(c, ids, protected, demand) ==
    /\ Fits(c, ids, demand)
    /\ \A run \in EvictionRuns(c, protected) : Fits(c, run, demand) => ids \subseteq run

\* plan_evictions returns None.
NoPlan(c, protected, demand) ==
    \A run \in EvictionRuns(c, protected) : ~Fits(c, run, demand)

AdmissionLimit(request) ==
    IF request.allow_emergency THEN MaxManagedBytes ELSE MaxManagedBytes - EmergencyBytes

AdmissionDemand(pages, request) ==
    [bytes     |-> pages * PageBytes + request.private_state_bytes + request.page_table_bytes,
     pages     |-> pages,
     limit     |-> AdmissionLimit(request),
     snapshots |-> 0,
     entries   |-> 0]

RetainDemand(snapshot_bytes) ==
    [bytes |-> snapshot_bytes, pages |-> 0, limit |-> MaxManagedBytes,
     snapshots |-> snapshot_bytes, entries |-> 1]

\* The checks retire_page_ids makes before it gives any page away.
CanRetire(c, slots) ==
    /\ \A s \in slots : c.pages[s].generation # MaxGeneration /\ c.pages[s].physical # None
    /\ CanShare(c, slots)

\* The checked arithmetic of commit_evictions on top of that: the snapshot bytes, and
\* decrement_prefix_ref on the pages that stay.
CanEvict(c, ids) ==
    /\ CanRetire(c, RetireSlots(c, ids))
    /\ SnapshotBytes(c.prefixes, ids) \in Nat
    /\ c.stats.retained_snapshot_bytes - SnapshotBytes(c.prefixes, ids) \in Nat
    /\ \A s \in DOMAIN c.pages : c.pages[s].prefix_refs - RemovedRefs(c, ids, s) \in Nat

\* Mutant: deferred pages are forgotten.
RetirePagesForgetting(c, slots, later) ==
    [RemovePages(c, slots) EXCEPT
      !.stats.reclaimable_prefix_only_bytes = @ - ReclaimableBytes(c, Range(slots))]

\* retire_page_ids on success: slots in the order retired, `later' pages deferred.
RetirePages(c, slots, later) ==
    [RemovePages(c, slots) EXCEPT
      !.deferred_pages = @ + later,
      !.stats.reclaimable_prefix_only_bytes = @ - ReclaimableBytes(c, Range(slots))]

\* Mutant: the index keeps the keys.
DropEntriesKeepingKeys(c, ids) ==
    [c EXCEPT
      !.prefixes = Restrict(@, DOMAIN @ \ ids),
      !.lru = {e \in @ : e[2] \notin ids},
      !.stats.retained_snapshot_bytes = @ - SnapshotBytes(c.prefixes, ids)]

\* The entries leave the map, the LRU set and the index.
DropEntries(c, ids) ==
    [c EXCEPT
      !.prefixes = Restrict(@, DOMAIN @ \ ids),
      !.lru = {e \in @ : e[2] \notin ids},
      !.tree = Restrict(@, {key \in DOMAIN @ : @[key] \notin ids}),
      !.stats.retained_snapshot_bytes = @ - SnapshotBytes(c.prefixes, ids)]

\* commit_evictions on success.  A page that is not retired keeps another reference,
\* so its decrement never makes it leave the reclaimable bytes.
CommitEvictions(c, ids, slots, later) ==
    LET retired == RetirePages(c, slots, later)
    IN  RefreshStats(DropEntries(
          [retired EXCEPT
             !.pages = [s \in DOMAIN @ |->
                 IF s \in Range(slots) THEN @[s]
                 ELSE [retired.pages[s] EXCEPT !.prefix_refs = @ - RemovedRefs(c, ids, s)]]], ids))

=============================================================================
