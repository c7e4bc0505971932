--------------------------- MODULE SequenceCache ---------------------------
(***************************************************************************)
(* The public operations of SequenceCache (src/src/manager.rs) over the    *)
(* state of CacheState, together with the page backend they drive: the     *)
(* pool of physical pages and the page table published to each sequence's  *)
(* context.                                                                *)
(*                                                                         *)
(* A call runs to completion under &mut self, so each is one step.  A      *)
(* backend call may fail when it is listed in Faults; the error paths that *)
(* undo backend work are actions of their own.  A call refused before it   *)
(* touches anything (a stale handle, a pending append, a position out of   *)
(* range) changes nothing and is a stuttering step.                        *)
(***************************************************************************)
EXTENDS CacheState

CONSTANTS
    Requests,        \* AdmissionRequests the runtime may make
    SnapshotSizes,   \* values of RetainedSnapshot::retained_bytes
    Blocks,          \* contents of one page-sized run of tokens
    Faults,          \* backend operations that may fail
    CanBranch,       \* whether the runtime calls branch
    PageReuse,       \* exploration bound: the last generation of a page slot in use
    SequenceReuse,   \* exploration bound: the last generation of a sequence slot in use
    MaxSequences,    \* exploration bound: slots of the sequence arena
    PrefixIdBound    \* exploration bound: prefix entries ever created

ASSUME InputAssumption ==
    /\ Requests \subseteq [max_position : Nat, private_state_bytes : Nat,
                           page_table_bytes : Nat, allow_emergency : BOOLEAN]
    /\ SnapshotSizes \subseteq Nat
    /\ Faults \subseteq {"poll", "restore", "publish", "allocate", "prepare", "commit",
                         "abort", "copy", "retire"}
    /\ CanBranch \in BOOLEAN
    /\ PageReuse \in Nat
    /\ SequenceReuse \in Nat
    /\ MaxSequences \in Nat
    /\ PrefixIdBound \in Nat

VARIABLES
    cache,    \* the manager
    pool,     \* PhysicalPages -> who owns the page: the pool, the cache or a fence
    tables,   \* sequence slot -> the page table its context last had published
    result    \* what the last call returned

vars == <<cache, pool, tables, result>>

----------------------------------------------------------------------------
(* The backend, from its contract (PageBackend). *)

InPool(owner) == {p \in PhysicalPages : pool[p] = owner}

Moved(pl, ps, owner) == [p \in PhysicalPages |-> IF p \in ps THEN owner ELSE pl[p]]

\* Mutant: the allocation is dropped.
RollbackPagesLeaking(pl, ps) == pl

\* rollback_page: an unpublished allocation goes straight back.
RollbackPages(pl, ps) == Moved(pl, ps, "free")

\* retire_pages: the pages `later' wait for a fence, the others are free at once.
RetirePhysical(pl, ps, later) == Moved(Moved(pl, ps, "free"), later, "deferred")

\* What retire_pages may defer.
Deferrable(ps) == IF Immediate THEN {{}} ELSE SUBSET ps

EmptyTable == [pages |-> <<>>, position |-> 0]

\* Mutant: a table that is replaced keeps its position.
PublishedStale(slot, physical, position) ==
    [s \in DOMAIN tables \cup {slot} |->
        IF s # slot THEN tables[s]
        ELSE [pages |-> physical,
              position |-> IF s \in DOMAIN tables THEN tables[s].position ELSE position]]

\* update_page_table for the context of the sequence in a slot.
Published(slot, physical, position) ==
    [s \in DOMAIN tables \cup {slot} |->
        IF s = slot THEN [pages |-> physical, position |-> position] ELSE tables[s]]

----------------------------------------------------------------------------

Init ==
    /\ cache = EmptyCache
    /\ pool = [p \in PhysicalPages |-> "free"]
    /\ tables = <<>>
    /\ result = "ok"

LiveSequences == {s \in DOMAIN cache.sequences : cache.sequences[s].live}

Unchanged(outcome) == result' = outcome /\ UNCHANGED <<cache, pool, tables>>

\* Exploration bounds on the arenas.
RoomForSequence(c) ==
    /\ NextSequenceSlot(c) <= MaxSequences
    /\ NextSequenceGeneration(c) <= SequenceReuse

RoomForPages(c, n) == \A i \in 1..n : FreshPageId(c, i).generation <= PageReuse

----------------------------------------------------------------------------
(* reclaim_deferred. *)

\* Mutant: the statistics are not refreshed.
ReclaimedUnrefreshed(polled) == [cache EXCEPT !.deferred_pages = @ - Cardinality(polled)]

\* The manager after poll_reclaimed reported the deferred pages `polled'.
Reclaimed(polled) ==
    RefreshStats([cache EXCEPT !.deferred_pages = @ - Cardinality(polled)])

ReclaimDeferred(polled) ==
    /\ cache.deferred_pages - Cardinality(polled) \in Nat
    /\ cache' = Reclaimed(polled)
    /\ pool' = Moved(pool, polled, "free")
    /\ result' = "ok"
    /\ UNCHANGED tables

PollFails == "poll" \in Faults /\ Unchanged("backend")

----------------------------------------------------------------------------
(* admit.  `prefix' is the matched entry's id in a set, or the empty set.  The poll  *)
(* at its start stays done whatever happens after it.                                *)

SharedPages(c, prefix) == IF prefix = {} THEN <<>> ELSE c.prefixes[CHOOSE id \in prefix : TRUE].pages

PrefixPosition(c, prefix) ==
    IF prefix = {} THEN 0 ELSE c.prefixes[CHOOSE id \in prefix : TRUE].position

\* The pages still to be promised to a sequence that starts with n pages.
PagesToReserve(request, n) == DivCeil(request.max_position) - n

Admissible(c, prefix, request) ==
    /\ prefix \subseteq DOMAIN c.prefixes
    /\ request.max_position >= PrefixPosition(c, prefix)
    /\ PagesToReserve(request, Len(SharedPages(c, prefix))) \in Nat
    /\ AllLive(c, SharedPages(c, prefix))

AdmitDemand(c, prefix, request) ==
    AdmissionDemand(PagesToReserve(request, Len(SharedPages(c, prefix))), request)

Admit(polled, prefix, request) ==
    LET c      == Reclaimed(polled)
        shared == SharedPages(c, prefix)
        demand == AdmitDemand(c, prefix, request)
    IN  /\ cache.deferred_pages - Cardinality(polled) \in Nat
        /\ RoomForSequence(c)
        /\ Admissible(c, prefix, request)
        /\ \E ids \in EvictionRuns(c, prefix) :
             /\ EvictionPlan(c, ids, prefix, demand)
             /\ CanEvict(c, ids)
             /\ \E slots \in SetToSeqs(RetireSlots(c, ids)) :
                \E later \in Deferrable({c.pages[s].physical : s \in Range(slots)}) :
                LET evicted == CommitEvictions(c, ids, slots, Cardinality(later))
                IN  /\ CanShare(evicted, SlotsOf(shared))
                    /\ cache' = RefreshStats(InsertSequence(
                         IncrementActiveRefs(evicted, SlotsOf(shared)),
                         shared, PrefixPosition(c, prefix), demand.pages, request))
                    /\ pool' = RetirePhysical(Moved(pool, polled, "free"),
                                 {c.pages[s].physical : s \in Range(slots)}, later)
        /\ tables' = Published(NextSequenceSlot(c), PhysicalRefs(c, shared),
                               PrefixPosition(c, prefix))
        /\ result' = "ok"

\* Everything that makes admit return without admitting, with what it returns.
AdmitDeclines(c, prefix, request, outcome) ==
    LET demand  == AdmitDemand(c, prefix, request)
        retires == \E ids \in EvictionRuns(c, prefix) :
                     EvictionPlan(c, ids, prefix, demand) /\ RetireSlots(c, ids) # {}
        stuck   == \E ids \in EvictionRuns(c, prefix) :
                     EvictionPlan(c, ids, prefix, demand) /\ ~CanEvict(c, ids)
    IN  IF ~Admissible(c, prefix, request) THEN outcome = "refused"
        ELSE IF NoPlan(c, prefix, demand) THEN outcome = "would_block"
        ELSE \/ outcome = "backend" /\ Faults \cap {"restore", "publish"} # {}
             \/ outcome = "backend" /\ "retire" \in Faults /\ retires /\ ~stuck
             \/ outcome = "refused" /\ stuck

AdmitDeclined(polled, prefix, request, outcome) ==
    /\ cache.deferred_pages - Cardinality(polled) \in Nat
    /\ AdmitDeclines(Reclaimed(polled), prefix, request, outcome)
    /\ cache' = Reclaimed(polled)
    /\ pool' = Moved(pool, polled, "free")
    /\ result' = outcome
    /\ UNCHANGED tables

----------------------------------------------------------------------------
(* reserve_append. *)

\* The number of pages an append allocates.
NewPageCount(sequence, rows) == DivCeil(sequence.position + rows) - Len(sequence.pages)

Aligned(position) == position % PageTokens = 0

\* The checks of reserve_append, down to the last one before it calls the backend.
CanReserve(s, rows) ==
    LET q == cache.sequences[s]
        n == NewPageCount(q, rows)
    IN  /\ q.pending = NoPending
        /\ q.position + rows <= q.max_position
        /\ AllLive(cache, q.pages)
        /\ q.pages # <<>> /\ ~Aligned(q.position) =>
             LET tail == cache.pages[Last(q.pages).slot]
             IN  ~tail.sealed /\ tail.active_refs = 1 /\ tail.prefix_refs = 0
        /\ n \in Nat
        /\ n <= q.reserved_pages
        /\ n <= cache.stats.reserved_pages
        /\ RoomForPages(cache, n)

ReserveAppend(s, rows) ==
    LET q == cache.sequences[s]
        n == NewPageCount(q, rows)
    IN  /\ CanReserve(s, rows)
        /\ \E physical \in Injection(1..n, InPool("free")) :
             /\ cache' = RefreshStats([InsertPages(cache, physical, 0) EXCEPT
                  !.sequences[s].reserved_pages = @ - n,
                  !.sequences[s].pending =
                      [rows |-> rows, new_pages |-> [i \in 1..n |-> FreshPageId(cache, i)]],
                  !.stats.reserved_pages = @ - n])
             /\ pool' = Moved(pool, Range(physical), "held")
             /\ tables' = IF n = 0 THEN tables
                          ELSE Published(s, PhysicalRefs(cache, q.pages) \o physical, q.position)
        /\ result' = "ok"

\* An allocation fails after some succeeded, or a later backend call fails after all
\* of them: what was taken is rolled back.
ReserveAppendFails(s, rows) ==
    LET n == NewPageCount(cache.sequences[s], rows)
    IN  /\ CanReserve(s, rows)
        /\ \E taken \in SUBSET InPool("free") :
             /\ \/ /\ Cardinality(taken) < n
                   /\ "allocate" \in Faults \/ taken = InPool("free")
                \/ /\ Cardinality(taken) = n
                   /\ \/ "prepare" \in Faults
                      \/ "publish" \in Faults /\ n > 0
             /\ pool' = RollbackPages(Moved(pool, taken, "held"), taken)
        /\ result' = "backend"
        /\ UNCHANGED <<cache, tables>>

----------------------------------------------------------------------------
(* commit_append and abort_append. *)

\* Mutant: every new page is kept.
KeptPagesAll(q, rows) == q.pending.new_pages

\* The new pages that hold rows of the committed prefix, and the ones past it.
KeptPages(q, rows) == SubSeq(q.pending.new_pages, 1, NewPageCount(q, rows))
ReleasedPages(q, rows) ==
    SubSeq(q.pending.new_pages, NewPageCount(q, rows) + 1, Len(q.pending.new_pages))

\* Mutant: a page is taken to hold everything from its start.
RowsInPageUncapped(position, i) == position - (i - 1) * PageTokens

\* The page with index i (from 1) of the committed table holds this many tokens.
RowsInPage(position, i) ==
    IF i * PageTokens <= position THEN PageTokens ELSE position - (i - 1) * PageTokens

\* The pages the committed segments touch, as indices in the committed table.
CommittedSpan(q, rows) == (q.position \div PageTokens + 1)..DivCeil(q.position + rows)

\* Mutant: the pages of the table are sealed by the new position.
MarkCommittedByPosition(c, q, table, rows) ==
    [c EXCEPT !.pages = [s \in DOMAIN @ |->
       IF s \in SlotsOf(table)
       THEN [@[s] EXCEPT !.sealed = Aligned(q.position + rows)] ELSE @[s]]]

\* The committed segments set how far their pages are valid, and seal the full ones.
MarkCommitted(c, q, table, rows) ==
    LET span == CommittedSpan(q, rows)
        index(s) == CHOOSE i \in span : table[i].slot = s
        valid(s) == RowsInPage(q.position + rows, index(s))
    IN  [c EXCEPT !.pages = [s \in DOMAIN @ |->
           IF \E i \in span : table[i].slot = s
           THEN [@[s] EXCEPT !.valid_tokens = valid(s), !.sealed = (valid(s) = PageTokens)]
           ELSE @[s]]]

\* The reservation a commit or an abort names is the pending one (validate_reservation).
PendingAppend(s) ==
    LET q == cache.sequences[s]
    IN  /\ q.pending # NoPending
        /\ AllLive(cache, q.pages)
        /\ AllLive(cache, q.pending.new_pages)

Slots(ids) == [i \in DOMAIN ids |-> ids[i].slot]

\* A page at the last generation cannot be removed: its generation cannot advance.
Exhausted(ids) == {i \in DOMAIN ids : cache.pages[ids[i].slot].generation = MaxGeneration}

\* Both calls end alike: the pages `released' leave the arena and are promised again.
Released(c, s, released) ==
    RefreshStats([RemovePages(c, Slots(released)) EXCEPT
      !.sequences[s].reserved_pages = @ + Len(released),
      !.sequences[s].pending = NoPending,
      !.stats.reserved_pages = @ + Len(released)])

CommitAppend(s, rows) ==
    LET q        == cache.sequences[s]
        kept     == KeptPages(q, rows)
        released == ReleasedPages(q, rows)
        table    == q.pages \o kept
    IN  /\ PendingAppend(s)
        /\ rows <= q.pending.rows
        /\ NewPageCount(q, rows) \in 0..Len(q.pending.new_pages)
        /\ Exhausted(released) = {}
        /\ cache' = Released([MarkCommitted(cache, q, table, rows) EXCEPT
                                !.sequences[s].pages = table,
                                !.sequences[s].position = @ + rows], s, released)
        /\ pool' = Moved(pool, Range(PhysicalRefs(cache, released)), "free")
        /\ tables' = Published(s, PhysicalRefs(cache, table), q.position + rows)
        /\ result' = "ok"

AbortAppend(s) ==
    LET q        == cache.sequences[s]
        released == q.pending.new_pages
    IN  /\ PendingAppend(s)
        /\ Exhausted(released) = {}
        /\ cache' = Released(cache, s, released)
        /\ pool' = Moved(pool, Range(PhysicalRefs(cache, released)), "free")
        /\ tables' = Published(s, PhysicalRefs(cache, q.pages), q.position)
        /\ result' = "ok"

\* Mutant: the pending append is not put back.
FinalizeFailsForgetting(s) ==
    /\ PendingAppend(s)
    /\ Faults \cap {"commit", "abort"} # {}
    /\ cache' = [cache EXCEPT !.sequences[s].pending = NoPending]
    /\ result' = "backend"
    /\ UNCHANGED <<pool, tables>>

\* The backend refuses the commit or the abort: the reservation stays pending.
FinalizeFails(s) ==
    /\ PendingAppend(s)
    /\ Faults \cap {"commit", "abort"} # {}
    /\ Unchanged("backend")

\* Mutant: the pages are promised again before they are removed.
StopAtExhaustedPromising(c, s, released) ==
    LET stop == Min(Exhausted(released))
        gone == SubSeq(released, 1, stop - 1)
    IN  [RemovePages(c, Slots(gone)) EXCEPT
          !.pages[released[stop].slot].physical = None,
          !.sequences[s].pending = NoPending,
          !.stats.reserved_pages = @ + Len(released)]

\* Mutant: the slot that cannot be reused is pushed on the free list.
StopAtExhaustedFreeing(c, s, released) ==
    LET stop == Min(Exhausted(released))
        gone == SubSeq(released, 1, stop - 1)
    IN  [RemovePages(c, Slots(gone)) EXCEPT
          !.pages[released[stop].slot].physical = None,
          !.free_page_slots = Append(@, released[stop].slot),
          !.sequences[s].pending = NoPending]

\* remove_page fails after the backend has finalised and the pending append was taken:
\* the released pages before the exhausted one are gone, the exhausted one has lost its
\* physical page, and position, reservation and statistics are not updated.
StopAtExhausted(c, s, released) ==
    LET stop == Min(Exhausted(released))
        gone == SubSeq(released, 1, stop - 1)
    IN  [RemovePages(c, Slots(gone)) EXCEPT
          !.pages[released[stop].slot].physical = None,
          !.sequences[s].pending = NoPending]

CommitAppendExhausted(s, rows) ==
    LET q        == cache.sequences[s]
        table    == q.pages \o KeptPages(q, rows)
        released == ReleasedPages(q, rows)
    IN  /\ PendingAppend(s)
        /\ rows <= q.pending.rows
        /\ NewPageCount(q, rows) \in 0..Len(q.pending.new_pages)
        /\ Exhausted(released) # {}
        /\ cache' = StopAtExhausted(MarkCommitted(cache, q, table, rows), s, released)
        /\ pool' = Moved(pool, Range(PhysicalRefs(cache, released)), "free")
        /\ tables' = Published(s, PhysicalRefs(cache, table), q.position + rows)
        /\ result' = "refused"

AbortAppendExhausted(s) ==
    LET q        == cache.sequences[s]
        released == q.pending.new_pages
    IN  /\ PendingAppend(s)
        /\ Exhausted(released) # {}
        /\ cache' = StopAtExhausted(cache, s, released)
        /\ pool' = Moved(pool, Range(PhysicalRefs(cache, released)), "free")
        /\ tables' = Published(s, PhysicalRefs(cache, q.pages), q.position)
        /\ result' = "refused"

----------------------------------------------------------------------------
(* Prefixes: lookup_prefix, retain_prefix, evict_prefix. *)

\* PrefixIndex::longest: the longest retained key the query starts with.
LongestMatch(tree, query) ==
    LET keys == {key \in DOMAIN tree : IsPrefix(key, query)}
    IN  {tree[key] : key \in {k \in keys : \A other \in keys : Len(other) <= Len(k)}}

\* The whole blocks of a prompt that lie strictly before its last token
\* (cacheable_prefix_tokens); the prompt has `tail' tokens after its whole blocks.
CacheableBlocks(prompt, tail) ==
    SubSeq(prompt, 1, Monus(Len(prompt) * PageTokens + tail, 1) \div PageTokens)

LookupPrefix(prompt, tail) ==
    /\ \E id \in LongestMatch(cache.tree, CacheableBlocks(prompt, tail)) \cap DOMAIN cache.prefixes :
         cache' = Touch(cache, id)
    /\ result' = "ok"
    /\ UNCHANGED <<pool, tables>>

\* The checks retain_prefix makes of the sequence.
CanRetain(s) ==
    LET q == cache.sequences[s]
    IN  /\ q.position # 0
        /\ Aligned(q.position)
        /\ AllLive(cache, q.pages)
        /\ \A i \in DOMAIN q.pages :
             LET page == cache.pages[q.pages[i].slot]
             IN  page.sealed /\ page.valid_tokens = PageTokens

\* The keys a caller may name for the sequence: any blocks of its length.
KeysFor(s) == [1..(cache.sequences[s].position \div PageTokens) -> Blocks]

RetainDuplicate(s, key) ==
    /\ CanRetain(s)
    /\ key \in DOMAIN cache.tree
    /\ cache.tree[key] \in DOMAIN cache.prefixes
    /\ cache' = Touch(cache, cache.tree[key])
    /\ result' = "ok"
    /\ UNCHANGED <<pool, tables>>

\* The new entry, after the evictions: its pages gain a reference, the index its key,
\* and it is the hottest.
InsertEntry(c, s, key, snapshot_bytes) ==
    LET id      == c.next_prefix_id
        pages   == c.sequences[s].pages
        counted == IncrementPrefixRefs(c, SlotsOf(pages))
        t       == Tick([counted EXCEPT
                     !.next_prefix_id = id + 1,
                     !.tree = [k \in DOMAIN @ \cup {key} |-> IF k = key THEN id ELSE @[k]]])
        entry   == [key |-> key, pages |-> pages, position |-> c.sequences[s].position,
                    snapshot_bytes |-> snapshot_bytes, last_used |-> t.clock]
    IN  RefreshStats([t EXCEPT
          !.prefixes = [i \in DOMAIN @ \cup {id} |-> IF i = id THEN entry ELSE @[i]],
          !.lru = @ \cup {<<t.clock, id>>},
          !.stats.retained_snapshot_bytes = @ + snapshot_bytes])

RetainPrefix(s, key, snapshot_bytes) ==
    /\ CanRetain(s)
    /\ key \notin DOMAIN cache.tree
    /\ snapshot_bytes <= MaxSnapshotBytes
    /\ cache.next_prefix_id < PrefixIdBound
    /\ \E ids \in EvictionRuns(cache, {}) :
         /\ EvictionPlan(cache, ids, {}, RetainDemand(snapshot_bytes))
         /\ CanEvict(cache, ids)
         /\ \E slots \in SetToSeqs(RetireSlots(cache, ids)) :
            \E later \in Deferrable({cache.pages[p].physical : p \in Range(slots)}) :
              /\ cache' = InsertEntry(CommitEvictions(cache, ids, slots, Cardinality(later)),
                                      s, key, snapshot_bytes)
              /\ pool' = RetirePhysical(pool, {cache.pages[p].physical : p \in Range(slots)}, later)
    /\ result' = "ok"
    /\ UNCHANGED tables

\* SnapshotCapacity, PrefixCapacity, or evictions that fail: the interned blocks of the
\* key are released again and nothing else was touched.
RetainDeclined(s, key, snapshot_bytes, outcome) ==
    LET demand == RetainDemand(snapshot_bytes)
        plan   == {ids \in EvictionRuns(cache, {}) : EvictionPlan(cache, ids, {}, demand)}
    IN  /\ CanRetain(s)
        /\ key \notin DOMAIN cache.tree
        /\ \/ /\ outcome = "refused"
              /\ \/ snapshot_bytes > MaxSnapshotBytes
                 \/ NoPlan(cache, {}, demand)
                 \/ \E ids \in plan : ~CanEvict(cache, ids)
           \/ /\ outcome = "backend"
              /\ "retire" \in Faults
              /\ \E ids \in plan : CanEvict(cache, ids) /\ RetireSlots(cache, ids) # {}
        /\ Unchanged(outcome)

EvictPrefix(id) ==
    /\ CanEvict(cache, {id})
    /\ \E slots \in SetToSeqs(RetireSlots(cache, {id})) :
       \E later \in Deferrable({cache.pages[p].physical : p \in Range(slots)}) :
         /\ cache' = CommitEvictions(cache, {id}, slots, Cardinality(later))
         /\ pool' = RetirePhysical(pool, {cache.pages[p].physical : p \in Range(slots)}, later)
    /\ result' = "ok"
    /\ UNCHANGED tables

----------------------------------------------------------------------------
(* branch.  It copies the writable tail and publishes the new table before it evicts. *)

\* Mutant: the partial tail is shared as well as copied.
CompletePagesRounded(q) == q.pages

CompletePages(q) == SubSeq(q.pages, 1, q.position \div PageTokens)
CopiedPages(q) == IF Aligned(q.position) THEN 0 ELSE 1

BranchDemand(q, request) ==
    AdmissionDemand(PagesToReserve(request, Len(CompletePages(q))), request)

CanBranchFrom(s, request) ==
    LET q == cache.sequences[s]
    IN  /\ CanBranch
        /\ q.pending = NoPending
        /\ q.position # 0
        /\ request.max_position >= q.position
        /\ q.position \div PageTokens + CopiedPages(q) <= Len(q.pages)
        /\ PagesToReserve(request, Len(CompletePages(q)) + CopiedPages(q)) \in Nat
        /\ AllLive(cache, q.pages)

\* The copy of the tail takes its physical page from the pool as it is before the
\* evictions.  A debug build asserts that the copy's page id is the one peeked then.
Branch(s, request) ==
    LET q        == cache.sequences[s]
        shared   == CompletePages(q)
        copies   == CopiedPages(q)
        demand   == BranchDemand(q, request)
        reserved == demand.pages - copies
    IN  /\ CanBranchFrom(s, request)
        /\ RoomForSequence(cache)
        /\ \E ids \in EvictionRuns(cache, {}) :
             /\ EvictionPlan(cache, ids, {}, demand)
             /\ CanEvict(cache, ids)
             /\ \E copied \in Injection(1..copies, InPool("free")) :
                \E slots \in SetToSeqs(RetireSlots(cache, ids)) :
                \E later \in Deferrable({cache.pages[p].physical : p \in Range(slots)}) :
                  LET evicted == CommitEvictions(cache, ids, slots, Cardinality(later))
                      tail    == [i \in 1..copies |-> FreshPageId(evicted, i)]
                  IN  /\ RoomForPages(evicted, copies)
                      /\ CanShare(evicted, SlotsOf(shared))
                      /\ cache' = RefreshStats(InsertSequence(
                           InsertPages(IncrementActiveRefs(evicted, SlotsOf(shared)),
                                       copied, q.position % PageTokens),
                           shared \o tail, q.position, reserved, request))
                      /\ pool' = RetirePhysical(Moved(pool, Range(copied), "held"),
                                   {cache.pages[p].physical : p \in Range(slots)}, later)
                      /\ tables' = Published(NextSequenceSlot(cache),
                                     PhysicalRefs(cache, shared) \o copied, q.position)
                      /\ result' = IF copies = 0 \/ FreshPageId(cache, 1) = tail[1]
                                   THEN "ok" ELSE "assert"

BranchWouldBlock(s, request) ==
    /\ CanBranchFrom(s, request)
    /\ NoPlan(cache, {}, BranchDemand(cache.sequences[s], request))
    /\ Unchanged("would_block")

\* The copy fails, or the publication fails and the copy is rolled back.
BranchFails(s, request) ==
    LET q == cache.sequences[s]
    IN  /\ CanBranchFrom(s, request)
        /\ ~NoPlan(cache, {}, BranchDemand(q, request))
        /\ \E taken \in SUBSET InPool("free") :
             /\ \/ /\ CopiedPages(q) = 1 /\ taken = {}
                   /\ "copy" \in Faults \/ InPool("free") = {}
                \/ Cardinality(taken) = CopiedPages(q) /\ "publish" \in Faults
             /\ pool' = RollbackPages(Moved(pool, taken, "held"), taken)
        /\ result' = "backend"
        /\ UNCHANGED <<cache, tables>>

\* The evictions fail after the copy was made and published: the copy is not rolled back.
BranchEvictionFails(s, request) ==
    LET q == cache.sequences[s]
    IN  /\ CanBranchFrom(s, request)
        /\ \E ids \in EvictionRuns(cache, {}) :
             /\ EvictionPlan(cache, ids, {}, BranchDemand(q, request))
             /\ \/ ~CanEvict(cache, ids) /\ result' = "refused"
                \/ /\ CanEvict(cache, ids) /\ RetireSlots(cache, ids) # {}
                   /\ "retire" \in Faults
                   /\ result' = "backend"
        /\ \E taken \in SUBSET InPool("free") :
             /\ Cardinality(taken) = CopiedPages(q)
             /\ pool' = Moved(pool, taken, "held")
        /\ UNCHANGED <<cache, tables>>

----------------------------------------------------------------------------
(* finish.  The runtime drops the context of a finished sequence, and of one that was *)
(* not admitted, so their tables are forgotten.                                       *)

\* Mutant: pages that an entry retains are retired with the sequence.
SoleSlotsRetained(q) == {p \in SlotsOf(q.pages) : cache.pages[p].active_refs = 1}

\* The slots of the pages only this sequence references.
SoleSlots(q) ==
    {p \in SlotsOf(q.pages) : cache.pages[p].active_refs = 1 /\ cache.pages[p].prefix_refs = 0}

\* The slots are listed in the order of the sequence's table.
InTableOrder(q, slots) ==
    \A i, j \in DOMAIN slots : i < j =>
        \E m, n \in DOMAIN q.pages :
            m < n /\ q.pages[m].slot = slots[i] /\ q.pages[n].slot = slots[j]

CanFinish(s) ==
    LET q == cache.sequences[s]
    IN  /\ q.pending = NoPending
        /\ AllLive(cache, q.pages)
        /\ CanRemoveSequence(cache, s)
        /\ CanRetire(cache, SoleSlots(q))
        /\ \A p \in SlotsOf(q.pages) : cache.pages[p].active_refs # 0

Finish(s) ==
    LET q        == cache.sequences[s]
        sole     == SoleSlots(q)
        physical == {cache.pages[p].physical : p \in sole}
    IN  /\ CanFinish(s)
        /\ \E slots \in SetToSeqs(sole), later \in Deferrable(physical) :
             /\ InTableOrder(q, slots)
             /\ cache' = RefreshStats(RemoveSequence(
                  DecrementActiveRefs(RetirePages(cache, slots, Cardinality(later)),
                                      SlotsOf(q.pages) \ sole), s))
             /\ pool' = RetirePhysical(pool, physical, later)
        /\ tables' = [tables EXCEPT ![s] = EmptyTable]
        /\ result' = "ok"

\* finish, or evict_prefix: the pages come back with the error and are put back.
RetireFails ==
    /\ "retire" \in Faults
    /\ \/ \E s \in LiveSequences : CanFinish(s) /\ SoleSlots(cache.sequences[s]) # {}
       \/ \E id \in DOMAIN cache.prefixes :
            CanEvict(cache, {id}) /\ RetireSlots(cache, {id}) # {}
    /\ Unchanged("backend")

----------------------------------------------------------------------------

\* Appends that fit the largest request; the guards cut them to the sequence's own.
Rows == 1..Max({0} \cup {request.max_position : request \in Requests})

\* Every match the runtime can hold: the ids issued so far, live or not.
Matches == {{}} \cup {{id} : id \in 0..(cache.next_prefix_id - 1)}

\* Prompts of at most as many whole blocks as the longest sequence.
PromptBlocks == UNION {[1..n -> Blocks] : n \in 0..DivCeil(Max(Rows \cup {0}))}

Next ==
    \/ \E polled \in SUBSET InPool("deferred") : ReclaimDeferred(polled)
    \/ PollFails
    \/ \E polled \in SUBSET InPool("deferred"), prefix \in Matches, request \in Requests :
         Admit(polled, prefix, request)
    \/ \E polled \in SUBSET InPool("deferred"), prefix \in Matches, request \in Requests,
          outcome \in {"would_block", "refused", "backend"} :
         AdmitDeclined(polled, prefix, request, outcome)
    \/ \E s \in LiveSequences, rows \in Rows : ReserveAppend(s, rows)
    \/ \E s \in LiveSequences, rows \in Rows : ReserveAppendFails(s, rows)
    \/ \E s \in LiveSequences, rows \in Rows : CommitAppend(s, rows)
    \/ \E s \in LiveSequences, rows \in Rows : CommitAppendExhausted(s, rows)
    \/ \E s \in LiveSequences : AbortAppend(s)
    \/ \E s \in LiveSequences : AbortAppendExhausted(s)
    \/ \E s \in LiveSequences : FinalizeFails(s)
    \/ \E prompt \in PromptBlocks, tail \in 0..(PageTokens - 1) : LookupPrefix(prompt, tail)
    \/ \E s \in LiveSequences : \E key \in KeysFor(s) : RetainDuplicate(s, key)
    \/ \E s \in LiveSequences, n \in SnapshotSizes : \E key \in KeysFor(s) :
         RetainPrefix(s, key, n)
    \/ \E s \in LiveSequences, n \in SnapshotSizes, outcome \in {"refused", "backend"} :
         \E key \in KeysFor(s) : RetainDeclined(s, key, n, outcome)
    \/ \E id \in DOMAIN cache.prefixes : EvictPrefix(id)
    \/ \E s \in LiveSequences, request \in Requests : Branch(s, request)
    \/ \E s \in LiveSequences, request \in Requests : BranchWouldBlock(s, request)
    \/ \E s \in LiveSequences, request \in Requests : BranchFails(s, request)
    \/ \E s \in LiveSequences, request \in Requests : BranchEvictionFails(s, request)
    \/ \E s \in LiveSequences : Finish(s)
    \/ RetireFails

Spec == Init /\ [][Next]_vars

\* A runtime that keeps retrying its requests, for prompts that match nothing retained,
\* and keeps polling.  RetriesAdmission is WF_vars(AdmitFresh) with its enabling condition
\* written out.
AdmitFresh ==
    \E polled \in SUBSET InPool("deferred"), request \in Requests : Admit(polled, {}, request)

CanAdmitFresh ==
    \E polled \in SUBSET InPool("deferred"), request \in Requests :
      LET c == Reclaimed(polled)
      IN  RoomForSequence(c) /\ ~NoPlan(c, {}, AdmitDemand(c, {}, request))

RetriesAdmission == []<>~CanAdmitFresh \/ []<><<AdmitFresh>>_vars

ReclaimAll == InPool("deferred") # {} /\ ReclaimDeferred(InPool("deferred"))

FairSpec == Spec /\ RetriesAdmission /\ WF_vars(ReclaimAll)

----------------------------------------------------------------------------
(* Types. *)

PageId == [slot : Nat, generation : Nat]

PageSlot ==
    [generation : Nat, live : BOOLEAN, physical : PhysicalPages \cup {None},
     active_refs : Nat, prefix_refs : Nat, valid_tokens : 0..PageTokens, sealed : BOOLEAN]

SequenceSlot ==
    [generation : Nat, live : BOOLEAN, pages : Seq(PageId), position : Nat,
     max_position : Nat, reserved_pages : Nat, private_state_bytes : Nat,
     page_table_bytes : Nat, pending : [rows : Nat, new_pages : Seq(PageId)]]

PrefixEntry ==
    [key : Seq(Blocks), pages : Seq(PageId), position : Nat, snapshot_bytes : Nat,
     last_used : Nat]

Stats ==
    [active_sequences : Nat, retained_prefix_entries : Nat, interned_token_blocks : Nat,
     resident_pages : Nat, free_pages : Nat, reserved_pages : Nat,
     deferred_retirement_pages : Nat, active_private_state_bytes : Nat,
     retained_snapshot_bytes : Nat, page_table_bytes : Nat,
     reclaimable_prefix_only_bytes : Nat, total_managed_bytes : Nat]

\* The type of the manager's record.
CacheTyped(c) ==
    /\ DOMAIN c = {"pages", "free_page_slots", "sequences", "free_sequence_slots", "prefixes",
                   "lru", "tree", "next_prefix_id", "clock", "deferred_pages", "stats"}
    /\ c.pages \in Seq(PageSlot)
    /\ c.free_page_slots \in Seq(Nat)
    /\ c.sequences \in Seq(SequenceSlot)
    /\ c.free_sequence_slots \in Seq(Nat)
    /\ IsFiniteSet(DOMAIN c.prefixes) /\ DOMAIN c.prefixes \subseteq Nat
    /\ \A id \in DOMAIN c.prefixes : c.prefixes[id] \in PrefixEntry
    /\ c.lru \subseteq Nat \X Nat
    /\ IsFiniteSet(DOMAIN c.tree) /\ DOMAIN c.tree \subseteq Seq(Blocks)
    /\ c.next_prefix_id \in Nat
    /\ c.clock \in Nat
    /\ c.deferred_pages \in Nat
    /\ c.stats \in Stats

\* Type invariant of the manager, the backend and the last result.
TypeOK ==
    /\ CacheTyped(cache)
    /\ pool \in [PhysicalPages -> {"free", "held", "deferred"}]
    /\ tables \in Seq([pages : Seq(PhysicalPages \cup {None}), position : Nat])
    /\ result \in {"ok", "would_block", "refused", "backend", "assert"}

----------------------------------------------------------------------------
(* Ownership: what validate() recomputes. *)

Table(q) == q.pages \o q.pending.new_pages

LivePageSlots == {p \in DOMAIN cache.pages : cache.pages[p].live}

\* Every live page is referenced by exactly as many live sequences (committed tables
\* and pending appends) and retained entries as its counts say, and by at least one; and
\* every handle they hold resolves.  This is what keeps a page from being retired while
\* someone reads it, or kept for ever (validate; increment_/decrement_*_ref).
ReferencesExact ==
    /\ \A s \in LiveSequences : AllLive(cache, Table(cache.sequences[s]))
    /\ \A id \in DOMAIN cache.prefixes : AllLive(cache, cache.prefixes[id].pages)
    /\ \A p \in LivePageSlots :
         LET page  == PageIdAt(cache, p)
             users == {s \in LiveSequences : page \in Range(Table(cache.sequences[s]))}
             keeps == {id \in DOMAIN cache.prefixes : page \in Range(cache.prefixes[id].pages)}
         IN  /\ cache.pages[p].active_refs = Cardinality(users)
             /\ cache.pages[p].prefix_refs = Cardinality(keeps)
             /\ users # {} \/ keeps # {}

\* A free list names every vacated slot of its arena, once.
FreeList(arena, free) ==
    /\ IsInjective(free)
    /\ \A i \in DOMAIN free : free[i] \in DOMAIN arena /\ ~arena[free[i]].live
    /\ \A s \in DOMAIN arena : arena[s].live \/ \E i \in DOMAIN free : free[i] = s

\* The free lists of both arenas name the vacated slots, each once: no slot is handed out
\* twice and none is lost, over any mixture of the calls that push and pop them, and also
\* when a removal stops half way (insert_page, remove_page, insert_sequence,
\* remove_sequence; refresh_stats subtracts their lengths).
FreeListsExact ==
    /\ FreeList(cache.pages, cache.free_page_slots)
    /\ FreeList(cache.sequences, cache.free_sequence_slots)

\* A sequence's table covers exactly its position; the last page of an unaligned one is
\* writable and its own, every other page is sealed; pages of a pending append are empty
\* and private; and pages, pending pages and reservation add up to the admitted maximum
\* (validate; reserve_append, commit_append and abort_append move pages between them).
SequencesValid ==
    \A s \in LiveSequences :
      LET q    == cache.sequences[s]
          page(i) == cache.pages[q.pages[i].slot]
          new(i)  == cache.pages[q.pending.new_pages[i].slot]
      IN  /\ q.position <= q.max_position
          /\ IsInjective(Table(q))
          /\ Len(q.pages) = DivCeil(q.position)
          /\ \A i \in DOMAIN q.pages :
               /\ page(i).valid_tokens = RowsInPage(q.position, i)
               /\ page(i).sealed = (page(i).valid_tokens = PageTokens)
               /\ ~page(i).sealed => page(i).active_refs = 1 /\ page(i).prefix_refs = 0
          /\ \A i \in DOMAIN q.pending.new_pages :
               /\ new(i).valid_tokens = 0 /\ ~new(i).sealed
               /\ new(i).active_refs = 1 /\ new(i).prefix_refs = 0
          /\ Len(Table(q)) + q.reserved_pages = DivCeil(q.max_position)

\* A retained entry is a nonempty aligned run of sealed pages, and lookups reach it under
\* its key and no other (validate; retain_prefix, commit_evictions, PrefixIndex).
PrefixesValid ==
    /\ \A id \in DOMAIN cache.prefixes :
         LET e == cache.prefixes[id]
         IN  /\ e.position # 0
             /\ Len(e.pages) * PageTokens = e.position
             /\ \A i \in DOMAIN e.pages : cache.pages[e.pages[i].slot].sealed
             /\ e.key \in DOMAIN cache.tree /\ cache.tree[e.key] = id
    /\ Cardinality(DOMAIN cache.tree) = Cardinality(DOMAIN cache.prefixes)

\* The LRU set mirrors the entries, no two entries share a stamp and none is ahead of the
\* clock, also after the clock was renumbered (validate; tick).
LruExact ==
    /\ cache.lru = {Stamp(cache, id) : id \in DOMAIN cache.prefixes}
    /\ \A id, other \in DOMAIN cache.prefixes :
         cache.prefixes[id].last_used = cache.prefixes[other].last_used => id = other
    /\ \A id \in DOMAIN cache.prefixes : cache.prefixes[id].last_used \in 1..cache.clock

\* compute_stats: the accounting from first principles.
ComputeStats ==
    LET Sum(field) == MapThenSumSet(LAMBDA s : cache.sequences[s][field], LiveSequences)
        resident  == Cardinality(LivePageSlots) + cache.deferred_pages
        reserved  == Sum("reserved_pages")
        snapshots == SnapshotBytes(cache.prefixes, DOMAIN cache.prefixes)
        total     == (resident + reserved) * PageBytes + Sum("private_state_bytes")
                       + snapshots + Sum("page_table_bytes")
    IN  [active_sequences |-> Cardinality(LiveSequences),
         retained_prefix_entries |-> Cardinality(DOMAIN cache.prefixes),
         interned_token_blocks |-> BlockCount(cache.tree),
         resident_pages |-> resident,
         free_pages |-> FreePages(total, resident + reserved),
         reserved_pages |-> reserved,
         deferred_retirement_pages |-> cache.deferred_pages,
         active_private_state_bytes |-> Sum("private_state_bytes"),
         retained_snapshot_bytes |-> snapshots,
         page_table_bytes |-> Sum("page_table_bytes"),
         reclaimable_prefix_only_bytes |-> ReclaimableBytes(cache, LivePageSlots),
         total_managed_bytes |-> total]

\* The statistics kept incrementally by every operation are the ones recomputed from
\* ownership (validate: "cached accounting differs from ownership").
AccountingExact == cache.stats = ComputeStats

----------------------------------------------------------------------------
(* Capacity. *)

\* The four limits of plan_evictions hold at all times, not only when a plan is made:
\* managed bytes, resident and promised pages, snapshot bytes and entries.
CapacityRespected ==
    /\ cache.stats.total_managed_bytes <= MaxManagedBytes
    /\ cache.stats.resident_pages + cache.stats.reserved_pages <= PageCapacity
    /\ cache.stats.retained_snapshot_bytes <= MaxSnapshotBytes
    /\ Cardinality(DOMAIN cache.prefixes) <= MaxPrefixEntries

\* Strict admission: every page promised to an admitted sequence is there in the pool
\* (admit: "an admitted sequence can always grow to its full length").
ReservationsBacked == cache.stats.reserved_pages <= Cardinality(InPool("free"))

\* With a backend that never fails by itself, no call returns a backend error: no
\* operation finds the pool empty.
PressureIsNeverAnError == Faults = {} => result # "backend"

----------------------------------------------------------------------------
(* The backend's pages and tables. *)

\* The pages the pool has handed out are exactly those of the live pages, one each, and
\* the deferred ones are as many as the manager charges: nothing is leaked on an error
\* path, and nothing is used after it went back (rollback_page, retire_pages).
PhysicalPagesExact ==
    /\ \A p, other \in LivePageSlots :
         cache.pages[p].physical = cache.pages[other].physical => p = other
    /\ InPool("held") = {cache.pages[p].physical : p \in LivePageSlots}
    /\ Cardinality(InPool("deferred")) = cache.deferred_pages

\* The table published to each live sequence's context lists the physical pages of its
\* committed pages and its pending append, in order, with its committed position.
PublishedTablesExact ==
    \A s \in LiveSequences :
      LET q == cache.sequences[s]
      IN  tables[s] = [pages |-> PhysicalRefs(cache, Table(q)), position |-> q.position]

\* No context of a live sequence reads a page the pool may hand to someone else, also
\* when a slot's generations have run out.
TablesReadHeldPages == \A s \in LiveSequences : Range(tables[s].pages) \subseteq InPool("held")

\* When no sequence is live, everything that occupies the cache is a prefix that may be
\* evicted, so a runtime that retries its admissions is eventually served (lib.rs: "Under
\* pressure the manager evicts least-recently-used prefix entries").
IdleCacheAdmits == (LiveSequences = {} /\ RoomForSequence(cache)) ~> (LiveSequences # {})

----------------------------------------------------------------------------
(* What a step may never do. *)

\* The manager without the pages behind a fence and what it charges for them, which the
\* poll at the start of admit may change; free_pages is derived from the rest.
Ownership(c) ==
    [c EXCEPT
      !.deferred_pages = 0,
      !.stats = [c.stats EXCEPT
          !.deferred_retirement_pages = 0,
          !.resident_pages = @ - c.deferred_pages,
          !.total_managed_bytes = @ - c.deferred_pages * PageBytes,
          !.free_pages = 0]]

\* A call that reports an error, or WouldBlock, leaves the manager but for a poll, the
\* published tables and the pages handed out as they were (error.rs: "leaves cache
\* ownership and accounting unchanged").
FailureAtomic ==
    [][result' \notin {"ok", "assert"} =>
         /\ Ownership(cache') = Ownership(cache)
         /\ tables' = tables
         /\ InPool("held")' = InPool("held")]_vars

\* A sealed page keeps its storage and stays sealed for as long as its handle is valid,
\* and no page of a live sequence ever loses committed tokens (lib.rs: "Sealed pages are
\* immutable and shareable").
SealedImmutable ==
    [][\A p \in LivePageSlots :
         LET old == cache.pages[p]
             new == cache'.pages[p]
         IN  new.live /\ new.generation = old.generation =>
               /\ new.physical = old.physical
               /\ new.valid_tokens >= old.valid_tokens
               /\ old.sealed => new.sealed]_vars

\* While a sequence lives its table only grows at the end, on the same physical pages,
\* and its position never goes back: evictions, branches and other sequences' appends
\* never disturb it (lib.rs: eviction "never disturbs live sequences").
HistoryStable ==
    [][\A s \in LiveSequences :
         LET old == cache.sequences[s]
             new == cache'.sequences[s]
         IN  new.live /\ new.generation = old.generation =>
               /\ new.position >= old.position
               /\ IsPrefix(PhysicalRefs(cache, old.pages), PhysicalRefs(cache', new.pages))]_vars

\* A handle that stopped resolving never resolves again: a slot's generation never goes
\* back, and advances when the slot is vacated (remove_page, remove_sequence).
HandlesNeverRevive ==
    [][/\ \A p \in DOMAIN cache.pages :
            LET old == cache.pages[p]
                new == cache'.pages[p]
            IN  /\ new.generation >= old.generation
                /\ old.live /\ ~new.live => new.generation > old.generation
       /\ \A s \in DOMAIN cache.sequences :
            LET old == cache.sequences[s]
                new == cache'.sequences[s]
            IN  /\ new.generation >= old.generation
                /\ old.live /\ ~new.live => new.generation > old.generation]_vars

\* Entries evicted to make room are the coldest ones: every entry that stays is hotter,
\* unless it is the one the admission protects because the new sequence shares its pages.
\* And when nobody branches, a sequence that starts with pages shares those of an entry
\* that is still retained: an admission never evicts the entry it was matched with, however
\* cold that is (plan_evictions; README: "predictable least-recently-used eviction").
EvictsColdestFirst ==
    [][/\ cache'.sequences # cache.sequences \/ cache'.next_prefix_id # cache.next_prefix_id =>
            \A gone \in DOMAIN cache.prefixes \ DOMAIN cache'.prefixes,
               kept \in DOMAIN cache.prefixes \cap DOMAIN cache'.prefixes :
              \/ NotHotter(Stamp(cache, gone), Stamp(cache, kept))
              \/ \E s \in LiveSequences' \ LiveSequences :
                   cache'.sequences[s].pages = cache.prefixes[kept].pages
       /\ ~CanBranch =>
            \A s \in LiveSequences' \ LiveSequences :
              \/ cache'.sequences[s].pages = <<>>
              \/ \E id \in DOMAIN cache'.prefixes :
                   cache'.prefixes[id].pages = cache'.sequences[s].pages]_vars

\* Of two entries that survive a step the hotter one stays the hotter one, unless the
\* other was just used; renumbering the clock does not disturb the order (tick).
RecencyOrderStable ==
    [][\A cold, hot \in DOMAIN cache.prefixes \cap DOMAIN cache'.prefixes :
         /\ NotHotter(Stamp(cache, cold), Stamp(cache, hot))
         /\ cache'.prefixes[cold].last_used # cache'.clock
         => NotHotter(Stamp(cache', cold), Stamp(cache', hot))]_vars

=============================================================================
