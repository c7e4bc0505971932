---------------------------- MODULE CpuKvBackend ----------------------------
(***************************************************************************)
(* The CPU example backend (src/examples/cpu_paged_kv.rs) under the calls  *)
(* of the manager.  A row holds one token instead of the key and value     *)
(* vectors that write_token derives from it.                               *)
(*                                                                         *)
(* An operator whose comment starts with Mutant is a wrong variant of the  *)
(* definition after it, which nothing uses.                                *)
(***************************************************************************)
EXTENDS BackendDriver

VARIABLES
    slots,           \* the rows of every page
    tables           \* the CpuPageTable of each sequence

vars == <<driver, pool, slots, tables>>

EmptyTable == [pages |-> <<>>, position |-> 0]

Init ==
    /\ DriverInit
    /\ pool = [live |-> <<>>, free_slots |-> <<>>]
    /\ slots = [page \in 1..MaxPages |-> BlankPage]
    /\ tables = [s \in Names |-> EmptyTable]

Publish(s, pages, position) ==
    tables' = [tables EXCEPT ![s] = [pages |-> pages, position |-> position]]

\* allocate: a recycled page is cleared, a new one is blank.
Cleared(pages) == [page \in DOMAIN slots |-> IF page \in Range(pages) THEN BlankPage
                                                                      ELSE slots[page]]

AdmitSequence(s) ==
    /\ Admitted(s)
    /\ Publish(s, <<>>, 0)
    /\ UNCHANGED <<pool, slots>>

\* Mutant: the old table stays published until the commit.
ReserveAppendUnpublished(s, rows) ==
    LET n == NewPageCount(s, rows)
    IN  /\ CanReserve(s, rows)
        /\ n <= Available(pool)
        /\ pool' = Allocate(pool, n)
        /\ slots' = Cleared(AllocatedSlots(pool, n))
        /\ Reserved(s, rows, AllocatedSlots(pool, n))
        /\ UNCHANGED tables

\* allocate_page, prepare_append and update_page_table, as reserve_append calls them.
ReserveAppend(s, rows) ==
    LET n     == NewPageCount(s, rows)
        new   == AllocatedSlots(pool, n)
        table == sequences[s].pages \o new
    IN  /\ CanReserve(s, rows)
        /\ n <= Available(pool)
        /\ pool' = Allocate(pool, n)
        /\ slots' = Cleared(new)
        /\ Reserved(s, rows, new)
        /\ IF n = 0 THEN UNCHANGED tables ELSE Publish(s, table, sequences[s].position)

\* allocate_page finds the pool exhausted, and rollback_page returns the pages before it.
ReserveExhausted(s, rows) ==
    LET n == Available(pool)
    IN  /\ CanReserve(s, rows)
        /\ n < NewPageCount(s, rows)
        /\ pool' = RolledBack(pool, n)
        /\ slots' = Cleared(AllocatedSlots(pool, n))
        /\ UNCHANGED <<driver, tables>>

\* write_model_output for every segment of the reservation.
WriteModelOutput(s, tokens) ==
    LET table == sequences[s].pages \o sequences[s].pending.new_pages
    IN  /\ Written(s, tokens)
        /\ slots' = WriteThrough(slots, table, sequences[s].position, tokens)
        /\ UNCHANGED <<pool, tables>>

CommitAppend(s, n) ==
    LET committed == sequences[s].pages \o KeptPages(s, n)
    IN  /\ CanCommit(s, n)
        /\ AllLive(pool, committed) /\ AllLive(pool, ReleasedPages(s, n))
        /\ Publish(s, committed, sequences[s].position + n)
        /\ pool' = Release(pool, ReleasedPages(s, n))
        /\ Committed(s, n)
        /\ UNCHANGED slots

AbortAppend(s) ==
    LET q == sequences[s]
    IN  /\ Pending(s)
        /\ AllLive(pool, q.pages) /\ AllLive(pool, q.pending.new_pages)
        /\ Publish(s, q.pages, q.position)
        /\ pool' = Release(pool, q.pending.new_pages)
        /\ Aborted(s)
        /\ UNCHANGED slots

\* copy_partial_page of an unaligned tail, then update_page_table of the new context.
Branch(s, new) ==
    LET copies == IF TailRows(s) = 0 THEN 0 ELSE 1
        copied == AllocatedSlots(pool, copies)
        pages  == CompletePages(s) \o copied
    IN  /\ CanBranch(s, new)
        /\ copies <= Available(pool)
        /\ pool' = Allocate(pool, copies)
        /\ slots' = IF copies = 0 THEN slots
                    ELSE CopyRows(Cleared(copied), Last(sequences[s].pages), copied[1],
                                  TailRows(s))
        /\ Publish(new, pages, sequences[s].position)
        /\ Branched(s, new, pages)

\* retire_pages, for the pages that nobody shares.
Finish(s) ==
    /\ CanFinish(s)
    /\ AllLive(pool, SolePages(s))
    /\ pool' = Release(pool, SolePages(s))
    /\ Finished(s)
    /\ UNCHANGED <<slots, tables>>

Next ==
    \/ \E s \in Names : AdmitSequence(s)
    \/ \E s \in Names, rows \in 1..RowsBound : ReserveAppend(s, rows)
    \/ \E s \in Names, rows \in 1..RowsBound : ReserveExhausted(s, rows)
    \/ \E s \in Names, rows \in 1..RowsBound : \E tokens \in [1..rows -> Tokens] :
         WriteModelOutput(s, tokens)
    \/ \E s \in Names, n \in 1..RowsBound : CommitAppend(s, n)
    \/ \E s \in Names : AbortAppend(s)
    \/ \E s, new \in Names : Branch(s, new)
    \/ \E s \in Names : Finish(s)

Spec == Init /\ [][Next]_vars

----------------------------------------------------------------------------

\* Type invariant of the pool, the rows and the tables.
TypeOK ==
    /\ DriverTyped
    /\ slots \in [1..MaxPages -> [1..PageTokens -> Tokens \cup {Blank}]]
    /\ tables \in [Names -> [pages : Seq(1..MaxPages), position : 0..MaxPosition]]

\* attend, called before the commit, reads the history followed by the written rows
\* through the table that the reservation published.
SpanReadable ==
    \A s \in Live : draft[s] # <<>> =>
      LET q == sequences[s]
      IN  /\ DivCeil(q.position + q.pending.rows) <= Len(tables[s].pages)
          /\ ReadThrough(slots, tables[s].pages, q.position + q.pending.rows)
               = ReadThrough(slots, q.pages, q.position) \o draft[s]

\* What a reader finds through the published table of a sequence.
History(s) == ReadThrough(slots, tables[s].pages, tables[s].position)

=============================================================================
