-------------------------- MODULE WgpuPageBackend --------------------------
(***************************************************************************)
(* The wgpu example backend (src/examples/wgpu_paged_state.rs) under the   *)
(* calls of the manager.  Table writes, parameter writes, dispatches and   *)
(* copies are submitted to one queue, which the device works off in order  *)
(* while the host goes on; `last_submission' is all the host keeps to wait *)
(* for.                                                                    *)
(*                                                                         *)
(* An operator whose comment starts with Mutant is a wrong variant of the  *)
(* definition after it, which nothing uses.                                *)
(***************************************************************************)
EXTENDS BackendDriver

VARIABLES
    tables,          \* the host shadow of each sequence's WgpuPageTable
    buffers,         \* its device buffer
    slab,            \* page_slab
    parameters,      \* the uniform buffer that every dispatch reads
    queue,           \* commands that the device has not executed
    last_submission, \* whether it is Some
    copying          \* the branch whose copy_partial_page waits for the device

device == <<buffers, slab, parameters>>

vars == <<driver, pool, tables, device, queue, last_submission, copying>>

NewTable == [slots |-> <<>>, position |-> 0]

NoCopy == [source |-> <<>>, page |-> <<>>]

Init ==
    /\ DriverInit
    /\ pool = [live |-> [slot \in 1..MaxPages |-> FALSE],
               free_slots |-> [i \in 1..MaxPages |-> MaxPages + 1 - i]]
    /\ tables = [s \in Names |-> NewTable]
    /\ buffers = [s \in Names |-> <<>>]
    /\ slab = [page \in 1..MaxPages |-> BlankPage]
    /\ parameters = [start |-> 0, rows |-> 0]
    /\ queue = <<>>
    /\ last_submission = FALSE
    /\ copying = NoCopy

----------------------------------------------------------------------------
(* Commands. *)

TableWrite(s, pages) ==
    IF pages = <<>> THEN <<>>
                    ELSE <<[kind |-> "table", sequence |-> s, slots |-> pages]>>

ParameterWrite(start, rows) == [kind |-> "parameters", start |-> start, rows |-> rows]

Dispatch(s, tokens) == [kind |-> "dispatch", sequence |-> s, tokens |-> tokens]

TailCopy(from, to, rows) == [kind |-> "copy", from |-> from, to |-> to, rows |-> rows]

IsTableWriteOf(s, command) == command.kind = "table" /\ command.sequence = s

\* write_buffer replaces the start of a table buffer.
Overwritten(buffer, slots) == slots \o SubSeq(buffer, Len(slots) + 1, Len(buffer))

\* The buffer of s once the given commands are executed.
BufferAfter(commands, s) ==
    FoldLeft(LAMBDA buffer, command : Overwritten(buffer, command.slots), buffers[s],
             SelectSeq(commands, LAMBDA command : IsTableWriteOf(s, command)))

----------------------------------------------------------------------------
(* The backend's operations. *)

Idle == copying = NoCopy

\* wait_for_gpu returns at once when there is no submission to wait for.
Waited == last_submission => queue = <<>>

\* publish_table: the shadow at once, the buffer when the device gets to it.
PublishTable(s, pages, position) ==
    /\ tables' = [tables EXCEPT ![s] = [slots |-> pages, position |-> position]]
    /\ queue' = queue \o TableWrite(s, pages)
    /\ last_submission' = TRUE

AdmitSequence(s) ==
    /\ Idle
    /\ Admitted(s)
    /\ PublishTable(s, <<>>, 0)
    /\ UNCHANGED <<pool, device, copying>>

\* allocate_page, prepare_append, and update_page_table if there are new pages: nothing waits.
ReserveAppend(s, rows) ==
    LET n   == NewPageCount(s, rows)
        new == AllocatedSlots(pool, n)
    IN  /\ Idle
        /\ CanReserve(s, rows)
        /\ n <= Available(pool)
        /\ pool' = Allocate(pool, n)
        /\ Reserved(s, rows, new)
        /\ IF n = 0 THEN UNCHANGED <<tables, queue, last_submission>>
                    ELSE PublishTable(s, sequences[s].pages \o new, sequences[s].position)
        /\ UNCHANGED <<device, copying>>

\* allocate_page finds the slab exhausted, and rollback_page returns the pages before it.
ReserveExhausted(s, rows) ==
    LET n == Available(pool)
    IN  /\ Idle
        /\ CanReserve(s, rows)
        /\ n < NewPageCount(s, rows)
        /\ pool' = RolledBack(pool, n)
        /\ UNCHANGED <<driver, tables, device, queue, last_submission, copying>>

\* The logical pages that the pending append of s writes to.
SpanPages(s) ==
    (sequences[s].position \div PageTokens) + 1
      .. DivCeil(sequences[s].position + sequences[s].pending.rows)

\* dispatch_append compares the published slots with the reservation's pages.
DestinationsPublished(s) ==
    LET pages == sequences[s].pages \o sequences[s].pending.new_pages
    IN  \A i \in SpanPages(s) :
          /\ pages[i] \in LiveSlots(pool)
          /\ i \in DOMAIN tables[s].slots
          /\ tables[s].slots[i] = pages[i]

\* Mutant: the submission of the dispatch is not recorded.
DispatchAppendUnrecorded(s, tokens) ==
    /\ Idle
    /\ Written(s, tokens)
    /\ DestinationsPublished(s)
    /\ Len(queue) + 2 <= 2 * DeviceBound
    /\ queue' = queue \o <<ParameterWrite(sequences[s].position, Len(tokens)),
                           Dispatch(s, tokens)>>
    /\ UNCHANGED <<pool, tables, device, last_submission, copying>>

DispatchAppend(s, tokens) ==
    /\ Idle
    /\ Written(s, tokens)
    /\ DestinationsPublished(s)
    /\ Len(queue) + 2 <= 2 * DeviceBound
    /\ queue' = queue \o <<ParameterWrite(sequences[s].position, Len(tokens)),
                           Dispatch(s, tokens)>>
    /\ last_submission' = TRUE
    /\ UNCHANGED <<pool, tables, device, copying>>

CommitAppend(s, n) ==
    LET committed == sequences[s].pages \o KeptPages(s, n)
    IN  /\ Idle
        /\ CanCommit(s, n)
        /\ AllLive(pool, committed) /\ AllLive(pool, ReleasedPages(s, n))
        /\ Waited
        /\ PublishTable(s, committed, sequences[s].position + n)
        /\ pool' = Release(pool, ReleasedPages(s, n))
        /\ Committed(s, n)
        /\ UNCHANGED <<device, copying>>

AbortAppend(s) ==
    LET q == sequences[s]
    IN  /\ Idle
        /\ Pending(s)
        /\ AllLive(pool, q.pages) /\ AllLive(pool, q.pending.new_pages)
        /\ Waited
        /\ PublishTable(s, q.pages, q.position)
        /\ pool' = Release(pool, q.pending.new_pages)
        /\ Aborted(s)
        /\ UNCHANGED <<device, copying>>

\* branch at a page boundary copies nothing and waits for nothing.
BranchAligned(s, new) ==
    /\ Idle
    /\ CanBranch(s, new)
    /\ TailRows(s) = 0
    /\ PublishTable(new, sequences[s].pages, sequences[s].position)
    /\ Branched(s, new, sequences[s].pages)
    /\ UNCHANGED <<pool, device, copying>>

\* copy_partial_page waits for earlier work, allocates, submits the copy and waits again.
CopyPartialPage(s, new) ==
    LET copied == AllocatedSlot(pool, 1)
    IN  /\ Idle
        /\ CanBranch(s, new)
        /\ TailRows(s) # 0
        /\ Available(pool) # 0
        /\ Waited
        /\ pool' = Allocate(pool, 1)
        /\ queue' = Append(queue, TailCopy(Last(sequences[s].pages), copied, TailRows(s)))
        /\ last_submission' = TRUE
        /\ copying' = [source |-> <<s, new>>, page |-> <<copied>>]
        /\ UNCHANGED <<driver, tables, device>>

\* The copy is done and update_page_table publishes the table of the branch.
BranchCopied ==
    LET s     == copying.source[1]
        new   == copying.source[2]
        pages == CompletePages(s) \o copying.page
    IN  /\ ~Idle
        /\ Waited
        /\ PublishTable(new, pages, sequences[s].position)
        /\ Branched(s, new, pages)
        /\ copying' = NoCopy
        /\ UNCHANGED <<pool, device>>

\* The wait fails: the page is released with the copy still in the queue.
CopyFails ==
    /\ ~Idle
    /\ "Device::poll" \in Faults
    /\ pool' = Release(pool, copying.page)
    /\ copying' = NoCopy
    /\ UNCHANGED <<driver, tables, device, queue, last_submission>>

\* retire_pages; the context is dropped with its table, and nobody reads its buffer again.
Finish(s) ==
    /\ Idle
    /\ CanFinish(s)
    /\ AllLive(pool, SolePages(s))
    /\ SolePages(s) # <<>> => Waited
    /\ pool' = Release(pool, SolePages(s))
    /\ tables' = [tables EXCEPT ![s] = NewTable]
    /\ buffers' = [buffers EXCEPT ![s] = <<>>]
    /\ queue' = SelectSeq(queue, LAMBDA command : ~IsTableWriteOf(s, command))
    /\ last_submission' = (last_submission /\ SolePages(s) = <<>>)
    /\ Finished(s)
    /\ UNCHANGED <<slab, parameters, copying>>

----------------------------------------------------------------------------
(* The device executes the first command of the queue. *)

Executing(kind) ==
    /\ queue # <<>>
    /\ Head(queue).kind = kind
    /\ queue' = Tail(queue)
    /\ UNCHANGED <<driver, pool, tables, last_submission, copying>>

ExecuteTableWrite ==
    /\ Executing("table")
    /\ buffers' = [buffers EXCEPT ![Head(queue).sequence] = Overwritten(@, Head(queue).slots)]
    /\ UNCHANGED <<slab, parameters>>

ExecuteParameterWrite ==
    /\ Executing("parameters")
    /\ parameters' = [start |-> Head(queue).start, rows |-> Head(queue).rows]
    /\ UNCHANGED <<buffers, slab>>

\* write_paged_rows, with the table and the parameters it finds in their buffers.
ExecuteDispatch ==
    /\ Executing("dispatch")
    /\ slab' = WriteThrough(slab, buffers[Head(queue).sequence], parameters.start,
                            SubSeq(Head(queue).tokens, 1, parameters.rows))
    /\ UNCHANGED <<buffers, parameters>>

\* The two copy_buffer_to_buffer of one submission, through copy_scratch, which only they use.
ExecuteTailCopy ==
    /\ Executing("copy")
    /\ slab' = CopyRows(slab, Head(queue).from, Head(queue).to, Head(queue).rows)
    /\ UNCHANGED <<buffers, parameters>>

Next ==
    \/ \E s \in Names : AdmitSequence(s)
    \/ \E s \in Names, rows \in 1..RowsBound : ReserveAppend(s, rows)
    \/ \E s \in Names, rows \in 1..RowsBound : ReserveExhausted(s, rows)
    \/ \E s \in Names, rows \in 1..RowsBound : \E tokens \in [1..rows -> Tokens] :
         DispatchAppend(s, tokens)
    \/ \E s \in Names, n \in 1..RowsBound : CommitAppend(s, n)
    \/ \E s \in Names : AbortAppend(s)
    \/ \E s, new \in Names : BranchAligned(s, new)
    \/ \E s, new \in Names : CopyPartialPage(s, new)
    \/ BranchCopied
    \/ CopyFails
    \/ \E s \in Names : Finish(s)
    \/ ExecuteTableWrite
    \/ ExecuteParameterWrite
    \/ ExecuteDispatch
    \/ ExecuteTailCopy

Spec == Init /\ [][Next]_vars

----------------------------------------------------------------------------

\* Type invariant of the pool, the tables, the device's buffers and the queue.
TypeOK ==
    /\ DriverTyped
    /\ tables \in [Names -> [slots : Seq(1..MaxPages), position : 0..MaxPosition]]
    /\ buffers \in [Names -> Seq(1..MaxPages)]
    /\ slab \in [1..MaxPages -> [1..PageTokens -> Tokens \cup {Blank}]]
    /\ parameters \in [start : 0..MaxPosition, rows : 0..RowsBound]
    /\ \A i \in DOMAIN queue :
         queue[i].kind \in {"table", "parameters", "dispatch", "copy"}
    /\ last_submission \in BOOLEAN
    /\ copying = NoCopy \/ copying \in [source : Seq(Names), page : Seq(1..MaxPages)]

\* dispatch_append never refuses a reservation with "published page table disagrees with
\* append segments", and its buffer agrees with the shadow once the queue is worked off.
TablesPublished ==
    /\ \A s \in Names : Pending(s) => DestinationsPublished(s)
    /\ \A s \in Live : IsPrefix(tables[s].slots, BufferAfter(queue, s))

\* A dispatch in the queue belongs to the append that is pending on its sequence, and when
\* the device gets to it, it finds the parameters and the pages of that append in the
\* buffers it shares with other dispatches and later publications.
DispatchesConfined ==
    \A i \in DOMAIN queue : queue[i].kind = "dispatch" =>
      LET s      == queue[i].sequence
          q      == sequences[s]
          before == SubSeq(queue, 1, i - 1)
          wrote  == SelectSeq(before, LAMBDA command : command.kind = "parameters")
          found  == IF wrote = <<>> THEN parameters
                    ELSE [start |-> Last(wrote).start, rows |-> Last(wrote).rows]
      IN  /\ Pending(s)
          /\ found = [start |-> q.position, rows |-> q.pending.rows]
          /\ IsPrefix(q.pages \o q.pending.new_pages, BufferAfter(before, s))

\* What a reader finds through the published table of a sequence.
History(s) == ReadThrough(slab, tables[s].slots, tables[s].position)

=============================================================================
