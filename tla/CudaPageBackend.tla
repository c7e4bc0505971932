-------------------------- MODULE CudaPageBackend --------------------------
(***************************************************************************)
(* The CUDA example backend (src/examples/cuda_paged_state.rs) under the   *)
(* calls of the manager.  Kernels are launched on a stream and run later,  *)
(* one after the other; a kernel reads the page table it was given from    *)
(* device memory when it runs.  The host waits for the stream before it    *)
(* publishes a table, copies or releases pages.                            *)
(*                                                                         *)
(* The driver's copies are taken to be complete when the call returns.     *)
(*                                                                         *)
(* An operator whose comment starts with Mutant is a wrong variant of the  *)
(* definition after it, which nothing uses.                                *)
(***************************************************************************)
EXTENDS BackendDriver

VARIABLES
    memory,          \* the rows of every page, in device memory
    tables,          \* the CudaPageTable of each sequence
    stream           \* kernels launched and not finished

vars == <<driver, pool, memory, tables, stream>>

\* Two device copies of the table, of which `active' is published.
NewTable == [device_tables |-> <<<<>>, <<>>>>, active |-> 1,
             published_addresses |-> <<>>, position |-> 0]

Init ==
    /\ DriverInit
    /\ pool = [live |-> <<>>, free_slots |-> <<>>]
    /\ memory = [page \in 1..MaxPages |-> BlankPage]
    /\ tables = [s \in Names |-> NewTable]
    /\ stream = <<>>

\* Mutant: nobody waits.
SynchronizedNever == TRUE

\* synchronize returns when every kernel has finished.
Synchronized == stream = <<>>

Inactive(table) == 3 - table.active

\* cuMemcpyHtoD replaces the start of a device table.
Transferred(device_table, pages) ==
    pages \o SubSeq(device_table, Len(pages) + 1, Len(device_table))

\* Mutant: the copies are not switched.
PublishedUnswitched(table, pages, position) ==
    [table EXCEPT !.device_tables[Inactive(table)] = Transferred(@, pages),
                  !.published_addresses = pages,
                  !.position = position]

\* publish: into the inactive copy, which then becomes the active one.
Published(table, pages, position) ==
    [device_tables |-> [table.device_tables EXCEPT
                          ![Inactive(table)] = Transferred(@, pages)],
     active |-> Inactive(table),
     published_addresses |-> pages,
     position |-> position]

Publish(s, pages, position) ==
    /\ Synchronized
    /\ tables' = [tables EXCEPT ![s] = Published(@, pages, position)]

\* publish fails: waiting for the stream, or in the transfer, which may have been done.
PublishFails(s, pages) ==
    \/ "cuStreamSynchronize" \in Faults /\ UNCHANGED tables
    \/ /\ "cuMemcpyHtoD" \in Faults
       /\ Synchronized
       /\ \/ UNCHANGED tables
          \/ tables' = [tables EXCEPT ![s].device_tables[Inactive(tables[s])] =
                                        Transferred(@, pages)]

\* admit publishes the empty table to a new context.
AdmitSequence(s) ==
    /\ Admitted(s)
    /\ Synchronized
    /\ tables' = [tables EXCEPT ![s] = Published(NewTable, <<>>, 0)]
    /\ UNCHANGED <<pool, memory, stream>>

ReserveAppend(s, rows) ==
    LET n   == NewPageCount(s, rows)
        new == AllocatedSlots(pool, n)
    IN  /\ CanReserve(s, rows)
        /\ n <= Available(pool)
        /\ pool' = Allocate(pool, n)
        /\ Reserved(s, rows, new)
        /\ IF n = 0 THEN UNCHANGED tables
                    ELSE Publish(s, sequences[s].pages \o new, sequences[s].position)
        /\ UNCHANGED <<memory, stream>>

\* A page cannot be allocated, or the table not published: the pages are rolled back.
ReserveFails(s, rows) ==
    LET n == NewPageCount(s, rows)
    IN  /\ CanReserve(s, rows)
        /\ \/ \E k \in 0..Min({n - 1, Available(pool)}) :
                /\ k = Available(pool) \/ "cuMemAlloc" \in Faults
                /\ pool' = RolledBack(pool, k)
                /\ UNCHANGED tables
           \/ /\ n \in 1..Available(pool)
              /\ pool' = RolledBack(pool, n)
              /\ PublishFails(s, sequences[s].pages \o AllocatedSlots(pool, n))
        /\ UNCHANGED <<driver, memory, stream>>

\* launch_paged_write: the kernel gets the device pointer of the active table.
LaunchPagedWrite(s, tokens) ==
    /\ Written(s, tokens)
    /\ Len(stream) < DeviceBound
    /\ stream' = Append(stream, [sequence |-> s, table |-> tables[s].active,
                                 start |-> sequences[s].position, tokens |-> tokens])
    /\ UNCHANGED <<pool, memory, tables>>

\* write_paged_rows: the next kernel of the stream runs.
RunKernel ==
    LET kernel == Head(stream)
    IN  /\ stream # <<>>
        /\ memory' = WriteThrough(memory,
                                  tables[kernel.sequence].device_tables[kernel.table],
                                  kernel.start, kernel.tokens)
        /\ stream' = Tail(stream)
        /\ UNCHANGED <<driver, pool, tables>>

CommitAppend(s, n) ==
    LET committed == sequences[s].pages \o KeptPages(s, n)
    IN  /\ CanCommit(s, n)
        /\ AllLive(pool, committed) /\ AllLive(pool, ReleasedPages(s, n))
        /\ Publish(s, committed, sequences[s].position + n)
        /\ pool' = Release(pool, ReleasedPages(s, n))
        /\ Committed(s, n)
        /\ UNCHANGED <<memory, stream>>

\* commit_append fails; the append stays pending.
CommitFails(s, n) ==
    /\ CanCommit(s, n)
    /\ PublishFails(s, sequences[s].pages \o KeptPages(s, n))
    /\ UNCHANGED <<driver, pool, memory, stream>>

AbortAppend(s) ==
    LET q == sequences[s]
    IN  /\ Pending(s)
        /\ AllLive(pool, q.pages) /\ AllLive(pool, q.pending.new_pages)
        /\ Publish(s, q.pages, q.position)
        /\ pool' = Release(pool, q.pending.new_pages)
        /\ Aborted(s)
        /\ UNCHANGED <<memory, stream>>

AbortFails(s) ==
    /\ Pending(s)
    /\ PublishFails(s, sequences[s].pages)
    /\ UNCHANGED <<driver, pool, memory, stream>>

Copies(s) == IF TailRows(s) = 0 THEN 0 ELSE 1

\* copy_partial_page, if the tail is unaligned, then update_page_table.
Branch(s, new) ==
    LET copied == AllocatedSlots(pool, Copies(s))
        pages  == CompletePages(s) \o copied
    IN  /\ CanBranch(s, new)
        /\ Copies(s) <= Available(pool)
        /\ Synchronized
        /\ pool' = Allocate(pool, Copies(s))
        /\ memory' = IF Copies(s) = 0 THEN memory
                     ELSE CopyRows(memory, Last(sequences[s].pages), copied[1], TailRows(s))
        /\ tables' = [tables EXCEPT ![new] = Published(NewTable, pages, sequences[s].position)]
        /\ Branched(s, new, pages)
        /\ UNCHANGED stream

\* The copy fails and releases its page, or the table cannot be published and the manager
\* rolls the copy back.
BranchFails(s, new) ==
    LET copied == AllocatedSlots(pool, 1)
    IN  /\ CanBranch(s, new)
        /\ Copies(s) = 1 /\ Available(pool) # 0
        /\ Synchronized
        /\ \/ "cuMemcpyDtoD" \in Faults /\ UNCHANGED memory
           \/ /\ "cuMemcpyHtoD" \in Faults
              /\ memory' = CopyRows(memory, Last(sequences[s].pages), copied[1], TailRows(s))
        /\ pool' = RolledBack(pool, 1)
        /\ UNCHANGED <<driver, tables, stream>>

\* retire_pages; the runtime drops the context with its table.
Finish(s) ==
    /\ CanFinish(s)
    /\ AllLive(pool, SolePages(s))
    /\ SolePages(s) # <<>> => Synchronized
    /\ pool' = Release(pool, SolePages(s))
    /\ tables' = [tables EXCEPT ![s] = NewTable]
    /\ Finished(s)
    /\ UNCHANGED <<memory, stream>>

Next ==
    \/ \E s \in Names : AdmitSequence(s)
    \/ \E s \in Names, rows \in 1..RowsBound : ReserveAppend(s, rows)
    \/ \E s \in Names, rows \in 1..RowsBound : ReserveFails(s, rows)
    \/ \E s \in Names, rows \in 1..RowsBound : \E tokens \in [1..rows -> Tokens] :
         LaunchPagedWrite(s, tokens)
    \/ RunKernel
    \/ \E s \in Names, n \in 1..RowsBound : CommitAppend(s, n)
    \/ \E s \in Names, n \in 1..RowsBound : CommitFails(s, n)
    \/ \E s \in Names : AbortAppend(s)
    \/ \E s \in Names : AbortFails(s)
    \/ \E s, new \in Names : Branch(s, new)
    \/ \E s, new \in Names : BranchFails(s, new)
    \/ \E s \in Names : Finish(s)

Spec == Init /\ [][Next]_vars

----------------------------------------------------------------------------

\* Type invariant of the pool, the device memory, the tables and the stream.
TypeOK ==
    /\ DriverTyped
    /\ memory \in [1..MaxPages -> [1..PageTokens -> Tokens \cup {Blank}]]
    /\ \A s \in Names :
         /\ tables[s].device_tables[1] \in Seq(1..MaxPages)
         /\ tables[s].device_tables[2] \in Seq(1..MaxPages)
         /\ tables[s].active \in 1..2
         /\ tables[s].published_addresses \in Seq(1..MaxPages)
         /\ tables[s].position \in 0..MaxPosition
    /\ stream \in Seq([sequence : Names, table : 1..2, start : 0..MaxPosition,
                       tokens : Seq(Tokens)])

\* The device reads the table that the host believes to be published, also after a
\* publication that failed in the middle of its transfer.
DeviceTableExact ==
    \A s \in Live :
      LET table == tables[s]
      IN  IsPrefix(table.published_addresses, table.device_tables[table.active])

\* A kernel that has not run yet belongs to the append that is pending on its sequence
\* and will find that append's pages in its table: it writes behind the committed
\* position, and never to a page that went back to the pool.
KernelsConfined ==
    \A i \in DOMAIN stream :
      LET kernel == stream[i]
          q      == sequences[kernel.sequence]
      IN  /\ Pending(kernel.sequence)
          /\ kernel.start = q.position
          /\ Len(kernel.tokens) = q.pending.rows
          /\ IsPrefix(q.pages \o q.pending.new_pages,
                      tables[kernel.sequence].device_tables[kernel.table])

\* Once the stream is idle the written span is in device memory, behind the history.
SpanReadable ==
    \A s \in Live : draft[s] # <<>> /\ stream = <<>> =>
      LET q == sequences[s]
      IN  ReadThrough(memory, tables[s].published_addresses, q.position + q.pending.rows)
            = ReadThrough(memory, q.pages, q.position) \o draft[s]

\* What a reader finds through the published table of a sequence.
History(s) == ReadThrough(memory, tables[s].published_addresses, tables[s].position)

=============================================================================
