---------------------------- MODULE AppendBatch ----------------------------
(***************************************************************************)
(* Append reservations as capabilities (src/src/manager.rs): nonces, what  *)
(* validate_reservation accepts, the backend transaction behind a pending  *)
(* append, and the batch calls, which stop at the first item that fails    *)
(* and hand back what is still pending.                                    *)
(*                                                                         *)
(* The runtime may clone a reservation and replay it at any time.  A batch *)
(* cannot be cloned: the runtime holds it until it gives it to a call,     *)
(* which works on one item at a time.  A call runs alone (&mut self); one  *)
(* that fails without changing anything is a stuttering step unless it is  *)
(* an item of a batch.                                                     *)
(*                                                                         *)
(* Capacity, page counts and page generations are SequenceCache's subject. *)
(* Here pages never run out, and a page is named by the append that        *)
(* inserted it and its place there, since no page handle ever names two    *)
(* pages (HandlesNeverRevive).                                             *)
(*                                                                         *)
(* An operator whose comment starts with Mutant is a wrong variant of the  *)
(* definition after it, which nothing uses.                                *)
(***************************************************************************)
EXTENDS Integers, FiniteSets, FiniteSetsExt, Functions, Sequences, SequencesExt,
        Subsequences

CONSTANTS
    PageTokens,      \* CacheConfig::page_tokens
    MaxNonce,        \* u64::MAX of the append nonces, scaled down
    MaxGeneration,   \* u32::MAX of the sequence generations, scaled down
    Slots,           \* slots of the sequence arena
    MaxPosition,     \* AdmissionRequest::max_position
    RowsBound,       \* exploration bound: rows of one append
    BatchBound,      \* exploration bound: items of one batch
    Faults           \* backend calls that may fail

ASSUME AppendAssumption ==
    /\ PageTokens \in Nat \ {0}
    /\ MaxNonce \in Nat
    /\ MaxGeneration \in Nat
    /\ MaxPosition \in Nat
    /\ RowsBound \in Nat
    /\ BatchBound \in Nat
    /\ Faults \subseteq {"allocate", "prepare", "publish", "commit", "abort"}

VARIABLES
    sequences,       \* slot -> SequenceRecord
    append_nonce,
    transactions,    \* nonce -> what became of the backend's AppendTransaction
    tables,          \* slot -> the page table its context published
    call,            \* the batch call in progress
    batches,         \* the AppendBatch values the runtime holds
    issued,          \* every reservation ever returned: the runtime may hold clones
    finalised        \* reservations that a successful commit or abort was given

vars == <<sequences, append_nonce, transactions, tables, call, batches, issued, finalised>>

----------------------------------------------------------------------------
(* Sequences and reservations. *)

Nonces == 0..(MaxNonce - 1)

NoPending ==
    [nonce |-> MaxNonce, start_position |-> 0, rows |-> 0, segments |-> <<>>,
     new_pages |-> <<>>, prepared |-> <<>>]

Vacant(generation) ==
    [generation |-> generation, live |-> FALSE, position |-> 0, pages |-> <<>>,
     pending |-> NoPending]

\* sequence_record succeeds.
LiveSequence(id) ==
    /\ id.slot \in Slots
    /\ sequences[id.slot].live
    /\ sequences[id.slot].generation = id.generation

HasPending(id) == sequences[id.slot].pending # NoPending

\* Mutant: reservations of equal spans are interchangeable.
ValidatesBySpan(r) ==
    /\ LiveSequence(r.sequence)
    /\ HasPending(r.sequence)
    /\ LET p == sequences[r.sequence.slot].pending
       IN  /\ p.start_position = r.start_position
           /\ p.rows = r.rows
           /\ p.segments = r.segments

\* validate_reservation.
Validates(r) ==
    /\ LiveSequence(r.sequence)
    /\ HasPending(r.sequence)
    /\ LET p == sequences[r.sequence.slot].pending
       IN  /\ p.start_position = r.start_position
           /\ p.rows = r.rows
           /\ p.segments = r.segments
           /\ p.nonce = r.nonce

DivCeil(n) == (n + PageTokens - 1) \div PageTokens

NewPages(q, rows, nonce) ==
    [i \in 1..(DivCeil(q.position + rows) - Len(q.pages)) |-> [append |-> nonce, index |-> i]]

\* The segments of an append: one for each logical page that it touches.
Segments(q, rows, new_pages) ==
    LET first == q.position \div PageTokens
        last  == (q.position + rows - 1) \div PageTokens
        offset(i) == IF i = 1 THEN q.position % PageTokens ELSE 0
        input(i)  == IF i = 1 THEN 0 ELSE (first + i - 1) * PageTokens - q.position
    IN  [i \in 1..(last - first + 1) |->
          [page |-> (q.pages \o new_pages)[first + i],
           page_offset |-> offset(i),
           input_offset |-> input(i),
           rows |-> Min({rows - input(i), PageTokens - offset(i)})]]

\* Mutant: the rows of a new page are counted from the start of the page.
PreparedPagesUnshifted(q, rows, new_pages) ==
    LET offset == q.position % PageTokens
        tail   == IF offset = 0 THEN <<>>
                  ELSE <<[page |-> Last(q.pages), page_offset |-> offset, input_offset |-> 0,
                          rows |-> Min({rows, PageTokens - offset}), existing |-> TRUE]>>
    IN  tail \o [i \in DOMAIN new_pages |->
                   [page |-> new_pages[i], page_offset |-> 0,
                    input_offset |-> (i - 1) * PageTokens,
                    rows |-> Min({rows - (i - 1) * PageTokens, PageTokens}),
                    existing |-> FALSE]]

\* The BackendAppendPage list that prepare_append is given, before the pages have handles:
\* the writable tail, then the allocations.
PreparedPages(q, rows, new_pages) ==
    LET offset == q.position % PageTokens
        filled == IF offset = 0 THEN 0 ELSE Min({rows, PageTokens - offset})
        tail   == IF offset = 0 THEN <<>>
                  ELSE <<[page |-> Last(q.pages), page_offset |-> offset, input_offset |-> 0,
                          rows |-> filled, existing |-> TRUE]>>
        input(i) == filled + (i - 1) * PageTokens
    IN  tail \o [i \in DOMAIN new_pages |->
                   [page |-> new_pages[i], page_offset |-> 0, input_offset |-> input(i),
                    rows |-> Min({rows - input(i), PageTokens}), existing |-> FALSE]]

----------------------------------------------------------------------------
(* reserve_append, commit_append and abort_append, for the calls that make them. *)

\* Mutant: the admitted maximum is not checked.
CanReserveUnchecked(id, rows) ==
    /\ rows # 0
    /\ LiveSequence(id)
    /\ ~HasPending(id)
    /\ append_nonce < MaxNonce

CanReserve(id, rows) ==
    /\ rows # 0
    /\ LiveSequence(id)
    /\ ~HasPending(id)
    /\ sequences[id.slot].position + rows <= MaxPosition
    /\ append_nonce < MaxNonce

Reservation(id, rows) ==
    LET q == sequences[id.slot]
    IN  [sequence |-> id, start_position |-> q.position, rows |-> rows,
         segments |-> Segments(q, rows, NewPages(q, rows, append_nonce)),
         nonce |-> append_nonce]

\* The table is published only if the append has new pages.
ReserveAppend(id, rows) ==
    LET q   == sequences[id.slot]
        new == NewPages(q, rows, append_nonce)
    IN  /\ CanReserve(id, rows)
        /\ sequences' = [sequences EXCEPT ![id.slot].pending =
             [nonce |-> append_nonce, start_position |-> q.position, rows |-> rows,
              segments |-> Segments(q, rows, new), new_pages |-> new,
              prepared |-> PreparedPages(q, rows, new)]]
        /\ tables' = IF new = <<>> THEN tables
                     ELSE [tables EXCEPT ![id.slot] =
                             [pages |-> q.pages \o new, position |-> q.position]]
        /\ transactions' = [transactions EXCEPT ![append_nonce] = "open"]
        /\ append_nonce' = append_nonce + 1
        /\ issued' = issued \cup {Reservation(id, rows)}
        /\ UNCHANGED finalised

\* Mutant: the table is published before the transaction is prepared.
ReserveFailsPublished(id, rows) ==
    LET q   == sequences[id.slot]
        new == NewPages(q, rows, append_nonce)
    IN  /\ CanReserve(id, rows)
        /\ "prepare" \in Faults
        /\ tables' = [tables EXCEPT ![id.slot] =
                        [pages |-> q.pages \o new, position |-> q.position]]
        /\ append_nonce' = append_nonce + 1
        /\ UNCHANGED <<sequences, transactions, issued, finalised>>

\* The backend fails after the nonce was taken; when it fails to publish, the prepared
\* transaction is dropped.
ReserveFails(id, rows) ==
    /\ CanReserve(id, rows)
    /\ append_nonce' = append_nonce + 1
    /\ \/ /\ "allocate" \in Faults /\ NewPages(sequences[id.slot], rows, 0) # <<>>
          /\ UNCHANGED transactions
       \/ /\ "prepare" \in Faults
          /\ UNCHANGED transactions
       \/ /\ "publish" \in Faults /\ NewPages(sequences[id.slot], rows, 0) # <<>>
          /\ transactions' = [transactions EXCEPT ![append_nonce] = "dropped"]
    /\ UNCHANGED <<sequences, tables, issued, finalised>>

ValidRows(r, rows) == rows \in 1..r.rows

CommitAppend(r, rows) ==
    LET q    == sequences[r.sequence.slot]
        kept == SubSeq(q.pending.new_pages, 1,
                       DivCeil(r.start_position + rows) - Len(q.pages))
    IN  /\ Validates(r)
        /\ ValidRows(r, rows)
        /\ sequences' = [sequences EXCEPT ![r.sequence.slot] =
             [q EXCEPT !.pages = q.pages \o kept, !.position = r.start_position + rows,
                       !.pending = NoPending]]
        /\ tables' = [tables EXCEPT ![r.sequence.slot] =
             [pages |-> q.pages \o kept, position |-> r.start_position + rows]]
        /\ transactions' = [transactions EXCEPT ![q.pending.nonce] = "committed"]
        /\ finalised' = finalised \cup {r}
        /\ UNCHANGED <<append_nonce, issued>>

AbortAppend(r) ==
    LET q == sequences[r.sequence.slot]
    IN  /\ Validates(r)
        /\ sequences' = [sequences EXCEPT ![r.sequence.slot].pending = NoPending]
        /\ tables' = [tables EXCEPT ![r.sequence.slot] =
             [pages |-> q.pages, position |-> q.position]]
        /\ transactions' = [transactions EXCEPT ![q.pending.nonce] = "aborted"]
        /\ finalised' = finalised \cup {r}
        /\ UNCHANGED <<append_nonce, issued>>

----------------------------------------------------------------------------
(* The runtime's calls. *)

NoCall == [kind |-> "none", items |-> <<>>, rows |-> <<>>, sized |-> TRUE, next |-> 0,
           got |-> <<>>]

Idle == call = NoCall

Init ==
    /\ sequences = [s \in Slots |-> Vacant(0)]
    /\ append_nonce = 0
    /\ transactions = [n \in Nonces |-> "none"]
    /\ tables = [s \in Slots |-> [pages |-> <<>>, position |-> 0]]
    /\ call = NoCall
    /\ batches = {}
    /\ issued = {}
    /\ finalised = {}

\* admit of a fresh sequence.
Admit(s) ==
    /\ Idle
    /\ ~sequences[s].live
    /\ sequences' = [sequences EXCEPT ![s].live = TRUE]
    /\ tables' = [tables EXCEPT ![s] = [pages |-> <<>>, position |-> 0]]
    /\ UNCHANGED <<append_nonce, transactions, call, batches, issued, finalised>>

\* finish: refused while an append is pending.
Finish(s) ==
    /\ Idle
    /\ sequences[s].live
    /\ sequences[s].pending = NoPending
    /\ sequences[s].generation < MaxGeneration
    /\ sequences' = [sequences EXCEPT ![s] = Vacant(@.generation + 1)]
    /\ UNCHANGED <<append_nonce, transactions, tables, call, batches, issued, finalised>>

\* A reservation, or a clone of one, is finalised by itself.
CommitOne(r, rows) == Idle /\ CommitAppend(r, rows) /\ UNCHANGED <<call, batches>>

AbortOne(r) == Idle /\ AbortAppend(r) /\ UNCHANGED <<call, batches>>

\* A batch call returns; a batch it gives back is the runtime's again.
Return(pending) ==
    /\ call' = NoCall
    /\ batches' = IF pending = <<>> THEN batches ELSE batches \cup {pending}

Machine == <<sequences, append_nonce, transactions, tables, issued, finalised>>

\* reserve_append_batch, with as many contexts as requests (it returns at once, with
\* nothing reserved, otherwise).  A reservation made alone is a batch of one.  Once no
\* nonce is left every item is refused, and the runtime stops asking.
ReserveBatch(requests) ==
    /\ Idle
    /\ append_nonce < MaxNonce
    /\ call' = [NoCall EXCEPT !.kind = "reserve", !.items = requests, !.next = 1]
    /\ UNCHANGED <<Machine, batches>>

Item == call.items[call.next]
InLoop(kind) == call.kind = kind /\ call.next \in DOMAIN call.items
AfterLoop == call.kind # "none" /\ call.next > Len(call.items)

ReserveItem ==
    /\ InLoop("reserve")
    /\ ReserveAppend(Item.sequence, Item.rows)
    /\ call' = [call EXCEPT !.next = @ + 1,
                            !.got = Append(@, Reservation(Item.sequence, Item.rows))]
    /\ UNCHANGED batches

\* The item fails: the earlier reservations are returned and later items not attempted.
ReserveItemFails ==
    /\ InLoop("reserve")
    /\ \/ ReserveFails(Item.sequence, Item.rows)
       \/ ~CanReserve(Item.sequence, Item.rows) /\ UNCHANGED Machine
    /\ Return(call.got)

\* commit_append_batch and abort_append_batch consume the batch.  `sized': whether the
\* row counts and the contexts are as many as the reservations.
FinalizeBatch(kind, batch, rows, sized) ==
    /\ Idle
    /\ call' = [NoCall EXCEPT !.kind = kind, !.items = batch, !.rows = rows,
                              !.sized = sized]
    /\ batches' = batches \ {batch}
    /\ UNCHANGED Machine

\* Mutant: a batch that fails validation is given back as it was.
PendingBatchUnfiltered(items) ==
    IF call.next = 0 THEN items ELSE SubSeq(items, call.next, Len(items))

\* Mutant: the failed item is left out with the ones before it.
PendingBatchUnattempted(items) ==
    IF call.next = 0 THEN SelectSeq(items, Validates)
                     ELSE SubSeq(items, call.next + 1, Len(items))

\* pending_append_batch: the reservations that validate, the first for each sequence.
PendingBatch(items) ==
    LET first(i) == \A j \in 1..(i - 1) : items[j].sequence # items[i].sequence
    IN  Filtered(items, {i \in DOMAIN items : first(i) /\ Validates(items[i])})

Finalizing == call.kind \in {"commit", "abort"}

ItemsValid ==
    \A i \in DOMAIN call.items :
      /\ Validates(call.items[i])
      /\ call.kind = "commit" => ValidRows(call.items[i], call.rows[i])

\* The loop that validates every item before the first is finalised.
ValidateBatch ==
    /\ Finalizing
    /\ call.next = 0
    /\ call.sized
    /\ ItemsValid
    /\ call' = [call EXCEPT !.next = 1]
    /\ UNCHANGED <<Machine, batches>>

RejectBatch ==
    /\ Finalizing
    /\ call.next = 0
    /\ ~(call.sized /\ ItemsValid)
    /\ Return(PendingBatch(call.items))
    /\ UNCHANGED Machine

CommitItem == InLoop("commit") /\ CommitAppend(Item, call.rows[call.next])

AbortItem == InLoop("abort") /\ AbortAppend(Item)

FinalizeItem ==
    /\ CommitItem \/ AbortItem
    /\ call' = [call EXCEPT !.next = @ + 1]
    /\ UNCHANGED batches

FinalizeItemFails ==
    /\ call.kind \in Faults
    /\ InLoop("commit") \/ InLoop("abort")
    /\ Return(PendingBatch(call.items))
    /\ UNCHANGED Machine

\* Every item was done.
BatchDone ==
    /\ AfterLoop
    /\ Return(call.got)
    /\ UNCHANGED Machine

SequenceIds == [slot : Slots, generation : 0..MaxGeneration]

Requests == [sequence : SequenceIds, rows : 1..RowsBound]

Next ==
    \/ \E s \in Slots : Admit(s)
    \/ \E s \in Slots : Finish(s)
    \/ \E r \in issued, rows \in 1..RowsBound : CommitOne(r, rows)
    \/ \E r \in issued : AbortOne(r)
    \/ \E n \in 1..BatchBound : \E requests \in [1..n -> Requests] : ReserveBatch(requests)
    \/ ReserveItem
    \/ ReserveItemFails
    \/ \E batch \in batches : \E rows \in [DOMAIN batch -> 0..RowsBound] :
         FinalizeBatch("commit", batch, rows, TRUE)
    \/ \E batch \in batches : FinalizeBatch("abort", batch, <<>>, TRUE)
    \/ \E batch \in batches, kind \in {"commit", "abort"} :
         FinalizeBatch(kind, batch, <<>>, FALSE)
    \/ ValidateBatch
    \/ RejectBatch
    \/ FinalizeItem
    \/ FinalizeItemFails
    \/ BatchDone

Spec == Init /\ [][Next]_vars

----------------------------------------------------------------------------

PageHandle == [append : Nonces, index : Nat]

Segment == [page : PageHandle, page_offset : Nat, input_offset : Nat, rows : Nat]

Pending ==
    [nonce : 0..MaxNonce, start_position : Nat, rows : Nat, segments : Seq(Segment),
     new_pages : Seq(PageHandle),
     prepared : Seq([page : PageHandle, page_offset : Nat, input_offset : Nat, rows : Nat,
                     existing : BOOLEAN])]

\* Type invariant of the sequences, the transactions and the call in progress.
TypeOK ==
    /\ sequences \in [Slots -> [generation : 0..MaxGeneration, live : BOOLEAN,
                                position : 0..MaxPosition, pages : Seq(PageHandle),
                                pending : Pending]]
    /\ append_nonce \in 0..MaxNonce
    /\ transactions \in [Nonces -> {"none", "open", "committed", "aborted", "dropped"}]
    /\ tables \in [Slots -> [pages : Seq(PageHandle), position : 0..MaxPosition]]
    /\ call.kind \in {"none", "reserve", "commit", "abort"}
    /\ call.next \in 0..(Len(call.items) + 1)
    /\ finalised \subseteq issued

Live == {s \in Slots : sequences[s].live}

PendingNonces == {sequences[s].pending.nonce : s \in Live} \ {MaxNonce}

\* A reservation stays pending until a successful call was given that very reservation:
\* no replayed clone, of this or another sequence, finalises it in its place, not even
\* one of an equal span in the same tail page (validate_reservation; AppendReservation:
\* "consumed by exactly one" commit or abort).
ReservationsStayPending ==
    /\ \A r \in issued : r.nonce \in PendingNonces <=> r \notin finalised
    /\ \A r, other \in issued : r.nonce = other.nonce => r = other

\* The reservations in the runtime's hands, and in those of the call in progress.
HeldReservations ==
    (UNION {Range(batch) : batch \in batches})
      \cup (IF Finalizing THEN Range(call.items) ELSE Range(call.got))

\* Whatever fails in the middle of a batch call, every append that is pending is one the
\* runtime still holds a reservation for, so that it can be retried or aborted: no
\* sequence is stuck with an append nobody can finish (AppendBatchError).
NoReservationLost == PendingNonces \subseteq {r.nonce : r \in HeldReservations}

\* A failed batch call gives back exactly the supplied reservations that are still
\* pending, in the supplied order (commit_append_batch: "owns exactly those reservations
\* in the supplied batch which are still pending").
BatchErrorExact ==
    [][Finalizing /\ call' = NoCall =>
         batches' \ batches =
           {Filtered(call.items, {i \in DOMAIN call.items :
                                    call.items[i].nonce \in PendingNonces'})} \ {<<>>}]_vars

\* A backend transaction is open exactly while its append is pending, and a live context
\* reads only pages of the append that is pending on it or of committed ones: a
\* transaction that was dropped or aborted never has a published page (reserve_append).
TransactionsExact ==
    /\ \A n \in Nonces : transactions[n] = "open" <=> n \in PendingNonces
    /\ \A s \in Live : \A i \in DOMAIN tables[s].pages :
         LET n == tables[s].pages[i].append
         IN  \/ transactions[n] = "committed"
             \/ transactions[n] = "open" /\ n = sequences[s].pending.nonce

\* Every input row of a pending append is in exactly one segment, which puts it where the
\* published table has that position; and the pages the backend prepared are these
\* segments, the tail marked as existing (reserve_append computes them twice: before the
\* pages have handles, and after).
SegmentsExact ==
    \A s \in Live :
      LET q    == sequences[s]
          p    == q.pending
          hit(k) == {i \in DOMAIN p.segments :
                       k - p.segments[i].input_offset \in 0..(p.segments[i].rows - 1)}
      IN  p # NoPending =>
            /\ \A k \in 0..(p.rows - 1) : \E i \in DOMAIN p.segments :
                 /\ hit(k) = {i}
                 /\ p.segments[i].page = tables[s].pages[((q.position + k) \div PageTokens) + 1]
                 /\ p.segments[i].page_offset + k - p.segments[i].input_offset
                      = (q.position + k) % PageTokens
            /\ Len(p.prepared) = Len(p.segments)
            /\ \A i \in DOMAIN p.prepared :
                 /\ \A field \in {"page", "page_offset", "input_offset", "rows"} :
                      p.prepared[i][field] = p.segments[i][field]
                 /\ p.prepared[i].existing = (p.prepared[i].page \in Range(q.pages))

=============================================================================
