--------------------------- MODULE BackendDriver ---------------------------
(***************************************************************************)
(* How the manager and the runtime drive a backend, for the three example  *)
(* backends (src/examples): the manager's side of each call, and the pool  *)
(* of page slots, which the backends keep in the same way.                 *)
(*                                                                         *)
(* The manager is reduced to what a backend sees of it: which pages a      *)
(* sequence owns, shares and has reserved.  There is no admission control  *)
(* here, so a backend can also run out of pages.                           *)
(***************************************************************************)
EXTENDS PageRows, FiniteSets, FiniteSetsExt, Functions, Sequences, SequencesExt

CONSTANTS
    MaxPages,        \* MAX_PHYSICAL_PAGES
    MaxPosition,     \* MAX_SEQUENCE_TOKENS
    Names,           \* sequences, each with its own context and page table
    Tokens,          \* what the model writes into one row
    RowsBound,       \* exploration bound: rows of one append
    DeviceBound,     \* exploration bound: appends written and not executed by a device
    Faults           \* calls of a device's driver that may fail

ASSUME DriverAssumption ==
    /\ MaxPages \in Nat
    /\ MaxPosition \in Nat
    /\ RowsBound \in Nat
    /\ DeviceBound \in Nat
    /\ Faults \subseteq {"cuStreamSynchronize", "cuMemcpyHtoD", "cuMemcpyDtoD",
                         "cuMemAlloc", "Device::poll"}
    /\ Blank \notin Tokens

VARIABLES
    sequences,       \* the manager's record of each sequence
    draft,           \* the tokens written for its pending append
    pool             \* the backend's live and free_slots

driver == <<sequences, draft>>

----------------------------------------------------------------------------
(* The manager's records. *)

NoAppend == [rows |-> 0, new_pages |-> <<>>]

NotLive == [live |-> FALSE, pages |-> <<>>, position |-> 0, pending |-> NoAppend]

Live == {s \in Names : sequences[s].live}

DivCeil(n) == (n + PageTokens - 1) \div PageTokens

Pending(s) == sequences[s].live /\ sequences[s].pending # NoAppend

NewPageCount(s, rows) == DivCeil(sequences[s].position + rows) - Len(sequences[s].pages)

\* The pages that a commit of n rows keeps, and the ones it releases.
KeptPages(s, n) ==
    SubSeq(sequences[s].pending.new_pages, 1,
           DivCeil(sequences[s].position + n) - Len(sequences[s].pages))

ReleasedPages(s, n) ==
    SubSeq(sequences[s].pending.new_pages, Len(KeptPages(s, n)) + 1,
           Len(sequences[s].pending.new_pages))

CompletePages(s) == SubSeq(sequences[s].pages, 1, sequences[s].position \div PageTokens)

TailRows(s) == sequences[s].position % PageTokens

\* The pages of s that no other sequence shares, in table order.
SolePages(s) ==
    SelectSeq(sequences[s].pages, LAMBDA page :
      \A other \in Live \ {s} : page \notin Range(sequences[other].pages))

DriverInit ==
    /\ sequences = [s \in Names |-> NotLive]
    /\ draft = [s \in Names |-> <<>>]

Admitted(s) ==
    /\ ~sequences[s].live
    /\ sequences' = [sequences EXCEPT ![s] = [NotLive EXCEPT !.live = TRUE]]
    /\ UNCHANGED draft

CanReserve(s, rows) ==
    /\ s \in Live
    /\ ~Pending(s)
    /\ sequences[s].position + rows <= MaxPosition

Reserved(s, rows, new_pages) ==
    /\ sequences' = [sequences EXCEPT ![s].pending = [rows |-> rows, new_pages |-> new_pages]]
    /\ UNCHANGED draft

\* with_append_pages: the model has written the whole span.
Written(s, tokens) ==
    /\ Pending(s)
    /\ Len(tokens) = sequences[s].pending.rows
    /\ draft' = [draft EXCEPT ![s] = tokens]
    /\ UNCHANGED sequences

\* The runtime commits what the model wrote, or a prefix of it.
CanCommit(s, n) == Pending(s) /\ n \in 1..Len(draft[s])

Committed(s, n) ==
    /\ sequences' = [sequences EXCEPT ![s] =
         [live |-> TRUE, pages |-> sequences[s].pages \o KeptPages(s, n),
          position |-> sequences[s].position + n, pending |-> NoAppend]]
    /\ draft' = [draft EXCEPT ![s] = <<>>]

Aborted(s) ==
    /\ sequences' = [sequences EXCEPT ![s].pending = NoAppend]
    /\ draft' = [draft EXCEPT ![s] = <<>>]

\* branch shares the complete pages and owns the copy of an unaligned tail.
CanBranch(s, new) ==
    /\ s \in Live
    /\ ~Pending(s)
    /\ new \notin Live

Branched(s, new, pages) ==
    /\ sequences' = [sequences EXCEPT ![new] =
         [NotLive EXCEPT !.live = TRUE, !.pages = pages, !.position = sequences[s].position]]
    /\ UNCHANGED draft

CanFinish(s) == s \in Live /\ ~Pending(s)

Finished(s) ==
    /\ sequences' = [sequences EXCEPT ![s] = NotLive]
    /\ UNCHANGED draft

----------------------------------------------------------------------------
(* The pool: a flag per slot and a stack of free ones. *)

\* The slot of the i-th of several allocations: popped, then grown.
AllocatedSlot(p, i) ==
    LET free == Len(p.free_slots)
    IN  IF i <= free THEN p.free_slots[free + 1 - i] ELSE Len(p.live) + i - free

AllocatedSlots(p, n) == [i \in 1..n |-> AllocatedSlot(p, i)]

\* Mutant: the limit is checked after the pool has grown past it.
AvailableBeyond(p) == Len(p.free_slots) + MaxPages + 1 - Len(p.live)

Available(p) == Len(p.free_slots) + MaxPages - Len(p.live)

Allocate(p, n) ==
    LET free  == Len(p.free_slots)
        taken == Range(AllocatedSlots(p, n))
    IN  [live |-> [s \in 1..(Len(p.live) + Max({n - free, 0})) |->
                     s \in taken \/ (s \in DOMAIN p.live /\ p.live[s])],
         free_slots |-> SubSeq(p.free_slots, 1, Max({free - n, 0}))]

\* Mutant: a released slot is not marked.
ReleaseUnmarked(p, pages) == [p EXCEPT !.free_slots = @ \o pages]

\* release of each page in turn.
Release(p, pages) ==
    [live |-> [s \in DOMAIN p.live |-> p.live[s] /\ s \notin Range(pages)],
     free_slots |-> p.free_slots \o pages]

\* n pages are allocated, a later step fails, and they are rolled back, last one first.
RolledBack(p, n) == Release(Allocate(p, n), Reverse(AllocatedSlots(p, n)))

LiveSlots(p) == {s \in DOMAIN p.live : p.live[s]}

\* validate_pages.
AllLive(p, pages) == Range(pages) \subseteq LiveSlots(p)

----------------------------------------------------------------------------
(* What every backend keeps. *)

DriverTyped ==
    /\ sequences \in [Names -> [live : BOOLEAN, pages : Seq(1..MaxPages),
                                position : 0..MaxPosition,
                                pending : [rows : 0..RowsBound,
                                           new_pages : Seq(1..MaxPages)]]]
    /\ draft \in [Names -> Seq(Tokens)]
    /\ pool \in [live : Seq(BOOLEAN), free_slots : Seq(1..MaxPages)]
    /\ Len(pool.live) <= MaxPages

\* The slots of the pool that are live are exactly `owned', and the stack names every
\* other slot once.
PoolOwns(owned) ==
    /\ LiveSlots(pool) = owned
    /\ IsInjective(pool.free_slots)
    /\ Range(pool.free_slots) = DOMAIN pool.live \ owned

OwnedPages ==
    UNION {Range(sequences[s].pages \o sequences[s].pending.new_pages) : s \in Live}

=============================================================================
