----------------------------- MODULE TokenStore -----------------------------
(***************************************************************************)
(* What the cache is for, without pages: every sequence reads back the     *)
(* tokens that were committed to it, and a retained prefix the tokens of   *)
(* the sequence it was retained from.  The manager with its pages, and     *)
(* each example backend under the manager's calls, implement this.         *)
(***************************************************************************)
EXTENDS Naturals, Sequences, Functions

CONSTANTS
    Names,         \* sequences
    Tokens         \* what one row of a page holds

VARIABLES
    history,       \* the tokens committed to each sequence, none if it does not exist
    draft,         \* the tokens written for its pending append and not committed yet
    retained       \* retained entry -> its tokens

vars == <<history, draft, retained>>

Init ==
    /\ history = [s \in Names |-> <<>>]
    /\ draft = [s \in Names |-> <<>>]
    /\ retained = <<>>

\* Some retained entries go, others stay as they are.
Evicting == \E gone \in SUBSET DOMAIN retained :
              retained' = Restrict(retained, DOMAIN retained \ gone)

\* The model writes the rows of a pending append.
Write(s) ==
    /\ draft'[s] \in Seq(Tokens) \ {<<>>}
    /\ draft' = [draft EXCEPT ![s] = draft'[s]]
    /\ UNCHANGED <<history, retained>>

\* A nonempty prefix of the draft is committed and the rest forgotten.
Commit(s) ==
    /\ \E n \in 1..Len(draft[s]) :
         history' = [history EXCEPT ![s] = @ \o SubSeq(draft[s], 1, n)]
    /\ draft' = [draft EXCEPT ![s] = <<>>]
    /\ UNCHANGED retained

Abort(s) ==
    /\ draft' = [draft EXCEPT ![s] = <<>>]
    /\ UNCHANGED <<history, retained>>

\* A new sequence starts with the tokens of another one, or of a retained entry.
Branch(s, new) ==
    /\ history[new] = <<>>
    /\ history' = [history EXCEPT ![new] = history[s]]
    /\ Evicting
    /\ UNCHANGED draft

Resume(entry, new) ==
    /\ history[new] = <<>>
    /\ history' = [history EXCEPT ![new] = retained[entry]]
    /\ Evicting
    /\ UNCHANGED draft

Finish(s) ==
    /\ draft[s] = <<>>
    /\ history' = [history EXCEPT ![s] = <<>>]
    /\ UNCHANGED <<draft, retained>>

\* The tokens of a sequence are retained under a new entry; colder entries may go.
Retain(s) ==
    /\ \E entry \in DOMAIN retained' \ DOMAIN retained :
         /\ retained'[entry] = history[s]
         /\ \E gone \in SUBSET DOMAIN retained :
              Restrict(retained', DOMAIN retained' \ {entry})
                = Restrict(retained, DOMAIN retained \ gone)
    /\ UNCHANGED <<history, draft>>

Evict == Evicting /\ UNCHANGED <<history, draft>>

Next ==
    \/ \E s \in Names : Write(s) \/ Commit(s) \/ Abort(s) \/ Finish(s) \/ Retain(s)
    \/ \E s, new \in Names : Branch(s, new)
    \/ \E entry \in DOMAIN retained, new \in Names : Resume(entry, new)
    \/ Evict

Spec == Init /\ [][Next]_vars

=============================================================================
