----------------------------- MODULE PrefixMap -----------------------------
(***************************************************************************)
(* What the prefix index promises the manager: a map from token prefixes,  *)
(* as sequences of whole blocks, to entries, with longest-prefix lookup.   *)
(* Block ids, interning and reference counts do not appear.                *)
(***************************************************************************)
EXTENDS Naturals, Sequences, SequencesExt, Functions

CONSTANT Blocks    \* contents of one page-sized run of tokens

VARIABLES
    entries,       \* token prefix -> entry id
    request,       \* the prefix that a retention in progress will insert, or <<>>
    next_id,       \* the id of the next entry
    query,         \* the query that the last call was, or NoQuery
    answer         \* the entry it found, as a set of at most one id

vars == <<entries, request, next_id, query, answer>>

NoQuery == [kind |-> "none", tokens |-> <<>>]

Init ==
    /\ entries = <<>>
    /\ request = <<>>
    /\ next_id = 0
    /\ query = NoQuery
    /\ answer = {}

\* The entry of the longest retained prefix that starts the tokens.
LongestEntry(tokens) ==
    LET found == {t \in DOMAIN entries : IsPrefix(t, tokens)}
    IN  {entries[t] : t \in {u \in found : \A other \in found : Len(other) <= Len(u)}}

ExactEntry(tokens) == IF tokens \in DOMAIN entries THEN {entries[tokens]} ELSE {}

Ask ==
    /\ request = <<>>
    /\ query' \in [kind : {"longest", "exact"}, tokens : Seq(Blocks)]
    /\ answer' = IF query'.kind = "longest" THEN LongestEntry(query'.tokens)
                                            ELSE ExactEntry(query'.tokens)
    /\ UNCHANGED <<entries, request, next_id>>

NoAnswer == query' = NoQuery /\ answer' = {}

Begin ==
    /\ request = <<>>
    /\ request' \in Seq(Blocks) \ ({<<>>} \cup DOMAIN entries)
    /\ NoAnswer
    /\ UNCHANGED <<entries, next_id>>

GiveUp ==
    /\ request # <<>>
    /\ request' = <<>>
    /\ NoAnswer
    /\ UNCHANGED <<entries, next_id>>

Insert ==
    /\ request # <<>>
    /\ entries' = [t \in DOMAIN entries \cup {request} |->
                     IF t = request THEN next_id ELSE entries[t]]
    /\ request' = <<>>
    /\ next_id' = next_id + 1
    /\ NoAnswer

Evict ==
    /\ \E t \in DOMAIN entries : entries' = Restrict(entries, DOMAIN entries \ {t})
    /\ NoAnswer
    /\ UNCHANGED <<request, next_id>>

Next == Ask \/ Begin \/ GiveUp \/ Insert \/ Evict

Spec == Init /\ [][Next]_vars

=============================================================================
