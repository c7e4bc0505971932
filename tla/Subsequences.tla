---------------------------- MODULE Subsequences ----------------------------
(***************************************************************************)
(* What a filter keeps of a sequence, by the places it keeps.  SelectSeq   *)
(* of the standard modules computes the same from a predicate, but is      *)
(* opaque to the proof system.                                             *)
(***************************************************************************)
EXTENDS Naturals, FiniteSets, Sequences

\* The n-th of a set of places.
Place(places, n) == CHOOSE i \in places : Cardinality({j \in places : j <= i}) = n

\* The elements of a sequence at some of its places, in their order.
Filtered(seq, places) == [n \in 1..Cardinality(places) |-> seq[Place(places, n)]]

=============================================================================
