--------------------------- MODULE MCAppendBatch ---------------------------
(***************************************************************************)
(* Small instances of AppendBatch for TLC.                                 *)
(***************************************************************************)
EXTENDS AppendBatch, TLC

Symmetry == Permutations(Slots)

=============================================================================
