------------------------- MODULE MCExampleBackends -------------------------
(***************************************************************************)
(* Small instances of ExampleBackends for TLC.                             *)
(***************************************************************************)
EXTENDS ExampleBackends, TLC

Symmetry == Permutations(Names) \cup Permutations(Tokens)

=============================================================================
