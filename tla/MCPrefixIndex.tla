--------------------------- MODULE MCPrefixIndex ---------------------------
(***************************************************************************)
(* Small instances of PrefixIndex for TLC.                                 *)
(***************************************************************************)
EXTENDS PrefixIndex

Symmetry == Permutations(Blocks)

=============================================================================
