--------------------------- MODULE MCContentCache ---------------------------
(***************************************************************************)
(* Small instances of ContentCache for TLC.                                *)
(***************************************************************************)
EXTENDS ContentCache

TokenBlocks == [1..PageTokens -> Tokens]

\* Two pages, the second one half used.
ContentRequests ==
    {[max_position |-> 3, private_state_bytes |-> 0, page_table_bytes |-> 1,
      allow_emergency |-> TRUE]}

ContentSymmetry == Permutations(PhysicalPages) \cup Permutations(Tokens)

=============================================================================
