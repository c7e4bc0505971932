-------------------------- MODULE MCSequenceCache --------------------------
(***************************************************************************)
(* Small instances of SequenceCache for TLC.                               *)
(***************************************************************************)
EXTENDS SequenceCache

Request(max_position, private, emergency) ==
    [max_position |-> max_position, private_state_bytes |-> private,
     page_table_bytes |-> 1, allow_emergency |-> emergency]

\* One page with private state and the emergency bytes left alone; or two pages, the
\* second one half used.
MCRequests == {Request(2, 1, FALSE), Request(3, 0, TRUE)}

\* Sequences of at most one page.
ShortRequests == {Request(1, 0, TRUE), Request(2, 0, TRUE)}

LongRequest == {Request(3, 0, TRUE)}

\* One page of two tokens; or two pages of one token, so that a sequence can be retained
\* at both lengths.
ShortRequest == {Request(2, 1, FALSE)}

Symmetry == Permutations(PhysicalPages) \cup Permutations(Blocks)

=============================================================================
