------------------------------ MODULE PageRows ------------------------------
(***************************************************************************)
(* The rows of physical pages: how a model writes an append through a page *)
(* table, how a tail is copied, and what a reader finds through a table.   *)
(***************************************************************************)
EXTENDS Integers

CONSTANTS
    PageTokens,      \* rows of a page
    Blank            \* a row that nothing was written to

ASSUME PageRowsAssumption == PageTokens \in Nat \ {0}

BlankPage == [row \in 1..PageTokens |-> Blank]

\* The rows from `start' on are written through a table of pages.
WriteThrough(slab, table, start, tokens) ==
    [page \in DOMAIN slab |-> [row \in 1..PageTokens |->
      LET hits == {k \in DOMAIN tokens :
                     /\ table[((start + k - 1) \div PageTokens) + 1] = page
                     /\ (start + k - 1) % PageTokens = row - 1}
      IN  IF hits = {} THEN slab[page][row] ELSE tokens[CHOOSE k \in hits : TRUE]]]

\* The first rows of a page are copied into another one.
CopyRows(slab, from, to, rows) ==
    [slab EXCEPT ![to] = [row \in 1..PageTokens |->
                            IF row <= rows THEN slab[from][row] ELSE @[row]]]

\* The tokens that a reader finds through a published table.
ReadThrough(slab, table, position) ==
    [k \in 1..position |->
       slab[table[((k - 1) \div PageTokens) + 1]][((k - 1) % PageTokens) + 1]]

=============================================================================
