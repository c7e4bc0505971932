---------------------------- MODULE ContentCache ----------------------------
(***************************************************************************)
(* The manager together with the rows in the pages: a runtime writes the   *)
(* pages of its reservations, retains what it has written under the tokens *)
(* it wrote, and reads through the published tables.  This is the whole    *)
(* system seen from a runtime, and implements TokenStore.                  *)
(*                                                                         *)
(* A page that goes back to the pool loses its rows, so whoever still read *)
(* it would notice.  Generations do not run out here.                      *)
(***************************************************************************)
EXTENDS SequenceCache

CONSTANTS
    Tokens,          \* what the model writes into one row
    Blank            \* a row that nothing was written to

ASSUME ContentAssumption ==
    /\ Blank \notin Tokens
    /\ Blocks = [1..PageTokens -> Tokens]
    /\ PageReuse < MaxGeneration

INSTANCE PageRows

VARIABLES
    content,         \* physical page -> its rows
    draft            \* sequence slot -> the tokens written for its pending append

allVars == <<vars, content, draft>>

SlotBound == 1..MaxSequences

ContentInit ==
    /\ Init
    /\ content = [p \in PhysicalPages |-> BlankPage]
    /\ draft = [s \in SlotBound |-> <<>>]

\* The rows after a step: only held pages keep theirs.
Holding(rows) == content' = [p \in PhysicalPages |-> IF pool'[p] = "held" THEN rows[p] ELSE BlankPage]

\* with_append_pages: the model writes the reservation's span through the published table.
WriteAppend(s, tokens) ==
    LET q == cache.sequences[s]
    IN  /\ q.pending # NoPending
        /\ Len(tokens) = q.pending.rows
        /\ content' = WriteThrough(content, tables[s].pages, q.position, tokens)
        /\ draft' = [draft EXCEPT ![s] = tokens]
        /\ UNCHANGED vars

\* The runtime commits what the model wrote, or a prefix of it.
CommitWritten(s, rows) ==
    /\ rows <= Len(draft[s])
    /\ CommitAppend(s, rows)
    /\ Holding(content)
    /\ draft' = [draft EXCEPT ![s] = <<>>]

AbortWritten(s) ==
    /\ AbortAppend(s)
    /\ Holding(content)
    /\ draft' = [draft EXCEPT ![s] = <<>>]

\* copy_partial_page copies the rows of the tail into the last page of the new table.
BranchCopying(s, request) ==
    LET q    == cache.sequences[s]
        new  == NextSequenceSlot(cache)
        rows == IF Aligned(q.position) THEN content
                ELSE CopyRows(content, Last(tables[s].pages), Last(tables'[new].pages),
                              q.position % PageTokens)
    IN  /\ Branch(s, request)
        /\ Holding(rows)
        /\ UNCHANGED draft

\* The blocks of tokens that s has committed: the key under which it may be retained.
KeyOf(s) ==
    [i \in 1..(tables[s].position \div PageTokens) |-> content[tables[s].pages[i]]]

\* Calls that neither write, copy nor end an append.  Those that are declined without a
\* backend call change nothing that a runtime reads and are left out; a lookup that
\* hits is one of a retained key and one more token.
Call ==
    \/ \E polled \in SUBSET InPool("deferred") : ReclaimDeferred(polled)
    \/ \E polled \in SUBSET InPool("deferred"), prefix \in Matches, request \in Requests :
         Admit(polled, prefix, request)
    \/ \E s \in LiveSequences, rows \in Rows :
         ReserveAppend(s, rows) \/ ReserveAppendFails(s, rows)
    \/ \E key \in DOMAIN cache.tree : LookupPrefix(key, 1)
    \/ \E s \in LiveSequences : CanRetain(s) /\ RetainDuplicate(s, KeyOf(s))
    \/ \E s \in LiveSequences, n \in SnapshotSizes : CanRetain(s) /\ RetainPrefix(s, KeyOf(s), n)
    \/ \E id \in DOMAIN cache.prefixes : EvictPrefix(id)
    \/ \E s \in LiveSequences, request \in Requests :
         BranchFails(s, request) \/ BranchEvictionFails(s, request)
    \/ \E s \in LiveSequences : Finish(s)

ContentNext ==
    \/ \E s \in LiveSequences, n \in Rows : \E tokens \in [1..n -> Tokens] : WriteAppend(s, tokens)
    \/ \E s \in LiveSequences, rows \in Rows : CommitWritten(s, rows)
    \/ \E s \in LiveSequences : AbortWritten(s)
    \/ \E s \in LiveSequences, request \in Requests : BranchCopying(s, request)
    \/ Call /\ Holding(content) /\ UNCHANGED draft

ContentSpec == ContentInit /\ [][ContentNext]_allVars

----------------------------------------------------------------------------

\* A retained entry's pages hold the tokens of its key, so a sequence admitted with the
\* entry that a prompt matched starts with the tokens of that prompt, whatever was evicted,
\* recycled, branched and appended in between (lookup_prefix, admit: "its sealed pages are
\* shared without copying").
EntriesHoldTheirKeys ==
    \A id \in DOMAIN cache.prefixes :
      LET e == cache.prefixes[id]
      IN  /\ AllLive(cache, e.pages)
          /\ [i \in DOMAIN e.pages |-> content[cache.pages[e.pages[i].slot].physical]] = e.key

Store == INSTANCE TokenStore WITH
    Names <- SlotBound,
    history <- [s \in SlotBound |->
                  IF s \in LiveSequences
                  THEN ReadThrough(content, tables[s].pages, tables[s].position)
                  ELSE <<>>],
    retained <- [id \in DOMAIN cache.prefixes |->
                   ReadThrough(content, PhysicalRefs(cache, cache.prefixes[id].pages),
                               cache.prefixes[id].position)]

\* Every sequence reads back what was committed to it and every retained entry what it was
\* retained with: appends, aborts, partial commits, branches, evictions and failed calls of
\* other sequences never change a token that somebody reads (lib.rs: "Sealed pages are
\* immutable and shareable").
RefinesStore == Store!Spec

=============================================================================
