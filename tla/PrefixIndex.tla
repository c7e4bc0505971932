---------------------------- MODULE PrefixIndex ----------------------------
(***************************************************************************)
(* The prefix index (src/src/index.rs) and the manager calls that use it:  *)
(* keys are sequences of interned block ids, blocks are counted by the     *)
(* keys that hold them, and a key is prepared, then committed or rolled    *)
(* back, by retain_prefix.                                                 *)
(*                                                                         *)
(* A call runs alone (&mut self).  retain_prefix is a call in progress     *)
(* with a step for each block it interns and each entry it evicts, so that *)
(* it can return from every place where the code does.  A key of the radix *)
(* tree, the ids as eight bytes each, is the sequence of ids.              *)
(*                                                                         *)
(* An operator whose comment starts with Mutant is a wrong variant of the  *)
(* definition after it, which nothing uses.                                *)
(***************************************************************************)
EXTENDS Integers, FiniteSets, FiniteSetsExt, Functions, Sequences, SequencesExt

CONSTANTS
    Blocks,         \* contents of one page-sized run of tokens
    MaxBlockId,     \* u64::MAX of the block ids, scaled down
    MaxRefs,        \* usize::MAX of a block's references, scaled down
    MaxPrefixId,    \* u64::MAX of the entry ids, scaled down
    KeyBound,       \* exploration bound: blocks of a prefix
    PrefixIdBound   \* exploration bound: prefix entries ever created

ASSUME IndexAssumption ==
    /\ MaxBlockId \in Nat
    /\ MaxRefs \in Nat \ {0}
    /\ MaxPrefixId \in Nat
    /\ KeyBound \in Nat
    /\ PrefixIdBound \in Nat

VARIABLES
    index,          \* PrefixIndex
    prefixes,       \* entry id -> the block ids of its key (PrefixEntry::blocks)
    next_prefix_id,
    call,           \* the retention in progress
    query,          \* the query that the last call was, or NoQuery
    answer          \* what it found

vars == <<index, prefixes, next_prefix_id, call, query, answer>>

----------------------------------------------------------------------------
(* The index. *)

EmptyIndex == [tree |-> <<>>, by_tokens |-> <<>>, blocks |-> <<>>, next_block_id |-> 0]

\* Mutant: blocks that are not interned are skipped.
LookupKeySkipping(idx, tokens) ==
    LET known == SelectSeq(tokens, LAMBDA b : b \in DOMAIN idx.by_tokens)
    IN  [i \in DOMAIN known |-> idx.by_tokens[known[i]]]

\* lookup_key: the ids of the leading blocks that are interned.
LookupKey(idx, tokens) ==
    LET known == {n \in 0..Len(tokens) : \A i \in 1..n : tokens[i] \in DOMAIN idx.by_tokens}
    IN  [i \in 1..Max(known) |-> idx.by_tokens[tokens[i]]]

\* longest: the entry of the longest key that starts `key'.
Longest(idx, key) ==
    LET keys == {k \in DOMAIN idx.tree : IsPrefix(k, key)}
    IN  {idx.tree[k] : k \in {j \in keys : \A other \in keys : Len(other) <= Len(j)}}

Exact(idx, tokens) ==
    LET key == LookupKey(idx, tokens)
    IN  IF Len(key) = Len(tokens) /\ key \in DOMAIN idx.tree THEN {idx.tree[key]} ELSE {}

\* Mutant: a block that is already interned is not counted again.
InternKnownUncounted(idx, block) == idx

\* One round of the loop of prepare_key, for a block that is interned and for a new one.
InternKnown(idx, block) ==
    [idx EXCEPT !.blocks[idx.by_tokens[block]].prefix_refs = @ + 1]

InternNew(idx, block) ==
    LET id == idx.next_block_id
    IN  [idx EXCEPT
          !.next_block_id = id + 1,
          !.by_tokens = [b \in DOMAIN @ \cup {block} |-> IF b = block THEN id ELSE @[b]],
          !.blocks = [i \in DOMAIN @ \cup {id} |->
                        IF i = id THEN [tokens |-> block, prefix_refs |-> 1] ELSE @[i]]]

\* How often an id occurs in a list of block ids: a prefix may repeat a block.
Occurrences(ids, id) == Cardinality({i \in DOMAIN ids : ids[i] = id})

\* Mutant: a repeated block is released once.
ReleaseDistinctBlocks(idx, ids) ==
    LET dead == {id \in Range(ids) : idx.blocks[id].prefix_refs = 1}
    IN  [idx EXCEPT
          !.blocks = [id \in DOMAIN @ \ dead |->
              [@[id] EXCEPT !.prefix_refs = @ - IF id \in Range(ids) THEN 1 ELSE 0]],
          !.by_tokens = Restrict(@, {b \in DOMAIN @ : @[b] \notin dead})]

\* Mutant: the tokens of a collected block still name it.
ReleaseBlocksKeepingTokens(idx, ids) ==
    LET dead == {id \in Range(ids) : idx.blocks[id].prefix_refs = Occurrences(ids, id)}
    IN  [idx EXCEPT
          !.blocks = [id \in DOMAIN @ \ dead |->
              [idx.blocks[id] EXCEPT !.prefix_refs = @ - Occurrences(ids, id)]]]

\* release_blocks: blocks that nothing references any more are collected.
ReleaseBlocks(idx, ids) ==
    LET dead == {id \in Range(ids) : idx.blocks[id].prefix_refs = Occurrences(ids, id)}
    IN  [idx EXCEPT
          !.blocks = [id \in DOMAIN @ \ dead |->
              [idx.blocks[id] EXCEPT !.prefix_refs = @ - Occurrences(ids, id)]],
          !.by_tokens = Restrict(@, {b \in DOMAIN @ : @[b] \notin dead})]

\* commit_key.
CommitKey(idx, key, entry) ==
    [idx EXCEPT !.tree = [k \in DOMAIN @ \cup {key} |-> IF k = key THEN entry ELSE @[k]]]

\* remove: the key leaves the tree and its blocks are released.
RemoveKey(idx, key) ==
    ReleaseBlocks([idx EXCEPT !.tree = Restrict(@, DOMAIN @ \ {key})], key)

----------------------------------------------------------------------------
(* The manager's calls. *)

NoCall == [tokens |-> <<>>, blocks |-> <<>>, evicting |-> FALSE]

Idle == call = NoCall

NoQuery == [kind |-> "none", tokens |-> <<>>]

NoAnswer == query' = NoQuery /\ answer' = {}

Init ==
    /\ index = EmptyIndex
    /\ prefixes = <<>>
    /\ next_prefix_id = 0
    /\ call = NoCall
    /\ query = NoQuery
    /\ answer = {}

\* lookup_prefix, after the query was cut to whole cacheable blocks.
LookupPrefix(tokens) ==
    /\ Idle
    /\ query' = [kind |-> "longest", tokens |-> tokens]
    /\ answer' = Longest(index, LookupKey(index, tokens))
    /\ UNCHANGED <<index, prefixes, next_prefix_id, call>>

\* contains_prefix, and retain_prefix of a prefix that is already retained.
ContainsPrefix(tokens) ==
    /\ Idle
    /\ tokens # <<>>
    /\ query' = [kind |-> "exact", tokens |-> tokens]
    /\ answer' = Exact(index, tokens)
    /\ UNCHANGED <<index, prefixes, next_prefix_id, call>>

\* retain_prefix finds no duplicate and calls prepare_key.
RetainPrefix(tokens) ==
    /\ Idle
    /\ tokens # <<>>
    /\ next_prefix_id < PrefixIdBound
    /\ Exact(index, tokens) = {}
    /\ call' = [NoCall EXCEPT !.tokens = tokens]
    /\ NoAnswer
    /\ UNCHANGED <<index, prefixes, next_prefix_id>>

\* The block that prepare_key is at.
Interning == Len(call.blocks) < Len(call.tokens)
NextBlock == call.tokens[Len(call.blocks) + 1]
Known == NextBlock \in DOMAIN index.by_tokens

InternBlock ==
    /\ Interning
    /\ \/ /\ Known
          /\ index.blocks[index.by_tokens[NextBlock]].prefix_refs < MaxRefs
          /\ index' = InternKnown(index, NextBlock)
       \/ /\ ~Known
          /\ index.next_block_id < MaxBlockId
          /\ index' = InternNew(index, NextBlock)
    /\ call' = [call EXCEPT !.blocks = Append(@, index'.by_tokens[NextBlock])]
    /\ NoAnswer
    /\ UNCHANGED <<prefixes, next_prefix_id>>

\* prepare_key returns IdExhausted or ArithmeticOverflow.
InternFails ==
    /\ Interning
    /\ \/ Known /\ index.blocks[index.by_tokens[NextBlock]].prefix_refs = MaxRefs
       \/ ~Known /\ index.next_block_id = MaxBlockId
    /\ index' = ReleaseBlocks(index, call.blocks)
    /\ call' = NoCall
    /\ NoAnswer
    /\ UNCHANGED <<prefixes, next_prefix_id>>

Prepared == call.tokens # <<>> /\ ~Interning

\* No eviction plan, or evictions that fail before any entry is gone: rollback_key.
RetainRolledBack ==
    /\ Prepared
    /\ ~call.evicting
    /\ index' = ReleaseBlocks(index, call.blocks)
    /\ call' = NoCall
    /\ NoAnswer
    /\ UNCHANGED <<prefixes, next_prefix_id>>

\* prepare_prefix_id fails and retain_prefix returns, without rollback_key.
RetainIdExhausted ==
    /\ Prepared
    /\ ~call.evicting
    /\ next_prefix_id = MaxPrefixId
    /\ call' = NoCall
    /\ NoAnswer
    /\ UNCHANGED <<index, prefixes, next_prefix_id>>

\* commit_evictions drops one entry: within a retention that has a plan and room for an
\* id, or for another call (evict_prefix, admit, branch).
EvictPrefix(id) ==
    /\ \/ Idle /\ UNCHANGED call
       \/ /\ Prepared
          /\ next_prefix_id < MaxPrefixId
          /\ call' = [call EXCEPT !.evicting = TRUE]
    /\ index' = RemoveKey(index, prefixes[id])
    /\ prefixes' = Restrict(prefixes, DOMAIN prefixes \ {id})
    /\ NoAnswer
    /\ UNCHANGED <<next_prefix_id>>

RetainCommitted ==
    /\ Prepared
    /\ next_prefix_id < MaxPrefixId
    /\ index' = CommitKey(index, call.blocks, next_prefix_id)
    /\ prefixes' = [id \in DOMAIN prefixes \cup {next_prefix_id} |->
                      IF id = next_prefix_id THEN call.blocks ELSE prefixes[id]]
    /\ next_prefix_id' = next_prefix_id + 1
    /\ call' = NoCall
    /\ NoAnswer

TokenPrefixes == UNION {[1..n -> Blocks] : n \in 0..KeyBound}

Next ==
    \/ \E tokens \in TokenPrefixes : LookupPrefix(tokens)
    \/ \E tokens \in TokenPrefixes : ContainsPrefix(tokens)
    \/ \E tokens \in TokenPrefixes : RetainPrefix(tokens)
    \/ InternBlock
    \/ InternFails
    \/ RetainRolledBack
    \/ RetainIdExhausted
    \/ \E id \in DOMAIN prefixes : EvictPrefix(id)
    \/ RetainCommitted

Spec == Init /\ [][Next]_vars

----------------------------------------------------------------------------

\* Type invariant of the index and of the retention in progress.
TypeOK ==
    /\ DOMAIN index = {"tree", "by_tokens", "blocks", "next_block_id"}
    /\ DOMAIN index.tree \subseteq Seq(Nat)
    /\ \A key \in DOMAIN index.tree : index.tree[key] \in Nat
    /\ DOMAIN index.by_tokens \subseteq Blocks
    /\ \A b \in DOMAIN index.by_tokens : index.by_tokens[b] \in Nat
    /\ DOMAIN index.blocks \subseteq 0..(index.next_block_id - 1)
    /\ \A id \in DOMAIN index.blocks :
         index.blocks[id] \in [tokens : Blocks, prefix_refs : 1..MaxRefs]
    /\ index.next_block_id \in 0..MaxBlockId
    /\ DOMAIN prefixes \subseteq 0..(next_prefix_id - 1)
    /\ \A id \in DOMAIN prefixes : prefixes[id] \in Seq(Nat)
    /\ next_prefix_id \in 0..MaxPrefixId
    /\ call \in [tokens : Seq(Blocks), blocks : Seq(Nat), evicting : BOOLEAN]
    /\ query \in [kind : {"none", "longest", "exact"}, tokens : Seq(Blocks)]
    /\ answer \subseteq Nat

\* The places of retained keys and of the prepared key that hold a block id.
KeyPlaces(id) ==
    UNION {{e} \X {i \in DOMAIN prefixes[e] : prefixes[e][i] = id} : e \in DOMAIN prefixes}

References(id) == Cardinality(KeyPlaces(id)) + Occurrences(call.blocks, id)

\* Every id in a retained or prepared key names an interned block that is counted at
\* least as often as keys hold it, and tokens and ids name each other: no release finds a
\* block gone (the expect calls of index.rs), whatever retentions failed before.
NoDanglingBlocks ==
    /\ \A e \in DOMAIN prefixes : Range(prefixes[e]) \subseteq DOMAIN index.blocks
    /\ Range(call.blocks) \subseteq DOMAIN index.blocks
    /\ \A id \in DOMAIN index.blocks :
         /\ index.blocks[id].prefix_refs >= References(id)
         /\ index.blocks[id].tokens \in DOMAIN index.by_tokens
         /\ index.by_tokens[index.blocks[id].tokens] = id
    /\ \A b \in DOMAIN index.by_tokens :
         /\ index.by_tokens[b] \in DOMAIN index.blocks
         /\ index.blocks[index.by_tokens[b]].tokens = b

\* A block is interned exactly while a retained or prepared key holds it, and counted as
\* often as they do (index.rs: "collected as soon as no entry references them"), until the
\* entry ids have run out: from then on a retention leaks what it interned.
BlocksExact ==
    next_prefix_id < MaxPrefixId =>
      \A id \in DOMAIN index.blocks :
        /\ index.blocks[id].prefix_refs = References(id)
        /\ References(id) # 0

\* The index as a map: the token prefixes that an exact query finds.
Found == {tokens \in TokenPrefixes : Exact(index, tokens) # {}}

Map == INSTANCE PrefixMap WITH
    entries <- [tokens \in Found |-> CHOOSE id \in Exact(index, tokens) : TRUE],
    request <- call.tokens,
    next_id <- next_prefix_id

\* The index implements a map from token prefixes to entries: queries answer by token
\* contents alone, longest prefix first, and interning, failed retentions and evictions
\* of entries that share blocks never change what another prefix finds.
RefinesMap == Map!Spec

=============================================================================
