------------------------- MODULE PrefixIndexProofs -------------------------
(***************************************************************************)
(* Proofs about PrefixIndex, for every set of block contents and every     *)
(* limit of the ids and counters, and that it implements PrefixMap.        *)
(*                                                                         *)
(* The invariant says that blocks and token runs name each other, that a   *)
(* block is counted at least as often as retained and prepared keys hold   *)
(* it, and that the keys of the tree are those of the entries.  With it a  *)
(* key can be read back as the tokens it stands for, and what an exact or  *)
(* a longest query finds depends on these tokens only.                     *)
(***************************************************************************)
EXTENDS PrefixIndex, FiniteSetTheorems, WellFoundedInduction, TLAPS

----------------------------------------------------------------------------
(* The inductive invariant. *)

\* The functions from a part of S to T.
Maps(S, T) == UNION {[D -> T] : D \in SUBSET S}

\* The types of an interned block and of the index.
Block == [tokens : Blocks, prefix_refs : Nat \ {0}]

IndexType ==
    [tree : Maps(Seq(Nat), Nat), by_tokens : Maps(Blocks, Nat), blocks : Maps(Nat, Block),
     next_block_id : Nat]

\* Blocks and the token runs they were interned for name each other.
Interned(idx) ==
    /\ \A id \in DOMAIN idx.blocks :
         /\ idx.blocks[id].tokens \in DOMAIN idx.by_tokens
         /\ idx.by_tokens[idx.blocks[id].tokens] = id
    /\ \A b \in DOMAIN idx.by_tokens :
         /\ idx.by_tokens[b] \in DOMAIN idx.blocks
         /\ idx.blocks[idx.by_tokens[b]].tokens = b

\* The limits of the counters.
Limits(idx) ==
    /\ idx.next_block_id <= MaxBlockId
    /\ \A id \in DOMAIN idx.blocks :
         id < idx.next_block_id /\ idx.blocks[id].prefix_refs <= MaxRefs

\* What holds of the index by itself.
IndexOK(idx) == idx \in IndexType /\ Interned(idx) /\ Limits(idx)

\* A key whose ids all name blocks, and the tokens that it stands for.
KeyOf(idx, key) == key \in Seq(Nat) /\ \A i \in DOMAIN key : key[i] \in DOMAIN idx.blocks

TokensOf(idx, key) == [i \in DOMAIN key |-> idx.blocks[key[i]].tokens]

\* The entries and the keys of the tree name each other.
Named(idx, keys) ==
    /\ \A e \in DOMAIN keys :
         KeyOf(idx, keys[e]) /\ keys[e] \in DOMAIN idx.tree /\ idx.tree[keys[e]] = e
    /\ \A k \in DOMAIN idx.tree :
         idx.tree[k] \in DOMAIN keys /\ keys[idx.tree[k]] = k

\* Entry ids are below the next one, and the entries are those of the tree.
EntriesOK(idx, keys, n) ==
    /\ n \in 0..MaxPrefixId
    /\ keys \in Maps(Nat, Seq(Nat))
    /\ \A e \in DOMAIN keys : e < n /\ Len(keys[e]) <= KeyBound
    /\ Named(idx, keys)

\* The prepared key stands for what was interned so far of a prefix that no entry has.
CallOK(idx, keys, c) ==
    /\ c \in [tokens : TokenPrefixes, blocks : Seq(Nat), evicting : BOOLEAN]
    /\ c.tokens = <<>> => c = NoCall
    /\ KeyOf(idx, c.blocks)
    /\ Len(c.blocks) <= Len(c.tokens)
    /\ \A i \in DOMAIN c.blocks : idx.blocks[c.blocks[i]].tokens = c.tokens[i]
    /\ c.tokens # <<>> => \A e \in DOMAIN keys : TokensOf(idx, keys[e]) # c.tokens

\* The places of an id in the keys of entries.
Places(keys, id) ==
    UNION {{e} \X {i \in DOMAIN keys[e] : keys[e][i] = id} : e \in DOMAIN keys}

\* How often the entries and a prepared key hold an id.
Refs(keys, ids, id) == Cardinality(Places(keys, id)) + Occurrences(ids, id)

\* No count is below the number of references, and none above it before the entry ids
\* have run out.
CountsOK(idx, keys, ids, n) ==
    \A id \in DOMAIN idx.blocks :
      /\ idx.blocks[id].prefix_refs >= Refs(keys, ids, id)
      /\ n < MaxPrefixId => idx.blocks[id].prefix_refs = Refs(keys, ids, id)

\* A call in progress answers nothing yet.
AnswerOK ==
    /\ query \in [kind : {"none", "longest", "exact"}, tokens : Seq(Blocks)]
    /\ answer \subseteq Nat
    /\ call.tokens # <<>> => query = NoQuery /\ answer = {}

\* The retained keys, the prepared key and the index they are in.
Kept(idx, keys, c, n) ==
    /\ IndexOK(idx)
    /\ EntriesOK(idx, keys, n)
    /\ CallOK(idx, keys, c)
    /\ CountsOK(idx, keys, c.blocks, n)

\* The inductive invariant.
IInv == Kept(index, prefixes, call, next_prefix_id) /\ AnswerOK

----------------------------------------------------------------------------
(* Functions and sequences. *)

\* A map on part of a set.
LEMMA MapsAre ==
    ASSUME NEW S, NEW T, NEW f
    PROVE  f \in Maps(S, T) <=> f \in [DOMAIN f -> T] /\ DOMAIN f \subseteq S
BY DEF Maps

\* The empty map.
LEMMA EmptyMap ==
    ASSUME NEW S, NEW T
    PROVE  <<>> \in Maps(S, T) /\ DOMAIN <<>> = {}
<1>1. <<>> \in [{} -> T] /\ DOMAIN <<>> = {}
  OBVIOUS
<1> QED BY <1>1, MapsAre

\* The empty map is the only function without arguments.
LEMMA EmptyIs ==
    ASSUME NEW T, NEW f \in [{} -> T]
    PROVE  f = <<>>
OBVIOUS

----------------------------------------------------------------------------
(* Counting the places of block ids. *)

\* How often an id occurs in a list is a number, which is 0 if it does not.
LEMMA OccurrencesAre ==
    ASSUME NEW ids \in Seq(Nat), NEW id
    PROVE  /\ IsFiniteSet({i \in DOMAIN ids : ids[i] = id})
           /\ Occurrences(ids, id) \in Nat
           /\ Occurrences(ids, id) = 0 <=> id \notin Range(ids)
<1> DEFINE O == {i \in DOMAIN ids : ids[i] = id}
<1>1. IsFiniteSet(1..Len(ids)) /\ O \subseteq 1..Len(ids)
  BY FS_Interval
<1>2. O = {} <=> id \notin Range(ids)
  BY DEF Range
<1> HIDE DEF O
<1>3. IsFiniteSet(O)
  BY <1>1, FS_Subset
<1>4. Cardinality(O) \in Nat /\ (Cardinality(O) = 0 <=> O = {})
  BY <1>3, FS_CardinalityType, FS_EmptySet
<1> QED BY <1>2, <1>3, <1>4 DEF Occurrences, O

\* One more block in a key.
LEMMA OccurrencesAppend ==
    ASSUME NEW ids \in Seq(Nat), NEW x \in Nat, NEW id
    PROVE  Occurrences(Append(ids, x), id) = Occurrences(ids, id) + (IF x = id THEN 1 ELSE 0)
<1> DEFINE O == {i \in DOMAIN ids : ids[i] = id}
           P == {i \in DOMAIN Append(ids, x) : Append(ids, x)[i] = id}
           n == Len(ids) + 1
<1>1. IsFiniteSet(O) /\ Cardinality(O) = Occurrences(ids, id) /\ Cardinality(O) \in Nat
  BY OccurrencesAre DEF Occurrences
<1>2. /\ DOMAIN ids = 1..Len(ids) /\ DOMAIN Append(ids, x) = 1..n /\ Append(ids, x)[n] = x
      /\ \A i \in 1..Len(ids) : Append(ids, x)[i] = ids[i]
      /\ Len(ids) \in Nat
  OBVIOUS
<1>3. n \notin O /\ 1..n = (1..Len(ids)) \cup {n}
  BY <1>2
<1>4. P = IF x = id THEN O \cup {n} ELSE O
  <2> HIDE DEF n
  <2>1. \A i : i \in P <=> i \in O \/ (i = n /\ x = id)
    BY <1>2, <1>3
  <2> HIDE DEF O, P
  <2> QED BY <2>1
<1> HIDE DEF O, n, P
<1>5. x = id => Cardinality(P) = Cardinality(O) + 1
  BY <1>1, <1>3, <1>4, FS_AddElement
<1>6. x # id => Cardinality(P) = Cardinality(O)
  BY <1>4
<1>7. Cardinality(P) = Occurrences(Append(ids, x), id)
  BY DEF P, Occurrences
<1> QED BY <1>1, <1>5, <1>6, <1>7

\* Keys of a bounded length and number.
Keys(keys) ==
    /\ keys \in Maps(Nat, Seq(Nat)) /\ IsFiniteSet(DOMAIN keys)
    /\ \A e \in DOMAIN keys : Len(keys[e]) <= KeyBound

\* The places, one by one.
LEMMA PlacesAre ==
    ASSUME NEW keys, NEW id, NEW x
    PROVE  x \in Places(keys, id) <=>
             \E e \in DOMAIN keys : \E i \in DOMAIN keys[e] : keys[e][i] = id /\ x = <<e, i>>
<1> DEFINE At(e) == {i \in DOMAIN keys[e] : keys[e][i] = id}
<1>1. x \in Places(keys, id) <=> \E e \in DOMAIN keys : x \in {e} \X At(e)
  BY Zenon DEF Places
<1>2. \A e : x \in {e} \X At(e) <=> \E i \in At(e) : x = <<e, i>>
  <2> HIDE DEF At
  <2> QED OBVIOUS
<1> QED BY <1>1, <1>2, Zenon

\* There are finitely many places.
LEMMA PlacesFinite ==
    ASSUME NEW keys, Keys(keys), NEW id
    PROVE  /\ IsFiniteSet(Places(keys, id)) /\ Cardinality(Places(keys, id)) \in Nat
           /\ Cardinality(Places(keys, id)) = 0 <=> \A e \in DOMAIN keys : id \notin Range(keys[e])
<1> DEFINE E == DOMAIN keys
           I == 1..KeyBound
           P == Places(keys, id)
<1>1. \A e \in E : keys[e] \in Seq(Nat) /\ Len(keys[e]) <= KeyBound
  BY MapsAre DEF Keys
<1>2. \A e \in E : DOMAIN keys[e] \subseteq I
  BY <1>1, IndexAssumption
<1>3. \A x : x \in P <=> \E e \in E : \E i \in DOMAIN keys[e] : keys[e][i] = id /\ x = <<e, i>>
  BY PlacesAre
<1>4. IsFiniteSet(E) /\ IsFiniteSet(I)
  BY IndexAssumption, FS_Interval DEF Keys
<1>5. P = {} <=> \A e \in DOMAIN keys : id \notin Range(keys[e])
  BY <1>3, Zenon DEF Range
<1> HIDE DEF E, I, P
<1>6. P \subseteq E \X I
  BY <1>2, <1>3
<1>7. IsFiniteSet(E \X I)
  BY <1>4, FS_Product
<1>8. IsFiniteSet(P)
  BY <1>6, <1>7, FS_Subset
<1> QED BY <1>5, <1>8, FS_CardinalityType, FS_EmptySet DEF P

\* Keys with one more.
OneMore(keys, more, n) ==
    /\ Keys(keys) /\ Keys(more)
    /\ n \notin DOMAIN keys /\ DOMAIN more = DOMAIN keys \cup {n}
    /\ \A e \in DOMAIN keys : more[e] = keys[e]

\* One more key adds the places it has.
LEMMA PlacesInsert ==
    ASSUME NEW keys, NEW more, NEW n, OneMore(keys, more, n), NEW id
    PROVE  Cardinality(Places(more, id)) = Cardinality(Places(keys, id)) + Occurrences(more[n], id)
<1> DEFINE O == {i \in DOMAIN more[n] : more[n][i] = id}
           P == Places(keys, id)
<1>1. more[n] \in Seq(Nat)
  BY MapsAre DEF OneMore, Keys
<1>2. IsFiniteSet(O) /\ Cardinality(O) = Occurrences(more[n], id) /\ Cardinality(O) \in Nat
  BY <1>1, OccurrencesAre DEF Occurrences
<1>3. IsFiniteSet(P) /\ Cardinality(P) \in Nat
  BY PlacesFinite DEF OneMore
<1>4. Places(more, id) = P \cup ({n} \X O)
  BY DEF OneMore, Places
<1>5. P \cap ({n} \X O) = {}
  BY DEF OneMore, Places
<1> HIDE DEF O, P
<1>6. IsFiniteSet({n}) /\ Cardinality({n}) = 1
  BY FS_Singleton
<1>7. IsFiniteSet({n} \X O) /\ Cardinality({n} \X O) = 1 * Cardinality(O)
  BY <1>2, <1>6, FS_Product
<1>8. Cardinality({n} \X O) = Cardinality(O)
  BY <1>2, <1>7
<1>9. Cardinality(P \cup ({n} \X O)) = Cardinality(P) + Cardinality({n} \X O) - 0
  BY <1>3, <1>5, <1>7, FS_Union, FS_EmptySet
<1> QED BY <1>2, <1>3, <1>4, <1>8, <1>9 DEF P

----------------------------------------------------------------------------
(* The operators of the index. *)

\* The fields of an index.
LEMMA IndexFields ==
    ASSUME NEW idx \in IndexType
    PROVE  /\ idx.tree \in [DOMAIN idx.tree -> Nat] /\ DOMAIN idx.tree \subseteq Seq(Nat)
           /\ idx.by_tokens \in [DOMAIN idx.by_tokens -> Nat]
           /\ DOMAIN idx.by_tokens \subseteq Blocks
           /\ idx.blocks \in [DOMAIN idx.blocks -> Block] /\ DOMAIN idx.blocks \subseteq Nat
           /\ idx.next_block_id \in Nat
           /\ idx = [tree |-> idx.tree, by_tokens |-> idx.by_tokens, blocks |-> idx.blocks,
                     next_block_id |-> idx.next_block_id]
<1>1. /\ idx.tree \in Maps(Seq(Nat), Nat) /\ idx.by_tokens \in Maps(Blocks, Nat)
      /\ idx.blocks \in Maps(Nat, Block) /\ idx.next_block_id \in Nat
  BY DEF IndexType
<1>2. idx = [tree |-> idx.tree, by_tokens |-> idx.by_tokens, blocks |-> idx.blocks,
             next_block_id |-> idx.next_block_id]
  BY DEF IndexType
<1> QED BY <1>1, <1>2, MapsAre

\* An index is made of its fields.
LEMMA IndexMade ==
    ASSUME NEW t, NEW b, NEW k, NEW n \in Nat,
           t \in [DOMAIN t -> Nat], DOMAIN t \subseteq Seq(Nat),
           b \in [DOMAIN b -> Nat], DOMAIN b \subseteq Blocks,
           k \in [DOMAIN k -> Block], DOMAIN k \subseteq Nat
    PROVE  [tree |-> t, by_tokens |-> b, blocks |-> k, next_block_id |-> n] \in IndexType
<1>1. t \in Maps(Seq(Nat), Nat) /\ b \in Maps(Blocks, Nat) /\ k \in Maps(Nat, Block)
  BY MapsAre
<1> QED BY <1>1 DEF IndexType

\* An index with another tree.
LEMMA ExceptTree ==
    ASSUME NEW idx \in IndexType, NEW T
    PROVE  [idx EXCEPT !.tree = T] =
             [tree |-> T, by_tokens |-> idx.by_tokens, blocks |-> idx.blocks,
              next_block_id |-> idx.next_block_id]
<1> DEFINE t == idx.tree
           b == idx.by_tokens
           k == idx.blocks
           m == idx.next_block_id
<1>1. idx = [tree |-> t, by_tokens |-> b, blocks |-> k, next_block_id |-> m]
  BY IndexFields
<1> HIDE DEF t, b, k, m
<1>2. [idx EXCEPT !.tree = T] = [tree |-> T, by_tokens |-> b, blocks |-> k, next_block_id |-> m]
  BY <1>1
<1> QED BY <1>2, Zenon DEF b, k, m

\* An index with other blocks.
LEMMA ExceptBlocks ==
    ASSUME NEW idx \in IndexType, NEW B
    PROVE  [idx EXCEPT !.blocks = B] =
             [tree |-> idx.tree, by_tokens |-> idx.by_tokens, blocks |-> B,
              next_block_id |-> idx.next_block_id]
<1> DEFINE t == idx.tree
           b == idx.by_tokens
           k == idx.blocks
           m == idx.next_block_id
<1>1. idx = [tree |-> t, by_tokens |-> b, blocks |-> k, next_block_id |-> m]
  BY IndexFields
<1> HIDE DEF t, b, k, m
<1>2. [idx EXCEPT !.blocks = B] = [tree |-> t, by_tokens |-> b, blocks |-> B, next_block_id |-> m]
  BY <1>1
<1> QED BY <1>2, Zenon DEF t, b, m

\* An index with other blocks and tokens.
LEMMA ExceptTokens ==
    ASSUME NEW idx \in IndexType, NEW B, NEW T
    PROVE  [idx EXCEPT !.blocks = B, !.by_tokens = T] =
             [tree |-> idx.tree, by_tokens |-> T, blocks |-> B,
              next_block_id |-> idx.next_block_id]
<1> DEFINE t == idx.tree
           b == idx.by_tokens
           k == idx.blocks
           m == idx.next_block_id
<1>1. idx = [tree |-> t, by_tokens |-> b, blocks |-> k, next_block_id |-> m]
  BY IndexFields
<1> HIDE DEF t, b, k, m
<1>2. [idx EXCEPT !.blocks = B] = [tree |-> t, by_tokens |-> b, blocks |-> B, next_block_id |-> m]
  BY <1>1
<1>3. [[tree |-> t, by_tokens |-> b, blocks |-> B, next_block_id |-> m] EXCEPT !.by_tokens = T]
        = [tree |-> t, by_tokens |-> T, blocks |-> B, next_block_id |-> m]
  OBVIOUS
<1> QED BY <1>2, <1>3, Zenon DEF t, m

\* An index that has issued an id.
LEMMA ExceptNew ==
    ASSUME NEW idx \in IndexType, NEW n, NEW T, NEW B
    PROVE  [idx EXCEPT !.next_block_id = n, !.by_tokens = T, !.blocks = B] =
             [tree |-> idx.tree, by_tokens |-> T, blocks |-> B, next_block_id |-> n]
<1> DEFINE t == idx.tree
           b == idx.by_tokens
           k == idx.blocks
           m == idx.next_block_id
<1>1. idx = [tree |-> t, by_tokens |-> b, blocks |-> k, next_block_id |-> m]
  BY IndexFields
<1> HIDE DEF t, b, k, m
<1>2. [idx EXCEPT !.next_block_id = n]
        = [tree |-> t, by_tokens |-> b, blocks |-> k, next_block_id |-> n]
  BY <1>1
<1>3. [[tree |-> t, by_tokens |-> b, blocks |-> k, next_block_id |-> n] EXCEPT !.by_tokens = T]
        = [tree |-> t, by_tokens |-> T, blocks |-> k, next_block_id |-> n]
  OBVIOUS
<1>4. [[tree |-> t, by_tokens |-> T, blocks |-> k, next_block_id |-> n] EXCEPT !.blocks = B]
        = [tree |-> t, by_tokens |-> T, blocks |-> B, next_block_id |-> n]
  OBVIOUS
<1> QED BY <1>2, <1>3, <1>4, Zenon DEF t

\* The index that release_blocks leaves.
LEMMA ReleaseIs ==
    ASSUME NEW idx \in IndexType, NEW ids,
           NEW dead,
           dead = {id \in Range(ids) : idx.blocks[id].prefix_refs = Occurrences(ids, id)}
    PROVE  ReleaseBlocks(idx, ids) =
             [tree |-> idx.tree,
              by_tokens |-> Restrict(idx.by_tokens,
                              {b \in DOMAIN idx.by_tokens : idx.by_tokens[b] \notin dead}),
              blocks |-> [id \in DOMAIN idx.blocks \ dead |->
                            [idx.blocks[id] EXCEPT !.prefix_refs = @ - Occurrences(ids, id)]],
              next_block_id |-> idx.next_block_id]
<1> DEFINE B == [id \in DOMAIN idx.blocks \ dead |->
                   [idx.blocks[id] EXCEPT !.prefix_refs = @ - Occurrences(ids, id)]]
           T == Restrict(idx.by_tokens,
                         {b \in DOMAIN idx.by_tokens : idx.by_tokens[b] \notin dead})
<1>1. ReleaseBlocks(idx, ids) = [idx EXCEPT !.blocks = B, !.by_tokens = T]
  BY Zenon DEF ReleaseBlocks
<1> HIDE DEF B, T
<1>2. idx = [tree |-> idx.tree, by_tokens |-> idx.by_tokens, blocks |-> idx.blocks,
             next_block_id |-> idx.next_block_id]
  BY IndexFields
<1>3. [idx EXCEPT !.blocks = B, !.by_tokens = T] =
        [tree |-> idx.tree, by_tokens |-> T, blocks |-> B, next_block_id |-> idx.next_block_id]
  BY ExceptTokens, Zenon
<1> QED BY <1>1, <1>3 DEF B, T

\* release_blocks gives back the references of a key: the blocks it alone still held are
\* collected, with their tokens, and the others keep their contents.
LEMMA ReleaseLemma ==
    ASSUME NEW idx \in IndexType, Interned(idx), Limits(idx),
           NEW ids, KeyOf(idx, ids),
           \A id \in DOMAIN idx.blocks : idx.blocks[id].prefix_refs >= Occurrences(ids, id),
           NEW u, u = ReleaseBlocks(idx, ids)
    PROVE  /\ u \in IndexType /\ Interned(u) /\ Limits(u)
           /\ u.tree = idx.tree
           /\ \A id : id \in DOMAIN u.blocks <=>
                /\ id \in DOMAIN idx.blocks
                /\ idx.blocks[id].prefix_refs # Occurrences(ids, id)
           /\ \A id \in DOMAIN u.blocks :
                /\ u.blocks[id].tokens = idx.blocks[id].tokens
                /\ u.blocks[id].prefix_refs = idx.blocks[id].prefix_refs - Occurrences(ids, id)
<1> DEFINE dead == {id \in Range(ids) : idx.blocks[id].prefix_refs = Occurrences(ids, id)}
           N(id) == Occurrences(ids, id)
<1>1. ids \in Seq(Nat) /\ Range(ids) \subseteq DOMAIN idx.blocks
  BY DEF KeyOf, Range
<1>2. \A id : N(id) \in Nat /\ (N(id) = 0 <=> id \notin Range(ids))
  BY <1>1, OccurrencesAre
<1>3. /\ idx.tree \in [DOMAIN idx.tree -> Nat] /\ DOMAIN idx.tree \subseteq Seq(Nat)
      /\ idx.by_tokens \in [DOMAIN idx.by_tokens -> Nat]
      /\ DOMAIN idx.by_tokens \subseteq Blocks
      /\ idx.blocks \in [DOMAIN idx.blocks -> Block] /\ DOMAIN idx.blocks \subseteq Nat
      /\ idx.next_block_id \in Nat
  BY IndexFields
<1>4. \A id \in DOMAIN idx.blocks :
        /\ idx.blocks[id] \in Block /\ idx.blocks[id].prefix_refs \in Nat \ {0}
        /\ idx.blocks[id].prefix_refs >= N(id)
  BY <1>3 DEF Block
<1>5. \A id \in DOMAIN idx.blocks : id \in dead <=> idx.blocks[id].prefix_refs = N(id)
  BY <1>2, <1>4
<1> DEFINE B == [id \in DOMAIN idx.blocks \ dead |->
                   [idx.blocks[id] EXCEPT !.prefix_refs = @ - N(id)]]
           T == Restrict(idx.by_tokens,
                         {b \in DOMAIN idx.by_tokens : idx.by_tokens[b] \notin dead})
<1>6. u = [tree |-> idx.tree, by_tokens |-> T, blocks |-> B, next_block_id |-> idx.next_block_id]
  BY ReleaseIs, Zenon
<1> HIDE DEF N, dead
<1>7. /\ DOMAIN B = DOMAIN idx.blocks \ dead
      /\ \A id \in DOMAIN B : B[id] = [idx.blocks[id] EXCEPT !.prefix_refs = @ - N(id)]
  OBVIOUS
<1>8. /\ T \in [DOMAIN T -> Nat] /\ DOMAIN T \subseteq DOMAIN idx.by_tokens
      /\ \A b : b \in DOMAIN T <=> b \in DOMAIN idx.by_tokens /\ idx.by_tokens[b] \notin dead
      /\ \A b \in DOMAIN T : T[b] = idx.by_tokens[b]
  BY <1>3 DEF Restrict
<1> HIDE DEF T
<1>9. \A id \in DOMAIN B :
        /\ B[id] \in Block /\ B[id].tokens = idx.blocks[id].tokens
        /\ B[id].prefix_refs = idx.blocks[id].prefix_refs - N(id)
        /\ B[id].prefix_refs <= idx.blocks[id].prefix_refs
  <2> SUFFICES ASSUME NEW id \in DOMAIN B
               PROVE  /\ B[id] \in Block /\ B[id].tokens = idx.blocks[id].tokens
                      /\ B[id].prefix_refs = idx.blocks[id].prefix_refs - N(id)
                      /\ B[id].prefix_refs <= idx.blocks[id].prefix_refs
    OBVIOUS
  <2> DEFINE m == idx.blocks[id].prefix_refs - N(id)
             r == idx.blocks[id]
  <2>1. r \in Block /\ m \in Nat \ {0} /\ m <= r.prefix_refs
    BY <1>2, <1>4, <1>5, <1>7
  <2>2. B[id] = [r EXCEPT !.prefix_refs = m]
    BY <1>7
  <2> HIDE DEF m, r, B
  <2>3. [r EXCEPT !.prefix_refs = m] \in Block /\ [r EXCEPT !.prefix_refs = m].tokens = r.tokens
        /\ [r EXCEPT !.prefix_refs = m].prefix_refs = m
    BY <2>1 DEF Block
  <2> QED BY <2>1, <2>2, <2>3 DEF m, r
<1>10. B \in [DOMAIN B -> Block] /\ DOMAIN B \subseteq Nat
  BY <1>3, <1>7, <1>9
<1> HIDE DEF B
<1>11. u.tree = idx.tree /\ u.by_tokens = T /\ u.blocks = B /\ u.next_block_id = idx.next_block_id
  BY <1>6
<1>12. u \in IndexType
  BY <1>3, <1>6, <1>8, <1>10, IndexMade
<1>13. Interned(u)
  <2>1. ASSUME NEW id \in DOMAIN B
        PROVE  B[id].tokens \in DOMAIN T /\ T[B[id].tokens] = id
    BY <1>7, <1>8, <1>9 DEF Interned
  <2>2. ASSUME NEW b \in DOMAIN T
        PROVE  T[b] \in DOMAIN B /\ B[T[b]].tokens = b
    BY <1>7, <1>8, <1>9 DEF Interned
  <2> QED BY <1>11, <2>1, <2>2, Zenon DEF Interned
<1>14. Limits(u)
  <2>1. \A id \in DOMAIN B : id < idx.next_block_id /\ B[id].prefix_refs <= MaxRefs
    <3> TAKE id \in DOMAIN B
    <3>1. id \in DOMAIN idx.blocks /\ id < idx.next_block_id
          /\ idx.blocks[id].prefix_refs <= MaxRefs
      BY <1>7 DEF Limits
    <3> QED BY <1>4, <1>9, <3>1, IndexAssumption DEF Block
  <2> QED BY <1>11, <2>1 DEF Limits
<1>15. \A id : id \in DOMAIN B <=>
         id \in DOMAIN idx.blocks /\ idx.blocks[id].prefix_refs # N(id)
  BY <1>5, <1>7
<1> QED BY <1>9, <1>11, <1>12, <1>13, <1>14, <1>15 DEF N

\* What interning a block does to an index, whether or not it was interned before.
InternsAs(idx, u, block) ==
    LET x == u.by_tokens[block]
    IN  /\ u \in IndexType /\ Interned(u) /\ Limits(u)
        /\ u.tree = idx.tree
        /\ x \in DOMAIN u.blocks
        /\ u.blocks[x].tokens = block
        /\ DOMAIN u.blocks = DOMAIN idx.blocks \cup {x}
        /\ \A id \in DOMAIN idx.blocks :
             /\ u.blocks[id].tokens = idx.blocks[id].tokens
             /\ u.blocks[id].prefix_refs =
                  idx.blocks[id].prefix_refs + (IF x = id THEN 1 ELSE 0)
        /\ x \notin DOMAIN idx.blocks => u.blocks[x].prefix_refs = 1

\* prepare_key counts a block that is interned.
LEMMA InternKnownLemma ==
    ASSUME NEW idx \in IndexType, Interned(idx), Limits(idx),
           NEW block \in DOMAIN idx.by_tokens,
           idx.blocks[idx.by_tokens[block]].prefix_refs < MaxRefs,
           NEW u, u = InternKnown(idx, block)
    PROVE  InternsAs(idx, u, block)
<1> DEFINE x == idx.by_tokens[block]
           r == idx.blocks[x]
           m == r.prefix_refs + 1
           q == [r EXCEPT !.prefix_refs = m]
           B == [idx.blocks EXCEPT ![x] = q]
<1>1. /\ idx.tree \in [DOMAIN idx.tree -> Nat] /\ DOMAIN idx.tree \subseteq Seq(Nat)
      /\ idx.by_tokens \in [DOMAIN idx.by_tokens -> Nat]
      /\ DOMAIN idx.by_tokens \subseteq Blocks
      /\ idx.blocks \in [DOMAIN idx.blocks -> Block] /\ DOMAIN idx.blocks \subseteq Nat
      /\ idx.next_block_id \in Nat
  BY IndexFields
<1>2. x \in DOMAIN idx.blocks /\ r.tokens = block
  BY DEF Interned
<1>3. r \in Block /\ r.prefix_refs \in Nat
  BY <1>1, <1>2 DEF Block
<1>4. m \in Nat \ {0} /\ m <= MaxRefs
  BY <1>3, IndexAssumption
<1>5. u = [idx EXCEPT !.blocks = B]
  BY DEF InternKnown
<1> HIDE DEF m
<1>6. q \in Block /\ q.tokens = r.tokens /\ q.prefix_refs = m
  BY <1>3, <1>4 DEF Block
<1> HIDE DEF q, r
<1>7. /\ B \in [DOMAIN idx.blocks -> Block] /\ B[x] = q
      /\ \A id \in DOMAIN idx.blocks : id # x => B[id] = idx.blocks[id]
  BY <1>1, <1>2, <1>6
<1> HIDE DEF B
<1>8. DOMAIN B = DOMAIN idx.blocks
  BY <1>7
<1>9. u = [tree |-> idx.tree, by_tokens |-> idx.by_tokens, blocks |-> B,
           next_block_id |-> idx.next_block_id]
  BY <1>5, ExceptBlocks, Zenon
<1>10. /\ u.tree = idx.tree /\ u.by_tokens = idx.by_tokens /\ u.blocks = B
       /\ u.next_block_id = idx.next_block_id
  BY <1>9
<1>11. u \in IndexType
  BY <1>1, <1>7, <1>8, <1>9, IndexMade
<1>12. \A id \in DOMAIN idx.blocks :
         /\ B[id].tokens = idx.blocks[id].tokens
         /\ B[id].prefix_refs = idx.blocks[id].prefix_refs + (IF x = id THEN 1 ELSE 0)
  <2> TAKE id \in DOMAIN idx.blocks
  <2>1. CASE id = x
    BY <1>6, <1>7, <2>1 DEF r, m
  <2>2. CASE id # x
    <3>1. idx.blocks[id].prefix_refs \in Nat
      BY <1>1 DEF Block
    <3> QED BY <1>7, <2>2, <3>1
  <2> QED BY <2>1, <2>2
<1>13. Interned(u)
  BY <1>8, <1>10, <1>12 DEF Interned
<1>14. Limits(u)
  <2>1. \A id \in DOMAIN B : id < idx.next_block_id /\ B[id].prefix_refs <= MaxRefs
    BY <1>4, <1>6, <1>7, <1>8 DEF Limits
  <2> QED BY <1>10, <2>1 DEF Limits
<1>15. x = u.by_tokens[block]
  BY <1>10
<1> HIDE DEF x
<1>16. x \in DOMAIN B /\ B[x].tokens = block /\ DOMAIN B = DOMAIN idx.blocks \cup {x}
  BY <1>2, <1>6, <1>7, <1>8 DEF r
<1> QED BY <1>2, <1>10, <1>11, <1>12, <1>13, <1>14, <1>15, <1>16, Zenon DEF InternsAs

\* prepare_key interns a new block under an id that no block has.
LEMMA InternNewLemma ==
    ASSUME NEW idx \in IndexType, Interned(idx), Limits(idx),
           NEW block \in Blocks, block \notin DOMAIN idx.by_tokens,
           idx.next_block_id < MaxBlockId,
           NEW u, u = InternNew(idx, block)
    PROVE  InternsAs(idx, u, block)
<1> DEFINE x == idx.next_block_id
           n == x + 1
           q == [tokens |-> block, prefix_refs |-> 1]
           T == [b \in DOMAIN idx.by_tokens \cup {block} |-> IF b = block THEN x ELSE idx.by_tokens[b]]
           B == [i \in DOMAIN idx.blocks \cup {x} |-> IF i = x THEN q ELSE idx.blocks[i]]
<1>1. /\ idx.tree \in [DOMAIN idx.tree -> Nat] /\ DOMAIN idx.tree \subseteq Seq(Nat)
      /\ idx.by_tokens \in [DOMAIN idx.by_tokens -> Nat]
      /\ DOMAIN idx.by_tokens \subseteq Blocks
      /\ idx.blocks \in [DOMAIN idx.blocks -> Block] /\ DOMAIN idx.blocks \subseteq Nat
      /\ idx.next_block_id \in Nat
  BY IndexFields
<1>2. n \in Nat /\ n <= MaxBlockId /\ x < n /\ \A id \in Nat : id < x => id < n
  BY <1>1, IndexAssumption
<1>3. x \notin DOMAIN idx.blocks
  BY <1>1 DEF Limits
<1>4. u = [idx EXCEPT !.next_block_id = n, !.by_tokens = T, !.blocks = B]
  BY Zenon DEF InternNew
<1>5. q \in Block /\ q.tokens = block /\ q.prefix_refs = 1
  BY DEF Block
<1> HIDE DEF q, n
<1>6. /\ DOMAIN T = DOMAIN idx.by_tokens \cup {block} /\ T[block] = x
      /\ \A b \in DOMAIN idx.by_tokens : T[b] = idx.by_tokens[b]
  OBVIOUS
<1>7. /\ DOMAIN B = DOMAIN idx.blocks \cup {x} /\ B[x] = q
      /\ \A id \in DOMAIN idx.blocks : B[id] = idx.blocks[id]
  BY <1>3
<1>8. T \in [DOMAIN T -> Nat] /\ DOMAIN T \subseteq Blocks
  BY <1>1, <1>6
<1>9. B \in [DOMAIN B -> Block] /\ DOMAIN B \subseteq Nat
  BY <1>1, <1>5, <1>7
<1>10. u = [tree |-> idx.tree, by_tokens |-> T, blocks |-> B, next_block_id |-> n]
  <2> HIDE DEF T, B
  <2> QED BY <1>4, ExceptNew, Zenon
<1> HIDE DEF T, B
<1>11. u.tree = idx.tree /\ u.by_tokens = T /\ u.blocks = B /\ u.next_block_id = n
  BY <1>10
<1>12. u \in IndexType
  BY <1>1, <1>2, <1>8, <1>9, <1>10, IndexMade
<1>13. Interned(u)
  <2>1. ASSUME NEW id \in DOMAIN B
        PROVE  B[id].tokens \in DOMAIN T /\ T[B[id].tokens] = id
    <3>1. CASE id = x
      BY <1>5, <1>6, <1>7, <3>1
    <3>2. CASE id \in DOMAIN idx.blocks
      BY <1>6, <1>7, <3>2 DEF Interned
    <3> QED BY <1>7, <3>1, <3>2
  <2>2. ASSUME NEW b \in DOMAIN T
        PROVE  T[b] \in DOMAIN B /\ B[T[b]].tokens = b
    <3>1. CASE b = block
      BY <1>5, <1>6, <1>7, <3>1
    <3>2. CASE b \in DOMAIN idx.by_tokens
      BY <1>6, <1>7, <3>2 DEF Interned
    <3> QED BY <1>6, <3>1, <3>2
  <2> QED BY <1>11, <2>1, <2>2, Zenon DEF Interned
<1>14. Limits(u)
  <2>1. ASSUME NEW id \in DOMAIN B
        PROVE  id < n /\ B[id].prefix_refs <= MaxRefs
    <3>1. CASE id = x
      BY <1>2, <1>5, <1>7, <3>1, IndexAssumption
    <3>2. CASE id \in DOMAIN idx.blocks
      BY <1>1, <1>2, <1>7, <3>2 DEF Limits
    <3> QED BY <1>7, <3>1, <3>2
  <2> QED BY <1>2, <1>11, <2>1 DEF Limits
<1>15. x = u.by_tokens[block]
  BY <1>6, <1>11
<1> HIDE DEF x
<1>16. x \in DOMAIN B /\ B[x].tokens = block /\ B[x].prefix_refs = 1
  BY <1>5, <1>7
<1>17. \A id \in DOMAIN idx.blocks :
         /\ B[id].tokens = idx.blocks[id].tokens
         /\ B[id].prefix_refs = idx.blocks[id].prefix_refs + (IF x = id THEN 1 ELSE 0)
  <2> TAKE id \in DOMAIN idx.blocks
  <2>1. x # id /\ idx.blocks[id].prefix_refs \in Nat /\ B[id] = idx.blocks[id]
    BY <1>1, <1>3, <1>7 DEF Block
  <2> QED BY <2>1
<1> QED BY <1>7, <1>11, <1>12, <1>13, <1>14, <1>15, <1>16, <1>17, Zenon DEF InternsAs

\* commit_key adds the key to the tree and leaves the blocks alone.
LEMMA CommitLemma ==
    ASSUME NEW idx \in IndexType, Interned(idx), Limits(idx),
           NEW key \in Seq(Nat), NEW entry \in Nat,
           NEW u, u = CommitKey(idx, key, entry)
    PROVE  /\ u \in IndexType /\ Interned(u) /\ Limits(u)
           /\ u.blocks = idx.blocks
           /\ DOMAIN u.tree = DOMAIN idx.tree \cup {key}
           /\ u.tree[key] = entry
           /\ \A k \in DOMAIN idx.tree : k # key => u.tree[k] = idx.tree[k]
<1> DEFINE T == [k \in DOMAIN idx.tree \cup {key} |-> IF k = key THEN entry ELSE idx.tree[k]]
<1>1. /\ idx.tree \in [DOMAIN idx.tree -> Nat] /\ DOMAIN idx.tree \subseteq Seq(Nat)
      /\ idx.by_tokens \in [DOMAIN idx.by_tokens -> Nat]
      /\ DOMAIN idx.by_tokens \subseteq Blocks
      /\ idx.blocks \in [DOMAIN idx.blocks -> Block] /\ DOMAIN idx.blocks \subseteq Nat
      /\ idx.next_block_id \in Nat
  BY IndexFields
<1>2. /\ DOMAIN T = DOMAIN idx.tree \cup {key} /\ T[key] = entry
      /\ \A k \in DOMAIN idx.tree : k # key => T[k] = idx.tree[k]
  OBVIOUS
<1>3. T \in [DOMAIN T -> Nat] /\ DOMAIN T \subseteq Seq(Nat)
  BY <1>1, <1>2
<1>4. u = [idx EXCEPT !.tree = T]
  BY Zenon DEF CommitKey
<1> HIDE DEF T
<1>5. u = [tree |-> T, by_tokens |-> idx.by_tokens, blocks |-> idx.blocks,
           next_block_id |-> idx.next_block_id]
  BY <1>4, ExceptTree, Zenon
<1>6. /\ u.tree = T /\ u.by_tokens = idx.by_tokens /\ u.blocks = idx.blocks
      /\ u.next_block_id = idx.next_block_id
  BY <1>5
<1>7. u \in IndexType
  BY <1>1, <1>3, <1>5, IndexMade
<1>8. Interned(u) /\ Limits(u)
  BY <1>6, Zenon DEF Interned, Limits
<1> QED BY <1>2, <1>6, <1>7, <1>8

\* remove takes the key out of the tree and gives back its references.
LEMMA RemoveLemma ==
    ASSUME NEW idx \in IndexType, Interned(idx), Limits(idx),
           NEW key, KeyOf(idx, key),
           \A id \in DOMAIN idx.blocks : idx.blocks[id].prefix_refs >= Occurrences(key, id),
           NEW u, u = RemoveKey(idx, key)
    PROVE  /\ u \in IndexType /\ Interned(u) /\ Limits(u)
           /\ DOMAIN u.tree = DOMAIN idx.tree \ {key}
           /\ \A k \in DOMAIN u.tree : u.tree[k] = idx.tree[k]
           /\ \A id : id \in DOMAIN u.blocks <=>
                /\ id \in DOMAIN idx.blocks
                /\ idx.blocks[id].prefix_refs # Occurrences(key, id)
           /\ \A id \in DOMAIN u.blocks :
                /\ u.blocks[id].tokens = idx.blocks[id].tokens
                /\ u.blocks[id].prefix_refs = idx.blocks[id].prefix_refs - Occurrences(key, id)
<1> DEFINE T == Restrict(idx.tree, DOMAIN idx.tree \ {key})
           v == [idx EXCEPT !.tree = T]
<1>1. /\ idx.tree \in [DOMAIN idx.tree -> Nat] /\ DOMAIN idx.tree \subseteq Seq(Nat)
      /\ idx.by_tokens \in [DOMAIN idx.by_tokens -> Nat]
      /\ DOMAIN idx.by_tokens \subseteq Blocks
      /\ idx.blocks \in [DOMAIN idx.blocks -> Block] /\ DOMAIN idx.blocks \subseteq Nat
      /\ idx.next_block_id \in Nat
  BY IndexFields
<1>2. DOMAIN T = DOMAIN idx.tree \ {key} /\ \A k \in DOMAIN T : T[k] = idx.tree[k]
  BY DEF Restrict
<1>3. T \in [DOMAIN T -> Nat] /\ DOMAIN T \subseteq Seq(Nat)
  BY <1>1, <1>2 DEF Restrict
<1>4. u = ReleaseBlocks(v, key)
  BY Zenon DEF RemoveKey
<1> HIDE DEF T
<1>5. v = [tree |-> T, by_tokens |-> idx.by_tokens, blocks |-> idx.blocks,
           next_block_id |-> idx.next_block_id]
  BY ExceptTree, Zenon
<1> HIDE DEF v
<1>6. /\ v.tree = T /\ v.by_tokens = idx.by_tokens /\ v.blocks = idx.blocks
      /\ v.next_block_id = idx.next_block_id
  BY <1>5
<1>7. v \in IndexType
  BY <1>1, <1>3, <1>5, IndexMade
<1>8. Interned(v) /\ Limits(v) /\ KeyOf(v, key)
  BY <1>6, Zenon DEF Interned, Limits, KeyOf
<1>9. \A id \in DOMAIN v.blocks : v.blocks[id].prefix_refs >= Occurrences(key, id)
  BY <1>6
<1>10. /\ u \in IndexType /\ Interned(u) /\ Limits(u)
       /\ u.tree = v.tree
       /\ \A id : id \in DOMAIN u.blocks <=>
            /\ id \in DOMAIN v.blocks
            /\ v.blocks[id].prefix_refs # Occurrences(key, id)
       /\ \A id \in DOMAIN u.blocks :
            /\ u.blocks[id].tokens = v.blocks[id].tokens
            /\ u.blocks[id].prefix_refs = v.blocks[id].prefix_refs - Occurrences(key, id)
  BY <1>4, <1>7, <1>8, <1>9, ReleaseLemma
<1> QED BY <1>2, <1>6, <1>10

----------------------------------------------------------------------------
(* What queries find. *)

\* A nonempty bounded set of numbers has a greatest element.
LEMMA Greatest ==
    ASSUME NEW N \in Nat, NEW T, T \subseteq 0..N, T # {}
    PROVE  Max(T) \in T /\ \A y \in T : y <= Max(T)
<1> DEFINE R == OpToRel(<, Nat)
           D == {d \in 0..N : N - d \in T}
<1>1. IsWellFoundedOn(R, Nat)
  BY NatLessThanWellFounded
<1>2. \A x, y \in Nat : <<x, y>> \in R <=> x < y
  BY DEF OpToRel
<1> HIDE DEF R
<1>3. D \subseteq Nat /\ D # {}
  <2>1. PICK y \in T : TRUE
    OBVIOUS
  <2>2. N - y \in 0..N /\ N - (N - y) = y
    OBVIOUS
  <2>3. N - y \in D
    BY <2>1, <2>2
  <2>4. D \subseteq Nat
    OBVIOUS
  <2> HIDE DEF D
  <2> QED BY <2>3, <2>4
<1>4. PICK d \in D : \A y \in D : ~ (<<y, d>> \in R)
  <2> HIDE DEF D
  <2> QED BY <1>1, <1>3, WFMin
<1>5. d \in 0..N /\ N - d \in T
  OBVIOUS
<1>6. \A y \in T : y <= N - d
  <2> TAKE y \in T
  <2>1. y \in 0..N /\ N - y \in 0..N /\ N - (N - y) = y
    OBVIOUS
  <2>2. N - y \in D
    BY <2>1
  <2>3. ~(N - y < d)
    BY <1>2, <1>3, <1>4, <2>2
  <2> QED BY <1>5, <2>1, <2>3
<1>7. \E x \in T : \A y \in T : x >= y
  <2>1. \A y \in T : N - d >= y
    BY <1>5, <1>6
  <2> QED BY <1>5, <2>1
<1>8. Max(T) \in T /\ \A y \in T : Max(T) >= y
  BY <1>7, Zenon DEF Max
<1> QED BY <1>8

\* A prefix agrees with what it is a prefix of, place by place.
LEMMA PrefixAre ==
    ASSUME NEW S, NEW s \in Seq(S), NEW t \in Seq(S)
    PROVE  IsPrefix(s, t) <=> Len(s) <= Len(t) /\ \A i \in 1..Len(s) : s[i] = t[i]
<1>1. CASE Len(s) <= Len(t)
  <2> DEFINE a == SubSeq(s, 1, Len(s))
             b == SubSeq(t, 1, Len(s))
  <2>1. Len(s) \in Nat /\ a \in Seq(S) /\ b \in Seq(S)
        /\ DOMAIN a = 1..Len(s) /\ DOMAIN b = 1..Len(s)
        /\ a = [i \in DOMAIN a |-> a[i]] /\ b = [i \in DOMAIN b |-> b[i]]
    BY <1>1
  <2>2. \A i \in 1..Len(s) : a[i] = s[i] /\ b[i] = t[i]
    BY <1>1
  <2> HIDE DEF a, b
  <2>3. a = b <=> \A i \in 1..Len(s) : a[i] = b[i]
    BY <2>1
  <2> QED BY <1>1, <2>2, <2>3, Zenon DEF IsPrefix, a, b
<1>2. CASE ~(Len(s) <= Len(t))
  BY <1>2 DEF IsPrefix
<1> QED BY <1>1, <1>2

\* The same for keys.
LEMMA PrefixOfKey ==
    ASSUME NEW s \in Seq(Nat), NEW t \in Seq(Nat)
    PROVE  IsPrefix(s, t) <=> Len(s) <= Len(t) /\ \A i \in 1..Len(s) : s[i] = t[i]
<1>1. PICK S : S = Nat
  OBVIOUS
<1>2. \A a, b \in Seq(S) :
        IsPrefix(a, b) <=> Len(a) <= Len(b) /\ \A i \in 1..Len(a) : a[i] = b[i]
  BY PrefixAre
<1> QED BY <1>1, <1>2

\* lookup_key returns the ids of the leading blocks that are interned.
LEMMA LookupLemma ==
    ASSUME NEW idx \in IndexType, Interned(idx), NEW tokens \in Seq(Blocks),
           NEW key, key = LookupKey(idx, tokens)
    PROVE  /\ key \in Seq(Nat) /\ Len(key) <= Len(tokens)
           /\ \A i \in 1..Len(key) :
                tokens[i] \in DOMAIN idx.by_tokens /\ key[i] = idx.by_tokens[tokens[i]]
           /\ \A n \in 0..Len(tokens) :
                (\A i \in 1..n : tokens[i] \in DOMAIN idx.by_tokens) => n <= Len(key)
<1> DEFINE known == {n \in 0..Len(tokens) : \A i \in 1..n : tokens[i] \in DOMAIN idx.by_tokens}
           m == Max(known)
<1>1. Len(tokens) \in Nat /\ known \subseteq 0..Len(tokens) /\ 0 \in known
  OBVIOUS
<1>2. key = [i \in 1..m |-> idx.by_tokens[tokens[i]]]
  BY DEF LookupKey
<1>3. m \in known /\ \A y \in known : y <= m
  <2> HIDE DEF known
  <2> QED BY <1>1, Greatest
<1> HIDE DEF m
<1>4. m \in 0..Len(tokens) /\ \A i \in 1..m : tokens[i] \in DOMAIN idx.by_tokens
  BY <1>3
<1>5. \A n \in 0..Len(tokens) :
        (\A i \in 1..n : tokens[i] \in DOMAIN idx.by_tokens) => n <= m
  BY <1>3
<1> HIDE DEF known
<1>6. \A i \in 1..m : idx.by_tokens[tokens[i]] \in Nat
  BY <1>4, IndexFields
<1>7. key \in Seq(Nat) /\ Len(key) = m /\ \A i \in 1..m : key[i] = idx.by_tokens[tokens[i]]
  BY <1>2, <1>4, <1>6
<1> QED BY <1>1, <1>4, <1>5, <1>7

\* The tokens of a key are as many as its ids, and are blocks.
LEMMA TokensLemma ==
    ASSUME NEW idx \in IndexType, NEW k, KeyOf(idx, k)
    PROVE  /\ k \in Seq(Nat) /\ TokensOf(idx, k) \in Seq(Blocks)
           /\ Len(TokensOf(idx, k)) = Len(k)
           /\ \A i \in 1..Len(k) : TokensOf(idx, k)[i] = idx.blocks[k[i]].tokens
<1>1. k \in Seq(Nat) /\ \A i \in 1..Len(k) : k[i] \in DOMAIN idx.blocks
  BY DEF KeyOf
<1>2. \A i \in 1..Len(k) : idx.blocks[k[i]].tokens \in Blocks
  BY <1>1, IndexFields DEF Block
<1>3. TokensOf(idx, k) = [i \in 1..Len(k) |-> idx.blocks[k[i]].tokens]
  BY <1>1 DEF TokensOf
<1> QED BY <1>1, <1>2, <1>3

\* A key starts the key of some tokens exactly if the tokens it stands for start them.
LEMMA PrefixLemma ==
    ASSUME NEW idx \in IndexType, Interned(idx), NEW tokens \in Seq(Blocks),
           NEW k, KeyOf(idx, k)
    PROVE  IsPrefix(k, LookupKey(idx, tokens)) <=> IsPrefix(TokensOf(idx, k), tokens)
<1> DEFINE key == LookupKey(idx, tokens)
           t == TokensOf(idx, k)
<1>1. /\ key \in Seq(Nat) /\ Len(key) <= Len(tokens)
      /\ \A i \in 1..Len(key) :
           tokens[i] \in DOMAIN idx.by_tokens /\ key[i] = idx.by_tokens[tokens[i]]
      /\ \A n \in 0..Len(tokens) :
           (\A i \in 1..n : tokens[i] \in DOMAIN idx.by_tokens) => n <= Len(key)
  BY LookupLemma
<1>2. /\ k \in Seq(Nat) /\ t \in Seq(Blocks) /\ Len(t) = Len(k)
      /\ \A i \in 1..Len(k) : t[i] = idx.blocks[k[i]].tokens
  BY TokensLemma
<1>3. \A i \in 1..Len(k) :
        /\ k[i] \in DOMAIN idx.blocks /\ t[i] \in DOMAIN idx.by_tokens
        /\ idx.by_tokens[t[i]] = k[i]
  <2>1. \A i \in 1..Len(k) : k[i] \in DOMAIN idx.blocks
    BY <1>2 DEF KeyOf
  <2> QED BY <1>2, <2>1 DEF Interned
<1> HIDE DEF key, t
<1>4. IsPrefix(k, key) <=> Len(k) <= Len(key) /\ \A i \in 1..Len(k) : k[i] = key[i]
  <2>1. k \in Seq(Nat) /\ key \in Seq(Nat)
    BY <1>1, <1>2
  <2> QED BY <2>1, PrefixOfKey
<1>5. IsPrefix(t, tokens) <=> Len(k) <= Len(tokens) /\ \A i \in 1..Len(k) : t[i] = tokens[i]
  <2>1. IsPrefix(t, tokens) <=> Len(t) <= Len(tokens) /\ \A i \in 1..Len(t) : t[i] = tokens[i]
    BY <1>2, PrefixAre, Zenon
  <2> QED BY <1>2, <2>1
<1>6. ASSUME Len(k) <= Len(key), \A i \in 1..Len(k) : k[i] = key[i]
      PROVE  Len(k) <= Len(tokens) /\ \A i \in 1..Len(k) : t[i] = tokens[i]
  <2>1. Len(k) <= Len(tokens)
    BY <1>1, <1>2, <1>6
  <2>2. ASSUME NEW i \in 1..Len(k) PROVE t[i] = tokens[i]
    <3>1. i \in 1..Len(key)
      BY <1>1, <1>2, <1>6
    <3>2. k[i] = idx.by_tokens[tokens[i]] /\ tokens[i] \in DOMAIN idx.by_tokens
      BY <1>1, <1>6, <3>1
    <3> QED BY <1>2, <3>2 DEF Interned
  <2> QED BY <2>1, <2>2
<1>7. ASSUME Len(k) <= Len(tokens), \A i \in 1..Len(k) : t[i] = tokens[i]
      PROVE  Len(k) <= Len(key) /\ \A i \in 1..Len(k) : k[i] = key[i]
  <2>1. Len(k) \in 0..Len(tokens) /\ \A i \in 1..Len(k) : tokens[i] \in DOMAIN idx.by_tokens
    BY <1>2, <1>3, <1>7
  <2>2. Len(k) <= Len(key)
    BY <1>1, <2>1
  <2>3. ASSUME NEW i \in 1..Len(k) PROVE k[i] = key[i]
    <3>1. i \in 1..Len(key)
      BY <1>1, <1>2, <2>2
    <3> QED BY <1>1, <1>3, <1>7, <3>1
  <2> QED BY <2>2, <2>3
<1> QED BY <1>4, <1>5, <1>6, <1>7 DEF key, t

\* Keys that stand for the same tokens are the same.
LEMMA TokensInjective ==
    ASSUME NEW idx \in IndexType, Interned(idx), NEW j, KeyOf(idx, j), NEW k, KeyOf(idx, k),
           TokensOf(idx, j) = TokensOf(idx, k)
    PROVE  j = k
<1>1. /\ j \in Seq(Nat) /\ Len(TokensOf(idx, j)) = Len(j)
      /\ \A i \in 1..Len(j) : TokensOf(idx, j)[i] = idx.blocks[j[i]].tokens
      /\ \A i \in 1..Len(j) : j[i] \in DOMAIN idx.blocks
  BY TokensLemma DEF KeyOf
<1>2. /\ k \in Seq(Nat) /\ Len(TokensOf(idx, k)) = Len(k)
      /\ \A i \in 1..Len(k) : TokensOf(idx, k)[i] = idx.blocks[k[i]].tokens
      /\ \A i \in 1..Len(k) : k[i] \in DOMAIN idx.blocks
  BY TokensLemma DEF KeyOf
<1>3. Len(j) = Len(k)
  BY <1>1, <1>2
<1>4. \A i \in 1..Len(j) : idx.blocks[j[i]].tokens = idx.blocks[k[i]].tokens
  BY <1>1, <1>2, <1>3
<1>5. \A i \in 1..Len(j) : j[i] = k[i]
  BY <1>1, <1>2, <1>3, <1>4, SMTT(40) DEF Interned
<1> QED BY <1>1, <1>2, <1>3, <1>5

\* An exact query finds the entry whose key stands for the tokens.
LEMMA ExactLemma ==
    ASSUME NEW idx \in IndexType, Interned(idx), NEW keys, Named(idx, keys),
           NEW tokens \in Seq(Blocks)
    PROVE  /\ \A e \in DOMAIN keys : TokensOf(idx, keys[e]) = tokens => Exact(idx, tokens) = {e}
           /\ (\A e \in DOMAIN keys : TokensOf(idx, keys[e]) # tokens) => Exact(idx, tokens) = {}
<1> DEFINE key == LookupKey(idx, tokens)
<1>1. /\ key \in Seq(Nat) /\ Len(key) <= Len(tokens)
      /\ \A i \in 1..Len(key) :
           tokens[i] \in DOMAIN idx.by_tokens /\ key[i] = idx.by_tokens[tokens[i]]
  BY LookupLemma
<1>2. KeyOf(idx, key)
  BY <1>1 DEF KeyOf, Interned
<1>3. Exact(idx, tokens) =
        IF Len(key) = Len(tokens) /\ key \in DOMAIN idx.tree THEN {idx.tree[key]} ELSE {}
  BY Zenon DEF Exact
<1>4. Len(key) = Len(tokens) => TokensOf(idx, key) = tokens
  <2> HAVE Len(key) = Len(tokens)
  <2> DEFINE t == TokensOf(idx, key)
  <2>1. /\ t \in Seq(Blocks) /\ Len(t) = Len(key)
        /\ \A i \in 1..Len(key) : t[i] = idx.blocks[key[i]].tokens
    BY <1>2, TokensLemma
  <2>2. \A i \in 1..Len(key) : t[i] = tokens[i]
    BY <1>1, <2>1 DEF Interned
  <2> HIDE DEF t, key
  <2>3. t = tokens
    BY <2>1, <2>2
  <2> QED BY <2>3 DEF t
<1>5. ASSUME NEW e \in DOMAIN keys, TokensOf(idx, keys[e]) = tokens
      PROVE  Exact(idx, tokens) = {e}
  <2>1. KeyOf(idx, keys[e]) /\ keys[e] \in DOMAIN idx.tree /\ idx.tree[keys[e]] = e
    BY DEF Named
  <2>2. IsPrefix(tokens, tokens)
    BY PrefixAre
  <2>3. IsPrefix(keys[e], key)
    BY <1>5, <2>1, <2>2, PrefixLemma
  <2>4. Len(keys[e]) = Len(tokens) /\ keys[e] \in Seq(Nat)
    BY <1>5, <2>1, TokensLemma
  <2> HIDE DEF key
  <2>5. Len(keys[e]) <= Len(key) /\ \A i \in 1..Len(keys[e]) : keys[e][i] = key[i]
    BY <1>1, <2>3, <2>4, PrefixOfKey
  <2>6. Len(key) = Len(tokens)
    BY <1>1, <2>4, <2>5
  <2>7. keys[e] = key
    BY <1>1, <2>4, <2>5, <2>6
  <2> QED BY <1>3, <2>1, <2>6, <2>7
<1>6. ASSUME \A e \in DOMAIN keys : TokensOf(idx, keys[e]) # tokens
      PROVE  Exact(idx, tokens) = {}
  <2>1. SUFFICES ASSUME Len(key) = Len(tokens), key \in DOMAIN idx.tree
                 PROVE  FALSE
    BY <1>3, Zenon
  <2>2. idx.tree[key] \in DOMAIN keys /\ keys[idx.tree[key]] = key
    BY <2>1 DEF Named
  <2> QED BY <1>4, <1>6, <2>1, <2>2
<1> QED BY <1>5, <1>6

\* What a longest query finds, in terms of tokens.
IsLongest(idx, keys, tokens, e) ==
    /\ IsPrefix(TokensOf(idx, keys[e]), tokens)
    /\ \A f \in DOMAIN keys : IsPrefix(TokensOf(idx, keys[f]), tokens) =>
         Len(TokensOf(idx, keys[f])) <= Len(TokensOf(idx, keys[e]))

\* A longest query finds the entry whose key stands for the longest prefix.
LEMMA LongestLemma ==
    ASSUME NEW idx \in IndexType, Interned(idx), NEW keys, Named(idx, keys),
           NEW tokens \in Seq(Blocks), NEW x
    PROVE  x \in Longest(idx, LookupKey(idx, tokens)) <=>
             x \in DOMAIN keys /\ IsLongest(idx, keys, tokens, x)
<1> DEFINE key == LookupKey(idx, tokens)
           fit == {k \in DOMAIN idx.tree : IsPrefix(k, key)}
<1>1. x \in Longest(idx, key) <=>
        \E k \in fit : x = idx.tree[k] /\ \A other \in fit : Len(other) <= Len(k)
  BY DEF Longest
<1>2. \A e \in DOMAIN keys :
        /\ keys[e] \in fit <=> IsPrefix(TokensOf(idx, keys[e]), tokens)
        /\ Len(TokensOf(idx, keys[e])) = Len(keys[e])
        /\ idx.tree[keys[e]] = e
  <2> TAKE e \in DOMAIN keys
  <2>1. KeyOf(idx, keys[e]) /\ keys[e] \in DOMAIN idx.tree /\ idx.tree[keys[e]] = e
    BY DEF Named
  <2>2. IsPrefix(keys[e], key) <=> IsPrefix(TokensOf(idx, keys[e]), tokens)
    BY <2>1, PrefixLemma
  <2>3. Len(TokensOf(idx, keys[e])) = Len(keys[e])
    BY <2>1, TokensLemma
  <2> HIDE DEF key
  <2> QED BY <2>1, <2>2, <2>3
<1>3. \A k \in fit : idx.tree[k] \in DOMAIN keys /\ keys[idx.tree[k]] = k
  BY DEF Named
<1> HIDE DEF fit, key
<1>4. ASSUME x \in DOMAIN keys, IsLongest(idx, keys, tokens, x)
      PROVE  \E k \in fit : x = idx.tree[k] /\ \A other \in fit : Len(other) <= Len(k)
  <2>1. keys[x] \in fit /\ x = idx.tree[keys[x]]
    BY <1>2, <1>4 DEF IsLongest
  <2>2. ASSUME NEW other \in fit PROVE Len(other) <= Len(keys[x])
    BY <1>2, <1>3, <1>4 DEF IsLongest
  <2> QED BY <2>1, <2>2
<1>5. ASSUME NEW k \in fit, x = idx.tree[k], \A other \in fit : Len(other) <= Len(k)
      PROVE  x \in DOMAIN keys /\ IsLongest(idx, keys, tokens, x)
  <2>1. x \in DOMAIN keys /\ keys[x] = k
    BY <1>3, <1>5
  <2> QED BY <1>2, <1>5, <2>1 DEF IsLongest
<1> QED BY <1>1, <1>4, <1>5 DEF key

----------------------------------------------------------------------------
(* The steps of a call. *)

\* The prefixes that calls ask for and retain.
LEMMA TokenPrefixesAre ==
    ASSUME NEW t
    PROVE  t \in TokenPrefixes <=> t \in Seq(Blocks) /\ Len(t) <= KeyBound
<1>1. t \in TokenPrefixes <=> \E n \in 0..KeyBound : t \in [1..n -> Blocks]
  BY DEF TokenPrefixes
<1>2. ASSUME NEW n \in 0..KeyBound, t \in [1..n -> Blocks]
      PROVE  t \in Seq(Blocks) /\ Len(t) <= KeyBound
  BY <1>2, IndexAssumption
<1>3. ASSUME t \in Seq(Blocks), Len(t) <= KeyBound
      PROVE  \E n \in 0..KeyBound : t \in [1..n -> Blocks]
  BY <1>3, IndexAssumption
<1> QED BY <1>1, <1>2, <1>3

\* The entries have finitely many keys.
LEMMA KeysFinite ==
    ASSUME NEW idx, NEW keys, NEW n, EntriesOK(idx, keys, n)
    PROVE  Keys(keys) /\ n \in Nat /\ DOMAIN keys \subseteq Nat
<1>1. n \in Nat /\ IsFiniteSet(0..n)
  BY IndexAssumption, FS_Interval DEF EntriesOK
<1>2. DOMAIN keys \subseteq Nat
  BY MapsAre DEF EntriesOK
<1>3. DOMAIN keys \subseteq 0..n
  BY <1>1, <1>2 DEF EntriesOK
<1>4. IsFiniteSet(DOMAIN keys)
  BY <1>1, <1>3, FS_Subset
<1> QED BY <1>1, <1>2, <1>4 DEF Keys, EntriesOK

\* References are counted in natural numbers, and a block without any is in no key.
LEMMA RefsAre ==
    ASSUME NEW idx, NEW keys, NEW n, EntriesOK(idx, keys, n), NEW ids \in Seq(Nat), NEW id
    PROVE  /\ Cardinality(Places(keys, id)) \in Nat /\ Occurrences(ids, id) \in Nat
           /\ Refs(keys, ids, id) \in Nat
           /\ Refs(keys, ids, id) = Cardinality(Places(keys, id)) + Occurrences(ids, id)
           /\ \A e \in DOMAIN keys : \A i \in DOMAIN keys[e] :
                keys[e][i] = id => Cardinality(Places(keys, id)) # 0
           /\ \A i \in DOMAIN ids : ids[i] = id => Occurrences(ids, id) # 0
<1>1. /\ Cardinality(Places(keys, id)) \in Nat
      /\ Cardinality(Places(keys, id)) = 0 <=> \A e \in DOMAIN keys : id \notin Range(keys[e])
  BY KeysFinite, PlacesFinite
<1>2. Occurrences(ids, id) \in Nat /\ (Occurrences(ids, id) = 0 <=> id \notin Range(ids))
  BY OccurrencesAre
<1>3. \A i \in DOMAIN ids : ids[i] = id => Occurrences(ids, id) # 0
  BY <1>2 DEF Range
<1>4. \A e \in DOMAIN keys : \A i \in DOMAIN keys[e] :
        keys[e][i] = id => Cardinality(Places(keys, id)) # 0
  BY <1>1 DEF Range
<1> QED BY <1>1, <1>2, <1>3, <1>4 DEF Refs

\* Keys keep their tokens as long as their blocks do.
LEMMA TokensFrame ==
    ASSUME NEW idx, NEW u, NEW k, KeyOf(idx, k), KeyOf(u, k),
           \A id \in DOMAIN u.blocks : id \in DOMAIN idx.blocks =>
             u.blocks[id].tokens = idx.blocks[id].tokens
    PROVE  TokensOf(u, k) = TokensOf(idx, k)
<1>1. \A i \in DOMAIN k : u.blocks[k[i]].tokens = idx.blocks[k[i]].tokens
  BY DEF KeyOf
<1> QED BY <1>1 DEF TokensOf

\* No call holds no block.
LEMMA NoCallHolds ==
    /\ NoCall \in [tokens : TokenPrefixes, blocks : Seq(Nat), evicting : BOOLEAN]
    /\ NoCall.tokens = <<>> /\ NoCall.blocks = <<>> /\ Len(<<>>) = 0 /\ DOMAIN <<>> = {}
    /\ <<>> \in Seq(Nat)
    /\ \A id : Occurrences(<<>>, id) = 0
<1>1. <<>> \in TokenPrefixes
  <2>1. <<>> \in Seq(Blocks) /\ Len(<<>>) <= KeyBound
    BY IndexAssumption
  <2> QED BY <2>1, TokenPrefixesAre, Zenon
<1>2. NoCall.tokens = <<>> /\ NoCall.blocks = <<>> /\ Len(<<>>) = 0 /\ DOMAIN <<>> = {}
      /\ <<>> \in Seq(Nat)
  BY DEF NoCall
<1>3. NoCall \in [tokens : TokenPrefixes, blocks : Seq(Nat), evicting : BOOLEAN]
  BY <1>1 DEF NoCall
<1>4. ASSUME NEW id PROVE Occurrences(<<>>, id) = 0
  <2>1. id \notin Range(<<>>)
    BY DEF Range
  <2> QED BY <2>1, <1>2, OccurrencesAre
<1> QED BY <1>2, <1>3, <1>4

\* The keys stand for the same tokens in two indexes.
SameTokens(idx, u, keys) ==
    \A e \in DOMAIN keys : TokensOf(u, keys[e]) = TokensOf(idx, keys[e])

\* A round of the loop of prepare_key: the index and the call before and after it.
Interns(idx, c, u, d) ==
    LET block == c.tokens[Len(c.blocks) + 1]
    IN  /\ Len(c.blocks) < Len(c.tokens)
        /\ InternsAs(idx, u, block)
        /\ d = [c EXCEPT !.blocks = Append(@, u.by_tokens[block])]

\* A round of prepare_key extends the prepared key by one reference to the next block.
LEMMA InternStep ==
    ASSUME NEW idx, NEW keys, NEW c, NEW n, Kept(idx, keys, c, n),
           NEW u, NEW d, Interns(idx, c, u, d)
    PROVE  Kept(u, keys, d, n) /\ d.tokens = c.tokens /\ SameTokens(idx, u, keys)
<1> USE DEF Interns, SameTokens
<1> DEFINE block == c.tokens[Len(c.blocks) + 1]
           x == u.by_tokens[block]
           ids == Append(c.blocks, x)
<1>1. /\ c \in [tokens : TokenPrefixes, blocks : Seq(Nat), evicting : BOOLEAN]
      /\ c.blocks \in Seq(Nat) /\ c.tokens \in TokenPrefixes /\ c.tokens \in Seq(Blocks)
      /\ \A i \in 1..Len(c.blocks) :
           /\ c.blocks[i] \in DOMAIN idx.blocks
           /\ idx.blocks[c.blocks[i]].tokens = c.tokens[i]
  <2>1. c \in [tokens : TokenPrefixes, blocks : Seq(Nat), evicting : BOOLEAN]
    BY DEF Kept, CallOK
  <2>2. c.blocks \in Seq(Nat) /\ c.tokens \in TokenPrefixes
    BY <2>1
  <2>3. \A i \in 1..Len(c.blocks) :
           /\ c.blocks[i] \in DOMAIN idx.blocks
           /\ idx.blocks[c.blocks[i]].tokens = c.tokens[i]
    BY <2>2, SMTT(40) DEF Kept, CallOK, KeyOf
  <2> QED BY <2>1, <2>2, <2>3, TokenPrefixesAre
<1>2. /\ u \in IndexType /\ Interned(u) /\ Limits(u) /\ u.tree = idx.tree
      /\ x \in DOMAIN u.blocks /\ u.blocks[x].tokens = block
      /\ DOMAIN u.blocks = DOMAIN idx.blocks \cup {x}
      /\ x \notin DOMAIN idx.blocks => u.blocks[x].prefix_refs = 1
  BY Zenon DEF InternsAs
<1>3. \A id \in DOMAIN idx.blocks :
        /\ u.blocks[id].tokens = idx.blocks[id].tokens
        /\ u.blocks[id].prefix_refs = idx.blocks[id].prefix_refs + (IF x = id THEN 1 ELSE 0)
  BY Zenon DEF InternsAs
<1>4. x \in Nat
  BY <1>2, IndexFields
<1>5. /\ ids \in Seq(Nat) /\ Len(ids) = Len(c.blocks) + 1 /\ ids[Len(c.blocks) + 1] = x
      /\ \A i \in 1..Len(c.blocks) : ids[i] = c.blocks[i]
      /\ DOMAIN ids = 1..(Len(c.blocks) + 1)
  BY <1>1, <1>4
<1>6. d = [c EXCEPT !.blocks = ids]
  BY Zenon
<1> HIDE DEF ids, x
<1>7. /\ d \in [tokens : TokenPrefixes, blocks : Seq(Nat), evicting : BOOLEAN]
      /\ d.tokens = c.tokens /\ d.blocks = ids
  BY <1>1, <1>5, <1>6
<1>8. \A k : KeyOf(idx, k) => KeyOf(u, k)
  BY <1>2 DEF KeyOf
<1>9. \A e \in DOMAIN keys : KeyOf(idx, keys[e]) /\ KeyOf(u, keys[e])
  BY <1>8, Zenon DEF Kept, EntriesOK, Named
<1>10. \A e \in DOMAIN keys : TokensOf(u, keys[e]) = TokensOf(idx, keys[e])
  BY <1>3, <1>9, TokensFrame
<1>11. Named(u, keys)
  BY <1>2, <1>9 DEF Kept, EntriesOK, Named
<1>12. EntriesOK(u, keys, n) /\ EntriesOK(idx, keys, n)
  BY <1>11, ZenonT(60) DEF Kept, EntriesOK
<1>13. CallOK(u, keys, d)
  <2>1. KeyOf(u, ids)
    <3>1. \A i \in 1..(Len(c.blocks) + 1) : i = Len(c.blocks) + 1 \/ i \in 1..Len(c.blocks)
      BY <1>1
    <3>2. \A i \in DOMAIN ids : ids[i] \in DOMAIN u.blocks
      BY <1>1, <1>2, <1>5, <3>1, Zenon
    <3> QED BY <1>5, <3>2 DEF KeyOf
  <2>2. Len(ids) <= Len(c.tokens)
    BY <1>1, <1>5
  <2>3. \A i \in DOMAIN ids : u.blocks[ids[i]].tokens = c.tokens[i]
    <3> TAKE i \in DOMAIN ids
    <3>1. CASE i = Len(c.blocks) + 1
      BY <1>2, <1>5, <3>1
    <3>2. CASE i \in 1..Len(c.blocks)
      BY <1>1, <1>3, <1>5, <3>2, ZenonT(60)
    <3> QED BY <1>1, <1>5, <3>1, <3>2
  <2>4. c.tokens # <<>>
    BY <1>1
  <2>5. \A e \in DOMAIN keys : TokensOf(u, keys[e]) # c.tokens
    BY <1>10, <2>4 DEF Kept, CallOK
  <2> QED BY <1>7, <2>1, <2>2, <2>3, <2>4, <2>5 DEF CallOK
<1>14. CountsOK(u, keys, ids, n)
  <2> SUFFICES ASSUME NEW id \in DOMAIN u.blocks
               PROVE  /\ u.blocks[id].prefix_refs >= Refs(keys, ids, id)
                      /\ n < MaxPrefixId => u.blocks[id].prefix_refs = Refs(keys, ids, id)
    BY DEF CountsOK
  <2>1. Occurrences(ids, id) = Occurrences(c.blocks, id) + (IF x = id THEN 1 ELSE 0)
    BY <1>1, <1>4, OccurrencesAppend DEF ids
  <2>2. /\ Cardinality(Places(keys, id)) \in Nat /\ Occurrences(c.blocks, id) \in Nat
        /\ Refs(keys, c.blocks, id) = Cardinality(Places(keys, id)) + Occurrences(c.blocks, id)
    BY <1>1, <1>12, RefsAre
  <2>3. Refs(keys, ids, id) = Refs(keys, c.blocks, id) + (IF x = id THEN 1 ELSE 0)
    BY <2>1, <2>2 DEF Refs
  <2>4. CASE id \in DOMAIN idx.blocks
    <3>1. idx.blocks[id].prefix_refs \in Nat
      BY <2>4, IndexFields DEF Kept, IndexOK, Block
    <3>2. /\ idx.blocks[id].prefix_refs >= Refs(keys, c.blocks, id)
          /\ n < MaxPrefixId => idx.blocks[id].prefix_refs = Refs(keys, c.blocks, id)
      BY <2>4 DEF Kept, CountsOK
    <3>3. u.blocks[id].prefix_refs = idx.blocks[id].prefix_refs + (IF x = id THEN 1 ELSE 0)
      BY <1>3, <2>4
    <3> QED BY <2>2, <2>3, <3>1, <3>2, <3>3
  <2>5. CASE id \notin DOMAIN idx.blocks
    <3>1. id = x /\ u.blocks[id].prefix_refs = 1
      BY <1>2, <2>5
    <3>2. \A e \in DOMAIN keys : id \notin Range(keys[e])
      BY <1>9, <2>5 DEF KeyOf, Range
    <3>3. Cardinality(Places(keys, id)) = 0
      BY <1>12, <3>2, KeysFinite, PlacesFinite
    <3>4. id \notin Range(c.blocks)
      <4>1. DOMAIN c.blocks = 1..Len(c.blocks)
        BY <1>1
      <4> QED BY <1>1, <2>5, <4>1, Zenon DEF Range
    <3>5. Occurrences(c.blocks, id) = 0
      BY <1>1, <3>4, OccurrencesAre
    <3> QED BY <2>2, <2>3, <3>1, <3>3, <3>5
  <2> QED BY <2>4, <2>5
<1> QED BY <1>2, <1>7, <1>10, <1>12, <1>13, <1>14 DEF Kept, IndexOK

\* rollback_key, and the error paths of prepare_key, give back what was interned and
\* leave every entry its blocks.
LEMMA ReleaseStep ==
    ASSUME NEW idx, NEW keys, NEW c, NEW n, Kept(idx, keys, c, n),
           NEW u, u = ReleaseBlocks(idx, c.blocks)
    PROVE  Kept(u, keys, NoCall, n) /\ SameTokens(idx, u, keys)
<1> USE DEF SameTokens
<1>1. /\ idx \in IndexType /\ Interned(idx) /\ Limits(idx) /\ EntriesOK(idx, keys, n)
      /\ KeyOf(idx, c.blocks) /\ c.blocks \in Seq(Nat)
  BY DEF Kept, IndexOK, CallOK, KeyOf
<1>2. \A id \in DOMAIN idx.blocks :
        /\ Cardinality(Places(keys, id)) \in Nat /\ Occurrences(c.blocks, id) \in Nat
        /\ idx.blocks[id].prefix_refs \in Nat
        /\ idx.blocks[id].prefix_refs >= Cardinality(Places(keys, id)) + Occurrences(c.blocks, id)
        /\ n < MaxPrefixId =>
             idx.blocks[id].prefix_refs = Cardinality(Places(keys, id)) + Occurrences(c.blocks, id)
  <2> TAKE id \in DOMAIN idx.blocks
  <2>1. /\ Cardinality(Places(keys, id)) \in Nat /\ Occurrences(c.blocks, id) \in Nat
        /\ Refs(keys, c.blocks, id) = Cardinality(Places(keys, id)) + Occurrences(c.blocks, id)
    BY <1>1, RefsAre
  <2>2. idx.blocks[id].prefix_refs \in Nat
    BY <1>1, IndexFields DEF Block
  <2>3. /\ idx.blocks[id].prefix_refs >= Refs(keys, c.blocks, id)
        /\ n < MaxPrefixId => idx.blocks[id].prefix_refs = Refs(keys, c.blocks, id)
    BY DEF Kept, CountsOK
  <2> QED BY <2>1, <2>2, <2>3
<1>3. \A id \in DOMAIN idx.blocks : idx.blocks[id].prefix_refs >= Occurrences(c.blocks, id)
  BY <1>2
<1>4. /\ u \in IndexType /\ Interned(u) /\ Limits(u) /\ u.tree = idx.tree
      /\ \A id : id \in DOMAIN u.blocks <=>
           /\ id \in DOMAIN idx.blocks
           /\ idx.blocks[id].prefix_refs # Occurrences(c.blocks, id)
      /\ \A id \in DOMAIN u.blocks :
           /\ u.blocks[id].tokens = idx.blocks[id].tokens
           /\ u.blocks[id].prefix_refs = idx.blocks[id].prefix_refs - Occurrences(c.blocks, id)
  BY <1>1, <1>3, ReleaseLemma
<1>5. ASSUME NEW e \in DOMAIN keys
      PROVE  KeyOf(idx, keys[e]) /\ KeyOf(u, keys[e])
  <2>1. KeyOf(idx, keys[e])
    BY <1>1 DEF EntriesOK, Named
  <2>2. ASSUME NEW i \in DOMAIN keys[e] PROVE keys[e][i] \in DOMAIN u.blocks
    <3>1. Cardinality(Places(keys, keys[e][i])) # 0
      BY <1>1, RefsAre
    <3>2. keys[e][i] \in DOMAIN idx.blocks
      BY <2>1 DEF KeyOf
    <3> QED BY <1>2, <1>4, <3>1, <3>2
  <2> QED BY <2>1, <2>2 DEF KeyOf
<1>6. \A e \in DOMAIN keys : TokensOf(u, keys[e]) = TokensOf(idx, keys[e])
  BY <1>4, <1>5, TokensFrame
<1>7. EntriesOK(u, keys, n)
  BY <1>1, <1>4, <1>5 DEF EntriesOK, Named
<1>8. CallOK(u, keys, NoCall)
  BY NoCallHolds DEF CallOK, KeyOf
<1>9. CountsOK(u, keys, <<>>, n)
  <2> SUFFICES ASSUME NEW id \in DOMAIN u.blocks
               PROVE  /\ u.blocks[id].prefix_refs >= Refs(keys, <<>>, id)
                      /\ n < MaxPrefixId => u.blocks[id].prefix_refs = Refs(keys, <<>>, id)
    BY DEF CountsOK
  <2>1. id \in DOMAIN idx.blocks
    BY <1>4
  <2>2. Refs(keys, <<>>, id) = Cardinality(Places(keys, id))
    BY <1>2, <2>1, NoCallHolds DEF Refs
  <2> QED BY <1>2, <1>4, <2>1, <2>2
<1> QED BY <1>4, <1>6, <1>7, <1>8, <1>9, NoCallHolds DEF Kept, IndexOK

\* Once the entry ids have run out, a retention forgets its key without giving anything
\* back: the counts stay above the references.
LEMMA ForgetStep ==
    ASSUME NEW idx, NEW keys, NEW c, Kept(idx, keys, c, MaxPrefixId)
    PROVE  Kept(idx, keys, NoCall, MaxPrefixId)
<1>1. /\ IndexOK(idx) /\ EntriesOK(idx, keys, MaxPrefixId) /\ c.blocks \in Seq(Nat)
  BY DEF Kept, CallOK, KeyOf
<1>2. CallOK(idx, keys, NoCall)
  BY NoCallHolds DEF CallOK, KeyOf
<1>3. CountsOK(idx, keys, <<>>, MaxPrefixId)
  <2> SUFFICES ASSUME NEW id \in DOMAIN idx.blocks
               PROVE  idx.blocks[id].prefix_refs >= Refs(keys, <<>>, id)
    BY IndexAssumption DEF CountsOK
  <2>1. /\ Cardinality(Places(keys, id)) \in Nat /\ Occurrences(c.blocks, id) \in Nat
        /\ Refs(keys, c.blocks, id) = Cardinality(Places(keys, id)) + Occurrences(c.blocks, id)
    BY <1>1, RefsAre
  <2>2. Refs(keys, <<>>, id) = Cardinality(Places(keys, id))
    BY <2>1, NoCallHolds DEF Refs
  <2>3. idx.blocks[id].prefix_refs \in Nat
    BY <1>1, IndexFields DEF Block, IndexOK
  <2>4. idx.blocks[id].prefix_refs >= Refs(keys, c.blocks, id)
    BY DEF Kept, CountsOK
  <2> QED BY <2>1, <2>2, <2>3, <2>4
<1> QED BY <1>1, <1>2, <1>3, NoCallHolds DEF Kept

\* An eviction: the index, the keys and the call after it.
Evicts(idx, keys, c, e, u, less, d) ==
    /\ u = RemoveKey(idx, keys[e])
    /\ less = Restrict(keys, DOMAIN keys \ {e})
    /\ d \in [tokens : TokenPrefixes, blocks : Seq(Nat), evicting : BOOLEAN]
    /\ d.tokens = c.tokens /\ d.blocks = c.blocks
    /\ d.tokens = <<>> => d = NoCall

\* What is left of the keys.
Leaves(keys, e, less) ==
    DOMAIN less = DOMAIN keys \ {e} /\ \A f \in DOMAIN less : less[f] = keys[f]

\* Evicting an entry takes its key out of the tree and leaves the other entries and a
\* prepared key their blocks, also those that they share with it.
LEMMA EvictStep ==
    ASSUME NEW idx, NEW keys, NEW c, NEW n, Kept(idx, keys, c, n),
           NEW e \in DOMAIN keys,
           NEW u, NEW less, NEW d, Evicts(idx, keys, c, e, u, less, d)
    PROVE  Kept(u, less, d, n) /\ Leaves(keys, e, less) /\ SameTokens(idx, u, less)
<1> USE DEF Evicts, Leaves, SameTokens
<1>1. /\ idx \in IndexType /\ Interned(idx) /\ Limits(idx) /\ EntriesOK(idx, keys, n)
      /\ CallOK(idx, keys, c) /\ KeyOf(idx, c.blocks) /\ c.blocks \in Seq(Nat)
      /\ KeyOf(idx, keys[e]) /\ keys[e] \in Seq(Nat)
      /\ keys[e] \in DOMAIN idx.tree /\ idx.tree[keys[e]] = e
  BY DEF Kept, IndexOK, CallOK, KeyOf, EntriesOK, Named
<1>2. DOMAIN less = DOMAIN keys \ {e} /\ \A f \in DOMAIN less : less[f] = keys[f]
  BY DEF Restrict
<1>3. Keys(keys) /\ Keys(less)
  <2>1. Keys(keys) /\ DOMAIN keys \subseteq Nat
    BY <1>1, KeysFinite
  <2>2. IsFiniteSet(DOMAIN less)
    BY <1>2, <2>1, FS_Subset DEF Keys
  <2>3. less \in [DOMAIN less -> Seq(Nat)] /\ DOMAIN less \subseteq Nat
    BY <1>2, <2>1, MapsAre DEF Keys, Restrict
  <2>4. less \in Maps(Nat, Seq(Nat))
    BY <2>3, MapsAre
  <2> QED BY <1>2, <2>1, <2>2, <2>4 DEF Keys
<1>4. \A id \in DOMAIN idx.blocks :
        /\ Cardinality(Places(less, id)) \in Nat /\ Occurrences(c.blocks, id) \in Nat
        /\ Occurrences(keys[e], id) \in Nat /\ idx.blocks[id].prefix_refs \in Nat
        /\ idx.blocks[id].prefix_refs >=
             (Cardinality(Places(less, id)) + Occurrences(keys[e], id)) + Occurrences(c.blocks, id)
        /\ n < MaxPrefixId => idx.blocks[id].prefix_refs =
             (Cardinality(Places(less, id)) + Occurrences(keys[e], id)) + Occurrences(c.blocks, id)
  <2> TAKE id \in DOMAIN idx.blocks
  <2>1. /\ Occurrences(c.blocks, id) \in Nat
        /\ Refs(keys, c.blocks, id) = Cardinality(Places(keys, id)) + Occurrences(c.blocks, id)
    BY <1>1, RefsAre
  <2>2. idx.blocks[id].prefix_refs \in Nat
    BY <1>1, IndexFields DEF Block
  <2>3. /\ idx.blocks[id].prefix_refs >= Refs(keys, c.blocks, id)
        /\ n < MaxPrefixId => idx.blocks[id].prefix_refs = Refs(keys, c.blocks, id)
    BY DEF Kept, CountsOK
  <2>4. Cardinality(Places(less, id)) \in Nat
    BY <1>3, PlacesFinite
  <2>5. Occurrences(keys[e], id) \in Nat
    BY <1>1, OccurrencesAre
  <2>6. DOMAIN keys = DOMAIN less \cup {e} /\ e \notin DOMAIN less
        /\ \A f \in DOMAIN less : keys[f] = less[f]
    BY <1>2
  <2>7. Cardinality(Places(keys, id)) = Cardinality(Places(less, id)) + Occurrences(keys[e], id)
    <3>1. OneMore(less, keys, e)
      BY <1>3, <2>6 DEF OneMore
    <3> QED BY <3>1, PlacesInsert
  <2> QED BY <2>1, <2>2, <2>3, <2>4, <2>5, <2>7
<1>5. \A id \in DOMAIN idx.blocks : idx.blocks[id].prefix_refs >= Occurrences(keys[e], id)
  BY <1>4
<1>6. /\ u \in IndexType /\ Interned(u) /\ Limits(u)
      /\ DOMAIN u.tree = DOMAIN idx.tree \ {keys[e]}
      /\ \A k \in DOMAIN u.tree : u.tree[k] = idx.tree[k]
      /\ \A id : id \in DOMAIN u.blocks <=>
           /\ id \in DOMAIN idx.blocks
           /\ idx.blocks[id].prefix_refs # Occurrences(keys[e], id)
      /\ \A id \in DOMAIN u.blocks :
           /\ u.blocks[id].tokens = idx.blocks[id].tokens
           /\ u.blocks[id].prefix_refs = idx.blocks[id].prefix_refs - Occurrences(keys[e], id)
  BY <1>1, <1>5, RemoveLemma
<1>15. ASSUME NEW id \in DOMAIN idx.blocks,
              Cardinality(Places(less, id)) # 0 \/ Occurrences(c.blocks, id) # 0
       PROVE  id \in DOMAIN u.blocks
  <2> DEFINE p == Cardinality(Places(less, id))
             o == Occurrences(c.blocks, id)
             q == Occurrences(keys[e], id)
             r == idx.blocks[id].prefix_refs
  <2>1. p \in Nat /\ o \in Nat /\ q \in Nat /\ r \in Nat /\ r >= (p + q) + o
    BY <1>4
  <2>2. p # 0 \/ o # 0
    BY <1>15
  <2> HIDE DEF p, o, q, r
  <2>3. r # q
    BY <2>1, <2>2
  <2> QED BY <1>6, <2>3 DEF q, r
<1>7. \A f \in DOMAIN less : \A i \in DOMAIN less[f] : Cardinality(Places(less, less[f][i])) # 0
  <2> TAKE f \in DOMAIN less
  <2> TAKE i \in DOMAIN less[f]
  <2> DEFINE id == less[f][i]
  <2>1. id \in Range(less[f])
    BY DEF Range
  <2> HIDE DEF id
  <2>2. Cardinality(Places(less, id)) = 0 <=> \A g \in DOMAIN less : id \notin Range(less[g])
    BY <1>3, PlacesFinite
  <2>3. Cardinality(Places(less, id)) # 0
    BY <2>1, <2>2
  <2> QED BY <2>3 DEF id
<1>8. ASSUME NEW f \in DOMAIN less
      PROVE  KeyOf(idx, less[f]) /\ KeyOf(u, less[f])
  <2>1. KeyOf(idx, less[f])
    BY <1>1, <1>2 DEF EntriesOK, Named
  <2>2. ASSUME NEW i \in DOMAIN less[f] PROVE less[f][i] \in DOMAIN u.blocks
    <3>1. Cardinality(Places(less, less[f][i])) # 0
      BY <1>7
    <3>2. less[f][i] \in DOMAIN idx.blocks
      BY <2>1 DEF KeyOf
    <3> QED BY <1>15, <3>1, <3>2
  <2> QED BY <2>1, <2>2 DEF KeyOf
<1>9. \A f \in DOMAIN less : TokensOf(u, less[f]) = TokensOf(idx, less[f])
  <2> TAKE f \in DOMAIN less
  <2>1. KeyOf(idx, less[f]) /\ KeyOf(u, less[f])
    BY <1>8
  <2>2. \A id \in DOMAIN u.blocks : id \in DOMAIN idx.blocks =>
          u.blocks[id].tokens = idx.blocks[id].tokens
    BY <1>6
  <2> QED BY <2>1, <2>2, TokensFrame, ZenonT(60)
<1>10. Named(u, less)
  <2>1. \A f \in DOMAIN less : less[f] \in DOMAIN u.tree /\ u.tree[less[f]] = f
    <3> TAKE f \in DOMAIN less
    <3>1. f # e /\ less[f] = keys[f] /\ keys[f] \in DOMAIN idx.tree /\ idx.tree[keys[f]] = f
      BY <1>1, <1>2 DEF EntriesOK, Named
    <3> QED BY <1>1, <1>6, <3>1
  <2>2. \A k \in DOMAIN u.tree : u.tree[k] \in DOMAIN less /\ less[u.tree[k]] = k
    <3> TAKE k \in DOMAIN u.tree
    <3>1. k \in DOMAIN idx.tree /\ k # keys[e] /\ u.tree[k] = idx.tree[k]
      BY <1>6
    <3>2. idx.tree[k] \in DOMAIN keys /\ keys[idx.tree[k]] = k
      BY <1>1, <3>1, Zenon DEF EntriesOK, Named
    <3>3. idx.tree[k] \in DOMAIN less
      BY <1>2, <3>1, <3>2
    <3> QED BY <1>2, <3>1, <3>2, <3>3
  <2> QED BY <1>8, <2>1, <2>2 DEF Named
<1>11. EntriesOK(u, less, n)
  BY <1>1, <1>2, <1>3, <1>10 DEF EntriesOK, Keys
<1>12. KeyOf(u, c.blocks)
  <2>1. ASSUME NEW i \in DOMAIN c.blocks PROVE c.blocks[i] \in DOMAIN u.blocks
    <3>1. Occurrences(c.blocks, c.blocks[i]) # 0
      BY <1>1, RefsAre
    <3>2. c.blocks[i] \in DOMAIN idx.blocks
      BY <1>1 DEF KeyOf
    <3> QED BY <1>15, <3>1, <3>2
  <2> QED BY <1>1, <2>1 DEF KeyOf
<1>13. CallOK(u, less, d)
  <2>1. Len(c.blocks) <= Len(c.tokens)
    BY <1>1 DEF CallOK
  <2>2. \A i \in DOMAIN c.blocks : u.blocks[c.blocks[i]].tokens = c.tokens[i]
    BY <1>1, <1>6, <1>12 DEF CallOK, KeyOf
  <2>3. c.tokens # <<>> => \A f \in DOMAIN less : TokensOf(u, less[f]) # c.tokens
    BY <1>1, <1>2, <1>9 DEF CallOK
  <2> QED BY <1>12, <2>1, <2>2, <2>3 DEF CallOK
<1>14. CountsOK(u, less, c.blocks, n)
  <2> SUFFICES ASSUME NEW id \in DOMAIN u.blocks
               PROVE  /\ u.blocks[id].prefix_refs >= Refs(less, c.blocks, id)
                      /\ n < MaxPrefixId => u.blocks[id].prefix_refs = Refs(less, c.blocks, id)
    BY DEF CountsOK
  <2>1. id \in DOMAIN idx.blocks
        /\ u.blocks[id].prefix_refs = idx.blocks[id].prefix_refs - Occurrences(keys[e], id)
    BY <1>6
  <2> DEFINE p == Cardinality(Places(less, id))
             o == Occurrences(c.blocks, id)
             q == Occurrences(keys[e], id)
             r == idx.blocks[id].prefix_refs
  <2>2. /\ p \in Nat /\ o \in Nat /\ q \in Nat /\ r \in Nat /\ r >= (p + q) + o
        /\ n < MaxPrefixId => r = (p + q) + o
    BY <1>4, <2>1
  <2>3. u.blocks[id].prefix_refs = r - q /\ Refs(less, c.blocks, id) = p + o
    BY <2>1 DEF Refs
  <2> HIDE DEF p, o, q, r
  <2> QED BY <2>2, <2>3
<1> QED BY <1>2, <1>6, <1>9, <1>11, <1>13, <1>14 DEF Kept, IndexOK

\* A commit: the index and the keys after it.
Commits(idx, keys, c, n, u, more) ==
    /\ c.tokens # <<>> /\ Len(c.blocks) = Len(c.tokens)
    /\ n < MaxPrefixId
    /\ u = CommitKey(idx, c.blocks, n)
    /\ more = [e \in DOMAIN keys \cup {n} |-> IF e = n THEN c.blocks ELSE keys[e]]

\* The keys with that of the new entry.
Gains(keys, n, u, tokens, more) ==
    /\ n \notin DOMAIN keys /\ DOMAIN more = DOMAIN keys \cup {n}
    /\ TokensOf(u, more[n]) = tokens
    /\ \A e \in DOMAIN keys : more[e] = keys[e]

\* Committing makes the prepared key the key of a new entry, which takes over its
\* references.
LEMMA CommitStep ==
    ASSUME NEW idx, NEW keys, NEW c, NEW n, Kept(idx, keys, c, n),
           NEW u, NEW more, Commits(idx, keys, c, n, u, more)
    PROVE  /\ Kept(u, more, NoCall, n + 1)
           /\ Gains(keys, n, u, c.tokens, more) /\ SameTokens(idx, u, keys)
<1> USE DEF Commits, Gains, SameTokens
<1>1. /\ idx \in IndexType /\ Interned(idx) /\ Limits(idx) /\ EntriesOK(idx, keys, n)
      /\ CallOK(idx, keys, c) /\ KeyOf(idx, c.blocks) /\ c.blocks \in Seq(Nat)
      /\ c.tokens \in TokenPrefixes
  BY DEF Kept, IndexOK, CallOK, KeyOf
<1>2. Keys(keys) /\ n \in Nat /\ DOMAIN keys \subseteq Nat
  BY <1>1, KeysFinite
<1>3. n \notin DOMAIN keys
  BY <1>1, <1>2 DEF EntriesOK
<1>4. /\ DOMAIN more = DOMAIN keys \cup {n} /\ more[n] = c.blocks
      /\ \A e \in DOMAIN keys : more[e] = keys[e]
  BY <1>3
<1>5. c.tokens \in Seq(Blocks) /\ Len(c.blocks) <= KeyBound
  BY <1>1, TokenPrefixesAre
<1>6. TokensOf(idx, c.blocks) = c.tokens
  <2> DEFINE t == TokensOf(idx, c.blocks)
  <2>1. /\ t \in Seq(Blocks) /\ Len(t) = Len(c.blocks)
        /\ \A i \in 1..Len(c.blocks) : t[i] = idx.blocks[c.blocks[i]].tokens
    BY <1>1, TokensLemma
  <2>2. \A i \in 1..Len(c.blocks) : t[i] = c.tokens[i]
    BY <1>1, <2>1 DEF CallOK
  <2> HIDE DEF t
  <2>3. t = c.tokens
    BY <1>5, <2>1, <2>2
  <2> QED BY <2>3 DEF t
<1>7. Keys(more)
  <2>1. IsFiniteSet(DOMAIN keys) /\ \A e \in DOMAIN keys : keys[e] \in Seq(Nat) /\ Len(keys[e]) <= KeyBound
    BY <1>2, MapsAre DEF Keys
  <2>2. IsFiniteSet(DOMAIN more)
    <3>1. IsFiniteSet(DOMAIN keys \cup {n})
      BY <2>1, FS_AddElement
    <3> QED BY <1>4, <3>1
  <2>3. \A e \in DOMAIN more : more[e] \in Seq(Nat) /\ Len(more[e]) <= KeyBound
    BY <1>1, <1>4, <1>5, <2>1
  <2>4. more = [e \in DOMAIN more |-> more[e]]
    BY <1>4
  <2>5. more \in [DOMAIN more -> Seq(Nat)] /\ DOMAIN more \subseteq Nat
    BY <1>2, <1>4, <2>3, <2>4
  <2>6. more \in Maps(Nat, Seq(Nat))
    BY <2>5, MapsAre
  <2> QED BY <2>2, <2>3, <2>6 DEF Keys
<1>8. /\ u \in IndexType /\ Interned(u) /\ Limits(u)
      /\ u.blocks = idx.blocks
      /\ DOMAIN u.tree = DOMAIN idx.tree \cup {c.blocks}
      /\ u.tree[c.blocks] = n
      /\ \A k \in DOMAIN idx.tree : k # c.blocks => u.tree[k] = idx.tree[k]
  BY <1>1, <1>2, CommitLemma
<1>9. /\ \A k : KeyOf(u, k) <=> KeyOf(idx, k)
      /\ \A k : TokensOf(u, k) = TokensOf(idx, k)
  BY <1>8 DEF KeyOf, TokensOf
<1>10. \A e \in DOMAIN keys :
         /\ KeyOf(idx, keys[e]) /\ keys[e] \in DOMAIN idx.tree /\ idx.tree[keys[e]] = e
         /\ keys[e] # c.blocks
  <2>1. \A e \in DOMAIN keys :
          KeyOf(idx, keys[e]) /\ keys[e] \in DOMAIN idx.tree /\ idx.tree[keys[e]] = e
    BY <1>1, Zenon DEF EntriesOK, Named
  <2>2. \A e \in DOMAIN keys : TokensOf(idx, keys[e]) # c.tokens
    BY <1>1, Zenon DEF CallOK
  <2> QED BY <1>6, <2>1, <2>2
<1>11. \A k \in DOMAIN idx.tree : idx.tree[k] \in DOMAIN keys /\ keys[idx.tree[k]] = k
  BY <1>1, Zenon DEF EntriesOK, Named
<1>12. Named(u, more)
  <2>1. ASSUME NEW e \in DOMAIN more
        PROVE  KeyOf(u, more[e]) /\ more[e] \in DOMAIN u.tree /\ u.tree[more[e]] = e
    <3>1. CASE e = n
      BY <1>1, <1>4, <1>8, <1>9, <3>1
    <3>2. CASE e \in DOMAIN keys
      BY <1>4, <1>8, <1>9, <1>10, <3>2
    <3> QED BY <1>4, <3>1, <3>2
  <2>2. ASSUME NEW k \in DOMAIN u.tree
        PROVE  u.tree[k] \in DOMAIN more /\ more[u.tree[k]] = k
    <3>1. CASE k = c.blocks
      BY <1>4, <1>8, <3>1
    <3>2. CASE k \in DOMAIN idx.tree /\ k # c.blocks
      BY <1>4, <1>8, <1>11, <3>2
    <3> QED BY <1>8, <3>1, <3>2
  <2> QED BY <2>1, <2>2 DEF Named
<1>13. EntriesOK(u, more, n + 1)
  <2>1. n + 1 \in 0..MaxPrefixId
    BY <1>2, IndexAssumption
  <2>2. \A e \in DOMAIN more : e < n + 1 /\ Len(more[e]) <= KeyBound
    <3> TAKE e \in DOMAIN more
    <3>1. e \in DOMAIN keys => e < n /\ e \in Nat
      BY <1>1, <1>2 DEF EntriesOK
    <3>2. e < n + 1
      BY <1>2, <1>4, <3>1
    <3> QED BY <1>7, <3>2 DEF Keys
  <2>3. more \in Maps(Nat, Seq(Nat))
    BY <1>7 DEF Keys
  <2> QED BY <1>12, <2>1, <2>2, <2>3 DEF EntriesOK
<1>14. CallOK(u, more, NoCall)
  BY NoCallHolds DEF CallOK, KeyOf
<1>15. CountsOK(u, more, <<>>, n + 1)
  <2> SUFFICES ASSUME NEW id \in DOMAIN u.blocks
               PROVE  /\ u.blocks[id].prefix_refs >= Refs(more, <<>>, id)
                      /\ u.blocks[id].prefix_refs = Refs(more, <<>>, id)
    BY DEF CountsOK
  <2>1. OneMore(keys, more, n)
    BY <1>2, <1>3, <1>4, <1>7 DEF OneMore
  <2>2. Cardinality(Places(more, id)) = Cardinality(Places(keys, id)) + Occurrences(c.blocks, id)
    BY <1>4, <2>1, PlacesInsert
  <2>3. Cardinality(Places(more, id)) \in Nat
    BY <1>7, PlacesFinite
  <2>4. Refs(more, <<>>, id) = Refs(keys, c.blocks, id)
    BY <2>2, <2>3, NoCallHolds DEF Refs
  <2>5. id \in DOMAIN idx.blocks /\ u.blocks[id] = idx.blocks[id]
    BY <1>8
  <2>6. idx.blocks[id].prefix_refs \in Nat
    BY <1>1, <2>5, IndexFields DEF Block
  <2>7. idx.blocks[id].prefix_refs = Refs(keys, c.blocks, id)
    BY <2>5 DEF Kept, CountsOK
  <2> QED BY <2>4, <2>5, <2>6, <2>7
<1> QED BY <1>3, <1>4, <1>6, <1>8, <1>9, <1>13, <1>14, <1>15, NoCallHolds DEF Kept, IndexOK

----------------------------------------------------------------------------
(* The inductive invariant is preserved. *)

\* Initially nothing is interned, retained or in progress.
LEMMA InitIInv == Init => IInv
<1> SUFFICES ASSUME Init PROVE IInv
  OBVIOUS
<1>1. /\ index.tree = <<>> /\ index.by_tokens = <<>> /\ index.blocks = <<>>
      /\ index.next_block_id = 0 /\ DOMAIN <<>> = {}
      /\ index = [tree |-> <<>>, by_tokens |-> <<>>, blocks |-> <<>>, next_block_id |-> 0]
  BY DEF Init, EmptyIndex
<1>2. IndexOK(index)
  <2>1. index \in IndexType
    BY <1>1, EmptyMap DEF IndexType
  <2>2. Interned(index)
    BY <1>1 DEF Interned
  <2>3. Limits(index)
    BY <1>1, IndexAssumption DEF Limits
  <2> QED BY <2>1, <2>2, <2>3 DEF IndexOK
<1>3. EntriesOK(index, prefixes, next_prefix_id)
  <2>1. prefixes = <<>> /\ prefixes \in Maps(Nat, Seq(Nat)) /\ DOMAIN prefixes = {}
    BY EmptyMap DEF Init
  <2>2. next_prefix_id \in 0..MaxPrefixId
    BY IndexAssumption DEF Init
  <2> QED BY <1>1, <2>1, <2>2 DEF EntriesOK, Named
<1>4. CallOK(index, prefixes, call)
  <2>1. call = NoCall
    BY DEF Init
  <2> QED BY <2>1, NoCallHolds DEF CallOK, KeyOf
<1>5. CountsOK(index, prefixes, call.blocks, next_prefix_id)
  BY <1>1 DEF CountsOK
<1>6. AnswerOK
  <2>1. query = NoQuery /\ answer = {}
    BY DEF Init
  <2>2. NoQuery \in [kind : {"none", "longest", "exact"}, tokens : Seq(Blocks)]
    BY DEF NoQuery
  <2> QED BY <2>1, <2>2 DEF AnswerOK
<1> QED BY <1>2, <1>3, <1>4, <1>5, <1>6 DEF IInv, Kept

\* A call that answers nothing keeps the answers typed.
LEMMA NoAnswerOK == NoAnswer => AnswerOK'
<1>1. NoQuery \in [kind : {"none", "longest", "exact"}, tokens : Seq(Blocks)]
  BY DEF NoQuery
<1> QED BY <1>1 DEF NoAnswer, AnswerOK

\* What the invariant says of an index that queries read.
LEMMA Queried ==
    ASSUME IInv
    PROVE  /\ index \in IndexType /\ Interned(index) /\ Named(index, prefixes)
           /\ DOMAIN prefixes \subseteq Nat
           /\ EntriesOK(index, prefixes, next_prefix_id)
<1>1. EntriesOK(index, prefixes, next_prefix_id) /\ index \in IndexType /\ Interned(index)
  BY DEF IInv, Kept, IndexOK
<1> QED BY <1>1, KeysFinite DEF EntriesOK

\* A lookup answers with entry ids.
LEMMA LookupPrefixOK ==
    ASSUME IInv, NEW tokens \in TokenPrefixes, LookupPrefix(tokens)
    PROVE  IInv'
<1>1. tokens \in Seq(Blocks)
  BY TokenPrefixesAre
<1>2. Longest(index, LookupKey(index, tokens)) \subseteq Nat
  BY <1>1, Queried, LongestLemma
<1>3. query' \in [kind : {"none", "longest", "exact"}, tokens : Seq(Blocks)]
  BY <1>1 DEF LookupPrefix
<1>4. call' = NoCall
  BY DEF LookupPrefix, Idle
<1>5. AnswerOK'
  BY <1>2, <1>3, <1>4, NoCallHolds DEF AnswerOK, LookupPrefix
<1>6. UNCHANGED <<index, prefixes, next_prefix_id, call>>
  BY DEF LookupPrefix
<1>7. Kept(index', prefixes', call', next_prefix_id')
  BY <1>6 DEF IInv
<1> QED BY <1>5, <1>7 DEF IInv

\* So does contains_prefix.
LEMMA ContainsPrefixOK ==
    ASSUME IInv, NEW tokens \in TokenPrefixes, ContainsPrefix(tokens)
    PROVE  IInv'
<1>1. tokens \in Seq(Blocks)
  BY TokenPrefixesAre
<1>2. Exact(index, tokens) \subseteq Nat
  <2>1. index \in IndexType /\ Interned(index) /\ Named(index, prefixes)
        /\ DOMAIN prefixes \subseteq Nat
    BY Queried
  <2>2. /\ \A e \in DOMAIN prefixes :
             TokensOf(index, prefixes[e]) = tokens => Exact(index, tokens) = {e}
        /\ (\A e \in DOMAIN prefixes : TokensOf(index, prefixes[e]) # tokens) =>
             Exact(index, tokens) = {}
    BY <1>1, <2>1, ExactLemma
  <2> QED BY <2>1, <2>2
<1>3. query' \in [kind : {"none", "longest", "exact"}, tokens : Seq(Blocks)]
  BY <1>1 DEF ContainsPrefix
<1>4. call' = NoCall
  BY DEF ContainsPrefix, Idle
<1>5. AnswerOK'
  BY <1>2, <1>3, <1>4, NoCallHolds DEF AnswerOK, ContainsPrefix
<1>6. UNCHANGED <<index, prefixes, next_prefix_id, call>>
  BY DEF ContainsPrefix
<1>7. Kept(index', prefixes', call', next_prefix_id')
  BY <1>6 DEF IInv
<1> QED BY <1>5, <1>7 DEF IInv

\* A retention begins with nothing prepared, for a prefix that no entry has.
LEMMA RetainPrefixOK ==
    ASSUME IInv, NEW tokens \in TokenPrefixes, RetainPrefix(tokens)
    PROVE  IInv' /\ call'.tokens = tokens
<1>1. tokens \in Seq(Blocks) /\ tokens # <<>>
  BY TokenPrefixesAre DEF RetainPrefix
<1>2. call' = [tokens |-> tokens, blocks |-> <<>>, evicting |-> FALSE]
  BY DEF RetainPrefix, NoCall
<1>3. \A e \in DOMAIN prefixes : TokensOf(index, prefixes[e]) # tokens
  <2>1. \A e \in DOMAIN prefixes :
             TokensOf(index, prefixes[e]) = tokens => Exact(index, tokens) = {e}
    BY <1>1, Queried, ExactLemma
  <2> QED BY <2>1 DEF RetainPrefix
<1>4. /\ index' = index /\ prefixes' = prefixes /\ next_prefix_id' = next_prefix_id
      /\ call.blocks = <<>>
  BY NoCallHolds DEF RetainPrefix, Idle
<1>5. /\ call' \in [tokens : TokenPrefixes, blocks : Seq(Nat), evicting : BOOLEAN]
      /\ call'.tokens = tokens /\ call'.blocks = <<>>
  BY <1>2
<1>6. CallOK(index, prefixes, call')
  BY <1>1, <1>3, <1>5, NoCallHolds DEF CallOK, KeyOf
<1>7. Kept(index', prefixes', call', next_prefix_id')
  BY <1>4, <1>5, <1>6 DEF IInv, Kept
<1>8. AnswerOK'
  BY NoAnswerOK DEF RetainPrefix
<1> QED BY <1>5, <1>7, <1>8 DEF IInv

\* Interning the next block, known or new.
LEMMA InternBlockOK ==
    ASSUME IInv, InternBlock
    PROVE  IInv' /\ call'.tokens = call.tokens /\ SameTokens(index, index', prefixes)
<1> DEFINE block == NextBlock
<1>1. /\ index \in IndexType /\ Interned(index) /\ Limits(index)
      /\ Kept(index, prefixes, call, next_prefix_id)
  BY DEF IInv, Kept, IndexOK
<1>2. block \in Blocks
  <2>1. call.tokens \in Seq(Blocks) /\ call.blocks \in Seq(Nat)
    BY <1>1, TokenPrefixesAre DEF Kept, CallOK
  <2> QED BY <2>1 DEF InternBlock, Interning, NextBlock
<1>3. InternsAs(index, index', block)
  <2>1. CASE /\ Known
             /\ index.blocks[index.by_tokens[block]].prefix_refs < MaxRefs
             /\ index' = InternKnown(index, block)
    BY <1>1, <2>1, InternKnownLemma DEF Known
  <2>2. CASE /\ ~Known
             /\ index.next_block_id < MaxBlockId
             /\ index' = InternNew(index, block)
    BY <1>1, <1>2, <2>2, InternNewLemma DEF Known
  <2> QED BY <2>1, <2>2 DEF InternBlock
<1>4. /\ Len(call.blocks) < Len(call.tokens)
      /\ call' = [call EXCEPT !.blocks =
                    Append(@, index'.by_tokens[call.tokens[Len(call.blocks) + 1]])]
      /\ block = call.tokens[Len(call.blocks) + 1]
  BY DEF InternBlock, Interning, NextBlock
<1> HIDE DEF block
<1>5. /\ Kept(index', prefixes, call', next_prefix_id) /\ call'.tokens = call.tokens
      /\ SameTokens(index, index', prefixes)
  <2>1. Interns(index, call, index', call')
    BY <1>3, <1>4 DEF Interns
  <2> QED BY <1>1, <2>1, InternStep
<1>6. prefixes' = prefixes /\ next_prefix_id' = next_prefix_id /\ NoAnswer
  BY DEF InternBlock
<1> QED BY <1>5, <1>6, NoAnswerOK DEF IInv

\* A retention that fails gives back what it interned.
LEMMA ReleaseOK ==
    ASSUME IInv, index' = ReleaseBlocks(index, call.blocks), call' = NoCall, NoAnswer,
           UNCHANGED <<prefixes, next_prefix_id>>
    PROVE  IInv' /\ SameTokens(index, index', prefixes)
<1>1. PICK u : u = index'
  OBVIOUS
<1>2. Kept(u, prefixes, NoCall, next_prefix_id) /\ SameTokens(index, u, prefixes)
  BY <1>1, ReleaseStep DEF IInv
<1> QED BY <1>1, <1>2, NoAnswerOK DEF IInv

\* A retention that finds no entry id left.
LEMMA RetainIdExhaustedOK ==
    ASSUME IInv, RetainIdExhausted
    PROVE  IInv'
<1>1. next_prefix_id = MaxPrefixId /\ UNCHANGED <<index, prefixes, next_prefix_id>>
      /\ call' = NoCall /\ NoAnswer
  BY DEF RetainIdExhausted
<1>2. Kept(index, prefixes, NoCall, next_prefix_id)
  BY <1>1, ForgetStep DEF IInv
<1> QED BY <1>1, <1>2, NoAnswerOK DEF IInv

\* An eviction, within a retention or for another call.
LEMMA EvictPrefixOK ==
    ASSUME IInv, NEW e \in DOMAIN prefixes, EvictPrefix(e)
    PROVE  /\ IInv' /\ call'.tokens = call.tokens
           /\ Leaves(prefixes, e, prefixes') /\ SameTokens(index, index', prefixes')
<1>1. CallOK(index, prefixes, call)
      /\ call \in [tokens : TokenPrefixes, blocks : Seq(Nat), evicting : BOOLEAN]
  BY DEF IInv, Kept, CallOK
<1>2. /\ call' \in [tokens : TokenPrefixes, blocks : Seq(Nat), evicting : BOOLEAN]
      /\ call'.tokens = call.tokens /\ call'.blocks = call.blocks
      /\ call'.tokens = <<>> => call' = NoCall
  <2>1. CASE Idle /\ UNCHANGED call
    BY <1>1, <2>1 DEF Idle
  <2>2. CASE Prepared /\ call' = [call EXCEPT !.evicting = TRUE]
    BY <1>1, <2>2 DEF Prepared
  <2> QED BY <2>1, <2>2 DEF EvictPrefix
<1>3. Evicts(index, prefixes, call, e, index', prefixes', call')
  BY <1>2 DEF Evicts, EvictPrefix
<1>4. NoAnswer /\ next_prefix_id' = next_prefix_id
  BY DEF EvictPrefix
<1>5. /\ Kept(index', prefixes', call', next_prefix_id)
      /\ Leaves(prefixes, e, prefixes') /\ SameTokens(index, index', prefixes')
  BY <1>3, EvictStep DEF IInv
<1> QED BY <1>2, <1>4, <1>5, NoAnswerOK DEF IInv

\* A commit.
LEMMA RetainCommittedOK ==
    ASSUME IInv, RetainCommitted
    PROVE  /\ IInv' /\ SameTokens(index, index', prefixes)
           /\ Gains(prefixes, next_prefix_id, index', call.tokens, prefixes')
<1>1. Len(call.blocks) = Len(call.tokens)
  <2>1. /\ call.tokens \in Seq(Blocks) /\ call.blocks \in Seq(Nat)
        /\ Len(call.blocks) <= Len(call.tokens)
    BY TokenPrefixesAre DEF IInv, Kept, CallOK
  <2> QED BY <2>1 DEF RetainCommitted, Prepared, Interning
<1>2. Commits(index, prefixes, call, next_prefix_id, index', prefixes')
  BY <1>1 DEF Commits, RetainCommitted, Prepared
<1>3. next_prefix_id' = next_prefix_id + 1 /\ call' = NoCall /\ NoAnswer
  BY DEF RetainCommitted
<1>4. /\ Kept(index', prefixes', NoCall, next_prefix_id + 1)
      /\ Gains(prefixes, next_prefix_id, index', call.tokens, prefixes')
      /\ SameTokens(index, index', prefixes)
  BY <1>2, CommitStep DEF IInv
<1> QED BY <1>3, <1>4, NoAnswerOK DEF IInv

\* Every step keeps the invariant.
LEMMA NextIInv == IInv /\ [Next]_vars => IInv'
<1> SUFFICES ASSUME IInv, [Next]_vars PROVE IInv'
  OBVIOUS
<1>1. ASSUME NEW tokens \in TokenPrefixes, LookupPrefix(tokens) PROVE IInv'
  BY <1>1, LookupPrefixOK
<1>2. ASSUME NEW tokens \in TokenPrefixes, ContainsPrefix(tokens) PROVE IInv'
  BY <1>2, ContainsPrefixOK
<1>3. ASSUME NEW tokens \in TokenPrefixes, RetainPrefix(tokens) PROVE IInv'
  BY <1>3, RetainPrefixOK
<1>4. CASE InternBlock
  BY <1>4, InternBlockOK
<1>5. CASE InternFails
  BY <1>5, ReleaseOK DEF InternFails
<1>6. CASE RetainRolledBack
  BY <1>6, ReleaseOK DEF RetainRolledBack
<1>7. CASE RetainIdExhausted
  BY <1>7, RetainIdExhaustedOK
<1>8. ASSUME NEW id \in DOMAIN prefixes, EvictPrefix(id) PROVE IInv'
  BY <1>8, EvictPrefixOK
<1>9. CASE RetainCommitted
  BY <1>9, RetainCommittedOK
<1>10. CASE UNCHANGED vars
  BY <1>10 DEF vars, IInv, AnswerOK
<1> QED BY <1>1, <1>2, <1>3, <1>4, <1>5, <1>6, <1>7, <1>8, <1>9, <1>10 DEF Next

\* The index, the entries and the retention in progress are consistent in every state.
THEOREM InductiveInvariant == Spec => []IInv
BY InitIInv, NextIInv, PTL DEF Spec

\* TypeOK is a consequence of the invariant.
THEOREM TypeCorrect == Spec => []TypeOK
<1>1. IInv => TypeOK
  <2> SUFFICES ASSUME IInv PROVE TypeOK
    OBVIOUS
  <2>1. /\ index \in IndexType /\ Limits(index) /\ EntriesOK(index, prefixes, next_prefix_id)
        /\ CallOK(index, prefixes, call) /\ AnswerOK
    BY DEF IInv, Kept, IndexOK
  <2>2. /\ index.tree \in [DOMAIN index.tree -> Nat] /\ DOMAIN index.tree \subseteq Seq(Nat)
        /\ index.by_tokens \in [DOMAIN index.by_tokens -> Nat]
        /\ DOMAIN index.by_tokens \subseteq Blocks
        /\ index.blocks \in [DOMAIN index.blocks -> Block] /\ DOMAIN index.blocks \subseteq Nat
        /\ index.next_block_id \in Nat
        /\ DOMAIN index = {"tree", "by_tokens", "blocks", "next_block_id"}
    <3>1. DOMAIN index = {"tree", "by_tokens", "blocks", "next_block_id"}
      BY <2>1 DEF IndexType
    <3> QED BY <2>1, <3>1, IndexFields
  <2>3. /\ DOMAIN index.blocks \subseteq 0..(index.next_block_id - 1)
        /\ index.next_block_id \in 0..MaxBlockId
    BY <2>1, <2>2, IndexAssumption DEF Limits
  <2>4. \A id \in DOMAIN index.blocks :
          index.blocks[id] \in [tokens : Blocks, prefix_refs : 1..MaxRefs]
    <3> TAKE id \in DOMAIN index.blocks
    <3> DEFINE r == index.blocks[id]
    <3>1. r \in Block /\ r.prefix_refs <= MaxRefs
      BY <2>1, <2>2 DEF Limits
    <3> HIDE DEF r
    <3>2. r.prefix_refs \in 1..MaxRefs /\ r.tokens \in Blocks
          /\ r = [tokens |-> r.tokens, prefix_refs |-> r.prefix_refs]
      BY <3>1, IndexAssumption DEF Block
    <3>3. r \in [tokens : Blocks, prefix_refs : 1..MaxRefs]
      BY <3>2
    <3> QED BY <3>3 DEF r
  <2>5. /\ DOMAIN prefixes \subseteq 0..(next_prefix_id - 1)
        /\ \A id \in DOMAIN prefixes : prefixes[id] \in Seq(Nat)
        /\ next_prefix_id \in 0..MaxPrefixId
    <3>1. DOMAIN prefixes \subseteq Nat /\ next_prefix_id \in Nat
      BY <2>1, KeysFinite
    <3>2. \A id \in DOMAIN prefixes : prefixes[id] \in Seq(Nat)
      BY <2>1, MapsAre DEF EntriesOK
    <3> QED BY <2>1, <3>1, <3>2 DEF EntriesOK
  <2>6. call \in [tokens : Seq(Blocks), blocks : Seq(Nat), evicting : BOOLEAN]
    <3>1. call \in [tokens : TokenPrefixes, blocks : Seq(Nat), evicting : BOOLEAN]
      BY <2>1 DEF CallOK
    <3>2. TokenPrefixes \subseteq Seq(Blocks)
      BY TokenPrefixesAre
    <3> QED BY <3>1, <3>2
  <2> QED BY <2>1, <2>2, <2>3, <2>4, <2>5, <2>6 DEF TypeOK, AnswerOK
<1> QED BY <1>1, InductiveInvariant, PTL

\* The references of an id are counted as the invariant counts them.
LEMMA ReferencesAre == \A id : References(id) = Refs(prefixes, call.blocks, id)
BY DEF References, Refs, KeyPlaces, Places

\* No release finds a block gone: every id in a retained or prepared key names an
\* interned block that is counted at least as often as keys hold it.
THEOREM NoDanglingBlocksCorrect == Spec => []NoDanglingBlocks
<1>1. IInv => NoDanglingBlocks
  <2> SUFFICES ASSUME IInv PROVE NoDanglingBlocks
    OBVIOUS
  <2>1. /\ Interned(index) /\ Named(index, prefixes)
        /\ KeyOf(index, call.blocks)
        /\ CountsOK(index, prefixes, call.blocks, next_prefix_id)
    BY DEF IInv, Kept, IndexOK, CallOK, EntriesOK
  <2>2. \A e \in DOMAIN prefixes : Range(prefixes[e]) \subseteq DOMAIN index.blocks
    BY <2>1 DEF Named, KeyOf, Range
  <2>3. Range(call.blocks) \subseteq DOMAIN index.blocks
    BY <2>1 DEF KeyOf, Range
  <2>4. \A id \in DOMAIN index.blocks : index.blocks[id].prefix_refs >= References(id)
    BY <2>1, ReferencesAre DEF CountsOK
  <2> QED BY <2>1, <2>2, <2>3, <2>4 DEF Interned, NoDanglingBlocks
<1> QED BY <1>1, InductiveInvariant, PTL

\* Until the entry ids have run out, a block is interned exactly while a key holds it and
\* counted as often as keys do: failed retentions and evictions leak nothing.
THEOREM BlocksExactCorrect == Spec => []BlocksExact
<1>1. IInv => BlocksExact
  <2> SUFFICES ASSUME IInv, next_prefix_id < MaxPrefixId, NEW id \in DOMAIN index.blocks
               PROVE  index.blocks[id].prefix_refs = References(id) /\ References(id) # 0
    BY DEF BlocksExact
  <2>1. index.blocks[id].prefix_refs = References(id)
    BY ReferencesAre DEF IInv, Kept, CountsOK
  <2>2. index.blocks[id].prefix_refs # 0
    BY IndexFields DEF IInv, Kept, IndexOK, Block
  <2> QED BY <2>1, <2>2
<1> QED BY <1>1, InductiveInvariant, PTL

----------------------------------------------------------------------------
(* The index implements a map. *)

\* The map that an index stands for.
MapOf(idx) ==
    [tokens \in {t \in TokenPrefixes : Exact(idx, t) # {}} |->
       CHOOSE id \in Exact(idx, tokens) : TRUE]

\* A function from the tokens of keys to the entries that have them.
Indexes(m, idx, keys) ==
    /\ m = [t \in DOMAIN m |-> m[t]]
    /\ \A t : t \in DOMAIN m <=> \E e \in DOMAIN keys : t = TokensOf(idx, keys[e])
    /\ \A e \in DOMAIN keys : m[TokensOf(idx, keys[e])] = e

\* The map of an index takes the tokens of each key to its entry.
LEMMA MapOfLemma ==
    ASSUME NEW idx, NEW keys, NEW c, NEW n, Kept(idx, keys, c, n)
    PROVE  Indexes(MapOf(idx), idx, keys)
<1> DEFINE m == MapOf(idx)
<1>1. idx \in IndexType /\ Interned(idx) /\ Named(idx, keys) /\ EntriesOK(idx, keys, n)
  BY DEF Kept, IndexOK, EntriesOK
<1>2. /\ m = [t \in DOMAIN m |-> m[t]]
      /\ \A t : t \in DOMAIN m <=> t \in TokenPrefixes /\ Exact(idx, t) # {}
      /\ \A t \in DOMAIN m : m[t] = CHOOSE id \in Exact(idx, t) : TRUE
  BY DEF MapOf
<1> HIDE DEF m
<1>3. \A e \in DOMAIN keys : TokensOf(idx, keys[e]) \in TokenPrefixes
  <2> TAKE e \in DOMAIN keys
  <2>1. KeyOf(idx, keys[e]) /\ Len(keys[e]) <= KeyBound
    BY <1>1 DEF EntriesOK, Named
  <2>2. TokensOf(idx, keys[e]) \in Seq(Blocks) /\ Len(TokensOf(idx, keys[e])) = Len(keys[e])
    BY <1>1, <2>1, TokensLemma
  <2> QED BY <2>1, <2>2, TokenPrefixesAre
<1>4. ASSUME NEW t \in TokenPrefixes
      PROVE  /\ \A e \in DOMAIN keys : TokensOf(idx, keys[e]) = t => Exact(idx, t) = {e}
             /\ (\A e \in DOMAIN keys : TokensOf(idx, keys[e]) # t) => Exact(idx, t) = {}
  <2>1. t \in Seq(Blocks)
    BY TokenPrefixesAre
  <2> QED BY <1>1, <2>1, ExactLemma
<1>5. ASSUME NEW e \in DOMAIN keys
      PROVE  /\ TokensOf(idx, keys[e]) \in DOMAIN m
             /\ m[TokensOf(idx, keys[e])] = e
  <2>1. Exact(idx, TokensOf(idx, keys[e])) = {e}
    BY <1>3, <1>4
  <2>2. TokensOf(idx, keys[e]) \in DOMAIN m
    BY <1>2, <1>3, <2>1
  <2> QED BY <1>2, <2>1, <2>2
<1>6. ASSUME NEW t \in DOMAIN m PROVE \E e \in DOMAIN keys : t = TokensOf(idx, keys[e])
  BY <1>2, <1>4
<1> QED BY <1>2, <1>5, <1>6 DEF Indexes, m

\* Two indexes in which the same keys stand for the same tokens are the same map.
LEMMA MapSame ==
    ASSUME NEW m, NEW p, NEW idx, NEW u, NEW keys,
           Indexes(m, idx, keys), Indexes(p, u, keys), SameTokens(idx, u, keys)
    PROVE  p = m
<1>1. \A t : t \in DOMAIN m <=> t \in DOMAIN p
  BY DEF Indexes, SameTokens
<1>2. \A t \in DOMAIN m : p[t] = m[t]
  BY DEF Indexes, SameTokens
<1>3. m = [t \in DOMAIN m |-> m[t]] /\ p = [t \in DOMAIN p |-> p[t]]
  BY DEF Indexes
<1>4. DOMAIN m = DOMAIN p
  BY <1>1
<1> QED BY <1>2, <1>3, <1>4

\* A map without some tokens, and one with a value for some tokens.
Without(m, t0, p) == t0 \in DOMAIN m /\ p = Restrict(m, DOMAIN m \ {t0})
With(m, t0, n, p) == p = [t \in DOMAIN m \cup {t0} |-> IF t = t0 THEN n ELSE m[t]]

\* Without a key the map loses its tokens, and nothing else.
LEMMA MapLess ==
    ASSUME NEW m, NEW p, NEW idx, NEW u, NEW keys, NEW less, NEW e \in DOMAIN keys,
           Indexes(m, idx, keys), Indexes(p, u, less), Leaves(keys, e, less),
           SameTokens(idx, u, less)
    PROVE  Without(m, TokensOf(idx, keys[e]), p)
<1> DEFINE t0 == TokensOf(idx, keys[e])
<1>1. t0 \in DOMAIN m /\ m[t0] = e
  BY DEF Indexes
<1>2. \A f \in DOMAIN less : /\ f \in DOMAIN keys /\ f # e /\ less[f] = keys[f]
                             /\ TokensOf(u, less[f]) = TokensOf(idx, keys[f])
  BY DEF Leaves, SameTokens
<1>3. \A f \in DOMAIN keys : TokensOf(idx, keys[f]) \in DOMAIN m /\ m[TokensOf(idx, keys[f])] = f
  BY DEF Indexes
<1> HIDE DEF t0
<1>4. ASSUME NEW t \in DOMAIN p PROVE t \in DOMAIN m /\ t # t0 /\ p[t] = m[t]
  <2>1. PICK f \in DOMAIN less : t = TokensOf(u, less[f])
    BY DEF Indexes
  <2>2. p[t] = f
    BY <2>1 DEF Indexes
  <2> QED BY <1>1, <1>2, <1>3, <2>1, <2>2
<1>5. ASSUME NEW t \in DOMAIN m, t # t0 PROVE t \in DOMAIN p
  <2>1. PICK f \in DOMAIN keys : t = TokensOf(idx, keys[f])
    BY DEF Indexes
  <2>2. f # e
    BY <1>5, <2>1 DEF t0
  <2>3. f \in DOMAIN less
    BY <2>2 DEF Leaves
  <2> QED BY <1>2, <2>1, <2>3 DEF Indexes
<1>6. DOMAIN p = DOMAIN m \ {t0}
  BY <1>4, <1>5
<1>7. p = [t \in DOMAIN p |-> p[t]]
  BY DEF Indexes
<1>8. p = Restrict(m, DOMAIN m \ {t0})
  BY <1>4, <1>6, <1>7 DEF Restrict
<1> QED BY <1>1, <1>8 DEF t0, Without

\* With another key the map gains its tokens, and nothing else.
LEMMA MapMore ==
    ASSUME NEW m, NEW p, NEW idx, NEW u, NEW keys, NEW more, NEW n, NEW tokens,
           Indexes(m, idx, keys), Indexes(p, u, more), Gains(keys, n, u, tokens, more),
           SameTokens(idx, u, keys)
    PROVE  With(m, tokens, n, p)
<1>1. tokens \in DOMAIN p /\ p[tokens] = n
  BY DEF Indexes, Gains
<1>2. \A f \in DOMAIN keys : /\ f \in DOMAIN more /\ more[f] = keys[f]
                             /\ TokensOf(u, more[f]) = TokensOf(idx, keys[f])
  BY DEF Gains, SameTokens
<1>3. ASSUME NEW t \in DOMAIN m PROVE t \in DOMAIN p /\ p[t] = m[t]
  <2>1. PICK f \in DOMAIN keys : t = TokensOf(idx, keys[f])
    BY DEF Indexes
  <2>2. m[t] = f
    BY <2>1 DEF Indexes
  <2> QED BY <1>2, <2>1, <2>2 DEF Indexes
<1>4. ASSUME NEW t \in DOMAIN p, t # tokens PROVE t \in DOMAIN m
  <2>1. PICK f \in DOMAIN more : t = TokensOf(u, more[f])
    BY DEF Indexes
  <2>2. f # n
    BY <1>4, <2>1 DEF Gains
  <2>3. f \in DOMAIN keys
    BY <2>2 DEF Gains
  <2> QED BY <1>2, <2>1, <2>3 DEF Indexes
<1>5. DOMAIN p = DOMAIN m \cup {tokens}
  BY <1>1, <1>3, <1>4
<1>6. p = [t \in DOMAIN p |-> p[t]]
  BY DEF Indexes
<1> QED BY <1>1, <1>3, <1>5, <1>6 DEF With

\* The values of the longest prefixes in a map.
LongestIn(m, tokens) ==
    LET found == {t \in DOMAIN m : IsPrefix(t, tokens)}
    IN  {m[t] : t \in {v \in found : \A other \in found : Len(other) <= Len(v)}}

\* A longest query answers by the tokens that keys stand for.
LEMMA MapLongest ==
    ASSUME NEW idx \in IndexType, Interned(idx), NEW keys, Named(idx, keys), NEW m,
           Indexes(m, idx, keys), NEW tokens \in Seq(Blocks)
    PROVE  Longest(idx, LookupKey(idx, tokens)) = LongestIn(m, tokens)
<1> DEFINE found == {t \in DOMAIN m : IsPrefix(t, tokens)}
           T(e) == TokensOf(idx, keys[e])
<1>1. \A x : x \in LongestIn(m, tokens) <=>
        \E t \in found : x = m[t] /\ \A other \in found : Len(other) <= Len(t)
  BY DEF LongestIn
<1>2. /\ \A t : t \in found <=> \E e \in DOMAIN keys : t = T(e) /\ IsPrefix(T(e), tokens)
      /\ \A e \in DOMAIN keys : m[T(e)] = e
  BY DEF Indexes
<1> HIDE DEF found, T
<1>3. ASSUME NEW x
      PROVE  x \in LongestIn(m, tokens) <=>
               /\ x \in DOMAIN keys /\ IsPrefix(T(x), tokens)
               /\ \A f \in DOMAIN keys : IsPrefix(T(f), tokens) => Len(T(f)) <= Len(T(x))
  <2>1. ASSUME NEW t \in found, x = m[t], \A other \in found : Len(other) <= Len(t)
        PROVE  /\ x \in DOMAIN keys /\ IsPrefix(T(x), tokens)
               /\ \A f \in DOMAIN keys : IsPrefix(T(f), tokens) => Len(T(f)) <= Len(T(x))
    <3>1. PICK e \in DOMAIN keys : t = T(e) /\ IsPrefix(T(e), tokens)
      BY <1>2
    <3>2. x = e
      BY <1>2, <2>1, <3>1
    <3>3. ASSUME NEW f \in DOMAIN keys, IsPrefix(T(f), tokens) PROVE Len(T(f)) <= Len(T(x))
      <4>1. T(f) \in found
        BY <1>2, <3>3
      <4> QED BY <2>1, <3>1, <3>2, <4>1
    <3> QED BY <3>1, <3>2, <3>3
  <2>2. ASSUME x \in DOMAIN keys, IsPrefix(T(x), tokens),
               \A f \in DOMAIN keys : IsPrefix(T(f), tokens) => Len(T(f)) <= Len(T(x))
        PROVE  \E t \in found : x = m[t] /\ \A other \in found : Len(other) <= Len(t)
    <3>1. T(x) \in found /\ x = m[T(x)]
      BY <1>2, <2>2
    <3>2. \A other \in found : Len(other) <= Len(T(x))
      BY <1>2, <2>2
    <3> QED BY <3>1, <3>2
  <2> QED BY <1>1, <2>1, <2>2
<1>4. \A x : x \in Longest(idx, LookupKey(idx, tokens)) <=> x \in LongestIn(m, tokens)
  <2> TAKE x
  <2>1. x \in Longest(idx, LookupKey(idx, tokens)) <=>
          x \in DOMAIN keys /\ IsLongest(idx, keys, tokens, x)
    BY LongestLemma
  <2> QED BY <1>3, <2>1 DEF IsLongest, T
<1> HIDE DEF LongestIn
<1> QED BY <1>4

\* The entries of the refinement mapping.
Entries == [tokens \in Found |-> CHOOSE id \in Exact(index, tokens) : TRUE]

\* They are the map of the index, now and after a step.
LEMMA EntriesAre == Entries = MapOf(index) /\ Entries' = MapOf(index')
BY DEF Entries, Found, MapOf

\* They take the tokens of each key to its entry.
LEMMA EntriesIndexed ==
    /\ IInv => Indexes(Entries, index, prefixes)
    /\ IInv' => Indexes(Entries', index', prefixes')
<1>1. IInv => Indexes(Entries, index, prefixes)
  BY EntriesAre, MapOfLemma DEF IInv
<1>2. IInv' => Indexes(Entries', index', prefixes')
  BY EntriesAre, MapOfLemma DEF IInv
<1> QED BY <1>1, <1>2

\* The first state of the index is the empty map.
LEMMA RefinesInit == ASSUME Init PROVE Map!Init
<1>1. IInv
  BY InitIInv
<1>2. Indexes(Entries, index, prefixes) /\ DOMAIN prefixes = {}
  BY <1>1, EntriesIndexed, EmptyMap DEF Init
<1>3. DOMAIN Entries = {} /\ Entries = [t \in DOMAIN Entries |-> Entries[t]]
  BY <1>2 DEF Indexes
<1>4. Entries = <<>>
  BY <1>3
<1>5. call.tokens = <<>>
  BY NoCallHolds DEF Init
<1> QED BY <1>4, <1>5 DEF Init, Map!Init, Entries, NoQuery, Map!NoQuery

\* A lookup asks the map for the longest prefix.
LEMMA RefinesLookup ==
    ASSUME IInv, NEW tokens \in TokenPrefixes, LookupPrefix(tokens)
    PROVE  Map!Ask
<1>1. IInv' /\ tokens \in Seq(Blocks)
  BY LookupPrefixOK, TokenPrefixesAre
<1>2. /\ index' = index /\ call' = call /\ next_prefix_id' = next_prefix_id /\ call = NoCall
      /\ query' = [kind |-> "longest", tokens |-> tokens]
      /\ answer' = Longest(index, LookupKey(index, tokens))
  BY DEF LookupPrefix, Idle
<1>3. Entries' = Entries
  BY <1>2, EntriesAre
<1>4. answer' = Map!LongestEntry(tokens)
  <2>1. answer' = LongestIn(Entries, tokens)
    BY <1>1, <1>2, Queried, EntriesIndexed, MapLongest
  <2> QED BY <2>1, Zenon DEF LongestIn, Entries, Map!LongestEntry, IsPrefix, Map!IsPrefix
<1>5. /\ query' \in [kind : {"longest", "exact"}, tokens : Seq(Blocks)]
      /\ query'.kind = "longest" /\ query'.tokens = tokens
  BY <1>1, <1>2
<1>6. call.tokens = <<>> /\ call.tokens' = call.tokens
  BY <1>2, NoCallHolds
<1> HIDE DEF Map!LongestEntry
<1> QED BY <1>2, <1>3, <1>4, <1>5, <1>6 DEF Map!Ask, Entries

\* contains_prefix asks it for an exact one.
LEMMA RefinesContains ==
    ASSUME IInv, NEW tokens \in TokenPrefixes, ContainsPrefix(tokens)
    PROVE  Map!Ask
<1>1. IInv' /\ tokens \in Seq(Blocks)
  BY ContainsPrefixOK, TokenPrefixesAre
<1>2. /\ index' = index /\ call' = call /\ next_prefix_id' = next_prefix_id /\ call = NoCall
      /\ query' = [kind |-> "exact", tokens |-> tokens]
      /\ answer' = Exact(index, tokens)
  BY DEF ContainsPrefix, Idle
<1>3. Entries' = Entries
  BY <1>2, EntriesAre
<1>4. answer' = Map!ExactEntry(tokens)
  <2>1. Indexes(Entries, index, prefixes)
    BY EntriesIndexed
  <2>2. /\ \A e \in DOMAIN prefixes :
             TokensOf(index, prefixes[e]) = tokens => Exact(index, tokens) = {e}
        /\ (\A e \in DOMAIN prefixes : TokensOf(index, prefixes[e]) # tokens) =>
             Exact(index, tokens) = {}
    BY <1>1, Queried, ExactLemma
  <2>3. answer' = IF tokens \in DOMAIN Entries THEN {Entries[tokens]} ELSE {}
    <3>1. CASE tokens \in DOMAIN Entries
      <4>1. PICK e \in DOMAIN prefixes : tokens = TokensOf(index, prefixes[e])
        BY <2>1, <3>1 DEF Indexes
      <4>2. Entries[tokens] = e
        BY <2>1, <4>1 DEF Indexes
      <4> QED BY <1>2, <2>2, <3>1, <4>1, <4>2
    <3>2. CASE tokens \notin DOMAIN Entries
      <4>1. \A e \in DOMAIN prefixes : TokensOf(index, prefixes[e]) # tokens
        BY <2>1, <3>2 DEF Indexes
      <4> QED BY <1>2, <2>2, <3>2, <4>1
    <3> QED BY <3>1, <3>2
  <2> QED BY <2>3, Zenon DEF Entries, Map!ExactEntry
<1>5. /\ query' \in [kind : {"longest", "exact"}, tokens : Seq(Blocks)]
      /\ query'.kind # "longest" /\ query'.tokens = tokens
  BY <1>1, <1>2
<1>6. call.tokens = <<>> /\ call.tokens' = call.tokens
  BY <1>2, NoCallHolds
<1> HIDE DEF Map!ExactEntry
<1> QED BY <1>2, <1>3, <1>4, <1>5, <1>6 DEF Map!Ask, Entries

\* A retention begins with a request for a prefix that the map does not have.
LEMMA RefinesRetain ==
    ASSUME IInv, NEW tokens \in TokenPrefixes, RetainPrefix(tokens)
    PROVE  Map!Begin
<1>1. IInv' /\ call'.tokens = tokens /\ tokens \in Seq(Blocks) /\ tokens # <<>>
  BY RetainPrefixOK, TokenPrefixesAre DEF RetainPrefix
<1>2. /\ index' = index /\ next_prefix_id' = next_prefix_id /\ call = NoCall
      /\ NoAnswer /\ prefixes' = prefixes
  BY DEF RetainPrefix, Idle
<1>3. Entries' = Entries
  BY <1>2, EntriesAre
<1>4. tokens \notin DOMAIN Entries
  <2>1. Indexes(Entries, index, prefixes)
    BY EntriesIndexed
  <2>2. \A e \in DOMAIN prefixes : TokensOf(index, prefixes[e]) # tokens
    BY <1>1, <1>2 DEF IInv, Kept, CallOK
  <2> QED BY <2>1, <2>2 DEF Indexes
<1>5. call.tokens = <<>> /\ call.tokens' = tokens
  BY <1>1, <1>2, NoCallHolds
<1> QED BY <1>1, <1>2, <1>3, <1>4, <1>5 DEF Map!Begin, Map!NoAnswer, Map!NoQuery, NoAnswer, NoQuery, Entries

\* A step that leaves every entry its tokens leaves the map alone.
LEMMA MapKept ==
    ASSUME IInv, IInv', prefixes' = prefixes, SameTokens(index, index', prefixes)
    PROVE  Entries' = Entries
<1>1. Indexes(Entries, index, prefixes) /\ Indexes(Entries', index', prefixes)
  BY EntriesIndexed
<1> QED BY <1>1, MapSame

\* A retention that returns without an entry, from wherever it does, gives up.
LEMMA RefinesGiveUp ==
    ASSUME Entries' = Entries, call.tokens # <<>>, call' = NoCall, NoAnswer,
           next_prefix_id' = next_prefix_id
    PROVE  Map!GiveUp
<1>1. call.tokens' = <<>>
  BY NoCallHolds
<1> QED BY <1>1 DEF Map!GiveUp, Map!NoAnswer, Map!NoQuery, NoAnswer, NoQuery, Entries

\* Interning does not show: the map, the request and the answer stay the same.
LEMMA RefinesIntern ==
    ASSUME IInv, InternBlock
    PROVE  UNCHANGED Map!vars
<1>1. IInv' /\ call'.tokens = call.tokens /\ SameTokens(index, index', prefixes)
  BY InternBlockOK
<1>2. prefixes' = prefixes /\ next_prefix_id' = next_prefix_id /\ NoAnswer
  BY DEF InternBlock
<1>3. Entries' = Entries
  BY <1>1, <1>2, MapKept
<1>4. call.tokens # <<>>
  <2>1. call.blocks \in Seq(Nat)
    BY DEF IInv, Kept, CallOK
  <2> QED BY <2>1 DEF InternBlock, Interning
<1>5. query' = query /\ answer' = answer
  BY <1>2, <1>4 DEF IInv, AnswerOK, NoAnswer
<1>6. call.tokens' = call.tokens
  BY <1>1
<1> QED BY <1>2, <1>3, <1>5, <1>6 DEF Map!vars, Entries

\* A retention that fails or is rolled back gives up, and the map keeps every entry that
\* shares blocks with it.
LEMMA RefinesRelease ==
    ASSUME IInv, call.tokens # <<>>, index' = ReleaseBlocks(index, call.blocks),
           call' = NoCall, NoAnswer, UNCHANGED <<prefixes, next_prefix_id>>
    PROVE  Map!GiveUp
<1>1. IInv' /\ SameTokens(index, index', prefixes)
  BY ReleaseOK
<1>2. Entries' = Entries
  BY <1>1, MapKept
<1> QED BY <1>2, RefinesGiveUp

\* An eviction takes one prefix out of the map.
LEMMA RefinesEvict ==
    ASSUME IInv, NEW e \in DOMAIN prefixes, EvictPrefix(e)
    PROVE  Map!Evict
<1>1. /\ IInv' /\ call'.tokens = call.tokens
      /\ Leaves(prefixes, e, prefixes') /\ SameTokens(index, index', prefixes')
  BY EvictPrefixOK
<1>2. Indexes(Entries, index, prefixes) /\ Indexes(Entries', index', prefixes')
  BY <1>1, EntriesIndexed
<1>3. \E t \in DOMAIN Entries : Entries' = Restrict(Entries, DOMAIN Entries \ {t})
  <2>1. Without(Entries, TokensOf(index, prefixes[e]), Entries')
    BY <1>1, <1>2, MapLess
  <2> QED BY <2>1 DEF Without
<1>4. NoAnswer /\ next_prefix_id' = next_prefix_id /\ call.tokens' = call.tokens
  BY <1>1 DEF EvictPrefix
<1> QED BY <1>3, <1>4 DEF Map!Evict, Map!NoAnswer, Map!NoQuery, NoAnswer, NoQuery, Entries,
                         Restrict, Map!Restrict

\* A commit inserts the requested prefix.
LEMMA RefinesCommit ==
    ASSUME IInv, RetainCommitted
    PROVE  Map!Insert
<1>1. /\ IInv' /\ SameTokens(index, index', prefixes)
      /\ Gains(prefixes, next_prefix_id, index', call.tokens, prefixes')
  BY RetainCommittedOK
<1>2. Indexes(Entries, index, prefixes) /\ Indexes(Entries', index', prefixes')
  BY <1>1, EntriesIndexed
<1>3. Entries' = [t \in DOMAIN Entries \cup {call.tokens} |->
                    IF t = call.tokens THEN next_prefix_id ELSE Entries[t]]
  <2>1. With(Entries, call.tokens, next_prefix_id, Entries')
    BY <1>1, <1>2, MapMore
  <2> QED BY <2>1 DEF With
<1>4. /\ call.tokens # <<>> /\ call.tokens' = <<>> /\ next_prefix_id' = next_prefix_id + 1
      /\ NoAnswer
  BY NoCallHolds DEF RetainCommitted, Prepared
<1> QED BY <1>3, <1>4 DEF Map!Insert, Map!NoAnswer, Map!NoQuery, NoAnswer, NoQuery, Entries

\* Every step of the index is a step of the map, or none.
LEMMA RefinesNext == IInv /\ [Next]_vars => [Map!Next]_(Map!vars)
<1> SUFFICES ASSUME IInv, [Next]_vars PROVE Map!Next \/ UNCHANGED Map!vars
  OBVIOUS
<1>1. ASSUME NEW tokens \in TokenPrefixes, LookupPrefix(tokens) PROVE Map!Ask
  BY <1>1, RefinesLookup
<1>2. ASSUME NEW tokens \in TokenPrefixes, ContainsPrefix(tokens) PROVE Map!Ask
  BY <1>2, RefinesContains
<1>3. ASSUME NEW tokens \in TokenPrefixes, RetainPrefix(tokens) PROVE Map!Begin
  BY <1>3, RefinesRetain
<1>4. CASE InternBlock
  BY <1>4, RefinesIntern
<1>5. ASSUME InternFails PROVE Map!GiveUp
  <2>1. call.tokens # <<>>
    <3>1. call.blocks \in Seq(Nat)
      BY DEF IInv, Kept, CallOK
    <3> QED BY <1>5, <3>1 DEF InternFails, Interning
  <2> QED BY <1>5, <2>1, RefinesRelease DEF InternFails
<1>6. ASSUME RetainRolledBack PROVE Map!GiveUp
  BY <1>6, RefinesRelease DEF RetainRolledBack, Prepared
<1>7. ASSUME RetainIdExhausted PROVE Map!GiveUp
  <2>1. /\ index' = index /\ call.tokens # <<>> /\ call' = NoCall /\ NoAnswer
        /\ next_prefix_id' = next_prefix_id
    BY <1>7 DEF RetainIdExhausted, Prepared
  <2>2. Entries' = Entries
    BY <2>1, EntriesAre
  <2> QED BY <2>1, <2>2, RefinesGiveUp
<1>8. ASSUME NEW id \in DOMAIN prefixes, EvictPrefix(id) PROVE Map!Evict
  BY <1>8, RefinesEvict
<1>9. ASSUME RetainCommitted PROVE Map!Insert
  BY <1>9, RefinesCommit
<1>10. CASE UNCHANGED vars
  <2>1. index' = index /\ call' = call /\ next_prefix_id' = next_prefix_id
        /\ query' = query /\ answer' = answer
    BY <1>10 DEF vars
  <2>2. Entries' = Entries
    BY <2>1, EntriesAre
  <2>3. call.tokens' = call.tokens
    BY <2>1
  <2> QED BY <2>1, <2>2, <2>3 DEF Map!vars, Entries
<1> QED BY <1>1, <1>2, <1>3, <1>4, <1>5, <1>6, <1>7, <1>8, <1>9, <1>10 DEF Next, Map!Next

\* The index implements a map from token prefixes to entries: queries answer by token
\* contents alone, longest prefix first, and interning, failed retentions and evictions
\* of entries that share blocks never change what another prefix finds.
THEOREM RefinementCorrect == Spec => RefinesMap
<1>1. Init => Map!Init
  BY RefinesInit
<1> QED BY <1>1, RefinesNext, InductiveInvariant, PTL DEF Spec, RefinesMap, Map!Spec

====
