------------------------- MODULE AppendBatchProofs -------------------------
(***************************************************************************)
(* Proofs about AppendBatch, for every page size, number of sequences,     *)
(* batch size and set of faults.                                           *)
(*                                                                         *)
(* The invariant has two halves.  MachineInv is about the manager and the  *)
(* backend: what a record, a pending append, its reservation, transaction  *)
(* and published table say of each other.  HeldInv is about the runtime    *)
(* and the call in progress: who holds which reservation.  A reservation   *)
(* is pending exactly if it validates, and that is what joins the halves.  *)
(***************************************************************************)
EXTENDS AppendBatch, FiniteSetTheorems, TLAPS

----------------------------------------------------------------------------
(* Filtered: the places of a sequence that a filter keeps. *)

\* The places that a filter keeps are enumerated in increasing order, each once.
LEMMA FilteredPlaces ==
    ASSUME NEW S, NEW seq \in Seq(S), NEW K, K \subseteq 1..Len(seq)
    PROVE  /\ IsFiniteSet(K) /\ Cardinality(K) \in Nat
           /\ \A n \in 1..Cardinality(K) : Place(K, n) \in K
           /\ \A m, n \in 1..Cardinality(K) : Place(K, m) = Place(K, n) => m = n
           /\ \A i \in K : \E n \in 1..Cardinality(K) : Place(K, n) = i
<1> DEFINE rank(i) == Cardinality({j \in K : j <= i})
           N == Cardinality(K)
           f == [i \in K |-> rank(i)]
<1>0. K \subseteq Int
  OBVIOUS
<1>1. IsFiniteSet(K) /\ N \in Nat
  <2>1. IsFiniteSet(1..Len(seq))
    BY FS_Interval
  <2>2. IsFiniteSet(K)
    BY <2>1, FS_Subset
  <2> QED BY <2>2, FS_CardinalityType
<1>2. \A i \in K : rank(i) \in 1..N
  <2> TAKE i \in K
  <2> DEFINE below == {j \in K : j <= i}
  <2>1. below \subseteq K /\ i \in below
    OBVIOUS
  <2> HIDE DEF below
  <2>2. IsFiniteSet(below) /\ Cardinality(below) \in Nat /\ Cardinality(below) <= N
    BY <2>1, <1>1, FS_Subset, FS_CardinalityType
  <2>3. Cardinality(below) # 0
    BY <2>1, <2>2, FS_EmptySet
  <2>4. Cardinality(below) \in 1..N
    BY <2>2, <2>3, <1>1
  <2> QED BY <2>4 DEF below
<1>3. \A i, j \in K : i < j => rank(i) # rank(j)
  <2> TAKE i, j \in K
  <2> HAVE i < j
  <2> DEFINE A == {k \in K : k <= i}
             B == {k \in K : k <= j}
  <2>0. i \in Int /\ j \in Int /\ \A k \in K : k \in Int
    BY <1>0
  <2>1. A \subseteq B /\ B \subseteq K /\ j \in B /\ j \notin A
    <3> HIDE DEF rank, N, f
    <3>1. \A k \in K : k <= i => k <= j
      BY <2>0
    <3>2. ~(j <= i) /\ j <= j
      BY <2>0
    <3>3. A \subseteq B /\ B \subseteq K
      BY <3>1
    <3> QED BY <3>2, <3>3
  <2>2. SUFFICES Cardinality(A) # Cardinality(B)
    OBVIOUS
  <2> HIDE DEF A, B
  <2>3. IsFiniteSet(B)
    BY <2>1, <1>1, FS_Subset
  <2> QED BY <2>1, <2>3, FS_Subset
<1>4. f \in Injection(K, 1..N)
  <2>1. f \in [K -> 1..N]
    BY <1>2
  <2>2. \A i, j \in K : f[i] = f[j] => i = j
    BY <1>3
  <2> HIDE DEF f
  <2> QED BY <2>1, <2>2 DEF Injection, IsInjective
<1>5. f \in Surjection(K, 1..N)
  <2>1. IsFiniteSet(1..N) /\ Cardinality(1..N) = N
    BY <1>1, FS_Interval
  <2> HIDE DEF f
  <2> QED BY <2>1, <1>4, FS_Injection
<1>6. \A n \in 1..N : \E i \in K : rank(i) = n
  BY <1>5 DEF Surjection
<1>7. \A n \in 1..N : Place(K, n) \in K /\ rank(Place(K, n)) = n
  BY <1>6 DEF Place
<1>8. \A i \in K : Place(K, rank(i)) = i
  <2> TAKE i \in K
  <2> DEFINE p == Place(K, rank(i))
  <2>1. p \in K /\ rank(p) = rank(i)
    BY <1>2, <1>7
  <2> HIDE DEF rank, p
  <2>2. ~(p < i) /\ ~(i < p)
    BY <2>1, <1>3
  <2>3. p = i
    BY <2>1, <2>2, <1>0
  <2> QED BY <2>3 DEF p
<1> HIDE DEF rank
<1>9. \A m, n \in 1..N : Place(K, m) = Place(K, n) => m = n
  BY <1>7
<1>10. \A i \in K : \E n \in 1..N : Place(K, n) = i
  BY <1>2, <1>8
<1> QED BY <1>1, <1>7, <1>9, <1>10

\* A filter returns a sequence of exactly the elements at the places it keeps, and the
\* empty one if it keeps none.
LEMMA FilteredElements ==
    ASSUME NEW S, NEW seq \in Seq(S), NEW K, K \subseteq 1..Len(seq)
    PROVE  /\ Filtered(seq, K) \in Seq(S)
           /\ \A i \in K : \E n \in DOMAIN Filtered(seq, K) : Filtered(seq, K)[n] = seq[i]
           /\ \A n \in DOMAIN Filtered(seq, K) : \E i \in K : Filtered(seq, K)[n] = seq[i]
           /\ Filtered(seq, K) = <<>> <=> K = {}
<1> DEFINE N == Cardinality(K)
           r == Filtered(seq, K)
<1>1. IsFiniteSet(K) /\ N \in Nat
  BY FilteredPlaces
<1>2. /\ \A n \in 1..N : Place(K, n) \in K
      /\ \A i \in K : \E n \in 1..N : Place(K, n) = i
  BY FilteredPlaces, ZenonT(60)
<1>3. N = 0 <=> K = {}
  BY <1>1, FS_EmptySet
<1>4. r = [n \in 1..N |-> seq[Place(K, n)]]
  BY DEF Filtered
<1> HIDE DEF N, r
<1>5. \A n \in 1..N : seq[Place(K, n)] \in S
  <2>1. \A i \in 1..Len(seq) : seq[i] \in S
    OBVIOUS
  <2> QED BY <2>1, <1>2
<1>6. r \in Seq(S) /\ DOMAIN r = 1..N /\ Len(r) = N
  BY <1>1, <1>4, <1>5
<1>7. r = <<>> <=> N = 0
  BY <1>1, <1>6
<1>8. \A i \in K : \E n \in DOMAIN r : r[n] = seq[i]
  BY <1>2, <1>4, <1>6
<1>9. \A n \in DOMAIN r : \E i \in K : r[n] = seq[i]
  BY <1>2, <1>4, <1>6
<1> QED BY <1>3, <1>6, <1>7, <1>8, <1>9 DEF r

\* Different places of what a filter returns come from different places it keeps.
LEMMA FilteredInjective ==
    ASSUME NEW S, NEW seq \in Seq(S), NEW K, K \subseteq 1..Len(seq),
           NEW m \in DOMAIN Filtered(seq, K), NEW n \in DOMAIN Filtered(seq, K), m # n
    PROVE  \E i, j \in K : /\ i # j
                           /\ Filtered(seq, K)[m] = seq[i]
                           /\ Filtered(seq, K)[n] = seq[j]
<1>1. m \in 1..Cardinality(K) /\ n \in 1..Cardinality(K)
  BY DEF Filtered
<1>2. Place(K, m) \in K /\ Place(K, n) \in K /\ Place(K, m) # Place(K, n)
  BY <1>1, FilteredPlaces
<1>3. Filtered(seq, K)[m] = seq[Place(K, m)] /\ Filtered(seq, K)[n] = seq[Place(K, n)]
  BY <1>1 DEF Filtered
<1> QED BY <1>2, <1>3

\* What a filter of seq that keeps the places K returns: list holds exactly the elements at
\* these places, the ones of different places of list are from different places of K, and
\* list is empty only if K is.
Picks(list, seq, K) ==
    /\ \A i \in K : \E n \in DOMAIN list : list[n] = seq[i]
    /\ \A n \in DOMAIN list : \E i \in K : list[n] = seq[i]
    /\ \A m, n \in DOMAIN list :
         m # n => \E i, j \in K : i # j /\ list[m] = seq[i] /\ list[n] = seq[j]
    /\ list = <<>> <=> K = {}

\* A filter returns what it should: the facts of the two lemmas above, under one name.
LEMMA FilteredPicks ==
    ASSUME NEW S, NEW seq \in Seq(S), NEW K, K \subseteq 1..Len(seq)
    PROVE  Filtered(seq, K) \in Seq(S) /\ Picks(Filtered(seq, K), seq, K)
<1> DEFINE r == Filtered(seq, K)
<1>1. /\ r \in Seq(S)
      /\ \A i \in K : \E n \in DOMAIN r : r[n] = seq[i]
      /\ \A n \in DOMAIN r : \E i \in K : r[n] = seq[i]
      /\ r = <<>> <=> K = {}
  BY FilteredElements
<1>2. \A m, n \in DOMAIN r :
        m # n => \E i, j \in K : i # j /\ r[m] = seq[i] /\ r[n] = seq[j]
  BY FilteredInjective
<1> HIDE DEF r
<1>3. r \in Seq(S) /\ Picks(r, seq, K)
  BY <1>1, <1>2, Zenon DEF Picks
<1> QED BY <1>3 DEF r

----------------------------------------------------------------------------
(* The inductive invariant. *)

\* The types of a reservation and of a sequence record.
ReservationType ==
    [sequence : SequenceIds, start_position : Nat, rows : Nat, segments : Seq(Segment),
     nonce : Nonces]

Record ==
    [generation : 0..MaxGeneration, live : BOOLEAN, position : 0..MaxPosition,
     pages : Seq(PageHandle), pending : Pending]

\* A pending append is what reserve_append computed from the record, which nothing has
\* changed since.
PendingOK(q, bound) ==
    LET p == q.pending
    IN  /\ q.live
        /\ p.rows # 0 /\ q.position + p.rows <= MaxPosition
        /\ p.start_position = q.position
        /\ p.new_pages = NewPages(q, p.rows, p.nonce)
        /\ p.segments = Segments(q, p.rows, p.new_pages)
        /\ p.prepared = PreparedPages(q, p.rows, p.new_pages)
        /\ p.nonce < bound

\* The records of all slots: as many pages as the position needs, and no two pending
\* appends with one nonce.
RecordsOK ==
    /\ sequences \in [Slots -> Record]
    /\ \A s \in Slots :
         /\ Len(sequences[s].pages) = DivCeil(sequences[s].position)
         /\ sequences[s].live \/ sequences[s].pages = <<>>
         /\ sequences[s].pending # NoPending => PendingOK(sequences[s], append_nonce)
    /\ \A s, t \in Slots :
         /\ sequences[s].pending # NoPending
         /\ sequences[t].pending # NoPending
         /\ sequences[s].pending.nonce = sequences[t].pending.nonce
         => s = t

\* An issued reservation validates until it is finalised, and every pending append has
\* one.
ReservationsOK ==
    /\ append_nonce \in 0..MaxNonce
    /\ issued \subseteq ReservationType
    /\ finalised \subseteq issued
    /\ \A r \in issued : r.nonce < append_nonce
    /\ \A r, other \in issued : r.nonce = other.nonce => r = other
    /\ \A r \in issued : r \notin finalised <=> Validates(r)
    /\ \A s \in Slots : sequences[s].pending # NoPending =>
         \E r \in issued : r.sequence.slot = s /\ Validates(r)

\* A transaction is open while its append is pending, and the pages a sequence owns are
\* those of committed ones.
TransactionsOK ==
    /\ transactions \in [Nonces -> {"none", "open", "committed", "aborted", "dropped"}]
    /\ \A n \in Nonces : n >= append_nonce => transactions[n] = "none"
    /\ \A n \in Nonces : transactions[n] = "open" <=>
         \E s \in Slots : sequences[s].pending # NoPending /\ sequences[s].pending.nonce = n
    /\ \A s \in Slots : \A i \in DOMAIN sequences[s].pages :
         transactions[sequences[s].pages[i].append] = "committed"

\* The context of a live sequence has its pages and those of the pending append.
TablesOK ==
    /\ tables \in [Slots -> [pages : Seq(PageHandle), position : 0..MaxPosition]]
    /\ \A s \in Slots : sequences[s].live =>
         tables[s].pages = sequences[s].pages \o sequences[s].pending.new_pages

\* What holds of the manager, the reservations and the backend between any two steps.
MachineInv == RecordsOK /\ ReservationsOK /\ TransactionsOK /\ TablesOK

\* No sequence has two reservations in one list.
Distinct(list) == \A i, j \in DOMAIN list : list[i].sequence = list[j].sequence => i = j

\* No reservation is in both lists.
Disjoint(list, other) == \A i \in DOMAIN list : \A j \in DOMAIN other : list[i] # other[j]

\* The batch call in progress: its items are requests or issued reservations, and `next'
\* is the item it is at.
CallTyped ==
    /\ call \in [kind : {"none", "reserve", "commit", "abort"},
                 items : Seq(Requests \cup issued), rows : Seq(Nat), sized : BOOLEAN,
                 next : Nat, got : Seq(issued)]
    /\ call.next <= Len(call.items) + 1
    /\ call.kind = "none" => call = NoCall
    /\ call.kind = "reserve" => call.next # 0 /\ call.items \in Seq(Requests)
    /\ call.kind # "reserve" => call.got = <<>>
    /\ Finalizing => call.items \in Seq(issued)

\* The runtime's batches and the lists of the call in progress hold each reservation once.
BatchesOK ==
    /\ \A b \in batches : b \in Seq(issued) /\ b # <<>> /\ Distinct(b)
    /\ \A b, c \in batches : b # c => Disjoint(b, c)
    /\ Distinct(call.got)
    /\ Finalizing => Distinct(call.items)
    /\ \A b \in batches : Disjoint(b, call.got)
    /\ Finalizing => \A b \in batches : Disjoint(b, call.items)

\* What the loops of a batch call have done so far.
LoopsOK ==
    /\ \A i \in DOMAIN call.got : call.got[i] \notin finalised
    /\ Finalizing => \A i \in DOMAIN call.items : i < call.next => call.items[i] \in finalised

\* The runtime holds r in a batch, or the call in progress holds it for the runtime.
Holds(r) ==
    \/ \E b \in batches : \E i \in DOMAIN b : b[i] = r
    \/ Finalizing /\ \E i \in DOMAIN call.items : call.items[i] = r
    \/ \E i \in DOMAIN call.got : call.got[i] = r

\* Every reservation that can still be finalised is held by someone.
HeldInv ==
    /\ CallTyped
    /\ BatchesOK
    /\ LoopsOK
    /\ \A r \in issued \ finalised : Holds(r)

\* The inductive invariant.
IInv == MachineInv /\ HeldInv

----------------------------------------------------------------------------
(* Sequences. *)

\* A concatenation, in its two parts.
LEMMA ConcatParts ==
    ASSUME NEW S, NEW s \in Seq(S), NEW t \in Seq(S)
    PROVE  /\ s \o t \in Seq(S) /\ Len(s \o t) = Len(s) + Len(t)
           /\ \A i \in 1..Len(s) : (s \o t)[i] = s[i]
           /\ \A i \in 1..Len(t) : (s \o t)[Len(s) + i] = t[i]
OBVIOUS

\* A list of one element.
LEMMA Singleton ==
    ASSUME NEW S, NEW e \in S
    PROVE  <<e>> \in Seq(S) /\ Len(<<e>>) = 1 /\ <<e>>[1] = e
OBVIOUS

----------------------------------------------------------------------------
(* Page arithmetic. *)

\* Division by the page size, as the bounds of a page.
LEMMA PageBounds ==
    ASSUME NEW n \in Nat
    PROVE  /\ n \div PageTokens \in Nat /\ n % PageTokens \in 0..(PageTokens - 1)
           /\ (n \div PageTokens) * PageTokens <= n
           /\ n < (n \div PageTokens) * PageTokens + PageTokens
           /\ n % PageTokens = n - (n \div PageTokens) * PageTokens
BY AppendAssumption

\* Positions in order are in pages in order.
LEMMA DivMonotone ==
    ASSUME NEW m \in Nat, NEW n \in Nat, m <= n
    PROVE  m \div PageTokens <= n \div PageTokens
BY AppendAssumption

\* Multiplication by page_tokens is monotone.
LEMMA TimesMonotone ==
    ASSUME NEW m \in Nat, NEW n \in Nat, m <= n
    PROVE  m * PageTokens \in Nat /\ m * PageTokens <= n * PageTokens
BY AppendAssumption

\* A position is in the page whose bounds it is in.
LEMMA DivUnique ==
    ASSUME NEW a \in Nat, NEW b \in 0..(PageTokens - 1)
    PROVE  /\ a * PageTokens + b \in Nat
           /\ (a * PageTokens + b) \div PageTokens = a
           /\ (a * PageTokens + b) % PageTokens = b
BY AppendAssumption

\* The pages that n rows need: up to the one of the last row.
LEMMA DivCeilIs ==
    ASSUME NEW n \in Nat
    PROVE  /\ DivCeil(n) \in Nat
           /\ DivCeil(n) = IF n = 0 THEN 0 ELSE ((n - 1) \div PageTokens) + 1
<1>1. CASE n = 0
  <2>1. PageTokens - 1 \in Nat /\ (0 * PageTokens + (PageTokens - 1)) \div PageTokens = 0
    BY DivUnique, AppendAssumption
  <2> QED BY <1>1, <2>1, AppendAssumption DEF DivCeil
<1>2. CASE n # 0
  BY <1>2, AppendAssumption DEF DivCeil
<1> QED BY <1>1, <1>2

\* The whole pages of n rows, and one more if some rows are left over.
LEMMA DivCeilTail ==
    ASSUME NEW n \in Nat
    PROVE  DivCeil(n) = (n \div PageTokens) + (IF n % PageTokens = 0 THEN 0 ELSE 1)
<1> DEFINE a == n \div PageTokens
           r == n % PageTokens
<1>1. a \in Nat /\ r \in 0..(PageTokens - 1) /\ n = a * PageTokens + r /\ a * PageTokens \in Nat
  <2>1. a \in Nat /\ a * PageTokens <= n /\ r = n - a * PageTokens /\ r \in 0..(PageTokens - 1)
    BY PageBounds
  <2>2. a * PageTokens \in Nat
    BY <2>1, TimesMonotone
  <2> HIDE DEF a, r
  <2> QED BY <2>1, <2>2
<1> HIDE DEF a, r
<1>2. PageTokens \in Nat \ {0}
  BY AppendAssumption
<1>3. CASE r = 0
  <2>1. PageTokens - 1 \in 0..(PageTokens - 1)
    BY <1>2
  <2>2. n + PageTokens - 1 = a * PageTokens + (PageTokens - 1)
    BY <1>1, <1>2, <1>3
  <2>3. (n + PageTokens - 1) \div PageTokens = a
    BY <2>1, <2>2, <1>1, DivUnique
  <2> QED BY <2>3, <1>1, <1>3 DEF DivCeil, a, r
<1>4. CASE r # 0
  <2>1. r - 1 \in 0..(PageTokens - 1) /\ a + 1 \in Nat
    BY <1>1, <1>2, <1>4
  <2>2. (a + 1) * PageTokens = a * PageTokens + PageTokens
    BY <1>1, <1>2
  <2>3. n + PageTokens - 1 = (a + 1) * PageTokens + (r - 1)
    BY <2>2, <1>1, <1>2
  <2>4. (n + PageTokens - 1) \div PageTokens = a + 1
    BY <2>1, <2>3, DivUnique
  <2> QED BY <2>4, <1>4 DEF DivCeil, a, r
<1> QED BY <1>3, <1>4

\* More rows never need fewer pages.
LEMMA DivCeilMonotone ==
    ASSUME NEW m \in Nat, NEW n \in Nat, m <= n
    PROVE  DivCeil(m) <= DivCeil(n)
<1>1. m # 0 => (m - 1) \div PageTokens <= (n - 1) \div PageTokens
  BY DivMonotone
<1>2. n # 0 => (n - 1) \div PageTokens \in Nat
  BY PageBounds
<1>3. m # 0 => (m - 1) \div PageTokens \in Nat
  BY PageBounds
<1> QED BY <1>1, <1>2, <1>3, DivCeilIs

\* The smaller of two numbers.
LEMMA MinOfTwo ==
    ASSUME NEW a \in Int, NEW b \in Int
    PROVE  Min({a, b}) = IF a <= b THEN a ELSE b
<1> DEFINE m == IF a <= b THEN a ELSE b
<1>1. m \in {a, b} /\ \A y \in {a, b} : m <= y
  OBVIOUS
<1>2. \A x \in {a, b} : (\A y \in {a, b} : x <= y) => x = m
  OBVIOUS
<1> QED BY <1>1, <1>2 DEF Min

----------------------------------------------------------------------------
(* The lists that reserve_append computes. *)

\* A record as reserve_append finds it: its pages are those its position needs.
Reservable(q, rows) ==
    /\ q.position \in Nat /\ q.pages \in Seq(PageHandle)
    /\ Len(q.pages) = DivCeil(q.position)
    /\ rows \in Nat \ {0}

\* The new pages are those that the rows need beyond the ones there are.
LEMMA NewPagesAre ==
    ASSUME NEW q, NEW rows, NEW nonce \in Nonces, Reservable(q, rows)
    PROVE  /\ NewPages(q, rows, nonce) \in Seq(PageHandle)
           /\ Len(q.pages) <= DivCeil(q.position + rows)
           /\ Len(NewPages(q, rows, nonce)) = DivCeil(q.position + rows) - Len(q.pages)
           /\ \A i \in DOMAIN NewPages(q, rows, nonce) :
                NewPages(q, rows, nonce)[i] = [append |-> nonce, index |-> i]
<1> DEFINE n == DivCeil(q.position + rows) - Len(q.pages)
<1>1. n \in Nat
  <2>1. q.position \in Nat /\ q.position + rows \in Nat /\ q.position <= q.position + rows
    BY DEF Reservable
  <2>2. DivCeil(q.position) <= DivCeil(q.position + rows)
    BY <2>1, DivCeilMonotone
  <2>3. DivCeil(q.position) \in Nat /\ DivCeil(q.position + rows) \in Nat
    BY <2>1, DivCeilIs
  <2> QED BY <2>2, <2>3 DEF Reservable
<1>2. NewPages(q, rows, nonce) = [i \in 1..n |-> [append |-> nonce, index |-> i]]
  BY DEF NewPages
<1>3. Len(q.pages) \in Nat /\ DivCeil(q.position + rows) \in Nat
  BY DivCeilIs DEF Reservable
<1> HIDE DEF n
<1>4. \A i \in 1..n : [append |-> nonce, index |-> i] \in PageHandle
  BY <1>1 DEF PageHandle
<1>5. NewPages(q, rows, nonce) \in [1..n -> PageHandle]
  BY <1>2, <1>4
<1>6. NewPages(q, rows, nonce) \in Seq(PageHandle) /\ Len(NewPages(q, rows, nonce)) = n
  BY <1>1, <1>5
<1> QED BY <1>1, <1>2, <1>3, <1>6 DEF n

\* The first and the last logical page that an append touches, counted from 0, and where
\* the page of the i-th segment starts.
FirstPage(q) == q.position \div PageTokens
LastPage(q, rows) == (q.position + rows - 1) \div PageTokens
SegmentCount(q, rows) == LastPage(q, rows) - FirstPage(q) + 1
PageStart(q, i) == (FirstPage(q) + i - 1) * PageTokens

\* Where the pages of the segments lie in relation to the rows.
LEMMA PageStarts ==
    ASSUME NEW q, NEW rows, Reservable(q, rows)
    PROVE  /\ FirstPage(q) \in Nat /\ LastPage(q, rows) \in Nat
           /\ FirstPage(q) <= LastPage(q, rows)
           /\ \A i \in 1..SegmentCount(q, rows) :
                /\ PageStart(q, i) \in Nat
                /\ PageStart(q, i) < q.position + rows
                /\ i = 1 => /\ PageStart(q, i) <= q.position
                            /\ q.position < PageStart(q, i) + PageTokens
                            /\ q.position % PageTokens = q.position - PageStart(q, i)
                /\ i # 1 => PageStart(q, i) > q.position
<1> DEFINE pos == q.position
           a == FirstPage(q)
           z == LastPage(q, rows)
<1>1. pos \in Nat /\ pos + rows - 1 \in Nat /\ pos <= pos + rows - 1 /\ rows \in Nat
  BY DEF Reservable
<1>2. /\ a \in Nat /\ a * PageTokens <= pos /\ pos < a * PageTokens + PageTokens
      /\ pos % PageTokens = pos - a * PageTokens
  BY <1>1, PageBounds DEF FirstPage
<1>3. z \in Nat /\ z * PageTokens <= pos + rows - 1
  BY <1>1, PageBounds DEF LastPage
<1>4. a <= z
  BY <1>1, DivMonotone DEF FirstPage, LastPage
<1> HIDE DEF pos, a, z
<1>5. ASSUME NEW i \in 1..(z - a + 1)
      PROVE  /\ (a + i - 1) * PageTokens \in Nat
             /\ (a + i - 1) * PageTokens < pos + rows
             /\ i # 1 => (a + i - 1) * PageTokens > pos
  <2>1. a + i - 1 \in Nat /\ a + i - 1 <= z
    BY <1>2, <1>3, <1>4
  <2>2. (a + i - 1) * PageTokens \in Nat /\ (a + i - 1) * PageTokens <= z * PageTokens
    BY <2>1, <1>3, TimesMonotone
  <2>3. z * PageTokens \in Nat /\ a * PageTokens \in Nat
    BY <1>2, <1>3, TimesMonotone
  <2>4. (a + i - 1) * PageTokens < pos + rows
    BY <2>2, <2>3, <1>1, <1>3
  <2>5. ASSUME i # 1 PROVE (a + i - 1) * PageTokens > pos
    <3>1. a + 1 \in Nat /\ a + 1 <= a + i - 1
      BY <2>5, <1>2
    <3>2. (a + 1) * PageTokens <= (a + i - 1) * PageTokens
      BY <3>1, <2>1, TimesMonotone
    <3>3. (a + 1) * PageTokens = a * PageTokens + PageTokens
      BY <1>2, AppendAssumption
    <3> QED BY <3>2, <3>3, <2>2, <2>3, <1>1, <1>2, AppendAssumption
  <2> QED BY <2>2, <2>4, <2>5
<1>6. ASSUME NEW i \in 1..(z - a + 1), i = 1 PROVE (a + i - 1) * PageTokens = a * PageTokens
  BY <1>6, <1>2
<1> QED BY <1>2, <1>3, <1>4, <1>5, <1>6 DEF pos, a, z, PageStart, SegmentCount

\* A segment holds the rows of the append that are in its page.
LEMMA SegmentIs ==
    ASSUME NEW q, NEW rows, NEW new, Reservable(q, rows), NEW i \in 1..SegmentCount(q, rows)
    PROVE  LET g     == Segments(q, rows, new)[i]
               start == PageStart(q, i)
           IN  /\ g \in [page : {(q.pages \o new)[FirstPage(q) + i]}, page_offset : Nat,
                         input_offset : Nat, rows : Nat]
               /\ q.position + g.input_offset = IF start <= q.position THEN q.position ELSE start
               /\ g.page_offset = q.position + g.input_offset - start
               /\ q.position + g.input_offset + g.rows =
                    IF q.position + rows <= start + PageTokens THEN q.position + rows
                                                               ELSE start + PageTokens
<1> DEFINE pos == q.position
           a == FirstPage(q)
           start == PageStart(q, i)
           offset == IF i = 1 THEN pos % PageTokens ELSE 0
           input == IF i = 1 THEN 0 ELSE start - pos
           g == Segments(q, rows, new)[i]
<1>1. g = [page |-> (q.pages \o new)[a + i], page_offset |-> offset, input_offset |-> input,
           rows |-> Min({rows - input, PageTokens - offset})]
  BY DEF Segments, SegmentCount, FirstPage, LastPage, PageStart
<1>2. /\ pos \in Nat /\ rows \in Nat \ {0} /\ start \in Nat /\ start < pos + rows
      /\ i = 1 => start <= pos /\ pos < start + PageTokens /\ pos % PageTokens = pos - start
      /\ i # 1 => start > pos
  BY PageStarts DEF Reservable
<1>3. PageTokens \in Nat \ {0}
  BY AppendAssumption
<1> HIDE DEF pos, a, start, g
<1>4. /\ input \in Nat /\ offset \in Nat /\ rows - input \in Nat /\ PageTokens - offset \in Nat
      /\ pos + input = IF start <= pos THEN pos ELSE start
      /\ offset = pos + input - start
  BY <1>2, <1>3
<1> HIDE DEF input, offset
<1>5. Min({rows - input, PageTokens - offset})
        = IF rows - input <= PageTokens - offset THEN rows - input ELSE PageTokens - offset
  BY <1>4, MinOfTwo
<1> DEFINE n == Min({rows - input, PageTokens - offset})
<1>6. n \in Nat
  BY <1>4, <1>5
<1>7. pos + input + n = IF pos + rows <= start + PageTokens THEN pos + rows
                                                            ELSE start + PageTokens
  BY <1>2, <1>3, <1>4, <1>5
<1> HIDE DEF n
<1>8. g.page_offset = offset /\ g.input_offset = input /\ g.rows = n
      /\ g \in [page : {(q.pages \o new)[a + i]}, page_offset : Nat, input_offset : Nat,
                rows : Nat]
  BY <1>1, <1>4, <1>6 DEF n
<1> QED BY <1>4, <1>6, <1>7, <1>8 DEF pos, a, start, g

\* Whether the append starts in a partly filled page, as a number of pages.
TailPages(q) == IF q.position % PageTokens = 0 THEN 0 ELSE 1

\* The pages a sequence has end with the one that the append starts in, if that is partly
\* filled, and before it otherwise; the new ones are those of the other segments.
LEMMA PageCounts ==
    ASSUME NEW q, NEW rows, NEW nonce \in Nonces, Reservable(q, rows)
    PROVE  /\ Len(q.pages) = FirstPage(q) + TailPages(q)
           /\ Len(NewPages(q, rows, nonce)) = SegmentCount(q, rows) - TailPages(q)
           /\ SegmentCount(q, rows) \in Nat \ {0}
           /\ Len(q.pages) + Len(NewPages(q, rows, nonce)) = LastPage(q, rows) + 1
<1> DEFINE pos == q.position
           a == FirstPage(q)
<1>1. pos \in Nat /\ rows \in Nat \ {0} /\ pos + rows \in Nat \ {0}
  BY DEF Reservable
<1>2. a \in Nat /\ LastPage(q, rows) \in Nat /\ a <= LastPage(q, rows)
  BY PageStarts
<1>3. DivCeil(pos + rows) = LastPage(q, rows) + 1
  BY <1>1, DivCeilIs DEF LastPage
<1>5. DivCeil(pos) = a + TailPages(q)
  BY <1>1, DivCeilTail DEF FirstPage, TailPages
<1>6. TailPages(q) \in {0, 1}
  BY DEF TailPages
<1>7. /\ Len(NewPages(q, rows, nonce)) = DivCeil(q.position + rows) - Len(q.pages)
      /\ Len(q.pages) = DivCeil(q.position)
  BY NewPagesAre DEF Reservable
<1> DEFINE l == Len(q.pages)
           m == Len(NewPages(q, rows, nonce))
           z == LastPage(q, rows)
           t == TailPages(q)
<1>8. l = a + t /\ m = z + 1 - l /\ a \in Nat /\ z \in Nat /\ a <= z /\ t \in {0, 1}
  BY <1>2, <1>3, <1>5, <1>6, <1>7
<1> HIDE DEF a, l, m, z, t
<1>9. l = a + t /\ m = (z - a + 1) - t /\ z - a + 1 \in Nat \ {0} /\ l + m = z + 1
  BY <1>8
<1> QED BY <1>9 DEF SegmentCount, a, l, m, z, t

\* The type of a prepared page of the backend's transaction.
PreparedType ==
    [page : PageHandle, page_offset : Nat, input_offset : Nat, rows : Nat, existing : BOOLEAN]

\* The segments are typed: no offset is negative, and every page exists.
LEMMA SegmentsTyped ==
    ASSUME NEW q, NEW rows, NEW nonce \in Nonces, Reservable(q, rows)
    PROVE  /\ Segments(q, rows, NewPages(q, rows, nonce)) \in Seq(Segment)
           /\ Len(Segments(q, rows, NewPages(q, rows, nonce))) = SegmentCount(q, rows)
           /\ \A i \in 1..SegmentCount(q, rows) :
                FirstPage(q) + i \in 1..Len(q.pages \o NewPages(q, rows, nonce))
<1> DEFINE new == NewPages(q, rows, nonce)
           N == SegmentCount(q, rows)
           list == Segments(q, rows, new)
<1>1. new \in Seq(PageHandle) /\ q.pages \in Seq(PageHandle)
  BY NewPagesAre DEF Reservable
<1>2. N \in Nat \ {0} /\ Len(q.pages) + Len(new) = LastPage(q, rows) + 1
  BY PageCounts
<1>3. FirstPage(q) \in Nat /\ LastPage(q, rows) \in Nat
  BY PageStarts
<1>4. list = [i \in 1..N |-> list[i]]
  BY DEF Segments, SegmentCount, FirstPage, LastPage
<1>5. ASSUME NEW i \in 1..N PROVE list[i] \in Segment /\ FirstPage(q) + i \in 1..Len(q.pages \o new)
  <2> HIDE DEF list, new
  <2>1. FirstPage(q) + i \in 1..Len(q.pages \o new)
    BY <1>1, <1>2, <1>3 DEF SegmentCount
  <2>2. (q.pages \o new)[FirstPage(q) + i] \in PageHandle
    <3>1. q.pages \o new \in Seq(PageHandle)
      BY <1>1
    <3> HIDE DEF N
    <3> QED BY <3>1, <2>1
  <2>3. list[i] \in [page : {(q.pages \o new)[FirstPage(q) + i]}, page_offset : Nat,
                     input_offset : Nat, rows : Nat]
    BY SegmentIs DEF list
  <2> QED BY <2>1, <2>2, <2>3 DEF Segment
<1> HIDE DEF list, N, new
<1>6. list \in [1..N -> Segment]
  BY <1>4, <1>5
<1>7. list \in Seq(Segment) /\ Len(list) = N
  BY <1>2, <1>6
<1> QED BY <1>5, <1>7 DEF list, N, new

\* The pages prepared before the allocations have handles are the segments computed
\* after: the same places, offsets and rows.
LEMMA PreparedIs ==
    ASSUME NEW q, NEW rows, NEW nonce \in Nonces, Reservable(q, rows)
    PROVE  LET new  == NewPages(q, rows, nonce)
               list == PreparedPages(q, rows, new)
               segs == Segments(q, rows, new)
           IN  /\ list \in Seq(PreparedType)
               /\ Len(list) = SegmentCount(q, rows)
               /\ \A i \in 1..SegmentCount(q, rows) :
                    /\ list[i].page = segs[i].page
                    /\ list[i].page_offset = segs[i].page_offset
                    /\ list[i].input_offset = segs[i].input_offset
                    /\ list[i].rows = segs[i].rows
                    /\ list[i].existing = (i <= TailPages(q))
<1> DEFINE new == NewPages(q, rows, nonce)
           list == PreparedPages(q, rows, new)
           segs == Segments(q, rows, new)
           N == SegmentCount(q, rows)
           t == TailPages(q)
           pos == q.position
           a == FirstPage(q)
           offset == pos % PageTokens
           filled == IF offset = 0 THEN 0 ELSE Min({rows, PageTokens - offset})
           tail == IF offset = 0 THEN <<>>
                   ELSE <<[page |-> Last(q.pages), page_offset |-> offset, input_offset |-> 0,
                           rows |-> filled, existing |-> TRUE]>>
           input(i) == filled + (i - 1) * PageTokens
           rest == [i \in DOMAIN new |->
                      [page |-> new[i], page_offset |-> 0, input_offset |-> input(i),
                       rows |-> Min({rows - input(i), PageTokens}), existing |-> FALSE]]
<1>1. list = tail \o rest
  BY DEF PreparedPages
<1>2. new \in Seq(PageHandle) /\ q.pages \in Seq(PageHandle) /\ pos \in Nat
      /\ rows \in Nat \ {0}
  BY NewPagesAre DEF Reservable
<1>3. N \in Nat \ {0} /\ Len(q.pages) = a + t /\ Len(new) = N - t
  BY PageCounts
<1>4. t \in {0, 1} /\ (t = 0 <=> offset = 0)
  BY DEF TailPages
<1>5. a \in Nat /\ PageStart(q, 1) <= pos /\ pos < PageStart(q, 1) + PageTokens
      /\ offset = pos - PageStart(q, 1) /\ PageStart(q, 1) = a * PageTokens
      /\ PageStart(q, 1) \in Nat
  <2>1. 1 \in 1..N
    BY <1>3
  <2>2. a \in Nat /\ PageStart(q, 1) <= pos /\ pos < PageStart(q, 1) + PageTokens
        /\ offset = pos - PageStart(q, 1) /\ PageStart(q, 1) \in Nat
    BY <2>1, PageStarts
  <2> QED BY <2>2 DEF PageStart
<1>6. PageTokens \in Nat \ {0}
  BY AppendAssumption
<1>7. ASSUME NEW i \in 1..N
      PROVE  LET g == segs[i]
             IN  /\ g.page = (q.pages \o new)[a + i]
                 /\ g.page_offset \in Nat /\ g.input_offset \in Nat /\ g.rows \in Nat
                 /\ pos + g.input_offset = IF PageStart(q, i) <= pos THEN pos ELSE PageStart(q, i)
                 /\ g.page_offset = pos + g.input_offset - PageStart(q, i)
                 /\ pos + g.input_offset + g.rows =
                      IF pos + rows <= PageStart(q, i) + PageTokens THEN pos + rows
                                                           ELSE PageStart(q, i) + PageTokens
                 /\ PageStart(q, i) \in Nat /\ PageStart(q, i) < pos + rows
                 /\ g.page \in PageHandle
  <2>1. segs[i] \in [page : {(q.pages \o new)[a + i]}, page_offset : Nat, input_offset : Nat,
                     rows : Nat]
    BY SegmentIs
  <2>2. segs[i] \in Segment
    <3>1. segs \in Seq(Segment) /\ Len(segs) = N
      BY SegmentsTyped
    <3> HIDE DEF segs, N
    <3> QED BY <3>1
  <2>3. PageStart(q, i) \in Nat /\ PageStart(q, i) < pos + rows
    BY PageStarts
  <2>4. /\ pos + segs[i].input_offset = IF PageStart(q, i) <= pos THEN pos ELSE PageStart(q, i)
        /\ segs[i].page_offset = pos + segs[i].input_offset - PageStart(q, i)
        /\ pos + segs[i].input_offset + segs[i].rows =
                      IF pos + rows <= PageStart(q, i) + PageTokens THEN pos + rows
                                                           ELSE PageStart(q, i) + PageTokens
    BY SegmentIs
  <2> HIDE DEF segs
  <2> QED BY <2>1, <2>2, <2>3, <2>4 DEF Segment
<1> DEFINE start(i) == PageStart(q, i)
           at(i) == segs[i].input_offset
           skip(i) == segs[i].page_offset
           size(i) == segs[i].rows
<1>15. ASSUME NEW i \in 1..N
       PROVE  /\ skip(i) \in Nat /\ at(i) \in Nat /\ size(i) \in Nat
              /\ pos + at(i) = IF start(i) <= pos THEN pos ELSE start(i)
              /\ skip(i) = pos + at(i) - start(i)
              /\ pos + at(i) + size(i) = IF pos + rows <= start(i) + PageTokens
                                           THEN pos + rows ELSE start(i) + PageTokens
              /\ start(i) \in Nat /\ start(i) < pos + rows
  BY <1>7
<1>16. segs[1].input_offset = at(1)
  OBVIOUS
<1> HIDE DEF segs, N, t, a, offset, new, pos, start, at, skip, size
<1>8. filled \in Nat /\ filled <= rows /\ (offset = 0 => filled = 0)
      /\ (offset # 0 => filled = IF rows <= PageTokens - offset THEN rows ELSE PageTokens - offset)
  <2>1. PageTokens - offset \in Nat
    BY <1>2, <1>5, <1>6
  <2>2. Min({rows, PageTokens - offset}) = IF rows <= PageTokens - offset THEN rows
                                                                     ELSE PageTokens - offset
    BY <2>1, <1>2, MinOfTwo
  <2> QED BY <2>1, <2>2, <1>2
<1> HIDE DEF filled
<1>9. ASSUME t = 1
      PROVE  /\ 1 \in 1..N
             /\ Last(q.pages) = segs[1].page /\ offset = segs[1].page_offset
             /\ segs[1].input_offset = 0 /\ filled = segs[1].rows
             /\ segs[1].page \in PageHandle
  <2>1. 1 \in 1..N
    BY <1>3
  <2>2. Last(q.pages) = segs[1].page
    <3>1. Len(q.pages) = a + 1 /\ a + 1 \in 1..Len(q.pages)
      BY <1>3, <1>5, <1>9
    <3>2. (q.pages \o new)[a + 1] = q.pages[a + 1]
      BY <3>1, <1>2, ConcatParts
    <3>3. segs[1].page = (q.pages \o new)[a + 1]
      BY <2>1, <1>7
    <3> QED BY <3>1, <3>2, <3>3 DEF Last
  <2>3. at(1) = 0 /\ skip(1) = offset
    <3>1. start(1) <= pos /\ offset = pos - start(1)
      BY <1>5 DEF start
    <3> QED BY <2>1, <3>1, <1>2, <1>15
  <2>4. filled = size(1)
    <3>1. start(1) <= pos /\ offset = pos - start(1) /\ offset # 0
      BY <1>4, <1>5, <1>9 DEF start
    <3>2. /\ pos + at(1) + size(1) = IF pos + rows <= start(1) + PageTokens
                                       THEN pos + rows ELSE start(1) + PageTokens
          /\ start(1) \in Nat /\ size(1) \in Nat
      BY <2>1, <1>15
    <3>3. filled = IF rows <= PageTokens - offset THEN rows ELSE PageTokens - offset
      BY <3>1, <1>8
    <3> QED BY <2>3, <3>1, <3>2, <3>3, <1>2, <1>6
  <2>5. segs[1].page \in PageHandle
    BY <2>1, <1>7
  <2> QED BY <2>1, <2>2, <2>3, <2>4, <2>5 DEF at, skip, size
<1>10. ASSUME NEW i \in 1..(N - t)
       PROVE  /\ i + t \in 1..N
              /\ new[i] = segs[i + t].page /\ segs[i + t].page_offset = 0
              /\ input(i) = segs[i + t].input_offset
              /\ Min({rows - input(i), PageTokens}) = segs[i + t].rows
              /\ segs[i + t].page \in PageHandle
              /\ input(i) \in Nat /\ segs[i + t].rows \in Nat
  <2>1. i + t \in 1..N /\ i \in Nat \ {0} /\ i - 1 \in Nat
    BY <1>3, <1>4
  <2>2. new[i] = segs[i + t].page
    <3>1. Len(q.pages) + i = a + (i + t) /\ i \in 1..Len(new)
      BY <2>1, <1>3, <1>4, <1>5
    <3>2. (q.pages \o new)[a + (i + t)] = new[i]
      BY <3>1, <1>2, ConcatParts
    <3> QED BY <3>2, <2>1, <1>7
  <2>3. (i - 1) * PageTokens \in Nat
    BY <2>1, TimesMonotone
  <2>4. start(i + t) = a * PageTokens + (i - 1) * PageTokens + t * PageTokens
    <3>1. start(i + t) = (a + (i + t) - 1) * PageTokens
      BY DEF PageStart, start, a
    <3>2. (a + (i + t) - 1) * PageTokens = a * PageTokens + (i - 1) * PageTokens + t * PageTokens
      BY <2>1, <1>4, <1>5, <1>6
    <3> QED BY <3>1, <3>2
  <2> DEFINE b == a * PageTokens
             c == (i - 1) * PageTokens
             n == i + t
  <2>5. b \in Nat /\ offset = pos - b /\ b <= pos /\ pos < b + PageTokens
    BY <1>5
  <2>6. start(n) = IF t = 0 THEN b + c ELSE b + c + PageTokens
    BY <2>3, <2>4, <2>5, <1>4, <1>6
  <2>7. n \in 1..N /\ c \in Nat
    BY <2>1, <2>3
  <2>8. input(i) = filled + c
    OBVIOUS
  <2> HIDE DEF b, c, n, input
  <2>9. filled + c = at(n) /\ skip(n) = 0
    <3>1. CASE t = 0
      <4>1. start(n) = b + c /\ pos = b /\ filled = 0
        BY <3>1, <2>5, <2>6, <1>2, <1>4, <1>8
      <4>2. pos + at(n) = start(n)
        BY <4>1, <2>5, <2>7, <1>2, <1>15, SMTT(40)
      <4>3. skip(n) = pos + at(n) - start(n) /\ at(n) \in Nat
        BY <2>7, <1>15
      <4> QED BY <4>1, <4>2, <4>3, <2>5, <2>7, <1>2
    <3>2. CASE t = 1
      <4>1. start(n) = b + c + PageTokens /\ start(n) > pos
        BY <3>2, <2>5, <2>6, <2>7, <1>2, <1>6
      <4>2. pos + at(n) = start(n) /\ start(n) < pos + rows
        BY <4>1, <2>7, <1>2, <1>15
      <4>3. filled = PageTokens - offset
        BY <4>1, <4>2, <3>2, <2>5, <2>7, <1>2, <1>4, <1>6, <1>8
      <4>4. skip(n) = pos + at(n) - start(n) /\ at(n) \in Nat
        BY <2>7, <1>15
      <4> QED BY <4>1, <4>2, <4>3, <4>4, <2>5, <2>7, <1>2, <1>6, SMTT(40)
    <3> QED BY <3>1, <3>2, <1>4
  <2>10. at(n) \in Nat /\ size(n) \in Nat /\ input(i) = at(n)
    BY <2>7, <2>8, <2>9, <1>15
  <2>11. Min({rows - at(n), PageTokens}) = size(n)
    <3>1. Min({rows - at(n), PageTokens})
            = IF rows - at(n) <= PageTokens THEN rows - at(n) ELSE PageTokens
      BY <2>10, <1>2, <1>6, MinOfTwo
    <3>2. /\ pos + at(n) + size(n) = IF pos + rows <= start(n) + PageTokens
                                       THEN pos + rows ELSE start(n) + PageTokens
          /\ skip(n) = pos + at(n) - start(n) /\ start(n) \in Nat
      BY <2>7, <1>15
    <3>3. start(n) = pos + at(n) /\ at(n) \in Nat /\ size(n) \in Nat
      BY <3>2, <2>9, <2>10, <1>2, SMTT(40)
    <3>4. pos + at(n) + size(n) = IF pos + rows <= pos + at(n) + PageTokens
                                    THEN pos + rows ELSE pos + at(n) + PageTokens
      BY <3>2, <3>3
    <3>5. pos \in Nat /\ rows \in Nat
      BY <1>2
    <3>6. size(n) = IF rows - at(n) <= PageTokens THEN rows - at(n) ELSE PageTokens
      BY <3>3, <3>4, <3>5, <1>6
    <3> QED BY <3>1, <3>6
  <2>12. segs[n].page \in PageHandle
    BY <2>7, <1>7
  <2>13. Min({rows - input(i), PageTokens}) = size(n)
    BY <2>10, <2>11
  <2> QED BY <2>1, <2>2, <2>9, <2>10, <2>12, <2>13 DEF n, at, skip, size
<1> HIDE DEF input
<1>11. tail \in Seq(PreparedType) /\ Len(tail) = t
  <2>1. CASE t = 0
    BY <2>1, <1>4
  <2>2. CASE t = 1
    <3> DEFINE e == [page |-> Last(q.pages), page_offset |-> offset, input_offset |-> 0,
                     rows |-> filled, existing |-> TRUE]
    <3>1. offset \in Nat
      BY <1>2, <1>5
    <3>2. e \in PreparedType
      BY <2>2, <3>1, <1>8, <1>9 DEF PreparedType
    <3>3. offset # 0
      BY <2>2, <1>4
    <3>4. tail = <<e>>
      BY <3>3, Zenon
    <3> HIDE DEF e, tail
    <3> QED BY <2>2, <3>2, <3>4, Singleton
  <2> QED BY <2>1, <2>2, <1>4
<1>12. rest \in Seq(PreparedType) /\ Len(rest) = N - t
  <2>1. DOMAIN new = 1..(N - t) /\ N - t \in Nat
    BY <1>2, <1>3, <1>4
  <2>2. ASSUME NEW i \in 1..(N - t) PROVE rest[i] \in PreparedType
    BY <2>1, <2>2, <1>10 DEF PreparedType
  <2>3. rest \in [1..(N - t) -> PreparedType]
    BY <2>1, <2>2
  <2> HIDE DEF rest
  <2> QED BY <2>1, <2>3
<1>13. list \in Seq(PreparedType) /\ Len(list) = N
       /\ \A i \in 1..N : list[i] = IF i <= t THEN tail[i] ELSE rest[i - t]
  <2> HIDE DEF list, tail, rest
  <2> QED BY <1>1, <1>3, <1>4, <1>11, <1>12
<1>14. ASSUME NEW i \in 1..N
       PROVE  /\ list[i].page = segs[i].page
              /\ list[i].page_offset = segs[i].page_offset
              /\ list[i].input_offset = segs[i].input_offset
              /\ list[i].rows = segs[i].rows
              /\ list[i].existing = (i <= t)
  <2>1. CASE i <= t
    <3>1. t = 1 /\ i = 1 /\ offset # 0
      BY <2>1, <1>3, <1>4
    <3> DEFINE e == [page |-> Last(q.pages), page_offset |-> offset, input_offset |-> 0,
                     rows |-> filled, existing |-> TRUE]
    <3>2. tail[1] = e
      <4>1. tail = <<e>>
        BY <3>1, Zenon
      <4> HIDE DEF e, tail
      <4> QED BY <4>1
    <3> HIDE DEF list, tail, rest
    <3>3. list[i] = e
      BY <3>1, <3>2, <2>1, <1>13
    <3>4. list[i].existing = TRUE
      BY <3>3
    <3>5. /\ list[i].page = segs[1].page /\ list[i].page_offset = segs[1].page_offset
          /\ list[i].input_offset = segs[1].input_offset /\ list[i].rows = segs[1].rows
      BY <3>1, <3>3, <1>9
    <3> QED BY <2>1, <3>1, <3>4, <3>5
  <2>2. CASE ~(i <= t)
    <3>1. i - t \in 1..(N - t) /\ (i - t) + t = i
      BY <2>2, <1>3, <1>4
    <3>2. list[i] = rest[i - t]
      BY <2>2, <1>13
    <3>3. DOMAIN new = 1..(N - t)
      BY <1>2, <1>3, <1>4
    <3>4. rest[i - t] = [page |-> new[i - t], page_offset |-> 0, input_offset |-> input(i - t),
                         rows |-> Min({rows - input(i - t), PageTokens}), existing |-> FALSE]
      BY <3>1, <3>3
    <3> HIDE DEF list, rest
    <3>5. list[i].existing = FALSE
      BY <3>2, <3>4
    <3>6. /\ list[i].page = new[i - t] /\ list[i].page_offset = 0
          /\ list[i].input_offset = input(i - t)
          /\ list[i].rows = Min({rows - input(i - t), PageTokens})
      BY <3>2, <3>4
    <3>7. /\ new[i - t] = segs[i].page /\ segs[i].page_offset = 0
          /\ input(i - t) = segs[i].input_offset
          /\ Min({rows - input(i - t), PageTokens}) = segs[i].rows
      BY <3>1, <1>10
    <3>8. list[i].existing = (i <= t)
      <4>1. (i <= t) = FALSE
        BY <2>2
      <4> QED BY <4>1, <3>5
    <3> QED BY <3>6, <3>7, <3>8
  <2> QED BY <2>1, <2>2
<1> QED BY <1>13, <1>14 DEF segs, N, t, new, pos

\* Row k of an append at a position is in one segment, which puts it where the table of
\* the pages has it.
RowCovered(segs, pages, position, k) ==
    \E i \in DOMAIN segs :
      /\ {j \in DOMAIN segs : k - segs[j].input_offset \in 0..(segs[j].rows - 1)} = {i}
      /\ segs[i].page = pages[((position + k) \div PageTokens) + 1]
      /\ segs[i].page_offset + k - segs[i].input_offset = (position + k) % PageTokens

\* Every row of an append is covered by its segments.
LEMMA SegmentsCover ==
    ASSUME NEW q, NEW rows, NEW nonce \in Nonces, Reservable(q, rows), NEW k \in 0..(rows - 1)
    PROVE  RowCovered(Segments(q, rows, NewPages(q, rows, nonce)),
                      q.pages \o NewPages(q, rows, nonce), q.position, k)
<1> DEFINE new == NewPages(q, rows, nonce)
           segs == Segments(q, rows, new)
           pos == q.position
           a == FirstPage(q)
           z == LastPage(q, rows)
           N == SegmentCount(q, rows)
           start(i) == PageStart(q, i)
           at(i) == segs[i].input_offset
           skip(i) == segs[i].page_offset
           size(i) == segs[i].rows
           d == (pos + k) \div PageTokens
<1>1. DOMAIN segs = 1..N
  <2>1. segs \in Seq(Segment) /\ Len(segs) = N
    BY SegmentsTyped
  <2> HIDE DEF segs, N
  <2> QED BY <2>1
<1>2. pos \in Nat /\ rows \in Nat \ {0} /\ k \in Nat /\ k < rows /\ PageTokens \in Nat \ {0}
  BY AppendAssumption DEF Reservable
<1>3. a \in Nat /\ z \in Nat /\ a <= z /\ N = z - a + 1
  BY PageStarts DEF SegmentCount
<1>4. ASSUME NEW i \in 1..N
      PROVE  /\ skip(i) \in Nat /\ at(i) \in Nat /\ size(i) \in Nat
             /\ pos + at(i) = IF start(i) <= pos THEN pos ELSE start(i)
             /\ skip(i) = pos + at(i) - start(i)
             /\ pos + at(i) + size(i) = IF pos + rows <= start(i) + PageTokens
                                          THEN pos + rows ELSE start(i) + PageTokens
             /\ segs[i].page = (q.pages \o new)[a + i]
  <2>1. segs[i] \in [page : {(q.pages \o new)[a + i]}, page_offset : Nat, input_offset : Nat,
                     rows : Nat]
    BY SegmentIs
  <2>2. /\ pos + at(i) = IF start(i) <= pos THEN pos ELSE start(i)
        /\ skip(i) = pos + at(i) - start(i)
        /\ pos + at(i) + size(i) = IF pos + rows <= start(i) + PageTokens
                                     THEN pos + rows ELSE start(i) + PageTokens
    BY SegmentIs
  <2> HIDE DEF segs
  <2> QED BY <2>1, <2>2
<1>5. ASSUME NEW i \in 1..N PROVE start(i) \in Nat /\ start(i) = (a + i - 1) * PageTokens
  BY PageStarts DEF PageStart
<1>6. /\ d \in Nat /\ d * PageTokens <= pos + k /\ pos + k < d * PageTokens + PageTokens
      /\ (pos + k) % PageTokens = pos + k - d * PageTokens
  <2>1. pos + k \in Nat
    BY <1>2
  <2> HIDE DEF pos
  <2>2. /\ d \in Nat /\ d * PageTokens <= pos + k /\ pos + k < d * PageTokens + PageTokens
        /\ (pos + k) % PageTokens = (pos + k) - d * PageTokens
    BY <2>1, PageBounds, Zenon
  <2>3. d * PageTokens \in Nat
    BY <2>2, TimesMonotone
  <2> HIDE DEF d
  <2> QED BY <2>2, <2>3, <1>2
<1>7. a <= d /\ d <= z
  <2>1. pos + k \in Nat /\ pos <= pos + k /\ pos + rows - 1 \in Nat /\ pos + k <= pos + rows - 1
    BY <1>2
  <2> QED BY <2>1, <1>2, DivMonotone DEF FirstPage, LastPage
<1> DEFINE i == d - a + 1
<1> HIDE DEF segs, N, a, z, pos, start, at, skip, size, d, new
<1>8. i \in 1..N /\ a + i - 1 = d /\ a + i = d + 1
  BY <1>3, <1>6, <1>7
<1> HIDE DEF i
<1>9. ASSUME NEW j \in 1..N
      PROVE  k - at(j) \in 0..(size(j) - 1) <=> start(j) <= pos + k /\ pos + k < start(j) + PageTokens
  <2>1. /\ at(j) \in Nat /\ size(j) \in Nat /\ start(j) \in Nat
        /\ pos + at(j) = IF start(j) <= pos THEN pos ELSE start(j)
        /\ pos + at(j) + size(j) = IF pos + rows <= start(j) + PageTokens
                                     THEN pos + rows ELSE start(j) + PageTokens
    BY <1>4, <1>5
  <2>2. k - at(j) \in 0..(size(j) - 1) <=> pos + at(j) <= pos + k /\ pos + k < pos + at(j) + size(j)
    BY <2>1, <1>2
  <2>3. pos + at(j) <= pos + k <=> start(j) <= pos + k
    BY <2>1, <1>2
  <2>4. pos + k < pos + at(j) + size(j) <=> pos + k < start(j) + PageTokens
    BY <2>1, <1>2
  <2> QED BY <2>2, <2>3, <2>4
<1>10. start(i) = d * PageTokens
  BY <1>5, <1>8
<1>11. k - at(i) \in 0..(size(i) - 1)
  BY <1>6, <1>8, <1>9, <1>10
<1>12. ASSUME NEW j \in 1..N, k - at(j) \in 0..(size(j) - 1) PROVE j = i
  <2>1. start(j) <= pos + k /\ pos + k < start(j) + PageTokens
    BY <1>9, <1>12
  <2>2. a + j - 1 \in Nat /\ start(j) = (a + j - 1) * PageTokens /\ start(j) \in Nat
    BY <1>3, <1>5
  <2>3. pos + k - start(j) \in 0..(PageTokens - 1) /\ pos + k = start(j) + (pos + k - start(j))
    BY <2>1, <2>2, <1>2
  <2>4. ((a + j - 1) * PageTokens + (pos + k - start(j))) \div PageTokens = a + j - 1
    BY <2>2, <2>3, DivUnique
  <2>5. d = a + j - 1
    BY <2>2, <2>3, <2>4 DEF d
  <2> QED BY <2>5, <1>3, <1>8
<1>13. {j \in 1..N : k - at(j) \in 0..(size(j) - 1)} = {i}
  BY <1>8, <1>11, <1>12
<1>14. segs[i].page = (q.pages \o new)[d + 1]
  BY <1>4, <1>8
<1>15. skip(i) + k - at(i) = (pos + k) % PageTokens
  <2>1. skip(i) \in Nat /\ at(i) \in Nat /\ skip(i) = pos + at(i) - start(i) /\ start(i) \in Nat
    BY <1>4, <1>5, <1>8
  <2>2. (pos + k) % PageTokens = pos + k - start(i)
    BY <1>6, <1>10
  <2> QED BY <2>1, <2>2, <1>2
<1>16. /\ {j \in DOMAIN segs : k - segs[j].input_offset \in 0..(segs[j].rows - 1)} = {i}
       /\ i \in DOMAIN segs
  BY <1>1, <1>8, <1>13 DEF at, size
<1> QED BY <1>14, <1>15, <1>16 DEF segs, skip, at, pos, d, new, RowCovered

----------------------------------------------------------------------------
(* The manager and the backend. *)

\* validate_reservation looks at the record of one slot.
ValidIn(q, r) ==
    /\ q.live /\ q.generation = r.sequence.generation
    /\ q.pending # NoPending
    /\ q.pending.start_position = r.start_position
    /\ q.pending.rows = r.rows
    /\ q.pending.segments = r.segments
    /\ q.pending.nonce = r.nonce

\* validate_reservation depends on the record in the reservation's slot only, before and
\* after a step.
LEMMA ValidatesIs ==
    ASSUME NEW r
    PROVE  /\ Validates(r) <=> r.sequence.slot \in Slots /\ ValidIn(sequences[r.sequence.slot], r)
           /\ Validates(r)' <=> r.sequence.slot \in Slots /\ ValidIn(sequences'[r.sequence.slot], r)
BY DEF Validates, LiveSequence, HasPending, ValidIn

\* The stand-in for no pending append is typed, has no pages and a nonce that no append has.
LEMMA NoPendingTyped == NoPending \in Pending /\ NoPending.nonce = MaxNonce
                        /\ NoPending.new_pages = <<>>
BY AppendAssumption DEF NoPending, Pending

\* The initial state.
LEMMA InitMachine == Init => MachineInv
<1> SUFFICES ASSUME Init PROVE MachineInv
  OBVIOUS
<1>1. \A s \in Slots : sequences[s] = Vacant(0)
  BY DEF Init
<1>2. Vacant(0) \in Record
  BY NoPendingTyped, AppendAssumption DEF Vacant, Record
<1>3. RecordsOK
  <2>1. sequences \in [Slots -> Record]
    BY <1>2 DEF Init
  <2>2. DivCeil(0) = 0
    BY DivCeilIs
  <2> QED BY <1>1, <2>1, <2>2 DEF RecordsOK, Vacant
<1>4. ReservationsOK
  BY <1>1, AppendAssumption DEF ReservationsOK, Init, Vacant
<1>5. TransactionsOK
  BY <1>1 DEF TransactionsOK, Init, Vacant
<1>6. TablesOK
  BY <1>1, AppendAssumption DEF TablesOK, Init, Vacant
<1> QED BY <1>3, <1>4, <1>5, <1>6 DEF MachineInv

\* What reserve_append finds when it does not refuse.
LEMMA ReserveFacts ==
    ASSUME MachineInv, NEW id \in SequenceIds, NEW rows \in Nat, CanReserve(id, rows)
    PROVE  /\ id.slot \in Slots /\ sequences[id.slot] \in Record
           /\ Reservable(sequences[id.slot], rows)
           /\ append_nonce \in Nonces /\ append_nonce + 1 \in 0..MaxNonce
           /\ sequences[id.slot].pending = NoPending
           /\ sequences[id.slot].live /\ sequences[id.slot].generation = id.generation
           /\ sequences[id.slot].position + rows <= MaxPosition
<1>1. id.slot \in Slots /\ sequences[id.slot] \in Record
  BY DEF MachineInv, RecordsOK, SequenceIds
<1>2. Reservable(sequences[id.slot], rows)
  <2>1. sequences[id.slot].position \in Nat /\ sequences[id.slot].pages \in Seq(PageHandle)
    BY <1>1, AppendAssumption DEF Record
  <2>2. Len(sequences[id.slot].pages) = DivCeil(sequences[id.slot].position)
    BY <1>1 DEF MachineInv, RecordsOK
  <2> QED BY <2>1, <2>2 DEF Reservable, CanReserve
<1>3. append_nonce \in Nonces /\ append_nonce + 1 \in 0..MaxNonce
  BY AppendAssumption DEF MachineInv, ReservationsOK, CanReserve, Nonces
<1> QED BY <1>1, <1>2, <1>3 DEF CanReserve, HasPending, LiveSequence

\* The lists of an append depend on the position and the pages of the record only.
LEMMA SameLists ==
    ASSUME NEW q, NEW u, u.position = q.position, u.pages = q.pages,
           NEW rows, NEW nonce, NEW new
    PROVE  /\ NewPages(u, rows, nonce) = NewPages(q, rows, nonce)
           /\ Segments(u, rows, new) = Segments(q, rows, new)
           /\ PreparedPages(u, rows, new) = PreparedPages(q, rows, new)
BY Zenon DEF NewPages, Segments, PreparedPages

\* The fields of a record.
LEMMA RecordTyped ==
    ASSUME NEW q \in Record
    PROVE  /\ q.generation \in Nat /\ q.generation <= MaxGeneration /\ q.live \in BOOLEAN
           /\ q.position \in Nat /\ q.position <= MaxPosition
           /\ q.pages \in Seq(PageHandle) /\ q.pending \in Pending
           /\ q.pending.nonce \in Nat /\ q.pending.nonce <= MaxNonce
           /\ q.pending.rows \in Nat /\ q.pending.new_pages \in Seq(PageHandle)
<1>1. q.pending \in Pending
  BY DEF Record
<1>2. /\ q.pending.nonce \in Nat /\ q.pending.nonce <= MaxNonce
      /\ q.pending.rows \in Nat /\ q.pending.new_pages \in Seq(PageHandle)
  BY <1>1, AppendAssumption DEF Pending
<1> QED BY <1>1, <1>2, AppendAssumption DEF Record

\* The record of one slot changes, and no nonce is given back.
LEMMA RecordsStep ==
    ASSUME RecordsOK, append_nonce \in Nat, append_nonce' \in Nat,
           append_nonce <= append_nonce',
           NEW s \in Slots, NEW u \in Record, sequences' = [sequences EXCEPT ![s] = u],
           Len(u.pages) = DivCeil(u.position), u.live \/ u.pages = <<>>,
           u.pending # NoPending => PendingOK(u, append_nonce'),
           \A t \in Slots : /\ u.pending # NoPending
                            /\ sequences[t].pending # NoPending
                            /\ u.pending.nonce = sequences[t].pending.nonce
                            => t = s
    PROVE  RecordsOK'
<1>1. /\ sequences' \in [Slots -> Record] /\ sequences'[s] = u
      /\ \A t \in Slots : t # s => sequences'[t] = sequences[t]
  BY DEF RecordsOK
<1>2. ASSUME NEW t \in Slots
      PROVE  /\ Len(sequences'[t].pages) = DivCeil(sequences'[t].position)
             /\ sequences'[t].live \/ sequences'[t].pages = <<>>
             /\ sequences'[t].pending # NoPending => PendingOK(sequences'[t], append_nonce')
  <2>1. CASE t = s
    BY <2>1, <1>1
  <2>2. CASE t # s
    <3>1. sequences'[t] = sequences[t] /\ sequences[t] \in Record
      BY <2>2, <1>1 DEF RecordsOK
    <3>2. ASSUME sequences[t].pending # NoPending PROVE PendingOK(sequences[t], append_nonce')
      <4>1. PendingOK(sequences[t], append_nonce)
        BY <3>2 DEF RecordsOK
      <4>2. sequences[t].pending.nonce < append_nonce
        BY <4>1, Zenon DEF PendingOK
      <4>3. sequences[t].pending.nonce < append_nonce'
        BY <4>2, <3>1, RecordTyped
      <4> QED BY <4>1, <4>3 DEF PendingOK
    <3>3. /\ Len(sequences[t].pages) = DivCeil(sequences[t].position)
          /\ sequences[t].live \/ sequences[t].pages = <<>>
      BY DEF RecordsOK
    <3> QED BY <3>1, <3>2, <3>3
  <2> QED BY <2>1, <2>2
<1>3. ASSUME NEW t \in Slots, NEW v \in Slots,
             sequences'[t].pending # NoPending, sequences'[v].pending # NoPending,
             sequences'[t].pending.nonce = sequences'[v].pending.nonce
      PROVE  t = v
  <2>1. CASE t # s /\ v # s
    BY <2>1, <1>1, <1>3 DEF RecordsOK
  <2>2. CASE t = s \/ v = s
    BY <2>2, <1>1, <1>3
  <2> QED BY <2>1, <2>2
<1> QED BY <1>1, <1>2, <1>3 DEF RecordsOK

\* What a pending append and its reservation look like.
Reserved(q, rows, nonce) ==
    LET new == NewPages(q, rows, nonce)
    IN  [nonce |-> nonce, start_position |-> q.position, rows |-> rows,
         segments |-> Segments(q, rows, new), new_pages |-> new,
         prepared |-> PreparedPages(q, rows, new)]

\* The append that reserve_append leaves pending.
LEMMA ReservedIs ==
    ASSUME NEW q \in Record, NEW rows \in Nat, NEW nonce \in Nonces, Reservable(q, rows),
           q.live, q.position + rows <= MaxPosition, NEW bound \in Nat, nonce < bound
    PROVE  LET u == [q EXCEPT !.pending = Reserved(q, rows, nonce)]
           IN  /\ Reserved(q, rows, nonce) \in Pending /\ Reserved(q, rows, nonce) # NoPending
               /\ u \in Record /\ u.pending = Reserved(q, rows, nonce)
               /\ u.live = q.live /\ u.generation = q.generation /\ u.position = q.position
               /\ u.pages = q.pages /\ PendingOK(u, bound)
<1> DEFINE new == NewPages(q, rows, nonce)
           p == Reserved(q, rows, nonce)
           u == [q EXCEPT !.pending = p]
<1>1. new \in Seq(PageHandle) /\ Segments(q, rows, new) \in Seq(Segment)
  BY NewPagesAre, SegmentsTyped
<1>2. PreparedPages(q, rows, new) \in Seq(PreparedType)
  BY PreparedIs
<1>3. q.position \in Nat /\ nonce \in 0..MaxNonce /\ nonce # MaxNonce
  BY RecordTyped, AppendAssumption DEF Nonces
<1> HIDE DEF new
<1>4. p = [nonce |-> nonce, start_position |-> q.position, rows |-> rows,
           segments |-> Segments(q, rows, new), new_pages |-> new,
           prepared |-> PreparedPages(q, rows, new)]
  BY DEF Reserved, new
<1> HIDE DEF p
<1>5. p \in Pending
  BY <1>1, <1>2, <1>3, <1>4 DEF Pending, PreparedType
<1>6. /\ p.nonce = nonce /\ p.start_position = q.position /\ p.rows = rows
      /\ p.segments = Segments(q, rows, new) /\ p.new_pages = new
      /\ p.prepared = PreparedPages(q, rows, new)
  BY <1>4
<1>7. p # NoPending
  BY <1>3, <1>6, NoPendingTyped
<1>8. /\ u \in Record /\ u.pending = p
      /\ u.live = q.live /\ u.generation = q.generation /\ u.position = q.position
      /\ u.pages = q.pages
  BY <1>5 DEF Record
<1> HIDE DEF u
<1>9. /\ NewPages(u, rows, nonce) = new /\ Segments(u, rows, new) = Segments(q, rows, new)
      /\ PreparedPages(u, rows, new) = PreparedPages(q, rows, new)
  BY <1>8, SameLists DEF new
<1>10. PendingOK(u, bound)
  <2>1. rows # 0
    BY DEF Reservable
  <2> QED BY <2>1, <1>6, <1>8, <1>9 DEF PendingOK
<1> QED BY <1>5, <1>7, <1>8, <1>10 DEF p, u

\* A successful reserve_append: the new reservation, under a nonce never used before, is
\* pending.
LEMMA ReserveMachine ==
    ASSUME MachineInv, NEW id \in SequenceIds, NEW rows \in Nat, ReserveAppend(id, rows)
    PROVE  /\ MachineInv'
           /\ Reservation(id, rows) \in ReservationType
           /\ Reservation(id, rows).sequence = id
           /\ Reservation(id, rows) \notin issued
           /\ sequences[id.slot].pending = NoPending
<1> DEFINE s == id.slot
           q == sequences[s]
           new == NewPages(q, rows, append_nonce)
           p == Reserved(q, rows, append_nonce)
           u == [q EXCEPT !.pending = p]
<1>0. PICK r : r = Reservation(id, rows)
  OBVIOUS
<1>1. CanReserve(id, rows)
  BY DEF ReserveAppend
<1>2. /\ s \in Slots /\ q \in Record /\ Reservable(q, rows)
      /\ append_nonce \in Nonces /\ append_nonce + 1 \in 0..MaxNonce
      /\ q.pending = NoPending /\ q.live /\ q.generation = id.generation
      /\ q.position + rows <= MaxPosition
  BY <1>1, ReserveFacts
<1>3. /\ sequences' = [sequences EXCEPT ![s] = u]
      /\ transactions' = [transactions EXCEPT ![append_nonce] = "open"]
      /\ append_nonce' = append_nonce + 1
      /\ issued' = issued \cup {r} /\ finalised' = finalised
      /\ tables' = IF new = <<>> THEN tables
                   ELSE [tables EXCEPT ![s] = [pages |-> q.pages \o new, position |-> q.position]]
  BY <1>0 DEF ReserveAppend, Reserved
<1>4. /\ p \in Pending /\ p # NoPending /\ u \in Record /\ u.pending = p
      /\ u.live = q.live /\ u.generation = q.generation /\ u.position = q.position
      /\ u.pages = q.pages /\ PendingOK(u, append_nonce + 1)
  <2>1. append_nonce + 1 \in Nat /\ append_nonce < append_nonce + 1
    BY <1>2, AppendAssumption DEF Nonces
  <2> QED BY <1>2, <2>1, ReservedIs, ZenonT(60)
<1>5. new \in Seq(PageHandle) /\ Segments(q, rows, new) \in Seq(Segment)
  BY <1>2, NewPagesAre, SegmentsTyped
<1>6. /\ r = [sequence |-> id, start_position |-> q.position, rows |-> rows,
              segments |-> Segments(q, rows, new), nonce |-> append_nonce]
      /\ p = [nonce |-> append_nonce, start_position |-> q.position, rows |-> rows,
              segments |-> Segments(q, rows, new), new_pages |-> new,
              prepared |-> PreparedPages(q, rows, new)]
  BY <1>0 DEF Reservation, Reserved
<1> HIDE DEF p, u
<1>7. q.position \in 0..MaxPosition /\ q.pages \in Seq(PageHandle)
  BY <1>2, RecordTyped, AppendAssumption
<1>8. r \in ReservationType /\ r.sequence = id /\ r.nonce = append_nonce
  BY <1>2, <1>5, <1>6, <1>7, AppendAssumption DEF ReservationType
<1>9. ValidIn(u, r)
  <2>1. /\ p.nonce = r.nonce /\ p.start_position = r.start_position /\ p.rows = r.rows
        /\ p.segments = r.segments
    BY <1>6
  <2> QED BY <2>1, <1>2, <1>4, <1>8 DEF ValidIn
<1>10. p.nonce = append_nonce /\ p.new_pages = new
  BY <1>6
<1>11. r \notin issued
  <2>1. \A x \in issued : x.nonce < append_nonce /\ x.nonce \in Nat
    BY AppendAssumption DEF MachineInv, ReservationsOK, ReservationType, Nonces
  <2> QED BY <2>1, <1>2, <1>8, AppendAssumption DEF Nonces
<1> HIDE DEF new
<1>12. /\ sequences' \in [Slots -> Record] /\ sequences'[s] = u
       /\ \A t \in Slots : t # s => sequences'[t] = sequences[t]
  BY <1>2, <1>3, <1>4 DEF MachineInv, RecordsOK
<1>13. /\ append_nonce \in Nat /\ append_nonce' \in Nat /\ append_nonce <= append_nonce'
       /\ append_nonce' \in 0..MaxNonce
  BY <1>2, <1>3, AppendAssumption DEF Nonces
<1>14. ASSUME NEW t \in Slots, sequences[t].pending # NoPending
       PROVE  /\ sequences[t].pending.nonce \in Nat
              /\ sequences[t].pending.nonce < append_nonce
  <2>1. PendingOK(sequences[t], append_nonce) /\ sequences[t] \in Record
    BY <1>14 DEF MachineInv, RecordsOK
  <2>2. sequences[t].pending.nonce < append_nonce
    BY <2>1, Zenon DEF PendingOK
  <2> QED BY <2>1, <2>2, RecordTyped
<1>15. RecordsOK'
  <2>1. Len(u.pages) = DivCeil(u.position) /\ u.live
    BY <1>2, <1>4 DEF Reservable
  <2>2. \A t \in Slots : sequences[t].pending # NoPending => sequences[t].pending.nonce # append_nonce
    BY <1>13, <1>14
  <2> HIDE DEF q, s
  <2>3. u.pending # NoPending => PendingOK(u, append_nonce')
    BY <1>3, <1>4
  <2>4. \A t \in Slots : /\ u.pending # NoPending
                         /\ sequences[t].pending # NoPending
                         /\ u.pending.nonce = sequences[t].pending.nonce
                         => t = s
    BY <2>2, <1>4, <1>10
  <2>5. RecordsOK
    BY DEF MachineInv
  <2> QED BY <2>1, <2>3, <2>4, <2>5, <1>2, <1>3, <1>4, <1>13, RecordsStep
<1>16. ReservationsOK'
  <2> HIDE DEF q, s
  <2>1. issued' \subseteq ReservationType /\ finalised' \subseteq issued'
    BY <1>3, <1>8 DEF MachineInv, ReservationsOK
  <2>2. \A x \in issued : x.nonce < append_nonce /\ x.nonce \in Nat
    BY AppendAssumption DEF MachineInv, ReservationsOK, ReservationType, Nonces
  <2>3. \A x \in issued' : x.nonce < append_nonce'
    BY <2>2, <1>3, <1>8, <1>13
  <2>4. \A x, other \in issued' : x.nonce = other.nonce => x = other
    <3>1. \A x \in issued : x.nonce # append_nonce
      BY <2>2, <1>13
    <3>2. \A x, other \in issued : x.nonce = other.nonce => x = other
      BY DEF MachineInv, ReservationsOK
    <3> QED BY <3>1, <3>2, <1>3, <1>8
  <2>5. ASSUME NEW x \in issued PROVE Validates(x)' <=> Validates(x)
    <3>1. CASE x.sequence.slot = s
      <4>1. ~Validates(x)
        BY <3>1, <1>2, ValidatesIs DEF ValidIn, q
      <4>2. u.pending.nonce # x.nonce
        BY <2>2, <1>4, <1>10, <1>13
      <4>3. ~ValidIn(u, x)
        BY <4>2 DEF ValidIn
      <4>4. ~Validates(x)'
        BY <4>3, <3>1, <1>12, ValidatesIs
      <4> QED BY <4>1, <4>4
    <3>2. CASE x.sequence.slot # s
      BY <3>2, <1>12, ValidatesIs
    <3> QED BY <3>1, <3>2
  <2>6. Validates(r)' /\ r \notin finalised
    <3>1. r.sequence.slot = s
      BY <1>8 DEF s
    <3>2. Validates(r)'
      BY <3>1, <1>2, <1>9, <1>12, ValidatesIs
    <3> QED BY <3>2, <1>11 DEF MachineInv, ReservationsOK
  <2>7. \A x \in issued' : x \notin finalised' <=> Validates(x)'
    <3>1. \A x \in issued : x \notin finalised <=> Validates(x)
      BY DEF MachineInv, ReservationsOK
    <3> QED BY <3>1, <2>5, <2>6, <1>3
  <2>8. ASSUME NEW t \in Slots, sequences'[t].pending # NoPending
        PROVE  \E x \in issued' : x.sequence.slot = t /\ Validates(x)'
    <3>1. CASE t = s
      BY <3>1, <2>6, <1>3, <1>8 DEF s
    <3>2. CASE t # s
      <4>1. \E x \in issued : x.sequence.slot = t /\ Validates(x)
        BY <3>2, <2>8, <1>12 DEF MachineInv, ReservationsOK
      <4> QED BY <4>1, <2>5, <1>3
    <3> QED BY <3>1, <3>2
  <2> QED BY <2>1, <2>3, <2>4, <2>7, <2>8, <1>13 DEF ReservationsOK
<1>17. TransactionsOK'
  <2> HIDE DEF q, s
  <2>1. /\ transactions' \in [Nonces -> {"none", "open", "committed", "aborted", "dropped"}]
        /\ transactions'[append_nonce] = "open"
        /\ \A n \in Nonces : n # append_nonce => transactions'[n] = transactions[n]
    BY <1>2, <1>3 DEF MachineInv, TransactionsOK
  <2>2. \A n \in Nonces : n >= append_nonce' => n >= append_nonce /\ n # append_nonce
    BY <1>3, <1>13 DEF Nonces
  <2>3. \A n \in Nonces : n >= append_nonce' => transactions'[n] = "none"
    BY <2>1, <2>2 DEF MachineInv, TransactionsOK
  <2>4. ASSUME NEW n \in Nonces
        PROVE  transactions'[n] = "open" <=>
                 \E t \in Slots : sequences'[t].pending # NoPending /\ sequences'[t].pending.nonce = n
    <3>1. CASE n = append_nonce
      BY <3>1, <2>1, <1>2, <1>4, <1>10, <1>12
    <3>2. CASE n # append_nonce
      <4>1. transactions[n] = "open" <=>
              \E t \in Slots : sequences[t].pending # NoPending /\ sequences[t].pending.nonce = n
        BY DEF MachineInv, TransactionsOK
      <4>2. ASSUME NEW t \in Slots
            PROVE  sequences'[t].pending # NoPending /\ sequences'[t].pending.nonce = n <=>
                   sequences[t].pending # NoPending /\ sequences[t].pending.nonce = n
        BY <3>2, <1>2, <1>4, <1>10, <1>12 DEF q
      <4> QED BY <4>1, <4>2, <3>2, <2>1
    <3> QED BY <3>1, <3>2
  <2>5. ASSUME NEW t \in Slots, NEW i \in DOMAIN sequences'[t].pages
        PROVE  transactions'[sequences'[t].pages[i].append] = "committed"
    <3>1. sequences'[t].pages = sequences[t].pages
      BY <1>4, <1>12 DEF q
    <3>2. sequences[t] \in Record /\ i \in DOMAIN sequences[t].pages
      BY <3>1, <2>5 DEF MachineInv, RecordsOK
    <3>3. sequences[t].pages[i] \in PageHandle
      BY <3>2, RecordTyped
    <3>4. transactions[sequences[t].pages[i].append] = "committed"
      BY <3>2 DEF MachineInv, TransactionsOK
    <3>5. transactions[append_nonce] = "none"
      BY <1>2, <1>13 DEF MachineInv, TransactionsOK
    <3> QED BY <3>1, <3>3, <3>4, <3>5, <2>1 DEF PageHandle
  <2> QED BY <2>1, <2>3, <2>4, <2>5 DEF TransactionsOK
<1>18. TablesOK'
  <2>1. [pages |-> q.pages \o new, position |-> q.position]
          \in [pages : Seq(PageHandle), position : 0..MaxPosition]
    <3>1. q.pages \o new \in Seq(PageHandle)
      BY <1>5, <1>7, ConcatParts
    <3> QED BY <3>1, <1>7
  <2> HIDE DEF s, q
  <2>2. tables' \in [Slots -> [pages : Seq(PageHandle), position : 0..MaxPosition]]
    BY <1>2, <1>3, <2>1 DEF MachineInv, TablesOK
  <2>3. tables'[s].pages = q.pages \o new
    <3>1. CASE new = <<>>
      <4>1. tables[s].pages = q.pages \o NoPending.new_pages
        BY <1>2 DEF MachineInv, TablesOK, q
      <4> QED BY <4>1, <3>1, <1>3, NoPendingTyped
    <3>2. CASE new # <<>>
      BY <3>2, <1>2, <1>3 DEF MachineInv, TablesOK
    <3> QED BY <3>1, <3>2
  <2>4. \A t \in Slots : t # s => tables'[t] = tables[t]
    BY <1>2, <1>3 DEF MachineInv, TablesOK
  <2>5. ASSUME NEW t \in Slots, sequences'[t].live
        PROVE  tables'[t].pages = sequences'[t].pages \o sequences'[t].pending.new_pages
    <3>1. CASE t = s
      BY <3>1, <2>3, <1>4, <1>10, <1>12
    <3>2. CASE t # s
      BY <3>2, <2>4, <2>5, <1>12 DEF MachineInv, TablesOK
    <3> QED BY <3>1, <3>2
  <2> QED BY <2>2, <2>5 DEF TablesOK
<1>19. q.pending = NoPending
  BY <1>2
<1> QED BY <1>0, <1>8, <1>11, <1>15, <1>16, <1>17, <1>18, <1>19 DEF MachineInv

\* reserve_append fails after it took a nonce: nothing else changes, but for a
\* transaction that was prepared and dropped.
LEMMA ReserveFailsMachine ==
    ASSUME MachineInv, NEW id \in SequenceIds, NEW rows \in Nat, ReserveFails(id, rows)
    PROVE  MachineInv'
<1> DEFINE s == id.slot
<1>1. CanReserve(id, rows)
  BY DEF ReserveFails
<1>2. s \in Slots /\ append_nonce \in Nonces /\ append_nonce + 1 \in 0..MaxNonce
  BY <1>1, ReserveFacts
<1>3. /\ append_nonce' = append_nonce + 1 /\ sequences' = sequences /\ tables' = tables
      /\ issued' = issued /\ finalised' = finalised
      /\ \/ transactions' = transactions
         \/ transactions' = [transactions EXCEPT ![append_nonce] = "dropped"]
  BY DEF ReserveFails
<1> HIDE DEF s
<1>4. /\ append_nonce \in Nat /\ append_nonce' \in Nat /\ append_nonce < append_nonce'
      /\ append_nonce' \in 0..MaxNonce
  BY <1>2, <1>3, AppendAssumption DEF Nonces
<1>5. RecordsOK'
  <2> DEFINE u == sequences[s]
  <2>1. u \in Record /\ sequences' = [sequences EXCEPT ![s] = u]
    BY <1>2, <1>3 DEF MachineInv, RecordsOK
  <2>2. Len(u.pages) = DivCeil(u.position) /\ (u.live \/ u.pages = <<>>) /\ RecordsOK
    BY <1>2 DEF MachineInv, RecordsOK
  <2>3. ASSUME u.pending # NoPending PROVE PendingOK(u, append_nonce')
    <3>1. PendingOK(u, append_nonce)
      BY <2>3, <1>2 DEF MachineInv, RecordsOK
    <3>2. u.pending.nonce < append_nonce
      BY <3>1, Zenon DEF PendingOK
    <3>3. u.pending.nonce < append_nonce'
      BY <3>2, <2>1, <1>4, RecordTyped
    <3> QED BY <3>1, <3>3 DEF PendingOK
  <2>4. \A t \in Slots : /\ u.pending # NoPending
                         /\ sequences[t].pending # NoPending
                         /\ u.pending.nonce = sequences[t].pending.nonce
                         => t = s
    BY <1>2 DEF MachineInv, RecordsOK
  <2>5. append_nonce <= append_nonce'
    BY <1>4
  <2> HIDE DEF u
  <2> QED BY <2>1, <2>2, <2>3, <2>4, <2>5, <1>2, <1>4, RecordsStep
<1>6. ReservationsOK'
  <2>1. \A r : Validates(r)' <=> Validates(r)
    BY <1>3, ValidatesIs
  <2>2. \A r \in issued : r.nonce < append_nonce'
    <3>1. \A r \in issued : r.nonce \in Nat /\ r.nonce < append_nonce
      BY AppendAssumption DEF MachineInv, ReservationsOK, ReservationType, Nonces
    <3> QED BY <3>1, <1>4
  <2> QED BY <2>1, <2>2, <1>3, <1>4 DEF MachineInv, ReservationsOK
<1>7. TransactionsOK'
  <2>1. /\ transactions' \in [Nonces -> {"none", "open", "committed", "aborted", "dropped"}]
        /\ \A n \in Nonces : n # append_nonce => transactions'[n] = transactions[n]
        /\ transactions'[append_nonce] # "open"
        /\ transactions[append_nonce] = "none"
    <3>1. transactions[append_nonce] = "none"
      BY <1>2, <1>4 DEF MachineInv, TransactionsOK
    <3>2. transactions \in [Nonces -> {"none", "open", "committed", "aborted", "dropped"}]
      BY DEF MachineInv, TransactionsOK
    <3> QED BY <3>1, <3>2, <1>2, <1>3
  <2>2. \A n \in Nonces : n >= append_nonce' => n >= append_nonce /\ n # append_nonce
    BY <1>4 DEF Nonces
  <2>3. \A n \in Nonces : n >= append_nonce' => transactions'[n] = "none"
    BY <2>1, <2>2 DEF MachineInv, TransactionsOK
  <2>4. \A n \in Nonces : transactions'[n] = "open" <=> transactions[n] = "open"
    BY <2>1
  <2>5. ASSUME NEW t \in Slots, NEW i \in DOMAIN sequences[t].pages
        PROVE  transactions'[sequences[t].pages[i].append] = "committed"
    <3>1. sequences[t].pages[i] \in PageHandle
      BY RecordTyped DEF MachineInv, RecordsOK
    <3>2. transactions[sequences[t].pages[i].append] = "committed"
      BY DEF MachineInv, TransactionsOK
    <3> QED BY <3>1, <3>2, <2>1 DEF PageHandle
  <2> QED BY <2>1, <2>3, <2>4, <2>5, <1>3 DEF MachineInv, TransactionsOK
<1>8. TablesOK'
  BY <1>3 DEF MachineInv, TablesOK
<1> QED BY <1>5, <1>6, <1>7, <1>8 DEF MachineInv

\* What validate_reservation finds in the record of a reservation that it accepts.
LEMMA ValidFacts ==
    ASSUME MachineInv, NEW r \in issued, Validates(r)
    PROVE  /\ r.sequence.slot \in Slots /\ sequences[r.sequence.slot] \in Record
           /\ ValidIn(sequences[r.sequence.slot], r)
           /\ PendingOK(sequences[r.sequence.slot], append_nonce)
           /\ sequences[r.sequence.slot].pending.nonce = r.nonce
           /\ r.nonce \in Nonces /\ r.nonce < append_nonce
           /\ Reservable(sequences[r.sequence.slot], r.rows)
           /\ r.start_position = sequences[r.sequence.slot].position
           /\ sequences[r.sequence.slot].pending.rows = r.rows
           /\ r.start_position + r.rows <= MaxPosition
<1> DEFINE q == sequences[r.sequence.slot]
<1>1. r.sequence.slot \in Slots /\ ValidIn(q, r)
  BY ValidatesIs
<1>2. q \in Record /\ PendingOK(q, append_nonce) /\ Len(q.pages) = DivCeil(q.position)
  BY <1>1 DEF MachineInv, RecordsOK, ValidIn
<1>3. /\ q.pending.nonce = r.nonce /\ q.pending.rows = r.rows
      /\ q.pending.start_position = r.start_position
  BY <1>1 DEF ValidIn
<1>4. r.nonce \in Nonces /\ r.nonce < append_nonce
  BY DEF MachineInv, ReservationsOK, ReservationType
<1> HIDE DEF q
<1>5. /\ q.pending.rows # 0 /\ q.position + q.pending.rows <= MaxPosition
      /\ q.pending.start_position = q.position
  BY <1>2, Zenon DEF PendingOK
<1>6. Reservable(q, r.rows)
  BY <1>2, <1>3, <1>5, RecordTyped DEF Reservable
<1> QED BY <1>1, <1>2, <1>3, <1>4, <1>5, <1>6 DEF q

\* A reservation is finalised: its record has new pages and a new position, and no other
\* reservation is touched.
LEMMA FinaliseMachine ==
    ASSUME MachineInv, NEW r \in issued, Validates(r),
           NEW pages \in Seq(PageHandle), NEW position \in 0..MaxPosition,
           Len(pages) = DivCeil(position),
           \A i \in DOMAIN pages : transactions'[pages[i].append] = "committed",
           NEW outcome \in {"committed", "aborted"},
           sequences' = [sequences EXCEPT ![r.sequence.slot] =
             [sequences[r.sequence.slot] EXCEPT !.pages = pages, !.position = position,
                                                !.pending = NoPending]],
           tables' = [tables EXCEPT ![r.sequence.slot] = [pages |-> pages, position |-> position]],
           transactions' = [transactions EXCEPT ![r.nonce] = outcome],
           finalised' = finalised \cup {r}, append_nonce' = append_nonce, issued' = issued
    PROVE  MachineInv'
<1> DEFINE s == r.sequence.slot
           q == sequences[s]
           u == [q EXCEPT !.pages = pages, !.position = position, !.pending = NoPending]
<1>1. /\ s \in Slots /\ q \in Record /\ ValidIn(q, r) /\ q.pending.nonce = r.nonce
      /\ r.nonce \in Nonces /\ r.nonce < append_nonce
  BY ValidFacts
<1>2. /\ u \in Record /\ u.pending = NoPending /\ u.pages = pages /\ u.position = position
      /\ u.live = q.live /\ u.live
  BY <1>1, NoPendingTyped DEF Record, ValidIn
<1>3. sequences' = [sequences EXCEPT ![s] = u]
  OBVIOUS
<1> HIDE DEF u
<1>4. /\ sequences' \in [Slots -> Record] /\ sequences'[s] = u
      /\ \A t \in Slots : t # s => sequences'[t] = sequences[t]
  BY <1>1, <1>2, <1>3, ZenonT(60) DEF MachineInv, RecordsOK
<1>5. append_nonce \in Nat /\ append_nonce \in 0..MaxNonce
  BY AppendAssumption DEF MachineInv, ReservationsOK
<1>6. q.pending # NoPending
  BY <1>1 DEF ValidIn
<1>7. RecordsOK'
  <2>1. RecordsOK
    BY DEF MachineInv
  <2> HIDE DEF s, q
  <2>2. append_nonce' \in Nat /\ append_nonce <= append_nonce'
    BY <1>5
  <2> QED BY <2>1, <2>2, <1>1, <1>2, <1>3, <1>5, RecordsStep
<1>8. ReservationsOK'
  <2>1. ASSUME NEW x \in issued PROVE Validates(x)' <=> Validates(x) /\ x # r
    <3>1. CASE x.sequence.slot = s
      <4>1. ~Validates(x)'
        BY <3>1, <1>2, <1>4, ValidatesIs DEF ValidIn
      <4>2. Validates(x) => x.nonce = r.nonce
        <5>1. Validates(x) => ValidIn(q, x)
          BY <3>1, ValidatesIs
        <5>2. ValidIn(q, x) => q.pending.nonce = x.nonce
          BY DEF ValidIn
        <5> QED BY <5>1, <5>2, <1>1
      <4> QED BY <4>1, <4>2 DEF MachineInv, ReservationsOK
    <3>2. CASE x.sequence.slot # s
      <4>1. x # r
        BY <3>2
      <4> QED BY <4>1, <3>2, <1>4, ValidatesIs
    <3> QED BY <3>1, <3>2
  <2>2. \A x \in issued : x \notin finalised <=> Validates(x)
    BY DEF MachineInv, ReservationsOK
  <2>3. \A x \in issued' : x \notin finalised' <=> Validates(x)'
    BY <2>1, <2>2
  <2>4. ASSUME NEW t \in Slots, sequences'[t].pending # NoPending
        PROVE  \E x \in issued' : x.sequence.slot = t /\ Validates(x)'
    <3>1. t # s
      BY <2>4, <1>2, <1>4
    <3>2. PICK x \in issued : x.sequence.slot = t /\ Validates(x)
      BY <3>1, <2>4, <1>4 DEF MachineInv, ReservationsOK
    <3>3. x # r
      BY <3>1, <3>2
    <3> QED BY <3>2, <3>3, <2>1
  <2>5. finalised' \subseteq issued'
    BY DEF MachineInv, ReservationsOK
  <2> QED BY <2>3, <2>4, <2>5 DEF MachineInv, ReservationsOK
<1>9. TransactionsOK'
  <2> HIDE DEF s
  <2>1. transactions \in [Nonces -> {"none", "open", "committed", "aborted", "dropped"}]
    BY DEF MachineInv, TransactionsOK
  <2>2. /\ transactions' \in [Nonces -> {"none", "open", "committed", "aborted", "dropped"}]
        /\ \A n \in Nonces : n # r.nonce => transactions'[n] = transactions[n]
        /\ transactions'[r.nonce] # "open"
    BY <2>1, <1>1
  <2>3. transactions[r.nonce] = "open"
    BY <1>1, <1>6 DEF MachineInv, TransactionsOK
  <2>4. \A n \in Nonces : n >= append_nonce => n # r.nonce
    BY <1>1, <1>5 DEF Nonces
  <2>5. ASSUME NEW n \in Nonces
        PROVE  transactions'[n] = "open" <=>
                 \E t \in Slots : sequences'[t].pending # NoPending /\ sequences'[t].pending.nonce = n
    <3>1. ASSUME NEW t \in Slots
          PROVE  sequences'[t].pending # NoPending /\ sequences'[t].pending.nonce = n <=>
                 t # s /\ sequences[t].pending # NoPending /\ sequences[t].pending.nonce = n
      BY <1>2, <1>4
    <3>2. ASSUME NEW t \in Slots, sequences[t].pending # NoPending,
                 sequences[t].pending.nonce = n
          PROVE  t # s <=> n # r.nonce
      BY <3>2, <1>1, <1>6 DEF MachineInv, RecordsOK
    <3>3. transactions[n] = "open" <=>
            \E t \in Slots : sequences[t].pending # NoPending /\ sequences[t].pending.nonce = n
      BY DEF MachineInv, TransactionsOK
    <3> QED BY <3>1, <3>2, <3>3, <2>2
  <2>6. ASSUME NEW t \in Slots, NEW i \in DOMAIN sequences'[t].pages
        PROVE  transactions'[sequences'[t].pages[i].append] = "committed"
    <3>1. CASE t = s
      BY <3>1, <1>2, <1>4
    <3>2. CASE t # s
      <4>1. sequences'[t] = sequences[t] /\ i \in DOMAIN sequences[t].pages
        BY <3>2, <1>4
      <4>2. sequences[t].pages[i] \in PageHandle
        BY <4>1, RecordTyped DEF MachineInv, RecordsOK
      <4>3. transactions[sequences[t].pages[i].append] = "committed"
        BY <4>1 DEF MachineInv, TransactionsOK
      <4> QED BY <4>1, <4>2, <4>3, <2>2, <2>3 DEF PageHandle
    <3> QED BY <3>1, <3>2
  <2> QED BY <2>2, <2>4, <2>5, <2>6 DEF MachineInv, TransactionsOK
<1>10. TablesOK'
  <2> HIDE DEF s
  <2>1. /\ tables' \in [Slots -> [pages : Seq(PageHandle), position : 0..MaxPosition]]
        /\ tables'[s].pages = pages
        /\ \A t \in Slots : t # s => tables'[t] = tables[t]
    BY <1>1 DEF MachineInv, TablesOK, s
  <2>2. pages \o NoPending.new_pages = pages
    BY NoPendingTyped
  <2>3. ASSUME NEW t \in Slots, sequences'[t].live
        PROVE  tables'[t].pages = sequences'[t].pages \o sequences'[t].pending.new_pages
    <3>1. CASE t = s
      BY <3>1, <2>1, <2>2, <1>2, <1>4
    <3>2. CASE t # s
      <4>1. sequences'[t] = sequences[t] /\ tables'[t] = tables[t]
        BY <3>2, <2>1, <1>4
      <4>2. sequences[t].live =>
              tables[t].pages = sequences[t].pages \o sequences[t].pending.new_pages
        BY DEF MachineInv, TablesOK
      <4> QED BY <4>1, <4>2, <2>3, Zenon
    <3> QED BY <3>1, <3>2
  <2> QED BY <2>1, <2>3 DEF TablesOK
<1> QED BY <1>7, <1>8, <1>9, <1>10 DEF MachineInv

\* commit_append: the prefix of the new pages that the committed rows need is kept.
LEMMA CommitMachine ==
    ASSUME MachineInv, NEW r \in issued, NEW rows, CommitAppend(r, rows)
    PROVE  MachineInv' /\ Validates(r)
<1> DEFINE s == r.sequence.slot
           q == sequences[s]
           new == q.pending.new_pages
           m == DivCeil(r.start_position + rows) - Len(q.pages)
           kept == SubSeq(new, 1, m)
           pages == q.pages \o kept
           position == r.start_position + rows
<1>1. Validates(r) /\ rows \in 1..r.rows
  BY DEF CommitAppend, ValidRows
<1>2. /\ s \in Slots /\ q \in Record /\ PendingOK(q, append_nonce)
      /\ r.nonce \in Nonces /\ Reservable(q, r.rows) /\ r.start_position = q.position
      /\ q.pending.rows = r.rows /\ q.pending.nonce = r.nonce
      /\ r.start_position + r.rows <= MaxPosition
      /\ ValidIn(q, r)
  BY <1>1, ValidFacts, SMTT(40)
<1>3. /\ sequences' = [sequences EXCEPT ![s] =
             [q EXCEPT !.pages = pages, !.position = position, !.pending = NoPending]]
      /\ tables' = [tables EXCEPT ![s] = [pages |-> pages, position |-> position]]
      /\ transactions' = [transactions EXCEPT ![r.nonce] = "committed"]
      /\ finalised' = finalised \cup {r}
      /\ append_nonce' = append_nonce /\ issued' = issued
  BY <1>2, ZenonT(60) DEF CommitAppend
<1>4. new = NewPages(q, r.rows, r.nonce)
  BY <1>2 DEF PendingOK
<1>5. /\ new \in Seq(PageHandle) /\ Len(new) = DivCeil(q.position + r.rows) - Len(q.pages)
      /\ \A i \in DOMAIN new : new[i] = [append |-> r.nonce, index |-> i]
  BY <1>2, <1>4, NewPagesAre
<1>6. q.position \in Nat /\ q.pages \in Seq(PageHandle) /\ Len(q.pages) = DivCeil(q.position)
      /\ r.rows \in Nat
  BY <1>2 DEF Reservable
<1>7. position \in 0..MaxPosition
  BY <1>1, <1>2, <1>6, AppendAssumption
<1>8. m \in Nat /\ m <= Len(new) /\ Len(q.pages) \in Nat /\ m + Len(q.pages) = DivCeil(position)
  <2> HIDE DEF q, s, new
  <2>1. /\ position \in Nat /\ q.position + r.rows \in Nat /\ position <= q.position + r.rows
        /\ q.position <= position
    BY <1>1, <1>2, <1>6
  <2>2. DivCeil(q.position) <= DivCeil(position) /\ DivCeil(position) <= DivCeil(q.position + r.rows)
    BY <2>1, <1>6, DivCeilMonotone
  <2>3. DivCeil(q.position) \in Nat /\ DivCeil(position) \in Nat /\ DivCeil(q.position + r.rows) \in Nat
    BY <2>1, <1>6, DivCeilIs
  <2>4. m = DivCeil(position) - Len(q.pages)
    OBVIOUS
  <2> HIDE DEF m, position
  <2> QED BY <2>2, <2>3, <2>4, <1>5, <1>6, SMTT(40)
<1> HIDE DEF q, s, new, m, position
<1>9. kept \in Seq(PageHandle) /\ Len(kept) = m /\ \A i \in 1..m : kept[i] = new[i]
  BY <1>5, <1>8
<1> HIDE DEF kept
<1>10. /\ pages \in Seq(PageHandle) /\ Len(pages) = DivCeil(position)
       /\ \A i \in 1..Len(q.pages) : pages[i] = q.pages[i]
       /\ \A i \in 1..m : pages[Len(q.pages) + i] = kept[i]
  <2>1. /\ pages \in Seq(PageHandle) /\ Len(pages) = Len(q.pages) + Len(kept)
        /\ \A i \in 1..Len(q.pages) : pages[i] = q.pages[i]
        /\ \A i \in 1..Len(kept) : pages[Len(q.pages) + i] = kept[i]
    <3> DEFINE old == q.pages
    <3>1. old \in Seq(PageHandle) /\ kept \in Seq(PageHandle)
      BY <1>6, <1>9
    <3> HIDE DEF old
    <3>2. /\ old \o kept \in Seq(PageHandle) /\ Len(old \o kept) = Len(old) + Len(kept)
          /\ \A i \in 1..Len(old) : (old \o kept)[i] = old[i]
          /\ \A i \in 1..Len(kept) : (old \o kept)[Len(old) + i] = kept[i]
      BY <3>1, ConcatParts
    <3> QED BY <3>2, Zenon DEF old
  <2> HIDE DEF pages
  <2> QED BY <2>1, <1>8, <1>9
<1> HIDE DEF pages
<1>11. \A i \in DOMAIN pages : transactions'[pages[i].append] = "committed"
  <2>1. transactions \in [Nonces -> {"none", "open", "committed", "aborted", "dropped"}]
    BY DEF MachineInv, TransactionsOK
  <2>2. /\ transactions'[r.nonce] = "committed"
        /\ \A n \in Nonces : transactions[n] = "committed" => transactions'[n] = "committed"
    BY <2>1, <1>2, <1>3
  <2>3. ASSUME NEW i \in 1..Len(q.pages) PROVE transactions'[pages[i].append] = "committed"
    <3>1. q.pages[i] \in PageHandle
      BY <1>6
    <3>2. transactions[q.pages[i].append] = "committed"
      BY <1>2, <1>6 DEF MachineInv, TransactionsOK, q
    <3> QED BY <3>1, <3>2, <2>2, <1>10 DEF PageHandle
  <2>4. ASSUME NEW i \in 1..m PROVE transactions'[pages[Len(q.pages) + i].append] = "committed"
    <3>1. pages[Len(q.pages) + i] = [append |-> r.nonce, index |-> i]
      BY <1>5, <1>8, <1>9, <1>10
    <3> QED BY <3>1, <2>2
  <2>5. ASSUME NEW i \in DOMAIN pages PROVE transactions'[pages[i].append] = "committed"
    <3>1. CASE i <= Len(q.pages)
      BY <3>1, <2>3, <1>8, <1>10
    <3>2. CASE i > Len(q.pages)
      <4>1. i - Len(q.pages) \in 1..m /\ Len(q.pages) + (i - Len(q.pages)) = i
        BY <3>2, <1>8, <1>10, SMTT(40)
      <4> QED BY <4>1, <2>4
    <3> QED BY <3>1, <3>2, <1>8, <1>10
  <2> QED BY <2>5
<1> QED BY <1>1, <1>3, <1>7, <1>10, <1>11, FinaliseMachine DEF s, q

\* abort_append: the record is as it was before the append was reserved.
LEMMA AbortMachine ==
    ASSUME MachineInv, NEW r \in issued, AbortAppend(r)
    PROVE  MachineInv' /\ Validates(r)
<1> DEFINE s == r.sequence.slot
           q == sequences[s]
<1>1. Validates(r)
  BY DEF AbortAppend
<1>2. /\ s \in Slots /\ q \in Record /\ r.nonce \in Nonces /\ q.pending.nonce = r.nonce
      /\ ValidIn(q, r)
  BY <1>1, ValidFacts
<1>3. [q EXCEPT !.pending = NoPending]
        = [q EXCEPT !.pages = q.pages, !.position = q.position, !.pending = NoPending]
  BY <1>2 DEF Record
<1>4. /\ sequences' = [sequences EXCEPT ![s] = [q EXCEPT !.pending = NoPending]]
      /\ tables' = [tables EXCEPT ![s] = [pages |-> q.pages, position |-> q.position]]
      /\ transactions' = [transactions EXCEPT ![r.nonce] = "aborted"]
      /\ finalised' = finalised \cup {r}
      /\ append_nonce' = append_nonce /\ issued' = issued
  BY <1>2 DEF AbortAppend
<1>5. /\ q.pages \in Seq(PageHandle) /\ q.position \in 0..MaxPosition
      /\ Len(q.pages) = DivCeil(q.position)
  BY <1>2, RecordTyped, AppendAssumption DEF MachineInv, RecordsOK
<1>6. \A i \in DOMAIN q.pages : transactions'[q.pages[i].append] = "committed"
  <2>1. transactions[r.nonce] = "open"
    BY <1>2 DEF MachineInv, TransactionsOK, ValidIn
  <2>2. \A i \in DOMAIN q.pages : transactions[q.pages[i].append] = "committed"
    BY <1>2 DEF MachineInv, TransactionsOK
  <2>3. ASSUME NEW i \in DOMAIN q.pages PROVE q.pages[i].append \in Nonces
    <3>1. q.pages[i] \in PageHandle
      BY <1>5
    <3> QED BY <3>1 DEF PageHandle
  <2>4. \A n \in Nonces : n # r.nonce => transactions'[n] = transactions[n]
    BY <1>4 DEF MachineInv, TransactionsOK
  <2> QED BY <2>1, <2>2, <2>3, <2>4
<1>7. sequences' = [sequences EXCEPT ![s] =
        [q EXCEPT !.pages = q.pages, !.position = q.position, !.pending = NoPending]]
  BY <1>3, <1>4
<1> HIDE DEF s, q
<1> QED BY <1>1, <1>4, <1>5, <1>6, <1>7, FinaliseMachine DEF s, q

\* A slot without a pending append is given to a sequence, or back.
LEMMA SlotMachine ==
    ASSUME MachineInv, NEW s \in Slots, sequences[s].pending = NoPending,
           NEW u \in Record, u.pending = NoPending, Len(u.pages) = DivCeil(u.position),
           u.pages = <<>>,
           sequences' = [sequences EXCEPT ![s] = u],
           tables' \in [Slots -> [pages : Seq(PageHandle), position : 0..MaxPosition]],
           u.live => tables'[s].pages = <<>>,
           \A t \in Slots : t # s => tables'[t] = tables[t],
           UNCHANGED <<append_nonce, transactions, issued, finalised>>
    PROVE  MachineInv'
<1>1. /\ sequences' \in [Slots -> Record] /\ sequences'[s] = u
      /\ \A t \in Slots : t # s => sequences'[t] = sequences[t]
  BY DEF MachineInv, RecordsOK
<1>2. append_nonce \in Nat
  BY AppendAssumption DEF MachineInv, ReservationsOK
<1>3. RecordsOK'
  <2>1. append_nonce' \in Nat /\ append_nonce <= append_nonce'
    BY <1>2
  <2> QED BY <2>1, <1>2, RecordsStep DEF MachineInv
<1>4. \A r : Validates(r)' <=> Validates(r)
  <2> TAKE r
  <2>1. CASE r.sequence.slot = s
    BY <2>1, <1>1, ValidatesIs DEF ValidIn
  <2>2. CASE r.sequence.slot # s
    BY <2>2, <1>1, ValidatesIs
  <2> QED BY <2>1, <2>2
<1>5. \A t \in Slots : sequences'[t].pending = sequences[t].pending
  BY <1>1
<1>6. ReservationsOK'
  BY <1>4, <1>5 DEF MachineInv, ReservationsOK
<1>7. TransactionsOK'
  <2>1. ASSUME NEW t \in Slots, NEW i \in DOMAIN sequences'[t].pages
        PROVE  transactions[sequences'[t].pages[i].append] = "committed"
    <3>1. t # s
      BY <2>1, <1>1
    <3> QED BY <3>1, <2>1, <1>1 DEF MachineInv, TransactionsOK
  <2>2. \A n \in Nonces : transactions'[n] = "open" <=>
          \E t \in Slots : sequences'[t].pending # NoPending /\ sequences'[t].pending.nonce = n
    BY <1>5 DEF MachineInv, TransactionsOK
  <2>3. /\ transactions' \in [Nonces -> {"none", "open", "committed", "aborted", "dropped"}]
        /\ \A n \in Nonces : n >= append_nonce' => transactions'[n] = "none"
    BY DEF MachineInv, TransactionsOK
  <2>4. transactions' = transactions
    OBVIOUS
  <2>5. \A t \in Slots : \A i \in DOMAIN sequences'[t].pages :
          transactions'[sequences'[t].pages[i].append] = "committed"
    BY <2>1, <2>4
  <2> QED BY <2>2, <2>3, <2>5, Zenon DEF TransactionsOK
<1>8. TablesOK'
  <2>1. ASSUME NEW t \in Slots, sequences'[t].live
        PROVE  tables'[t].pages = sequences'[t].pages \o sequences'[t].pending.new_pages
    <3>1. CASE t = s
      <4>1. u.pages \o u.pending.new_pages = <<>>
        <5>1. u.pending.new_pages = <<>>
          BY NoPendingTyped
        <5>2. <<>> \o <<>> = <<>>
          OBVIOUS
        <5> QED BY <5>1, <5>2, Zenon
      <4>2. u.live
        BY <3>1, <2>1, <1>1
      <4> QED BY <4>1, <4>2, <3>1, <1>1
    <3>2. CASE t # s
      <4>1. sequences'[t] = sequences[t] /\ tables'[t] = tables[t]
        BY <3>2, <1>1
      <4>2. sequences[t].live =>
              tables[t].pages = sequences[t].pages \o sequences[t].pending.new_pages
        BY DEF MachineInv, TablesOK
      <4> QED BY <4>1, <4>2, <2>1, Zenon
    <3> QED BY <3>1, <3>2
  <2> QED BY <2>1 DEF TablesOK
<1> QED BY <1>3, <1>6, <1>7, <1>8 DEF MachineInv

----------------------------------------------------------------------------
(* The runtime and the call in progress. *)

\* A list of members of a set is one of members of a larger set.
LEMMA SeqMonotone ==
    ASSUME NEW A, NEW B, A \subseteq B, NEW list \in Seq(A)
    PROVE  list \in Seq(B)
OBVIOUS

\* No call in progress.
LEMMA NoCallTyped ==
    ASSUME NEW S, NEW T
    PROVE  /\ NoCall \in [kind : {"none", "reserve", "commit", "abort"}, items : Seq(S),
                          rows : Seq(Nat), sized : BOOLEAN, next : Nat, got : Seq(T)]
           /\ NoCall.kind = "none" /\ NoCall.items = <<>> /\ NoCall.got = <<>>
           /\ NoCall.next = 0 /\ NoCall.rows = <<>> /\ NoCall.sized = TRUE
BY DEF NoCall

\* HeldInv is about the reservations, the batches and the call.
LEMMA HeldStutter ==
    ASSUME HeldInv, UNCHANGED <<call, batches, issued, finalised>>
    PROVE  HeldInv'
BY DEF HeldInv, CallTyped, BatchesOK, LoopsOK, Holds, Finalizing, Distinct, Disjoint

\* The initial state.
LEMMA InitHeld == Init => HeldInv
<1> SUFFICES ASSUME Init PROVE HeldInv
  OBVIOUS
<1>1. /\ call = NoCall /\ batches = {} /\ issued = {} /\ finalised = {}
      /\ call.kind = "none" /\ call.items = <<>> /\ call.got = <<>> /\ call.next = 0
  BY NoCallTyped DEF Init
<1>2. CallTyped
  <2>1. call \in [kind : {"none", "reserve", "commit", "abort"},
                  items : Seq(Requests \cup issued), rows : Seq(Nat), sized : BOOLEAN,
                  next : Nat, got : Seq(issued)]
    BY <1>1, NoCallTyped
  <2> QED BY <2>1, <1>1 DEF CallTyped, Finalizing
<1> QED BY <1>1, <1>2 DEF HeldInv, BatchesOK, LoopsOK, Finalizing, Distinct

\* A reservation is finalised by itself, while no call is in progress.
LEMMA FinaliseHeld ==
    ASSUME HeldInv, NEW r, Idle, UNCHANGED <<call, batches, issued>>,
           finalised' = finalised \cup {r}
    PROVE  HeldInv'
<1>1. call.kind = "none" /\ call.got = <<>>
  BY NoCallTyped DEF Idle
<1>2. CallTyped' /\ BatchesOK'
  BY DEF HeldInv, CallTyped, BatchesOK, Finalizing, Distinct, Disjoint
<1>3. LoopsOK'
  BY <1>1 DEF LoopsOK, Finalizing
<1>4. \A x : Holds(x)' <=> Holds(x)
  BY DEF Holds, Finalizing
<1> QED BY <1>2, <1>3, <1>4 DEF HeldInv

\* A call returns a list, which becomes one of the runtime's batches.
LEMMA ReturnHeld ==
    ASSUME HeldInv, NEW list \in Seq(issued), Distinct(list), Return(list),
           UNCHANGED <<issued, finalised>>,
           \A b \in batches : Disjoint(b, list),
           \A r \in issued \ finalised :
             \/ \E b \in batches : \E i \in DOMAIN b : b[i] = r
             \/ \E i \in DOMAIN list : list[i] = r
    PROVE  HeldInv'
<1>1. /\ call' = NoCall /\ call'.kind = "none" /\ call'.items = <<>> /\ call'.got = <<>>
      /\ call'.next = 0
      /\ batches' = IF list = <<>> THEN batches ELSE batches \cup {list}
  BY NoCallTyped DEF Return
<1>2. CallTyped'
  <2>1. call' \in [kind : {"none", "reserve", "commit", "abort"},
                   items : Seq(Requests \cup issued'), rows : Seq(Nat), sized : BOOLEAN,
                   next : Nat, got : Seq(issued')]
    BY <1>1, NoCallTyped
  <2> QED BY <2>1, <1>1 DEF CallTyped, Finalizing
<1>3. ~Finalizing'
  BY <1>1 DEF Finalizing
<1>4. BatchesOK'
  <2>1. \A b \in batches' : b \in batches \/ (b = list /\ list # <<>>)
    BY <1>1
  <2>2. \A b \in batches' : b \in Seq(issued') /\ b # <<>> /\ Distinct(b)
    BY <2>1 DEF HeldInv, BatchesOK
  <2>3. ASSUME NEW b \in batches', NEW c \in batches', b # c PROVE Disjoint(b, c)
    BY <2>1, <2>3 DEF HeldInv, BatchesOK, Disjoint
  <2> QED BY <2>2, <2>3, <1>1, <1>3 DEF BatchesOK, Distinct, Disjoint
<1>5. LoopsOK'
  BY <1>1, <1>3 DEF LoopsOK
<1>6. ASSUME NEW r \in issued' \ finalised' PROVE Holds(r)'
  <2>1. \E b \in batches' : \E i \in DOMAIN b : b[i] = r
    <3>1. CASE \E b \in batches : \E i \in DOMAIN b : b[i] = r
      BY <3>1, <1>1
    <3>2. CASE \E i \in DOMAIN list : list[i] = r
      <4>1. list # <<>>
        BY <3>2
      <4>2. list \in batches'
        BY <4>1, <1>1
      <4> QED BY <4>2, <3>2
    <3> QED BY <3>1, <3>2
  <2> QED BY <2>1 DEF Holds
<1> QED BY <1>2, <1>4, <1>5, <1>6 DEF HeldInv

\* Of a batch whose reservations are of different sequences, pending_append_batch keeps
\* what is not finalised.
LEMMA PendingBatchIs ==
    ASSUME MachineInv, HeldInv, Finalizing
    PROVE  /\ call.items \in Seq(issued)
           /\ PendingBatch(call.items) =
                Filtered(call.items, {i \in DOMAIN call.items : call.items[i] \notin finalised})
<1> DEFINE items == call.items
           first(i) == \A j \in 1..(i - 1) : items[j].sequence # items[i].sequence
<1>1. items \in Seq(issued) /\ Distinct(items)
  BY DEF HeldInv, CallTyped, BatchesOK
<1> HIDE DEF items
<1>2. ASSUME NEW i \in DOMAIN items
      PROVE  first(i) /\ (Validates(items[i]) <=> items[i] \notin finalised)
  <2>1. items[i] \in issued
    BY <1>1
  <2>2. \A j \in 1..(i - 1) : j \in DOMAIN items /\ j # i
    BY <1>1
  <2>3. first(i)
    BY <2>2, <1>1 DEF Distinct
  <2> QED BY <2>1, <2>3 DEF MachineInv, ReservationsOK
<1>3. {i \in DOMAIN items : first(i) /\ Validates(items[i])}
        = {i \in DOMAIN items : items[i] \notin finalised}
  BY <1>2
<1> QED BY <1>1, <1>3 DEF PendingBatch, items

\* A finalising call fails: what it returns is still pending, and all that is.
LEMMA PendingHeld ==
    ASSUME MachineInv, HeldInv, Finalizing, Return(PendingBatch(call.items)),
           UNCHANGED <<issued, finalised>>
    PROVE  HeldInv'
<1> DEFINE items == call.items
           K == {i \in DOMAIN items : items[i] \notin finalised}
           list == Filtered(items, K)
<1>1. items \in Seq(issued) /\ Distinct(items) /\ call.got = <<>>
      /\ \A b \in batches : Disjoint(b, items)
  BY DEF HeldInv, CallTyped, BatchesOK, Finalizing
<1>2. PendingBatch(items) = list
  BY PendingBatchIs
<1>3. \A r \in issued \ finalised :
        \/ \E b \in batches : \E i \in DOMAIN b : b[i] = r
        \/ \E i \in DOMAIN items : items[i] = r
  BY <1>1 DEF HeldInv, Holds
<1>4. Return(list)
  BY <1>2
<1> HIDE DEF items
<1>5. K \subseteq 1..Len(items) /\ DOMAIN items = 1..Len(items)
  BY <1>1
<1>6. list \in Seq(issued) /\ Picks(list, items, K)
  <2> HIDE DEF K
  <2> QED BY <1>1, <1>5, FilteredPicks
<1> HIDE DEF list
<1>7. Distinct(list)
  <2>1. ASSUME NEW m \in DOMAIN list, NEW n \in DOMAIN list, m # n
        PROVE  list[m].sequence # list[n].sequence
    <3> HIDE DEF K
    <3>1. PICK i \in K, j \in K : i # j /\ list[m] = items[i] /\ list[n] = items[j]
      BY <2>1, <1>6, Zenon DEF Picks
    <3> QED BY <3>1, <1>1, <1>5 DEF Distinct
  <2> QED BY <2>1 DEF Distinct
<1>8. \A b \in batches : Disjoint(b, list)
  <2> HIDE DEF K
  <2>1. \A n \in DOMAIN list : \E i \in DOMAIN items : list[n] = items[i]
    BY <1>5, <1>6, Zenon DEF Picks
  <2> QED BY <2>1, <1>1 DEF Disjoint
<1>9. ASSUME NEW r \in issued \ finalised
      PROVE  \/ \E b \in batches : \E i \in DOMAIN b : b[i] = r
             \/ \E i \in DOMAIN list : list[i] = r
  <2>1. CASE \E i \in DOMAIN items : items[i] = r
    <3>1. PICK i \in DOMAIN items : items[i] = r
      BY <2>1
    <3>2. i \in K
      BY <3>1
    <3> HIDE DEF K
    <3> QED BY <3>1, <3>2, <1>6, Zenon DEF Picks
  <2> QED BY <2>1, <1>3
<1> HIDE DEF list
<1> QED BY <1>4, <1>6, <1>7, <1>8, <1>9, ReturnHeld

\* reserve_append_batch starts.
LEMMA ReserveBatchHeld ==
    ASSUME HeldInv, NEW n \in Nat, NEW requests \in [1..n -> Requests], ReserveBatch(requests)
    PROVE  HeldInv'
<1>1. /\ call = NoCall /\ call.kind = "none" /\ call.got = <<>>
      /\ batches' = batches /\ issued' = issued /\ finalised' = finalised
      /\ call' = [NoCall EXCEPT !.kind = "reserve", !.items = requests, !.next = 1]
  BY NoCallTyped DEF ReserveBatch, Idle, Machine
<1>2. requests \in Seq(Requests) /\ requests \in Seq(Requests \cup issued)
  OBVIOUS
<1>3. /\ call' \in [kind : {"none", "reserve", "commit", "abort"},
                    items : Seq(Requests \cup issued), rows : Seq(Nat), sized : BOOLEAN,
                    next : Nat, got : Seq(issued)]
      /\ call'.kind = "reserve" /\ call'.items = requests /\ call'.got = <<>> /\ call'.next = 1
  <2>1. call' = [kind |-> "reserve", items |-> requests, rows |-> <<>>, sized |-> TRUE,
                 next |-> 1, got |-> <<>>]
    BY <1>1 DEF NoCall
  <2> QED BY <2>1, <1>2
<1>4. CallTyped'
  BY <1>1, <1>2, <1>3 DEF CallTyped, Finalizing
<1>5. BatchesOK'
  BY <1>1, <1>3 DEF HeldInv, BatchesOK, Finalizing, Distinct, Disjoint
<1>6. LoopsOK'
  BY <1>3 DEF LoopsOK, Finalizing
<1>7. \A r : Holds(r) => Holds(r)'
  BY <1>1 DEF Holds, Finalizing
<1> QED BY <1>1, <1>4, <1>5, <1>6, <1>7 DEF HeldInv

\* The request that the loop of reserve_append_batch is at.
LEMMA ItemRequest ==
    ASSUME HeldInv, InLoop("reserve")
    PROVE  /\ call.kind = "reserve" /\ Item.sequence \in SequenceIds /\ Item.rows \in Nat
           /\ call.items \in Seq(Requests) /\ call.next \in 1..Len(call.items)
           /\ call.got \in Seq(issued)
<1>1. /\ call.kind = "reserve" /\ call.items \in Seq(Requests)
      /\ call.next \in DOMAIN call.items /\ call.got \in Seq(issued)
  BY DEF HeldInv, CallTyped, InLoop
<1>2. Item \in Requests
  BY <1>1 DEF Item
<1> QED BY <1>1, <1>2 DEF Requests

\* An item of reserve_append_batch succeeds: the call has its reservation, and no other of
\* its sequence, which had no pending append.
LEMMA ReserveItemHeld ==
    ASSUME MachineInv, HeldInv, ReserveItem
    PROVE  HeldInv'
<1> DEFINE id == Item.sequence
           rows == Item.rows
           n == Len(call.got)
<1>0. PICK r : r = Reservation(id, rows)
  OBVIOUS
<1>1. /\ call.kind = "reserve" /\ id \in SequenceIds /\ rows \in Nat
      /\ call.items \in Seq(Requests) /\ call.next \in 1..Len(call.items)
      /\ call.got \in Seq(issued)
  BY ItemRequest DEF ReserveItem
<1>2. ReserveAppend(id, rows)
  BY DEF ReserveItem
<1>3. /\ r.sequence = id /\ r \notin issued /\ sequences[id.slot].pending = NoPending
  BY <1>0, <1>1, <1>2, ReserveMachine
<1>4. issued' = issued \cup {r} /\ finalised' = finalised
  BY <1>0, <1>2 DEF ReserveAppend
<1>5. /\ call' = [call EXCEPT !.next = @ + 1, !.got = Append(@, r)] /\ batches' = batches
  BY <1>0 DEF ReserveItem
<1>6. call \in [kind : {"none", "reserve", "commit", "abort"},
                items : Seq(Requests \cup issued), rows : Seq(Nat), sized : BOOLEAN,
                next : Nat, got : Seq(issued)]
  BY DEF HeldInv, CallTyped
<1> HIDE DEF id, rows
<1>7. /\ call'.kind = "reserve" /\ call'.items = call.items /\ call'.next = call.next + 1
      /\ call'.got = Append(call.got, r) /\ call'.rows = call.rows /\ call'.sized = call.sized
      /\ call' \in [kind : {"none", "reserve", "commit", "abort"},
                    items : Seq(Requests \cup issued), rows : Seq(Nat), sized : BOOLEAN,
                    next : Nat, got : {Append(call.got, r)}]
  <2> DEFINE m == call.next + 1
             step == [call EXCEPT !.next = m]
  <2>0. m \in Nat
    BY <1>6
  <2> HIDE DEF m
  <2>1. /\ step \in [kind : {"none", "reserve", "commit", "abort"},
                     items : Seq(Requests \cup issued), rows : Seq(Nat), sized : BOOLEAN,
                     next : Nat, got : Seq(issued)]
        /\ step.kind = "reserve" /\ step.items = call.items /\ step.next = m
        /\ step.got = call.got /\ step.rows = call.rows /\ step.sized = call.sized
    BY <2>0, <1>1, <1>6
  <2>2. call' = [step EXCEPT !.got = Append(call.got, r)]
    BY <1>5 DEF m
  <2> HIDE DEF step
  <2> QED BY <2>1, <2>2 DEF m
<1>8. /\ Append(call.got, r) \in Seq(issued') /\ n \in Nat
      /\ DOMAIN Append(call.got, r) = 1..(n + 1)
      /\ Append(call.got, r)[n + 1] = r
      /\ \A i \in 1..n : /\ Append(call.got, r)[i] = call.got[i] /\ call.got[i] \in issued
                         /\ i \in DOMAIN call.got
  <2> DEFINE got == call.got
  <2>1. got \in Seq(issued) /\ got \in Seq(issued') /\ r \in issued'
    BY <1>1, <1>4, SeqMonotone
  <2> HIDE DEF got
  <2>2. /\ Append(got, r) \in Seq(issued') /\ Len(got) \in Nat
        /\ DOMAIN Append(got, r) = 1..(Len(got) + 1)
        /\ Append(got, r)[Len(got) + 1] = r
        /\ \A i \in 1..Len(got) : /\ Append(got, r)[i] = got[i] /\ got[i] \in issued
                                  /\ i \in DOMAIN got
    BY <2>1
  <2> QED BY <2>2 DEF got
<1> HIDE DEF n
<1>9. CallTyped'
  <2>1. call.items \in Seq(Requests \cup issued')
    BY <1>1, SeqMonotone
  <2>2. call' \in [kind : {"none", "reserve", "commit", "abort"},
                   items : Seq(Requests \cup issued'), rows : Seq(Nat), sized : BOOLEAN,
                   next : Nat, got : Seq(issued')]
    BY <2>1, <1>7, <1>8
  <2>3. call'.next <= Len(call'.items) + 1 /\ call'.next # 0
    BY <1>1, <1>7
  <2> QED BY <2>2, <2>3, <1>1, <1>7 DEF CallTyped, Finalizing
<1>10. ASSUME NEW i \in 1..n PROVE call.got[i].sequence # id /\ call.got[i] \notin finalised
  <2>1. call.got[i] \notin finalised
    BY <1>8 DEF HeldInv, LoopsOK
  <2>2. Validates(call.got[i])
    BY <2>1, <1>8 DEF MachineInv, ReservationsOK
  <2>3. sequences[call.got[i].sequence.slot].pending # NoPending
    BY <2>2 DEF Validates, HasPending
  <2> QED BY <2>1, <2>3, <1>3
<1>11. BatchesOK'
  <2>1. Distinct(Append(call.got, r))
    <3>1. Distinct(call.got)
      BY DEF HeldInv, BatchesOK
    <3>2. ASSUME NEW i \in 1..(n + 1), NEW j \in 1..(n + 1),
                 Append(call.got, r)[i].sequence = Append(call.got, r)[j].sequence
          PROVE  i = j
      <4>1. CASE i \in 1..n /\ j \in 1..n
        BY <4>1, <3>1, <3>2, <1>8 DEF Distinct
      <4>2. CASE i = n + 1 /\ j \in 1..n
        BY <4>2, <3>2, <1>3, <1>8, <1>10
      <4>3. CASE i \in 1..n /\ j = n + 1
        BY <4>3, <3>2, <1>3, <1>8, <1>10
      <4> QED BY <4>1, <4>2, <4>3, <1>8
    <3> QED BY <3>2, <1>8 DEF Distinct
  <2>2. ASSUME NEW b \in batches PROVE b \in Seq(issued') /\ Disjoint(b, Append(call.got, r))
    <3>1. b \in Seq(issued) /\ Disjoint(b, call.got)
      BY DEF HeldInv, BatchesOK
    <3>2. \A i \in DOMAIN b : b[i] # r
      BY <3>1, <1>3
    <3>3. b \in Seq(issued')
      BY <3>1, <1>4, SeqMonotone
    <3>4. ASSUME NEW i \in DOMAIN b, NEW j \in 1..(n + 1) PROVE b[i] # Append(call.got, r)[j]
      <4>1. CASE j = n + 1
        BY <4>1, <3>2, <1>8
      <4>2. CASE j \in 1..n
        BY <4>2, <3>1, <1>8 DEF Disjoint
      <4> QED BY <4>1, <4>2, <1>8
    <3> QED BY <3>3, <3>4, <1>8 DEF Disjoint
  <2>3. /\ \A b \in batches : b # <<>> /\ Distinct(b)
        /\ \A b, c \in batches : b # c => Disjoint(b, c)
    BY DEF HeldInv, BatchesOK
  <2>4. ~Finalizing'
    BY <1>7 DEF Finalizing
  <2> QED BY <2>1, <2>2, <2>3, <2>4, <1>5, <1>7 DEF BatchesOK, Distinct, Disjoint
<1>12. LoopsOK'
  <2>1. r \notin finalised
    BY <1>3 DEF MachineInv, ReservationsOK
  <2>2. ASSUME NEW i \in 1..(n + 1) PROVE Append(call.got, r)[i] \notin finalised
    <3>1. CASE i = n + 1
      BY <3>1, <2>1, <1>8
    <3>2. CASE i \in 1..n
      BY <3>2, <1>8, <1>10
    <3> QED BY <3>1, <3>2, <1>8
  <2> QED BY <2>2, <1>4, <1>7, <1>8 DEF LoopsOK, Finalizing
<1>13. ASSUME NEW x \in issued' \ finalised' PROVE Holds(x)'
  <2>1. CASE x = r
    <3>1. n + 1 \in 1..(n + 1)
      BY <1>8
    <3> QED BY <2>1, <3>1, <1>7, <1>8 DEF Holds
  <2>2. CASE x # r
    <3>1. Holds(x)
      BY <2>2, <1>4 DEF HeldInv
    <3>2. CASE \E b \in batches : \E i \in DOMAIN b : b[i] = x
      BY <3>2, <1>5 DEF Holds
    <3>3. CASE \E i \in DOMAIN call.got : call.got[i] = x
      <4>1. DOMAIN call.got = 1..n
        BY <1>1 DEF n
      <4>2. \E i \in 1..(n + 1) : Append(call.got, r)[i] = x
        BY <4>1, <3>3, <1>8
      <4> QED BY <4>2, <1>7, <1>8 DEF Holds
    <3>4. ~Finalizing
      BY <1>1 DEF Finalizing
    <3> QED BY <3>1, <3>2, <3>3, <3>4 DEF Holds
  <2> QED BY <2>1, <2>2
<1> QED BY <1>9, <1>11, <1>12, <1>13 DEF HeldInv

\* reserve_append_batch returns, and so does a finalising call that is done.
LEMMA GotHeld ==
    ASSUME HeldInv, Return(call.got), UNCHANGED <<issued, finalised>>,
           Finalizing => \A i \in DOMAIN call.items : call.items[i] \in finalised
    PROVE  HeldInv'
<1>1. /\ call.got \in Seq(issued) /\ Distinct(call.got)
      /\ \A b \in batches : Disjoint(b, call.got)
  BY DEF HeldInv, CallTyped, BatchesOK
<1>2. \A r \in issued \ finalised :
        \/ \E b \in batches : \E i \in DOMAIN b : b[i] = r
        \/ \E i \in DOMAIN call.got : call.got[i] = r
  BY DEF HeldInv, Holds
<1> QED BY <1>1, <1>2, ReturnHeld

\* A batch is given to a finalising call.
LEMMA FinalizeBatchHeld ==
    ASSUME HeldInv, NEW kind \in {"commit", "abort"}, NEW batch \in batches,
           NEW rows \in Seq(Nat), NEW sized \in BOOLEAN,
           FinalizeBatch(kind, batch, rows, sized)
    PROVE  HeldInv'
<1>1. /\ call = NoCall /\ call.kind = "none" /\ call.got = <<>>
      /\ batches' = batches \ {batch} /\ issued' = issued /\ finalised' = finalised
      /\ call' = [NoCall EXCEPT !.kind = kind, !.items = batch, !.rows = rows, !.sized = sized]
  BY NoCallTyped DEF FinalizeBatch, Idle, Machine
<1>2. batch \in Seq(issued) /\ batch \in Seq(Requests \cup issued)
  BY SeqMonotone DEF HeldInv, BatchesOK
<1>3. /\ call' \in [kind : {"none", "reserve", "commit", "abort"},
                    items : Seq(Requests \cup issued), rows : Seq(Nat), sized : BOOLEAN,
                    next : Nat, got : Seq(issued)]
      /\ call'.kind = kind /\ call'.items = batch /\ call'.got = <<>> /\ call'.next = 0
  <2>1. call' = [kind |-> kind, items |-> batch, rows |-> rows, sized |-> sized,
                 next |-> 0, got |-> <<>>]
    BY <1>1 DEF NoCall
  <2> QED BY <2>1, <1>2
<1>4. CallTyped'
  BY <1>1, <1>2, <1>3 DEF CallTyped, Finalizing
<1>5. BatchesOK'
  BY <1>1, <1>3 DEF HeldInv, BatchesOK, Finalizing, Distinct, Disjoint
<1>6. LoopsOK'
  BY <1>2, <1>3 DEF LoopsOK, Finalizing
<1>7. ASSUME NEW r \in issued \ finalised PROVE Holds(r)'
  <2>1. PICK b \in batches : \E i \in DOMAIN b : b[i] = r
    BY <1>1 DEF HeldInv, Holds, Finalizing
  <2>2. CASE b = batch
    BY <2>1, <2>2, <1>3 DEF Holds, Finalizing
  <2>3. CASE b # batch
    BY <2>1, <2>3, <1>1 DEF Holds
  <2> QED BY <2>2, <2>3
<1> QED BY <1>1, <1>4, <1>5, <1>6, <1>7 DEF HeldInv

\* A finalising call goes on to its next item, all before which are finalised.
LEMMA AdvanceHeld ==
    ASSUME HeldInv, Finalizing, NEW next \in Nat, call' = [call EXCEPT !.next = next],
           next <= Len(call.items) + 1, batches' = batches, issued' = issued,
           finalised \subseteq finalised',
           \A i \in DOMAIN call.items : i < next => call.items[i] \in finalised'
    PROVE  HeldInv'
<1>1. call \in [kind : {"none", "reserve", "commit", "abort"},
                items : Seq(Requests \cup issued), rows : Seq(Nat), sized : BOOLEAN,
                next : Nat, got : Seq(issued)]
  BY DEF HeldInv, CallTyped
<1>2. /\ call' \in [kind : {"none", "reserve", "commit", "abort"},
                    items : Seq(Requests \cup issued), rows : Seq(Nat), sized : BOOLEAN,
                    next : Nat, got : Seq(issued)]
      /\ call'.kind = call.kind /\ call'.items = call.items /\ call'.got = call.got
      /\ call'.next = next
  BY <1>1
<1>3. call.got = <<>> /\ (Finalizing' <=> Finalizing) /\ call.kind \in {"commit", "abort"}
  BY <1>2 DEF HeldInv, CallTyped, Finalizing
<1>4. CallTyped'
  BY <1>2, <1>3 DEF HeldInv, CallTyped
<1>5. BatchesOK'
  BY <1>2, <1>3 DEF HeldInv, BatchesOK, Distinct, Disjoint
<1>6. LoopsOK'
  BY <1>2, <1>3 DEF LoopsOK
<1>7. \A r : Holds(r) => Holds(r)'
  BY <1>2, <1>3 DEF Holds
<1> QED BY <1>4, <1>5, <1>6, <1>7 DEF HeldInv

----------------------------------------------------------------------------
(* The inductive invariant. *)

\* The manager and the backend do not move.
LEMMA MachineStutter ==
    ASSUME MachineInv, UNCHANGED Machine
    PROVE  MachineInv'
<1>1. \A r : Validates(r)' <=> Validates(r)
  BY ValidatesIs DEF Machine
<1>2. RecordsOK'
  BY DEF MachineInv, RecordsOK, Machine
<1>3. ReservationsOK'
  BY <1>1 DEF MachineInv, ReservationsOK, Machine
<1>4. /\ sequences' = sequences /\ transactions' = transactions /\ tables' = tables
      /\ append_nonce' = append_nonce
  BY DEF Machine
<1>5. TransactionsOK'
  <2>1. /\ transactions' \in [Nonces -> {"none", "open", "committed", "aborted", "dropped"}]
        /\ \A n \in Nonces : n >= append_nonce' => transactions'[n] = "none"
    BY <1>4 DEF MachineInv, TransactionsOK
  <2>2. \A n \in Nonces : transactions'[n] = "open" <=>
          \E s \in Slots : sequences'[s].pending # NoPending /\ sequences'[s].pending.nonce = n
    BY <1>4 DEF MachineInv, TransactionsOK
  <2>3. \A s \in Slots : \A i \in DOMAIN sequences'[s].pages :
          transactions'[sequences'[s].pages[i].append] = "committed"
    BY <1>4 DEF MachineInv, TransactionsOK
  <2> QED BY <2>1, <2>2, <2>3, Zenon DEF TransactionsOK
<1>6. TablesOK'
  BY <1>4, Zenon DEF MachineInv, TablesOK
<1> QED BY <1>2, <1>3, <1>5, <1>6 DEF MachineInv

\* A slot is given to a fresh sequence.
LEMMA AdmitIInv ==
    ASSUME IInv, NEW s \in Slots, Admit(s)
    PROVE  IInv'
<1> DEFINE q == sequences[s]
           u == [q EXCEPT !.live = TRUE]
<1>1. q \in Record /\ ~q.live /\ Len(q.pages) = DivCeil(q.position) /\ q.pages = <<>>
      /\ q.pending = NoPending
  BY DEF IInv, MachineInv, RecordsOK, PendingOK, Admit
<1>2. u \in Record /\ u.pages = q.pages /\ u.position = q.position /\ u.pending = q.pending
  BY <1>1 DEF Record
<1>3. /\ sequences' = [sequences EXCEPT ![s] = u]
      /\ tables' = [tables EXCEPT ![s] = [pages |-> <<>>, position |-> 0]]
      /\ UNCHANGED <<append_nonce, transactions, issued, finalised>>
      /\ UNCHANGED <<call, batches, issued, finalised>>
  BY DEF Admit
<1>4. /\ tables' \in [Slots -> [pages : Seq(PageHandle), position : 0..MaxPosition]]
      /\ tables'[s].pages = <<>>
      /\ \A t \in Slots : t # s => tables'[t] = tables[t]
  <2>1. [pages |-> <<>>, position |-> 0] \in [pages : Seq(PageHandle), position : 0..MaxPosition]
    BY AppendAssumption
  <2>2. tables \in [Slots -> [pages : Seq(PageHandle), position : 0..MaxPosition]]
    BY DEF IInv, MachineInv, TablesOK
  <2> QED BY <2>1, <2>2, <1>3
<1> HIDE DEF u
<1>5. MachineInv'
  BY <1>1, <1>2, <1>3, <1>4, SlotMachine DEF IInv
<1> QED BY <1>3, <1>5, HeldStutter DEF IInv

\* A sequence gives its slot back, under the next generation.
LEMMA FinishIInv ==
    ASSUME IInv, NEW s \in Slots, Finish(s)
    PROVE  IInv'
<1> DEFINE q == sequences[s]
           u == Vacant(q.generation + 1)
<1>1. q \in Record /\ q.pending = NoPending /\ q.generation < MaxGeneration
  BY DEF IInv, MachineInv, RecordsOK, Finish
<1>2. u \in Record /\ u.pages = <<>> /\ u.position = 0 /\ u.pending = NoPending /\ ~u.live
  <2>1. q.generation + 1 \in 0..MaxGeneration
    BY <1>1, RecordTyped, AppendAssumption
  <2> DEFINE g == q.generation + 1
  <2> HIDE DEF g
  <2>2. g \in 0..MaxGeneration /\ u = Vacant(g)
    BY <2>1 DEF g
  <2> HIDE DEF u
  <2> QED BY <2>2, NoPendingTyped, AppendAssumption DEF Vacant, Record
<1>3. /\ sequences' = [sequences EXCEPT ![s] = u] /\ tables' = tables
      /\ UNCHANGED <<append_nonce, transactions, issued, finalised>>
      /\ UNCHANGED <<call, batches, issued, finalised>>
  BY DEF Finish
<1>4. tables \in [Slots -> [pages : Seq(PageHandle), position : 0..MaxPosition]]
  BY DEF IInv, MachineInv, TablesOK
<1>5. DivCeil(0) = 0
  BY DivCeilIs
<1> HIDE DEF u
<1>6. MachineInv'
  BY <1>1, <1>2, <1>3, <1>4, <1>5, SlotMachine, Zenon DEF IInv
<1> QED BY <1>3, <1>6, HeldStutter DEF IInv

\* A reservation is finalised by itself.
LEMMA FinaliseOneIInv ==
    ASSUME IInv, NEW r \in issued, NEW rows, CommitOne(r, rows) \/ AbortOne(r)
    PROVE  IInv'
<1>1. MachineInv'
  <2>1. CASE CommitOne(r, rows)
    BY <2>1, CommitMachine DEF IInv, CommitOne
  <2>2. CASE AbortOne(r)
    BY <2>2, AbortMachine DEF IInv, AbortOne
  <2> QED BY <2>1, <2>2
<1>2. /\ Idle /\ UNCHANGED <<call, batches, issued>> /\ finalised' = finalised \cup {r}
  BY ZenonT(60) DEF CommitOne, AbortOne, CommitAppend, AbortAppend
<1> QED BY <1>1, <1>2, FinaliseHeld DEF IInv

\* An item of reserve_append_batch fails, and the call returns what it has.
LEMMA ReserveItemFailsIInv ==
    ASSUME IInv, ReserveItemFails
    PROVE  IInv'
<1>1. /\ InLoop("reserve") /\ Return(call.got)
      /\ ReserveFails(Item.sequence, Item.rows) \/ UNCHANGED Machine
  BY DEF ReserveItemFails
<1>2. call.kind = "reserve" /\ Item.sequence \in SequenceIds /\ Item.rows \in Nat
  BY <1>1, ItemRequest DEF IInv
<1>3. MachineInv'
  BY <1>1, <1>2, ReserveFailsMachine, MachineStutter DEF IInv
<1>4. UNCHANGED <<issued, finalised>>
  BY <1>1 DEF ReserveFails, Machine
<1>5. ~Finalizing
  BY <1>2 DEF Finalizing
<1> QED BY <1>1, <1>3, <1>4, <1>5, GotHeld DEF IInv

\* An item of a finalising call succeeds.
LEMMA FinalizeItemIInv ==
    ASSUME IInv, FinalizeItem
    PROVE  IInv'
<1>1. /\ Finalizing /\ call.next \in DOMAIN call.items
      /\ call' = [call EXCEPT !.next = @ + 1] /\ batches' = batches
  BY DEF FinalizeItem, CommitItem, AbortItem, InLoop, Finalizing
<1>2. call.items \in Seq(issued)
  BY <1>1 DEF IInv, HeldInv, CallTyped
<1>3. Item \in issued /\ Item = call.items[call.next] /\ call.next \in Nat
      /\ call.next + 1 <= Len(call.items) + 1 /\ DOMAIN call.items = 1..Len(call.items)
  BY <1>1, <1>2, SMTT(40) DEF Item
<1>4. MachineInv' /\ finalised' = finalised \cup {Item} /\ issued' = issued
  <2>1. CASE CommitItem
    BY <2>1, <1>3, CommitMachine, ZenonT(60) DEF IInv, CommitItem, CommitAppend
  <2>2. CASE AbortItem
    BY <2>2, <1>3, AbortMachine, ZenonT(60) DEF IInv, AbortItem, AbortAppend
  <2> QED BY <2>1, <2>2 DEF FinalizeItem
<1>5. ASSUME NEW i \in DOMAIN call.items, i < call.next + 1
      PROVE  call.items[i] \in finalised'
  <2>1. CASE i < call.next
    BY <2>1, <1>1, <1>4 DEF IInv, HeldInv, LoopsOK
  <2>2. CASE i = call.next
    BY <2>2, <1>3, <1>4
  <2> QED BY <2>1, <2>2, <1>3, <1>5
<1>6. call' = [call EXCEPT !.next = call.next + 1] /\ finalised \subseteq finalised'
      /\ call.next + 1 \in Nat
  BY <1>1, <1>3, <1>4
<1> QED BY <1>1, <1>3, <1>4, <1>5, <1>6, AdvanceHeld DEF IInv

\* Every step keeps the invariant.
LEMMA NextIInv ==
    ASSUME IInv, [Next]_vars
    PROVE  IInv'
<1>1. ASSUME NEW s \in Slots, Admit(s) PROVE IInv'
  BY <1>1, AdmitIInv
<1>2. ASSUME NEW s \in Slots, Finish(s) PROVE IInv'
  BY <1>2, FinishIInv
<1>3. ASSUME NEW r \in issued, NEW rows \in 1..RowsBound, CommitOne(r, rows) PROVE IInv'
  BY <1>3, FinaliseOneIInv
<1>4. ASSUME NEW r \in issued, AbortOne(r) PROVE IInv'
  BY <1>4, FinaliseOneIInv
<1>5. ASSUME NEW n \in 1..BatchBound, NEW requests \in [1..n -> Requests],
             ReserveBatch(requests)
      PROVE  IInv'
  <2>1. UNCHANGED Machine /\ n \in Nat
    BY <1>5, AppendAssumption DEF ReserveBatch
  <2> QED BY <1>5, <2>1, MachineStutter, ReserveBatchHeld DEF IInv
<1>6. ASSUME ReserveItem PROVE IInv'
  <2>1. Item.sequence \in SequenceIds /\ Item.rows \in Nat
    BY <1>6, ItemRequest DEF IInv, ReserveItem
  <2>2. MachineInv'
    BY <1>6, <2>1, ReserveMachine DEF IInv, ReserveItem
  <2> QED BY <1>6, <2>2, ReserveItemHeld DEF IInv
<1>7. ASSUME ReserveItemFails PROVE IInv'
  BY <1>7, ReserveItemFailsIInv
<1>8. ASSUME NEW kind \in {"commit", "abort"}, NEW batch \in batches, NEW rows \in Seq(Nat),
             NEW sized \in BOOLEAN, FinalizeBatch(kind, batch, rows, sized)
      PROVE  IInv'
  <2>1. UNCHANGED Machine
    BY <1>8 DEF FinalizeBatch
  <2> QED BY <1>8, <2>1, MachineStutter, FinalizeBatchHeld DEF IInv
<1>9. ASSUME NEW batch \in batches, NEW rows \in [DOMAIN batch -> 0..RowsBound],
             FinalizeBatch("commit", batch, rows, TRUE)
      PROVE  IInv'
  <2>1. batch \in Seq(issued)
    BY DEF IInv, HeldInv, BatchesOK
  <2>2. rows \in Seq(Nat)
    BY <2>1, AppendAssumption
  <2> QED BY <1>8, <1>9, <2>2
<1>10. <<>> \in Seq(Nat)
  OBVIOUS
<1>11. ASSUME ValidateBatch PROVE IInv'
  <2>1. /\ UNCHANGED Machine /\ Finalizing /\ call' = [call EXCEPT !.next = 1]
        /\ batches' = batches
    BY <1>11 DEF ValidateBatch
  <2>2. issued' = issued /\ finalised' = finalised
    BY <2>1 DEF Machine
  <2>3. call.items \in Seq(issued)
    BY <2>1 DEF IInv, HeldInv, CallTyped
  <2>4. 1 <= Len(call.items) + 1 /\ \A i \in DOMAIN call.items : ~(i < 1)
    BY <2>3
  <2>5. HeldInv'
    BY <2>1, <2>2, <2>4, AdvanceHeld DEF IInv
  <2> QED BY <2>1, <2>5, MachineStutter DEF IInv
<1>12. ASSUME RejectBatch \/ FinalizeItemFails PROVE IInv'
  <2>1. UNCHANGED Machine /\ Finalizing /\ Return(PendingBatch(call.items))
    BY <1>12 DEF RejectBatch, FinalizeItemFails, InLoop, Finalizing
  <2>2. UNCHANGED <<issued, finalised>>
    BY <2>1 DEF Machine
  <2> QED BY <2>1, <2>2, PendingHeld, MachineStutter DEF IInv
<1>13. ASSUME FinalizeItem PROVE IInv'
  BY <1>13, FinalizeItemIInv
<1>14. ASSUME BatchDone PROVE IInv'
  <2>1. UNCHANGED Machine /\ AfterLoop /\ Return(call.got)
    BY <1>14 DEF BatchDone
  <2>2. UNCHANGED <<issued, finalised>>
    BY <2>1 DEF Machine
  <2>3. ASSUME Finalizing, NEW i \in DOMAIN call.items PROVE call.items[i] \in finalised
    <3>1. call.items \in Seq(issued) /\ call.next \in Nat /\ call.next > Len(call.items)
      BY <2>1, <2>3 DEF IInv, HeldInv, CallTyped, AfterLoop
    <3>2. i < call.next
      BY <3>1
    <3> QED BY <3>2, <2>3 DEF IInv, HeldInv, LoopsOK
  <2> QED BY <2>1, <2>2, <2>3, GotHeld, MachineStutter DEF IInv
<1>15. ASSUME UNCHANGED vars PROVE IInv'
  <2>1. UNCHANGED Machine /\ UNCHANGED <<call, batches, issued, finalised>>
    BY <1>15 DEF vars, Machine
  <2> QED BY <2>1, MachineStutter, HeldStutter DEF IInv
<1> QED BY <1>1, <1>2, <1>3, <1>4, <1>5, <1>6, <1>7, <1>8, <1>9, <1>10, <1>11, <1>12, <1>13,
           <1>14, <1>15 DEF Next

\* What the manager, the backend and the runtime know of each other's reservations is
\* consistent after every step.
THEOREM InductiveInvariant == Spec => []IInv
<1>1. Init => IInv
  BY InitMachine, InitHeld DEF IInv
<1>2. IInv /\ [Next]_vars => IInv'
  BY NextIInv
<1> QED BY <1>1, <1>2, PTL DEF Spec

----------------------------------------------------------------------------
(* What the invariant says of the properties. *)

\* Every record, transaction, table and call is of its type in every reachable state.
THEOREM TypeCorrect == Spec => []TypeOK
<1>1. IInv => TypeOK
  <2> SUFFICES ASSUME IInv PROVE TypeOK
    OBVIOUS
  <2>1. sequences \in [Slots -> Record] /\ append_nonce \in 0..MaxNonce /\ finalised \subseteq issued
    BY DEF IInv, MachineInv, RecordsOK, ReservationsOK
  <2>2. /\ transactions \in [Nonces -> {"none", "open", "committed", "aborted", "dropped"}]
        /\ tables \in [Slots -> [pages : Seq(PageHandle), position : 0..MaxPosition]]
    BY DEF IInv, MachineInv, TransactionsOK, TablesOK
  <2>3. /\ call \in [kind : {"none", "reserve", "commit", "abort"},
                     items : Seq(Requests \cup issued), rows : Seq(Nat), sized : BOOLEAN,
                     next : Nat, got : Seq(issued)]
        /\ call.next <= Len(call.items) + 1
    BY DEF IInv, HeldInv, CallTyped
  <2>4. /\ call.kind \in {"none", "reserve", "commit", "abort"}
        /\ call.next \in 0..(Len(call.items) + 1)
    BY <2>3
  <2> QED BY <2>1, <2>2, <2>4 DEF TypeOK, Record
<1> QED BY <1>1, InductiveInvariant, PTL

\* The nonces of the pending appends.
LEMMA PendingNoncesAre ==
    ASSUME MachineInv, NEW n
    PROVE  n \in PendingNonces <=>
             \E s \in Slots : sequences[s].pending # NoPending /\ sequences[s].pending.nonce = n
<1>1. ASSUME NEW s \in Slots, sequences[s].pending # NoPending
      PROVE  sequences[s].live /\ sequences[s].pending.nonce # MaxNonce
  <2>1. PendingOK(sequences[s], append_nonce) /\ sequences[s] \in Record
        /\ append_nonce \in 0..MaxNonce
    BY <1>1 DEF MachineInv, RecordsOK, ReservationsOK
  <2>2. sequences[s].live /\ sequences[s].pending.nonce < append_nonce
    BY <2>1, Zenon DEF PendingOK
  <2>3. sequences[s].pending.nonce \in Nat
    BY <2>1, RecordTyped
  <2> QED BY <2>1, <2>2, <2>3, AppendAssumption
<1> QED BY <1>1, NoPendingTyped DEF PendingNonces, Live

\* An issued reservation has a pending nonce until it is finalised.
LEMMA PendingUntilFinalised ==
    ASSUME MachineInv, NEW r \in issued
    PROVE  r.nonce \in PendingNonces <=> r \notin finalised
<1>1. ASSUME r.nonce \in PendingNonces PROVE Validates(r)
  <2>1. PICK s \in Slots : sequences[s].pending # NoPending /\ sequences[s].pending.nonce = r.nonce
    BY <1>1, PendingNoncesAre
  <2>2. PICK x \in issued : x.sequence.slot = s /\ Validates(x)
    BY <2>1 DEF MachineInv, ReservationsOK
  <2>3. x.nonce = r.nonce
    BY <2>1, <2>2, ValidFacts
  <2>4. x = r
    BY <2>3 DEF MachineInv, ReservationsOK
  <2> QED BY <2>2, <2>4
<1>2. ASSUME Validates(r) PROVE r.nonce \in PendingNonces
  <2>1. /\ r.sequence.slot \in Slots /\ sequences[r.sequence.slot].pending.nonce = r.nonce
        /\ sequences[r.sequence.slot].pending # NoPending
    BY <1>2, ValidFacts DEF ValidIn
  <2> QED BY <2>1, PendingNoncesAre
<1>3. Validates(r) <=> r \notin finalised
  BY DEF MachineInv, ReservationsOK
<1> QED BY <1>1, <1>2, <1>3

\* No call finalises a reservation other than the one it was given: an append stays
\* pending until validate_reservation accepts its own reservation.
THEOREM ReservationsStayPendingCorrect == Spec => []ReservationsStayPending
<1>1. IInv => ReservationsStayPending
  <2> SUFFICES ASSUME IInv PROVE ReservationsStayPending
    OBVIOUS
  <2>1. \A r \in issued : r.nonce \in PendingNonces <=> r \notin finalised
    BY PendingUntilFinalised DEF IInv
  <2>2. \A r, other \in issued : r.nonce = other.nonce => r = other
    BY DEF IInv, MachineInv, ReservationsOK
  <2> QED BY <2>1, <2>2 DEF ReservationsStayPending
<1> QED BY <1>1, InductiveInvariant, PTL

\* Wherever a batch call stops, somebody holds a reservation for each pending append.
THEOREM NoReservationLostCorrect == Spec => []NoReservationLost
<1>1. IInv => NoReservationLost
  <2> SUFFICES ASSUME IInv, NEW n \in PendingNonces
               PROVE  \E r \in HeldReservations : r.nonce = n
    BY DEF NoReservationLost
  <2>1. PICK s \in Slots : sequences[s].pending # NoPending /\ sequences[s].pending.nonce = n
    BY PendingNoncesAre DEF IInv
  <2>2. PICK r \in issued : r.sequence.slot = s /\ Validates(r)
    BY <2>1 DEF IInv, MachineInv, ReservationsOK
  <2>3. r.nonce = n
    BY <2>1, <2>2, ValidFacts DEF IInv
  <2>4. r \notin finalised
    BY <2>2 DEF IInv, MachineInv, ReservationsOK
  <2>5. Holds(r)
    BY <2>4 DEF IInv, HeldInv
  <2>6. Finalizing => call.got = <<>>
    BY DEF IInv, HeldInv, CallTyped, Finalizing
  <2>7. r \in HeldReservations
    <3>1. CASE \E b \in batches : \E i \in DOMAIN b : b[i] = r
      BY <3>1 DEF HeldReservations, Range
    <3>2. CASE Finalizing /\ \E i \in DOMAIN call.items : call.items[i] = r
      BY <3>2 DEF HeldReservations, Range
    <3>3. CASE \E i \in DOMAIN call.got : call.got[i] = r
      <4>1. ~Finalizing
        BY <3>3, <2>6
      <4> QED BY <4>1, <3>3 DEF HeldReservations, Range
    <3> QED BY <2>5, <3>1, <3>2, <3>3 DEF Holds
  <2> QED BY <2>3, <2>7
<1> QED BY <1>1, InductiveInvariant, PTL

\* The pages of a record are of committed appends, those of a pending append of its own
\* transaction, which is open.
LEMMA TableLemma ==
    ASSUME MachineInv, NEW s \in Slots, sequences[s].live
    PROVE  LET q == sequences[s]
           IN  /\ q \in Record /\ q.pages \in Seq(PageHandle)
               /\ q.pending.new_pages \in Seq(PageHandle)
               /\ tables[s].pages = q.pages \o q.pending.new_pages
               /\ \A i \in DOMAIN q.pages : transactions[q.pages[i].append] = "committed"
               /\ q.pending # NoPending =>
                    /\ q.pending.nonce \in Nonces /\ transactions[q.pending.nonce] = "open"
                    /\ Reservable(q, q.pending.rows) /\ PendingOK(q, append_nonce)
                    /\ \A i \in DOMAIN q.pending.new_pages :
                         q.pending.new_pages[i] = [append |-> q.pending.nonce, index |-> i]
<1> DEFINE q == sequences[s]
<1>1. q \in Record
  BY DEF MachineInv, RecordsOK
<1>2. q.pages \in Seq(PageHandle) /\ q.pending.new_pages \in Seq(PageHandle)
  BY <1>1, RecordTyped
<1>3. tables[s].pages = q.pages \o q.pending.new_pages
  BY DEF MachineInv, TablesOK
<1>4. \A i \in DOMAIN q.pages : transactions[q.pages[i].append] = "committed"
  BY DEF MachineInv, TransactionsOK
<1>5. ASSUME q.pending # NoPending
      PROVE  /\ q.pending.nonce \in Nonces /\ transactions[q.pending.nonce] = "open"
             /\ Reservable(q, q.pending.rows) /\ PendingOK(q, append_nonce)
             /\ \A i \in DOMAIN q.pending.new_pages :
                  q.pending.new_pages[i] = [append |-> q.pending.nonce, index |-> i]
  <2>1. PICK r \in issued : r.sequence.slot = s /\ Validates(r)
    BY <1>5 DEF MachineInv, ReservationsOK
  <2>2. /\ q.pending.nonce = r.nonce /\ r.nonce \in Nonces /\ Reservable(q, r.rows)
        /\ q.pending.rows = r.rows /\ PendingOK(q, append_nonce)
    BY <2>1, ValidFacts
  <2>3. transactions[q.pending.nonce] = "open"
    BY <2>2, <1>5 DEF MachineInv, TransactionsOK
  <2>4. q.pending.new_pages = NewPages(q, q.pending.rows, q.pending.nonce)
    BY <2>2, Zenon DEF PendingOK
  <2>5. \A i \in DOMAIN NewPages(q, r.rows, r.nonce) :
          NewPages(q, r.rows, r.nonce)[i] = [append |-> r.nonce, index |-> i]
    BY <2>2, NewPagesAre
  <2> HIDE DEF q
  <2> QED BY <2>2, <2>3, <2>4, <2>5
<1> QED BY <1>1, <1>2, <1>3, <1>4, <1>5

\* An element of a concatenation is one of its parts.
LEMMA ConcatElement ==
    ASSUME NEW S, NEW s \in Seq(S), NEW t \in Seq(S), NEW i \in DOMAIN (s \o t)
    PROVE  \/ i \in DOMAIN s /\ (s \o t)[i] = s[i]
           \/ i - Len(s) \in DOMAIN t /\ (s \o t)[i] = t[i - Len(s)]
OBVIOUS

\* A transaction is open while its append is pending, and no published table has a page of
\* one that is neither open for this sequence nor committed.
THEOREM TransactionsCorrect == Spec => []TransactionsExact
<1>1. IInv => TransactionsExact
  <2> SUFFICES ASSUME IInv PROVE TransactionsExact
    OBVIOUS
  <2>1. \A n \in Nonces : transactions[n] = "open" <=> n \in PendingNonces
    BY PendingNoncesAre DEF IInv, MachineInv, TransactionsOK
  <2>2. ASSUME NEW s \in Live, NEW i \in DOMAIN tables[s].pages
        PROVE  LET n == tables[s].pages[i].append
               IN  \/ transactions[n] = "committed"
                   \/ transactions[n] = "open" /\ n = sequences[s].pending.nonce
    <3> DEFINE old == sequences[s].pages
               new == sequences[s].pending.new_pages
    <3>1. s \in Slots /\ sequences[s].live
      BY DEF Live
    <3>2. /\ old \in Seq(PageHandle) /\ new \in Seq(PageHandle)
          /\ tables[s].pages = old \o new
          /\ \A j \in DOMAIN old : transactions[old[j].append] = "committed"
          /\ sequences[s].pending # NoPending =>
               /\ transactions[sequences[s].pending.nonce] = "open"
               /\ \A j \in DOMAIN new : new[j] = [append |-> sequences[s].pending.nonce, index |-> j]
      BY <3>1, TableLemma DEF IInv
    <3>3. new # <<>> => sequences[s].pending # NoPending
      BY NoPendingTyped
    <3> HIDE DEF old, new
    <3>4. \/ i \in DOMAIN old /\ tables[s].pages[i] = old[i]
          \/ i - Len(old) \in DOMAIN new /\ tables[s].pages[i] = new[i - Len(old)]
      BY <2>2, <3>2, ConcatElement
    <3>5. CASE i \in DOMAIN old /\ tables[s].pages[i] = old[i]
      BY <3>2, <3>5
    <3>6. CASE i - Len(old) \in DOMAIN new /\ tables[s].pages[i] = new[i - Len(old)]
      <4>1. sequences[s].pending # NoPending
        BY <3>3, <3>6
      <4>2. tables[s].pages[i].append = sequences[s].pending.nonce
        BY <4>1, <3>2, <3>6
      <4> QED BY <4>1, <4>2, <3>2
    <3> QED BY <3>4, <3>5, <3>6
  <2> QED BY <2>1, <2>2 DEF TransactionsExact
<1> QED BY <1>1, InductiveInvariant, PTL

\* The rows of a pending append, the table it publishes and the pages the backend prepared
\* agree, row by row and page by page.
THEOREM SegmentsCorrect == Spec => []SegmentsExact
<1>1. ASSUME IInv, NEW s \in Live, sequences[s].pending # NoPending
      PROVE  LET q == sequences[s]
                 p == q.pending
             IN  /\ \A k \in 0..(p.rows - 1) : \E i \in DOMAIN p.segments :
                      /\ {j \in DOMAIN p.segments :
                            k - p.segments[j].input_offset \in 0..(p.segments[j].rows - 1)} = {i}
                      /\ p.segments[i].page = tables[s].pages[((q.position + k) \div PageTokens) + 1]
                      /\ p.segments[i].page_offset + k - p.segments[i].input_offset
                           = (q.position + k) % PageTokens
                 /\ Len(p.prepared) = Len(p.segments)
                 /\ \A i \in DOMAIN p.prepared :
                      /\ \A field \in {"page", "page_offset", "input_offset", "rows"} :
                           p.prepared[i][field] = p.segments[i][field]
                      /\ p.prepared[i].existing = (p.prepared[i].page \in Range(q.pages))
  <2> DEFINE q == sequences[s]
             p == q.pending
             rows == p.rows
             new == NewPages(q, rows, p.nonce)
             segs == Segments(q, rows, new)
             list == PreparedPages(q, rows, new)
             N == SegmentCount(q, rows)
             t == TailPages(q)
             old == q.pages
  <2>1. s \in Slots /\ q.live
    BY DEF Live
  <2>2. /\ old \in Seq(PageHandle) /\ tables[s].pages = old \o p.new_pages
        /\ \A i \in DOMAIN old : transactions[old[i].append] = "committed"
        /\ p.nonce \in Nonces /\ transactions[p.nonce] = "open"
        /\ Reservable(q, rows) /\ PendingOK(q, append_nonce)
    BY <2>1, <1>1, TableLemma DEF IInv
  <2>3. p.new_pages = new /\ p.segments = segs /\ p.prepared = list
    BY <2>2, Zenon DEF PendingOK
  <2>4. /\ segs \in Seq(Segment) /\ Len(segs) = N
        /\ \A i \in 1..N : FirstPage(q) + i \in 1..Len(old \o new)
    BY <2>2, SegmentsTyped
  <2>5. /\ list \in Seq(PreparedType) /\ Len(list) = N
        /\ \A i \in 1..N :
             /\ list[i].page = segs[i].page /\ list[i].page_offset = segs[i].page_offset
             /\ list[i].input_offset = segs[i].input_offset /\ list[i].rows = segs[i].rows
             /\ list[i].existing = (i <= t)
    BY <2>2, PreparedIs
  <2>6. /\ new \in Seq(PageHandle)
        /\ \A i \in DOMAIN new : new[i] = [append |-> p.nonce, index |-> i]
    BY <2>2, NewPagesAre
  <2>7. Len(old) = FirstPage(q) + t /\ FirstPage(q) \in Nat /\ t \in {0, 1} /\ N \in Nat
    BY <2>2, PageCounts, PageStarts DEF TailPages
  <2>8. ASSUME NEW k \in 0..(rows - 1)
        PROVE  RowCovered(segs, old \o new, q.position, k)
    <3>1. p.nonce \in Nonces /\ Reservable(q, rows) /\ k \in 0..(rows - 1)
      BY <2>2, <2>8
    <3> HIDE DEF q, p, rows
    <3> QED BY <3>1, SegmentsCover, Zenon
  <2>9. ASSUME NEW i \in 1..N PROVE segs[i].page = (old \o new)[FirstPage(q) + i]
    <3>1. segs[i] \in [page : {(old \o new)[FirstPage(q) + i]}, page_offset : Nat,
                       input_offset : Nat, rows : Nat]
      BY <2>2, SegmentIs
    <3> HIDE DEF segs
    <3> QED BY <3>1
  <2> HIDE DEF q, p, rows, new, segs, list, N, t, old
  <2>10. ASSUME NEW i \in 1..N PROVE list[i].existing = (list[i].page \in Range(old))
    <3> DEFINE m == FirstPage(q) + i
    <3>1. /\ list[i].page = (old \o new)[m] /\ list[i].existing = (i <= t)
          /\ m \in DOMAIN (old \o new) /\ m \in Nat
      <4>1. list[i].page = (old \o new)[m] /\ list[i].existing = (i <= t)
        BY <2>5, <2>9
      <4>2. m \in 1..Len(old \o new)
        BY <2>4
      <4>3. old \o new \in Seq(PageHandle)
        BY <2>2, <2>6, ConcatParts
      <4> HIDE DEF m
      <4> QED BY <4>1, <4>2, <4>3
    <3>2. m <= Len(old) <=> i <= t
      BY <2>7
    <3> HIDE DEF m
    <3>3. \/ m \in DOMAIN old /\ (old \o new)[m] = old[m]
          \/ m - Len(old) \in DOMAIN new /\ (old \o new)[m] = new[m - Len(old)]
      BY <3>1, <2>2, <2>6, ConcatElement
    <3>4. CASE m \in DOMAIN old /\ (old \o new)[m] = old[m]
      <4>1. (i <= t) = TRUE
        BY <3>4, <3>2, <2>2
      <4>2. list[i].page \in Range(old)
        BY <3>1, <3>4 DEF Range
      <4> QED BY <4>1, <4>2, <3>1
    <3>5. CASE m - Len(old) \in DOMAIN new /\ (old \o new)[m] = new[m - Len(old)]
      <4>1. (i <= t) = FALSE
        BY <3>1, <3>5, <3>2, <2>2, <2>6
      <4>2. list[i].page.append = p.nonce
        BY <3>1, <3>5, <2>6
      <4>3. \A j \in DOMAIN old : old[j].append # p.nonce
        BY <2>2
      <4>4. list[i].page \notin Range(old)
        BY <4>2, <4>3 DEF Range
      <4> QED BY <4>1, <4>4, <3>1
    <3> QED BY <3>3, <3>4, <3>5
  <2>11. DOMAIN list = 1..N /\ Len(list) = Len(segs)
    BY <2>4, <2>5
  <2>12. tables[s].pages = old \o new
    BY <2>2, <2>3
  <2>13. \A k \in 0..(rows - 1) : \E i \in DOMAIN segs :
           /\ {j \in DOMAIN segs : k - segs[j].input_offset \in 0..(segs[j].rows - 1)} = {i}
           /\ segs[i].page = tables[s].pages[((q.position + k) \div PageTokens) + 1]
           /\ segs[i].page_offset + k - segs[i].input_offset = (q.position + k) % PageTokens
    BY <2>8, <2>12 DEF RowCovered
  <2>14. \A i \in DOMAIN list :
           /\ \A field \in {"page", "page_offset", "input_offset", "rows"} :
                list[i][field] = segs[i][field]
           /\ list[i].existing = (list[i].page \in Range(old))
    BY <2>5, <2>10, <2>11
  <2> QED BY <2>3, <2>11, <2>13, <2>14, Zenon DEF q, p, rows, old
<1>2. IInv => SegmentsExact
  <2> SUFFICES ASSUME IInv PROVE SegmentsExact
    OBVIOUS
  <2> QED BY <1>1, Zenon DEF SegmentsExact
<1> QED BY <1>2, InductiveInvariant, PTL

\* A call that fails half way gives back, in the order they were supplied, the
\* reservations it did not finalise and no others.
THEOREM BatchErrorCorrect == Spec => BatchErrorExact
<1> DEFINE Exact == Finalizing /\ call' = NoCall =>
                      batches' \ batches =
                        {Filtered(call.items, {i \in DOMAIN call.items :
                                                 call.items[i].nonce \in PendingNonces'})} \ {<<>>}
<1>1. ASSUME IInv, IInv', Next, Finalizing, call' = NoCall
      PROVE  batches' \ batches =
               {Filtered(call.items, {i \in DOMAIN call.items :
                                        call.items[i].nonce \in PendingNonces'})} \ {<<>>}
  <2> DEFINE items == call.items
             K == {i \in DOMAIN items : items[i] \notin finalised}
             list == Filtered(items, K)
  <2>1. /\ items \in Seq(issued) /\ call.kind \in {"commit", "abort"} /\ call.got = <<>>
        /\ \A b \in batches : Disjoint(b, items)
    BY <1>1 DEF IInv, HeldInv, CallTyped, BatchesOK, Finalizing
  <2>2. call' # call /\ call'.kind = "none"
    BY <2>1, <1>1, NoCallTyped
  <2>3. ~Idle /\ ~InLoop("reserve")
    BY <2>1, NoCallTyped DEF Idle, InLoop
  <2>4. call \in [kind : {"none", "reserve", "commit", "abort"},
                  items : Seq(Requests \cup issued), rows : Seq(Nat), sized : BOOLEAN,
                  next : Nat, got : Seq(issued)]
    BY <1>1 DEF IInv, HeldInv, CallTyped
  <2>5. ~ValidateBatch /\ ~FinalizeItem
    BY <2>1, <2>2, <2>4 DEF ValidateBatch, FinalizeItem
  <2>6. RejectBatch \/ FinalizeItemFails \/ BatchDone
    BY <2>3, <2>5, <1>1
       DEF Next, Admit, Finish, CommitOne, AbortOne, ReserveBatch, ReserveItem,
           ReserveItemFails, FinalizeBatch
  <2>7. UNCHANGED Machine /\ issued' = issued /\ finalised' = finalised
    BY <2>6 DEF RejectBatch, FinalizeItemFails, BatchDone, Machine
  <2>8. \A r \in issued : r.nonce \in PendingNonces' <=> r \notin finalised
    <3>1. \A r \in issued : r.nonce \in PendingNonces <=> r \notin finalised
      BY <1>1, PendingUntilFinalised DEF IInv
    <3>2. PendingNonces' = PendingNonces
      BY <2>7 DEF PendingNonces, Live, Machine
    <3> QED BY <3>1, <3>2
  <2>9. K = {i \in DOMAIN items : items[i].nonce \in PendingNonces'}
    <3>1. \A i \in DOMAIN items : items[i] \in issued
      BY <2>1
    <3> QED BY <3>1, <2>8
  <2>10. K \subseteq 1..Len(items) /\ DOMAIN items = 1..Len(items)
    BY <2>1
  <2>11. /\ list = <<>> <=> K = {}
         /\ \A n \in DOMAIN list : \E i \in K : list[n] = items[i]
         /\ \A i \in K : \E n \in DOMAIN list : list[n] = items[i]
    <3> HIDE DEF K, items
    <3>1. Picks(list, items, K)
      BY <2>1, <2>10, FilteredPicks
    <3> HIDE DEF list
    <3> QED BY <3>1, Zenon DEF Picks
  <2>12. K # {} => list \notin batches
    BY <2>1, <2>11 DEF Disjoint
  <2>13. CASE RejectBatch \/ FinalizeItemFails
    <3>1. Return(PendingBatch(items))
      BY <2>13 DEF RejectBatch, FinalizeItemFails
    <3>2. PendingBatch(items) = list
      BY <1>1, PendingBatchIs DEF IInv
    <3>3. batches' = IF list = <<>> THEN batches ELSE batches \cup {list}
      BY <3>1, <3>2 DEF Return
    <3> HIDE DEF list, K, items
    <3>4. batches' \ batches = {list} \ {<<>>}
      BY <3>3, <2>11, <2>12
    <3> QED BY <3>4, <2>9 DEF list, items
  <2>14. CASE BatchDone
    <3>1. batches' = batches
      BY <2>1, <2>14 DEF BatchDone, Return
    <3>2. call.next \in Nat /\ call.next > Len(items)
      BY <2>4, <2>14 DEF BatchDone, AfterLoop
    <3>3. \A i \in DOMAIN items : i < call.next => items[i] \in finalised
      BY <1>1 DEF IInv, HeldInv, LoopsOK
    <3>4. K = {}
      BY <2>10, <3>2, <3>3, <2>1
    <3> HIDE DEF list, K, items
    <3>5. batches' \ batches = {list} \ {<<>>}
      BY <3>1, <3>4, <2>11
    <3> QED BY <3>5, <2>9 DEF list, items
  <2> QED BY <2>6, <2>13, <2>14
<1>2. IInv /\ IInv' /\ [Next]_vars => [Exact]_vars
  BY <1>1
<1> QED BY <1>2, InductiveInvariant, PTL DEF Spec, BatchErrorExact

====
