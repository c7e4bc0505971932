--------------------------- MODULE ValidityProofs ---------------------------
(***************************************************************************)
(* Proofs about what the pages hold: a sequence's table covers exactly its *)
(* position, every page of it is filled as far as the position says, and   *)
(* a page that is not full has a single owner.  From that follow what      *)
(* validate() checks of sequences and entries, and that a sealed page is   *)
(* never written again.                                                    *)
(*                                                                         *)
(* A step changes how far some pages are filled: fresh ones, or pages that *)
(* were not full and that the appending sequence lists (ChangedOK).        *)
(* Everybody else's pages are then as they were, because nobody else lists *)
(* a page that is not full; ChangeValid makes this argument once, for all  *)
(* operations.                                                             *)
(***************************************************************************)
EXTENDS StorageProofs, RecencyProofs

----------------------------------------------------------------------------
(* Page arithmetic. *)

\* Division by the page size, as the bounds of a page.
LEMMA WholePages ==
    ASSUME NEW n \in Nat
    PROVE  /\ n \div PageTokens \in Nat /\ n % PageTokens \in 0..(PageTokens - 1)
           /\ (n \div PageTokens) * PageTokens \in Nat
           /\ (n \div PageTokens) * PageTokens <= n
           /\ n < (n \div PageTokens) * PageTokens + PageTokens
           /\ n % PageTokens = n - (n \div PageTokens) * PageTokens
BY ConfigAssumption

\* Longer runs have no fewer whole pages.
LEMMA WholeMonotone ==
    ASSUME NEW m \in Nat, NEW n \in Nat, m <= n
    PROVE  m \div PageTokens <= n \div PageTokens
BY ConfigAssumption

\* Multiplication by page_tokens is monotone.
LEMMA TokensMonotone ==
    ASSUME NEW m \in Nat, NEW n \in Nat, m <= n
    PROVE  /\ m * PageTokens \in Nat /\ n * PageTokens \in Nat
           /\ m * PageTokens <= n * PageTokens
BY ConfigAssumption

\* The page of a position is the one whose bounds it is in.
LEMMA PageOf ==
    ASSUME NEW a \in Nat, NEW b \in 0..(PageTokens - 1)
    PROVE  /\ a * PageTokens + b \in Nat
           /\ (a * PageTokens + b) \div PageTokens = a
           /\ (a * PageTokens + b) % PageTokens = b
BY ConfigAssumption

\* The whole pages of n tokens, and one more if some tokens are left over.
LEMMA PagesFor ==
    ASSUME NEW n \in Nat
    PROVE  /\ DivCeil(n) = (n \div PageTokens) + (IF Aligned(n) THEN 0 ELSE 1)
           /\ DivCeil(n) \in Nat
<1> DEFINE a == n \div PageTokens
           r == n % PageTokens
<1>1. /\ a \in Nat /\ r \in 0..(PageTokens - 1) /\ n = a * PageTokens + r
      /\ a * PageTokens \in Nat
  <2>1. /\ a \in Nat /\ a * PageTokens \in Nat /\ r = n - a * PageTokens
        /\ r \in 0..(PageTokens - 1)
    BY WholePages
  <2> HIDE DEF a, r
  <2> QED BY <2>1
<1>2. Aligned(n) <=> r = 0
  BY DEF Aligned
<1>3. DivCeil(n) = (n + PageTokens - 1) \div PageTokens
  BY DEF DivCeil
<1> HIDE DEF a, r
<1>4. PageTokens \in Nat \ {0}
  BY ConfigAssumption
<1>5. CASE r = 0
  <2>1. PageTokens - 1 \in 0..(PageTokens - 1)
    BY <1>4
  <2>2. n + PageTokens - 1 = a * PageTokens + (PageTokens - 1)
    BY <1>1, <1>4, <1>5
  <2>3. (n + PageTokens - 1) \div PageTokens = a
    BY <2>1, <2>2, <1>1, PageOf
  <2> QED BY <2>3, <1>1, <1>2, <1>3, <1>5 DEF a
<1>6. CASE r # 0
  <2>1. r - 1 \in 0..(PageTokens - 1) /\ a + 1 \in Nat
    BY <1>1, <1>4, <1>6
  <2>2. (a + 1) * PageTokens = a * PageTokens + PageTokens
    BY <1>1, <1>4
  <2>3. n + PageTokens - 1 = (a + 1) * PageTokens + (r - 1)
    BY <2>2, <1>1, <1>4
  <2>4. (n + PageTokens - 1) \div PageTokens = a + 1
    BY <2>1, <2>3, PageOf
  <2> QED BY <2>1, <2>4, <1>2, <1>3, <1>6 DEF a
<1> QED BY <1>5, <1>6

\* The whole pages of a position are full.
LEMMA RowsBefore ==
    ASSUME NEW n \in Nat, NEW i \in 1..(n \div PageTokens)
    PROVE  RowsInPage(n, i) = PageTokens
<1>1. n \div PageTokens \in Nat /\ (n \div PageTokens) * PageTokens <= n
      /\ (n \div PageTokens) * PageTokens \in Nat
  BY WholePages
<1>2. i \in Nat /\ i <= n \div PageTokens
  BY <1>1
<1>3. i * PageTokens \in Nat /\ i * PageTokens <= (n \div PageTokens) * PageTokens
  BY <1>1, <1>2, TokensMonotone
<1>4. i * PageTokens <= n
  BY <1>1, <1>3
<1> QED BY <1>4 DEF RowsInPage

\* A page past them is not, and holds the rest if it is the next one.
LEMMA RowsAfter ==
    ASSUME NEW n \in Nat, NEW i \in Nat, n \div PageTokens < i
    PROVE  /\ RowsInPage(n, i) = n - (i - 1) * PageTokens
           /\ RowsInPage(n, i) < PageTokens
           /\ i = n \div PageTokens + 1 => RowsInPage(n, i) = n % PageTokens
           /\ (i - 1) * PageTokens \in Nat
<1> DEFINE a == n \div PageTokens
<1>1. /\ a \in Nat /\ a * PageTokens \in Nat /\ n < a * PageTokens + PageTokens
      /\ n % PageTokens = n - a * PageTokens
  BY WholePages
<1>2. a < i
  OBVIOUS
<1> HIDE DEF a
<1>3. PageTokens \in Nat \ {0}
  BY ConfigAssumption
<1>4. i - 1 \in Nat /\ a <= i - 1
  BY <1>1, <1>2
<1>5. (i - 1) * PageTokens \in Nat /\ a * PageTokens <= (i - 1) * PageTokens
  BY <1>1, <1>4, TokensMonotone
<1>6. i * PageTokens = (i - 1) * PageTokens + PageTokens
  BY <1>3, <1>4
<1>7. n < i * PageTokens /\ i * PageTokens \in Nat
  BY <1>1, <1>3, <1>5, <1>6
<1>8. RowsInPage(n, i) = n - (i - 1) * PageTokens
  BY <1>7 DEF RowsInPage
<1>9. RowsInPage(n, i) < PageTokens
  BY <1>1, <1>3, <1>5, <1>8
<1>10. i = a + 1 => RowsInPage(n, i) = n % PageTokens
  <2>1. i = a + 1 => i - 1 = a
    BY <1>1
  <2> QED BY <1>1, <1>8, <2>1
<1> QED BY <1>5, <1>8, <1>9, <1>10 DEF a

\* k whole pages.
LEMMA WholeRun ==
    ASSUME NEW k \in Nat, NEW n, k * PageTokens = n
    PROVE  n \in Nat /\ n \div PageTokens = k /\ Aligned(n) /\ DivCeil(n) = k
<1>1. 0 \in 0..(PageTokens - 1) /\ PageTokens \in Nat
  BY ConfigAssumption
<1>2. k * PageTokens + 0 = n
  BY <1>1
<1>3. n \in Nat /\ n \div PageTokens = k /\ n % PageTokens = 0
  BY <1>1, <1>2, PageOf
<1>4. Aligned(n)
  BY <1>3 DEF Aligned
<1>5. DivCeil(n) = k
  BY <1>3, <1>4, PagesFor
<1> QED BY <1>3, <1>4, <1>5

----------------------------------------------------------------------------
(* The inductive invariant. *)

\* A page is sealed exactly if it is full.
Sealing(pages) ==
    \A p \in DOMAIN pages :
      pages[p].live => pages[p].sealed = (pages[p].valid_tokens = PageTokens)

\* The page in slot p is full.
FullAt(pages, p) == pages[p].valid_tokens = PageTokens

\* A page that is not full has at most one sequence that lists it, and no entry.
Lonely(pages, tabs, keeps) ==
    \A p \in DOMAIN pages : pages[p].live /\ ~FullAt(pages, p) =>
      /\ \A s, t \in DOMAIN tabs : p \in SlotsOf(tabs[s]) /\ p \in SlotsOf(tabs[t]) => s = t
      /\ \A id \in DOMAIN keeps : p \notin SlotsOf(keeps[id])

\* The table covers the position, a pending append fits below the maximum, and pages,
\* pending pages and reservation add up to it.
RecordOK(q) ==
    /\ q.position + q.pending.rows <= q.max_position
    /\ Len(q.pages) = DivCeil(q.position)
    /\ Len(q.pages) + Len(q.pending.new_pages) + q.reserved_pages = DivCeil(q.max_position)

\* The pages of a sequence are filled up to its position, and the pending ones not at all.
FilledTo(pages, q) ==
    /\ \A i \in DOMAIN q.pages : pages[q.pages[i].slot].valid_tokens = RowsInPage(q.position, i)
    /\ \A i \in DOMAIN q.pending.new_pages : pages[q.pending.new_pages[i].slot].valid_tokens = 0

\* An entry holds a number of whole pages.
EntryOK(e) == e.position # 0 /\ Len(e.pages) * PageTokens = e.position

\* All of it.
Valid(c) ==
    /\ Sealing(c.pages)
    /\ Lonely(c.pages, Tabs(c.sequences), Keeps(c.prefixes))
    /\ \A s \in LiveIn(c.sequences) : RecordOK(c.sequences[s]) /\ FilledTo(c.pages, c.sequences[s])
    /\ \A id \in DOMAIN c.prefixes : EntryOK(c.prefixes[id])

----------------------------------------------------------------------------
(* One argument for all operations. *)

\* From c to d at most the pages in the slots `changed' are filled differently: they were
\* not in use, or not full and listed by the sequence s.
ChangedOK(c, d, s, changed) ==
    /\ \A p \in DOMAIN d.pages : d.pages[p].live /\ p \notin changed =>
         /\ p \in DOMAIN c.pages /\ c.pages[p].live
         /\ d.pages[p].valid_tokens = c.pages[p].valid_tokens
         /\ d.pages[p].sealed = c.pages[p].sealed
    /\ \A p \in changed :
         /\ p \in DOMAIN d.pages /\ d.pages[p].live =>
              d.pages[p].sealed = (d.pages[p].valid_tokens = PageTokens)
         /\ p \in DOMAIN c.pages /\ c.pages[p].live =>
              /\ ~FullAt(c.pages, p)
              /\ s \in LiveIn(c.sequences) /\ p \in SlotsOf(Table(c.sequences[s]))
              /\ d.pages[p].valid_tokens >= c.pages[p].valid_tokens

\* At most the record of s is different, and it lists changed or full pages, or what it
\* listed before.
RecordChanged(c, d, s, changed) ==
    /\ \A t \in LiveIn(d.sequences) \ {s} :
         t \in LiveIn(c.sequences) /\ d.sequences[t] = c.sequences[t]
    /\ s \in LiveIn(d.sequences) =>
         /\ RecordOK(d.sequences[s]) /\ FilledTo(d.pages, d.sequences[s])
         /\ \A p \in SlotsOf(Table(d.sequences[s])) :
              \/ p \in changed
              \/ FullAt(d.pages, p)
              \/ s \in LiveIn(c.sequences) /\ p \in SlotsOf(Table(c.sequences[s]))

\* At most the entry id is new, and it holds full pages.
EntryChanged(c, d, id) ==
    /\ \A o \in DOMAIN d.prefixes \ {id} :
         o \in DOMAIN c.prefixes /\ SameEntry(c.prefixes[o], d.prefixes[o])
    /\ id \in DOMAIN d.prefixes =>
         /\ EntryOK(d.prefixes[id])
         /\ \A p \in SlotsOf(d.prefixes[id].pages) : FullAt(d.pages, p)

\* Nobody but s lists a changed page.
LEMMA OthersSpared ==
    ASSUME NEW c, Exact(c), Valid(c), NEW d, NEW s, NEW changed, ChangedOK(c, d, s, changed),
           NEW p \in changed
    PROVE  /\ \A t \in LiveIn(c.sequences) : t # s => p \notin SlotsOf(Table(c.sequences[t]))
           /\ \A id \in DOMAIN c.prefixes : p \notin SlotsOf(c.prefixes[id].pages)
<1>1. \A t \in LiveIn(c.sequences) : p \in SlotsOf(Table(c.sequences[t])) =>
        p \in DOMAIN c.pages /\ c.pages[p].live
  BY DEF Exact, Owned, OwnedParts, Refs, Tabs, Resolves, SlotsOf
<1>2. \A id \in DOMAIN c.prefixes : p \in SlotsOf(c.prefixes[id].pages) =>
        p \in DOMAIN c.pages /\ c.pages[p].live
  BY ZenonT(40) DEF Exact, Owned, OwnedParts, Refs, Keeps, Resolves, SlotsOf
<1>3. p \in DOMAIN c.pages /\ c.pages[p].live =>
        ~FullAt(c.pages, p) /\ s \in LiveIn(c.sequences) /\ p \in SlotsOf(Table(c.sequences[s]))
  BY DEF ChangedOK
<1>4. p \in DOMAIN c.pages /\ c.pages[p].live =>
        /\ \A t \in LiveIn(c.sequences) : p \in SlotsOf(Table(c.sequences[t])) => t = s
        /\ \A id \in DOMAIN c.prefixes : p \notin SlotsOf(c.prefixes[id].pages)
  BY <1>3 DEF Valid, Lonely, Tabs, Keeps
<1> QED BY <1>1, <1>2, <1>4

\* The invariant after such a change.
LEMMA ChangeValid ==
    ASSUME NEW c, Exact(c), Valid(c), NEW d, Exact(d), NEW s, NEW changed, NEW id,
           ChangedOK(c, d, s, changed), RecordChanged(c, d, s, changed), EntryChanged(c, d, id)
    PROVE  Valid(d)
<1>1. Sealing(d.pages)
  <2> SUFFICES ASSUME NEW p \in DOMAIN d.pages, d.pages[p].live
               PROVE  d.pages[p].sealed = (d.pages[p].valid_tokens = PageTokens)
    BY DEF Sealing
  <2>1. CASE p \in changed
    BY <2>1 DEF ChangedOK
  <2>2. CASE p \notin changed
    BY <2>2 DEF ChangedOK, Valid, Sealing
  <2> QED BY <2>1, <2>2
<1>2. Lonely(d.pages, Tabs(d.sequences), Keeps(d.prefixes))
  <2> SUFFICES ASSUME NEW p \in DOMAIN d.pages, d.pages[p].live, ~FullAt(d.pages, p)
               PROVE  /\ \A t, u \in LiveIn(d.sequences) :
                           /\ p \in SlotsOf(Table(d.sequences[t]))
                           /\ p \in SlotsOf(Table(d.sequences[u]))
                           => t = u
                      /\ \A o \in DOMAIN d.prefixes : p \notin SlotsOf(d.prefixes[o].pages)
    BY DEF Lonely, Tabs, Keeps
  <2>1. \A t \in LiveIn(d.sequences) : t # s =>
          t \in LiveIn(c.sequences) /\ d.sequences[t] = c.sequences[t]
    BY DEF RecordChanged
  <2>2. \A o \in DOMAIN d.prefixes : o # id =>
          o \in DOMAIN c.prefixes /\ d.prefixes[o].pages = c.prefixes[o].pages
    BY DEF EntryChanged, SameEntry
  <2>3. id \in DOMAIN d.prefixes => p \notin SlotsOf(d.prefixes[id].pages)
    BY DEF EntryChanged
  <2>4. CASE p \in changed
    <3>1. /\ \A t \in LiveIn(c.sequences) : t # s => p \notin SlotsOf(Table(c.sequences[t]))
          /\ \A o \in DOMAIN c.prefixes : p \notin SlotsOf(c.prefixes[o].pages)
      BY <2>4, OthersSpared
    <3> QED BY <2>1, <2>2, <2>3, <3>1
  <2>5. CASE p \notin changed
    <3>1. p \in DOMAIN c.pages /\ c.pages[p].live /\ ~FullAt(c.pages, p)
      BY <2>5 DEF ChangedOK, FullAt
    <3>2. /\ \A t, u \in LiveIn(c.sequences) :
               /\ p \in SlotsOf(Table(c.sequences[t]))
               /\ p \in SlotsOf(Table(c.sequences[u]))
               => t = u
          /\ \A o \in DOMAIN c.prefixes : p \notin SlotsOf(c.prefixes[o].pages)
      BY <3>1 DEF Valid, Lonely, Tabs, Keeps
    <3>3. s \in LiveIn(d.sequences) /\ p \in SlotsOf(Table(d.sequences[s])) =>
            s \in LiveIn(c.sequences) /\ p \in SlotsOf(Table(c.sequences[s]))
      BY <2>5 DEF RecordChanged
    <3>4. \A t \in LiveIn(d.sequences) : p \in SlotsOf(Table(d.sequences[t])) =>
            t \in LiveIn(c.sequences) /\ p \in SlotsOf(Table(c.sequences[t]))
      BY <2>1, <3>3
    <3> QED BY <2>2, <2>3, <3>2, <3>4
  <2> QED BY <2>4, <2>5
<1>3. ASSUME NEW t \in LiveIn(d.sequences)
      PROVE  RecordOK(d.sequences[t]) /\ FilledTo(d.pages, d.sequences[t])
  <2>1. CASE t = s
    BY <2>1 DEF RecordChanged
  <2>2. CASE t # s
    <3> DEFINE q == c.sequences[t]
    <3>1. t \in LiveIn(c.sequences) /\ d.sequences[t] = q
      BY <2>2 DEF RecordChanged
    <3>2. RecordOK(q) /\ FilledTo(c.pages, q)
      BY <3>1 DEF Valid
    <3>3. q.pages \in Seq(PageId) /\ q.pending.new_pages \in Seq(PageId)
      BY <3>1, ListsTyped DEF Exact
    <3>4. SlotsOf(Table(q)) = SlotsOf(q.pages) \cup SlotsOf(q.pending.new_pages)
      BY <3>3, SlotsJoined DEF Table
    <3>5. \A p \in SlotsOf(Table(q)) : p \in DOMAIN d.pages /\ d.pages[p].live /\ p \notin changed
      <4>1. \A p \in SlotsOf(Table(q)) : p \in DOMAIN d.pages /\ d.pages[p].live
        BY <3>1 DEF Exact, Owned, OwnedParts, Refs, Tabs, Resolves, SlotsOf
      <4>2. \A p \in changed : p \notin SlotsOf(Table(q))
        BY <2>2, <3>1, OthersSpared
      <4> QED BY <4>1, <4>2
    <3>6. \A p \in SlotsOf(Table(q)) : d.pages[p].valid_tokens = c.pages[p].valid_tokens
      BY <3>5 DEF ChangedOK
    <3> HIDE DEF q
    <3>7. /\ \A i \in DOMAIN q.pages : q.pages[i].slot \in SlotsOf(Table(q))
          /\ \A i \in DOMAIN q.pending.new_pages :
               q.pending.new_pages[i].slot \in SlotsOf(Table(q))
      BY <3>4 DEF SlotsOf
    <3>8. FilledTo(d.pages, q)
      BY <3>2, <3>6, <3>7 DEF FilledTo
    <3> QED BY <3>1, <3>2, <3>8
  <2> QED BY <2>1, <2>2
<1>4. ASSUME NEW o \in DOMAIN d.prefixes PROVE EntryOK(d.prefixes[o])
  BY <1>4 DEF EntryChanged, SameEntry, EntryOK, Valid
<1> QED BY <1>1, <1>2, <1>3, <1>4 DEF Valid

\* No page loses tokens or its seal while its handle is valid.
Grows(pages, after) ==
    \A p \in DOMAIN pages :
      pages[p].live /\ p \in DOMAIN after /\ after[p].live
        /\ after[p].generation = pages[p].generation =>
          /\ after[p].valid_tokens >= pages[p].valid_tokens
          /\ pages[p].sealed => after[p].sealed

\* Neither does it after such a change.
LEMMA ChangeGrows ==
    ASSUME NEW c, Exact(c), Valid(c), NEW d, NEW s, NEW changed, ChangedOK(c, d, s, changed)
    PROVE  Grows(c.pages, d.pages)
<1> SUFFICES ASSUME NEW p \in DOMAIN c.pages, c.pages[p].live, p \in DOMAIN d.pages,
                    d.pages[p].live
             PROVE  /\ d.pages[p].valid_tokens >= c.pages[p].valid_tokens
                    /\ c.pages[p].sealed => d.pages[p].sealed
  BY DEF Grows
<1>1. CASE p \in changed
  <2>1. ~FullAt(c.pages, p) /\ d.pages[p].valid_tokens >= c.pages[p].valid_tokens
    BY <1>1 DEF ChangedOK
  <2>2. ~c.pages[p].sealed
    BY <2>1 DEF Valid, Sealing, FullAt
  <2> QED BY <2>1, <2>2
<1>2. CASE p \notin changed
  <2>1. /\ d.pages[p].valid_tokens = c.pages[p].valid_tokens
        /\ d.pages[p].sealed = c.pages[p].sealed
    BY <1>2 DEF ChangedOK
  <2>2. c.pages[p].valid_tokens \in Nat
    BY PagesTyped, ConfigAssumption DEF Exact, PageSlot
  <2> QED BY <2>1, <2>2
<1> QED BY <1>1, <1>2

\* Two steps in which pages grow and keep their handles are one.
LEMMA GrowsChain ==
    ASSUME NEW a, Sound(a), NEW b, Sound(b), NEW c, Sound(c),
           Grows(a.pages, b.pages), Grows(b.pages, c.pages),
           Evolves(a.pages, b.pages), Evolves(b.pages, c.pages)
    PROVE  Grows(a.pages, c.pages)
<1> SUFFICES ASSUME NEW p \in DOMAIN a.pages, a.pages[p].live, p \in DOMAIN c.pages,
                    c.pages[p].live, c.pages[p].generation = a.pages[p].generation
             PROVE  /\ c.pages[p].valid_tokens >= a.pages[p].valid_tokens
                    /\ a.pages[p].sealed => c.pages[p].sealed
  BY DEF Grows
<1>1. p \in DOMAIN b.pages /\ PageKept(a.pages[p], b.pages[p]) /\ PageKept(b.pages[p], c.pages[p])
  BY DEF Evolves
<1>2. /\ a.pages[p].generation \in Nat /\ b.pages[p].generation \in Nat
      /\ c.pages[p].generation \in Nat
  BY <1>1, PagesTyped DEF PageSlot
<1>3. b.pages[p].generation = a.pages[p].generation
  BY <1>1, <1>2 DEF PageKept
<1>4. b.pages[p].live
  BY <1>1, <1>3 DEF PageKept
<1>5. /\ b.pages[p].valid_tokens >= a.pages[p].valid_tokens
      /\ a.pages[p].sealed => b.pages[p].sealed
      /\ c.pages[p].valid_tokens >= b.pages[p].valid_tokens
      /\ b.pages[p].sealed => c.pages[p].sealed
  BY <1>1, <1>3, <1>4 DEF Grows
<1>6. /\ a.pages[p].valid_tokens \in Nat /\ b.pages[p].valid_tokens \in Nat
      /\ c.pages[p].valid_tokens \in Nat
  BY <1>1, PagesTyped, ConfigAssumption DEF PageSlot
<1> QED BY <1>5, <1>6

\* A step that changes no page, or loses some, and loses sequences or entries.
LEMMA SteadyValid ==
    ASSUME NEW c, Exact(c), Valid(c), NEW d, Exact(d), ChangedOK(c, d, 0, {}),
           \A t \in LiveIn(d.sequences) :
             t \in LiveIn(c.sequences) /\ d.sequences[t] = c.sequences[t],
           \A o \in DOMAIN d.prefixes :
             o \in DOMAIN c.prefixes /\ SameEntry(c.prefixes[o], d.prefixes[o])
    PROVE  Valid(d) /\ Grows(c.pages, d.pages)
<1>1. PICK s : s \notin LiveIn(d.sequences)
  <2>1. LiveIn(d.sequences) \subseteq Nat
    BY DEF LiveIn, Exact, Sound, SequencesOK
  <2>2. -1 \notin Nat
    OBVIOUS
  <2> QED BY <2>1, <2>2
<1>2. PICK id : id \notin DOMAIN d.prefixes
  <2>1. DOMAIN d.prefixes \subseteq Nat
    BY DEF Exact, Sound, PrefixesOK
  <2>2. -1 \notin Nat
    OBVIOUS
  <2> QED BY <2>1, <2>2
<1>3. ChangedOK(c, d, s, {})
  BY DEF ChangedOK
<1>4. RecordChanged(c, d, s, {})
  BY <1>1 DEF RecordChanged
<1>5. EntryChanged(c, d, id)
  BY <1>2 DEF EntryChanged
<1>6. Valid(d)
  BY <1>3, <1>4, <1>5, ChangeValid
<1>7. Grows(c.pages, d.pages)
  BY <1>3, ChangeGrows
<1> QED BY <1>6, <1>7

\* An entry is like itself.
LEMMA EntriesSame ==
    ASSUME NEW c, NEW d, d.prefixes = c.prefixes
    PROVE  \A o \in DOMAIN d.prefixes : o \in DOMAIN c.prefixes /\ SameEntry(c.prefixes[o], d.prefixes[o])
BY DEF SameEntry

\* The pages are as they were.
LEMMA PagesUnchanged ==
    ASSUME NEW c, NEW d, d.pages = c.pages, NEW s
    PROVE  ChangedOK(c, d, s, {})
BY DEF ChangedOK

\* Pages that gain references are filled as they were.
LEMMA CountsUnchanged ==
    ASSUME NEW c, Sound(c), NEW d, NEW slots, NEW s,
           \/ d.pages = MoreActive(c.pages, slots)
           \/ d.pages = MorePrefix(c.pages, slots)
    PROVE  /\ ChangedOK(c, d, s, {})
           /\ \A p \in DOMAIN c.pages : d.pages[p].valid_tokens = c.pages[p].valid_tokens
<1>1. \A p \in DOMAIN c.pages : c.pages[p] \in PageSlot
  BY PagesTyped
<1>2. /\ DOMAIN d.pages = DOMAIN c.pages
      /\ \A p \in DOMAIN c.pages : /\ d.pages[p].live = c.pages[p].live
                                   /\ d.pages[p].valid_tokens = c.pages[p].valid_tokens
                                   /\ d.pages[p].sealed = c.pages[p].sealed
  BY <1>1 DEF MoreActive, MorePrefix, PageSlot
<1> QED BY <1>2 DEF ChangedOK

\* What an eviction leaves.
Spared(c, ids, e) ==
    /\ Exact(e) /\ Valid(e) /\ Grows(c.pages, e.pages)
    /\ e.sequences = c.sequences
    /\ e.prefixes = [id \in DOMAIN c.prefixes \ ids |-> c.prefixes[id]]
    /\ ChangedOK(c, e, 0, {}) /\ DOMAIN e.pages = DOMAIN c.pages

\* commit_evictions.
LEMMA EvictionValid ==
    ASSUME NEW c, NEW ids, NEW e, Eviction(c, ids, e), Valid(c)
    PROVE  Spared(c, ids, e)
<1>1. Evicted(c, ids, e)
  BY EvictedOwned
<1>2. PICK n : EvictShape(c, ids, n, e)
  BY <1>1 DEF Evicted
<1>3. /\ Exact(c) /\ Exact(e) /\ e.sequences = c.sequences
      /\ e.prefixes = [id \in DOMAIN c.prefixes \ ids |-> c.prefixes[id]]
  BY <1>1 DEF Evicted, Eviction, Exact
<1>4. \A p \in DOMAIN c.pages : c.pages[p] \in PageSlot
  BY <1>3, PagesTyped DEF Exact
<1>5. /\ DOMAIN e.pages = DOMAIN c.pages
      /\ \A p \in DOMAIN c.pages : e.pages[p] = AfterEviction(c, ids, p)
  BY <1>2 DEF EvictShape
<1>6. ChangedOK(c, e, 0, {})
  <2> SUFFICES ASSUME NEW p \in DOMAIN c.pages, e.pages[p].live
               PROVE  /\ c.pages[p].live
                      /\ e.pages[p].valid_tokens = c.pages[p].valid_tokens
                      /\ e.pages[p].sealed = c.pages[p].sealed
    BY <1>5 DEF ChangedOK
  <2>1. p \notin RetireSlots(c, ids)
    <3>1. \A g : ~VacantPage(g).live
      BY DEF VacantPage
    <3>2. e.pages[p] = AfterEviction(c, ids, p)
      BY <1>5
    <3> QED BY <3>1, <3>2 DEF AfterEviction
  <2>2. e.pages[p] = [c.pages[p] EXCEPT !.prefix_refs = @ - RemovedRefs(c, ids, p)]
    BY <1>5, <2>1 DEF AfterEviction
  <2> QED BY <1>4, <2>2 DEF PageSlot
<1>7. Valid(e) /\ Grows(c.pages, e.pages)
  <2>1. \A t \in LiveIn(e.sequences) : t \in LiveIn(c.sequences) /\ e.sequences[t] = c.sequences[t]
    BY <1>3
  <2>2. \A o \in DOMAIN e.prefixes :
          o \in DOMAIN c.prefixes /\ SameEntry(c.prefixes[o], e.prefixes[o])
    BY <1>3 DEF SameEntry
  <2> QED BY <1>3, <1>6, <2>1, <2>2, SteadyValid
<1> QED BY <1>3, <1>5, <1>6, <1>7 DEF Spared

\* The lists of a live sequence, and the pages they name.
LEMMA TableParts ==
    ASSUME NEW c, Exact(c), NEW s \in LiveIn(c.sequences), NEW q, q = c.sequences[s]
    PROVE  /\ q \in SequenceSlot /\ q.live
           /\ q.pages \in Seq(PageId) /\ q.pending.new_pages \in Seq(PageId)
           /\ SlotsOf(Table(q)) = SlotsOf(q.pages) \cup SlotsOf(q.pending.new_pages)
           /\ \A p \in SlotsOf(Table(q)) : p \in DOMAIN c.pages /\ c.pages[p].live
           /\ \A i \in DOMAIN q.pages : q.pages[i].slot \in SlotsOf(Table(q))
           /\ \A i \in DOMAIN q.pending.new_pages :
                q.pending.new_pages[i].slot \in SlotsOf(Table(q))
           /\ Resolves(c.pages, Table(q))
<1>1. q.pages \in Seq(PageId) /\ q.pending.new_pages \in Seq(PageId)
  BY ListsTyped DEF Exact
<1>2. SlotsOf(Table(q)) = SlotsOf(q.pages) \cup SlotsOf(q.pending.new_pages)
  BY <1>1, SlotsJoined DEF Table
<1>3. q \in SequenceSlot /\ q.live
  BY SequenceParts DEF Exact, Sound, LiveIn
<1>4. Resolves(c.pages, Table(q))
  BY DEF Exact, Owned, OwnedParts, Refs, Tabs
<1>5. \A p \in SlotsOf(Table(q)) : p \in DOMAIN c.pages /\ c.pages[p].live
  BY <1>4 DEF Resolves, SlotsOf
<1>6. /\ \A i \in DOMAIN q.pages : q.pages[i].slot \in SlotsOf(q.pages)
      /\ \A i \in DOMAIN q.pending.new_pages :
           q.pending.new_pages[i].slot \in SlotsOf(q.pending.new_pages)
  BY DEF SlotsOf
<1> QED BY <1>1, <1>2, <1>3, <1>4, <1>5, <1>6

\* A page of an entry is there.
LEMMA EntryParts ==
    ASSUME NEW c, Exact(c), NEW id \in DOMAIN c.prefixes
    PROVE  \A p \in SlotsOf(c.prefixes[id].pages) : p \in DOMAIN c.pages /\ c.pages[p].live
BY ZenonT(40) DEF Exact, Owned, OwnedParts, Refs, Keeps, Resolves, SlotsOf

\* It is full.
LEMMA EntryFull ==
    ASSUME NEW c, Exact(c), Valid(c), NEW id \in DOMAIN c.prefixes
    PROVE  \A p \in SlotsOf(c.prefixes[id].pages) : FullAt(c.pages, p)
<1>1. \A p \in SlotsOf(c.prefixes[id].pages) : p \in DOMAIN c.pages /\ c.pages[p].live
  BY EntryParts
<1> QED BY <1>1 DEF Valid, Lonely, Keeps

\* No sequence, no entry.
LEMMA Nobody ==
    ASSUME NEW c, Exact(c)
    PROVE  -1 \notin LiveIn(c.sequences) /\ -1 \notin DOMAIN c.prefixes
<1>1. LiveIn(c.sequences) \subseteq Nat /\ DOMAIN c.prefixes \subseteq Nat
  BY DEF LiveIn, Exact, Sound, SequencesOK, PrefixesOK
<1>2. -1 \notin Nat
  OBVIOUS
<1> QED BY <1>1, <1>2

----------------------------------------------------------------------------
(* Every operation. *)

\* The step keeps the invariant, and no page loses anything.
StaysValid == Valid(cache') /\ Grows(cache.pages, cache'.pages)

\* Pages and sequences are as they were, and the entries but for their stamps.
LEMMA QuietValid ==
    ASSUME Exact(cache), Valid(cache), Stepped, NEW d, d = cache', d.pages = cache.pages,
           d.sequences = cache.sequences,
           DOMAIN d.prefixes = DOMAIN cache.prefixes,
           \A id \in DOMAIN cache.prefixes : SameEntry(cache.prefixes[id], d.prefixes[id])
    PROVE  StaysValid
<1>1. Exact(d)
  BY DEF Stepped
<1>2. ChangedOK(cache, d, 0, {})
  BY PagesUnchanged
<1>3. Valid(d) /\ Grows(cache.pages, d.pages)
  BY <1>1, <1>2, SteadyValid
<1> QED BY <1>3 DEF StaysValid

\* evict_prefix.
LEMMA EvictPrefixValid ==
    ASSUME IInv, Exact(cache), Valid(cache), NEW id \in DOMAIN cache.prefixes, EvictPrefix(id)
    PROVE  StaysValid
<1>1. PICK d : d = cache'
  OBVIOUS
<1>2. Eviction(cache, {id}, d)
  BY <1>1 DEF Eviction, EvictPrefix, EvictedTo, Exact
<1>3. Valid(d) /\ Grows(cache.pages, d.pages)
  BY <1>2, EvictionValid DEF Spared
<1> QED BY <1>1, <1>3 DEF StaysValid

\* finish.
LEMMA FinishValid ==
    ASSUME IInv, Exact(cache), Valid(cache), Stepped, NEW s \in LiveSequences, Finish(s)
    PROVE  StaysValid
<1> DEFINE q == cache.sequences[s]
           ids == q.pages
           sole == SoleSlots(q)
<1>1. PICK slots \in SetToSeqs(sole) :
        \E later \in Deferrable({cache.pages[p].physical : p \in sole}) :
          cache' = RefreshStats(RemoveSequence(
                  DecrementActiveRefs(RetirePages(cache, slots, Cardinality(later)),
                                      SlotsOf(ids) \ sole), s))
  BY DEF Finish
<1>2. PICK later :
        cache' = RefreshStats(RemoveSequence(
                  DecrementActiveRefs(RetirePages(cache, slots, Cardinality(later)),
                                      SlotsOf(ids) \ sole), s))
  BY <1>1
<1>3. /\ Sound(cache) /\ s \in LiveIn(cache.sequences) /\ AllLive(cache, ids)
  BY DEF IInv, LiveSequences, LiveIn, Finish, CanFinish
<1>4. sole \in SUBSET DOMAIN cache.pages
  BY <1>3 DEF SoleSlots, AllLive, LivePage, SlotsOf
<1>5. Range(slots) = sole
  <2>1. sole \in SUBSET Nat /\ IsFiniteSet(sole)
    BY <1>3, <1>4, ReclaimableBytesInt DEF Sound
  <2> HIDE DEF sole
  <2> QED BY <1>1, <2>1, SeqOfSet
<1> HIDE DEF sole
<1>6. PICK r : r = RefreshStats(RemoveSequence(
                  DecrementActiveRefs(RetirePages(cache, slots, Cardinality(later)),
                                      SlotsOf(ids) \ sole), s))
  OBVIOUS
<1>7. /\ r.pages = AfterFinish(cache.pages, sole, SlotsOf(ids) \ sole)
      /\ r.prefixes = cache.prefixes
      /\ DOMAIN r.sequences = DOMAIN cache.sequences /\ ~r.sequences[s].live
      /\ \A t \in DOMAIN cache.sequences : t # s => r.sequences[t] = cache.sequences[t]
  <2>1. PICK others, count : others = SlotsOf(ids) \ sole /\ count = Cardinality(later)
    OBVIOUS
  <2>2. others \cap sole = {} /\ r = RefreshStats(RemoveSequence(
                  DecrementActiveRefs(RetirePages(cache, slots, count), others), s))
    BY <1>6, <2>1
  <2> HIDE DEF ids
  <2> QED BY <1>3, <1>5, <2>1, <2>2, FinishShape
<1>8. ChangedOK(cache, r, 0, {})
  <2>1. \A p \in DOMAIN cache.pages : cache.pages[p] \in PageSlot
    BY <1>3, PagesTyped
  <2>2. /\ DOMAIN r.pages = DOMAIN cache.pages
        /\ \A p \in DOMAIN cache.pages : r.pages[p].live =>
             /\ cache.pages[p].live
             /\ r.pages[p].valid_tokens = cache.pages[p].valid_tokens
             /\ r.pages[p].sealed = cache.pages[p].sealed
    <3>1. DOMAIN r.pages = DOMAIN cache.pages
      BY <1>7 DEF AfterFinish
    <3>2. ASSUME NEW p \in DOMAIN cache.pages, r.pages[p].live
          PROVE  /\ cache.pages[p].live
                 /\ r.pages[p].valid_tokens = cache.pages[p].valid_tokens
                 /\ r.pages[p].sealed = cache.pages[p].sealed
      <4>1. \A n : ~VacantPage(n).live
        BY DEF VacantPage
      <4>2. p \notin sole
        BY <1>7, <3>2, <4>1 DEF AfterFinish
      <4>3. \/ r.pages[p] = [cache.pages[p] EXCEPT !.active_refs = @ - 1]
            \/ r.pages[p] = cache.pages[p]
        BY <1>7, <4>2 DEF AfterFinish
      <4>4. cache.pages[p] \in PageSlot
        BY <2>1
      <4> QED BY <3>2, <4>3, <4>4 DEF PageSlot
    <3> QED BY <3>1, <3>2
  <2> QED BY <2>2 DEF ChangedOK
<1>9. r = cache'
  BY <1>2, <1>6
<1>10. Exact(r)
  BY <1>9 DEF Stepped
<1>11. \A t \in LiveIn(r.sequences) :
         t \in LiveIn(cache.sequences) /\ r.sequences[t] = cache.sequences[t]
  BY <1>7 DEF LiveIn
<1>12. \A o \in DOMAIN r.prefixes :
         o \in DOMAIN cache.prefixes /\ SameEntry(cache.prefixes[o], r.prefixes[o])
  BY <1>7, EntriesSame
<1>13. Valid(r) /\ Grows(cache.pages, r.pages)
  BY <1>8, <1>10, <1>11, <1>12, SteadyValid
<1> QED BY <1>9, <1>13 DEF StaysValid

\* A poll.
LEMMA PolledValid ==
    ASSUME IInv, Exact(cache), Valid(cache), Stepped, NEW polled, cache' = Reclaimed(polled)
    PROVE  StaysValid
<1>1. PICK d : d = cache'
  OBVIOUS
<1>2. d.pages = cache.pages /\ d.sequences = cache.sequences /\ d.prefixes = cache.prefixes
  BY <1>1, PolledSame, PolledIndex DEF SameIndex
<1>3. \A id \in DOMAIN cache.prefixes : SameEntry(cache.prefixes[id], d.prefixes[id])
  BY <1>2 DEF SameEntry
<1> QED BY <1>1, <1>2, <1>3, QuietValid

\* A lookup hit, and a retention of what is retained.
LEMMA TouchValid ==
    ASSUME IInv, Exact(cache), Valid(cache), Ordered(cache), Stepped,
           NEW id \in DOMAIN cache.prefixes, cache' = Touch(cache, id)
    PROVE  StaysValid
<1>1. PICK d : d = cache'
  OBVIOUS
<1>2. Sound(cache) /\ d = Touch(cache, id)
  BY <1>1 DEF IInv
<1>3. Touched(cache, d)
  BY <1>2, TouchOrdered
<1> QED BY <1>1, <1>3, QuietValid DEF Touched

\* retain_prefix.
LEMMA RetainPrefixValid ==
    ASSUME IInv, Exact(cache), Valid(cache), Ordered(cache), Stepped,
           NEW s \in LiveSequences, NEW n, NEW key, RetainPrefix(s, key, n)
    PROVE  StaysValid
<1>1. PICK ids \in EvictionRuns(cache, {}) : CanEvict(cache, ids) /\ \E e :
        EvictedTo(cache, ids, e) /\ cache' = InsertEntry(e, s, key, n)
  BY DEF RetainPrefix, EvictedTo
<1>2. PICK e : EvictedTo(cache, ids, e) /\ cache' = InsertEntry(e, s, key, n)
  BY <1>1
<1>3. Sound(cache) /\ ids \subseteq DOMAIN cache.prefixes /\ CanRetain(s)
      /\ s \in LiveIn(cache.sequences) /\ key \notin DOMAIN cache.tree
  BY EvictionRunsParts DEF IInv, RetainPrefix, LiveSequences, LiveIn
<1>4. Eviction(cache, ids, e)
  BY <1>1, <1>2, <1>3 DEF Eviction, Exact
<1>spared. Spared(cache, ids, e)
  BY <1>4, EvictionValid
<1>5. /\ Exact(e) /\ Valid(e) /\ Grows(cache.pages, e.pages)
      /\ e.sequences = cache.sequences /\ ChangedOK(cache, e, 0, {})
  BY <1>spared DEF Spared
<1>6. Sound(e) /\ Forgotten(cache, ids, e) /\ Evolves(cache.pages, e.pages)
  BY <1>1, <1>2, <1>3, EvictedForgotten, EvictionKeeping
<1>7. Ordered(e) /\ key \notin DOMAIN e.tree
  BY <1>3, <1>6, ForgottenOrdered DEF Forgotten
<1>8. PICK d : d = cache'
  OBVIOUS
<1>9. d = InsertEntry(e, s, key, n) /\ Exact(d)
  BY <1>2, <1>8 DEF Stepped
<1>10. Inserted(e, s, key, d)
  BY <1>6, <1>7, <1>9, InsertOrdered
<1>11. d.pages = MorePrefix(e.pages, SlotsOf(e.sequences[s].pages)) /\ d.sequences = e.sequences
  BY <1>6, <1>9, InsertEntryShape
<1>12. PICK t : t \notin LiveIn(d.sequences)
  BY <1>9, Nobody
<1>13. /\ ChangedOK(e, d, t, {})
       /\ \A p \in DOMAIN e.pages : d.pages[p].valid_tokens = e.pages[p].valid_tokens
  BY <1>6, <1>11, CountsUnchanged
<1>14. RecordChanged(e, d, t, {})
  BY <1>11, <1>12 DEF RecordChanged
<1> DEFINE q == cache.sequences[s]
<1>15. /\ q.position \in Nat /\ q.position # 0 /\ Aligned(q.position)
       /\ Len(q.pages) = DivCeil(q.position)
  <2>1. q.position \in Nat
    BY <1>3, SequenceParts DEF Sound, LiveIn, SequenceSlot
  <2> QED BY <1>3, <2>1 DEF CanRetain, Valid, RecordOK
<1>16. Len(q.pages) * PageTokens = q.position
  <2> HIDE DEF q
  <2>1. q.position % PageTokens = 0 /\ DivCeil(q.position) = q.position \div PageTokens
    <3>1. DivCeil(q.position) = (q.position \div PageTokens) + 0
      BY <1>15, PagesFor
    <3>2. q.position \div PageTokens \in Nat
      BY <1>15, WholePages
    <3> QED BY <1>15, <3>1, <3>2 DEF Aligned
  <2>2. /\ (q.position \div PageTokens) * PageTokens \in Nat
        /\ q.position % PageTokens = q.position - (q.position \div PageTokens) * PageTokens
    BY <1>15, WholePages
  <2>3. (q.position \div PageTokens) * PageTokens = q.position
    BY <1>15, <2>1, <2>2
  <2> QED BY <1>15, <2>1, <2>3
<1>17. \A p \in SlotsOf(q.pages) : FullAt(d.pages, p)
  <2> SUFFICES ASSUME NEW i \in DOMAIN q.pages PROVE FullAt(d.pages, q.pages[i].slot)
    BY DEF SlotsOf
  <2> DEFINE p == q.pages[i].slot
  <2>1. cache.pages[p].valid_tokens = PageTokens
    BY <1>3 DEF CanRetain
  <2>2. s \in LiveIn(e.sequences) /\ q = e.sequences[s]
    BY <1>3, <1>5
  <2>3. p \in DOMAIN e.pages /\ e.pages[p].live
    BY <1>5, <2>2, TableParts
  <2>4. e.pages[p].valid_tokens = cache.pages[p].valid_tokens
    BY <1>5, <2>3 DEF ChangedOK
  <2> QED BY <1>13, <2>1, <2>3, <2>4 DEF FullAt
<1>18. EntryChanged(e, d, e.next_prefix_id)
  BY <1>5, <1>10, <1>15, <1>16, <1>17 DEF EntryChanged, Inserted, EntryOK
<1>19. Valid(d) /\ Grows(e.pages, d.pages)
  BY <1>5, <1>9, <1>13, <1>14, <1>18, ChangeValid, ChangeGrows
<1>20. Evolves(e.pages, d.pages)
  BY <1>6, <1>11, MorePrefixEvolves
<1>21. Grows(cache.pages, d.pages)
  BY <1>3, <1>5, <1>6, <1>9, <1>19, <1>20, GrowsChain DEF Exact
<1> QED BY <1>8, <1>19, <1>21 DEF StaysValid

\* The record of a new sequence.
LEMMA NewRecordOK ==
    ASSUME NEW x, NEW ids \in Seq(PageId), NEW position \in Nat, NEW reserved \in Nat,
           NEW request, request.max_position \in Nat, position <= request.max_position,
           Len(ids) = DivCeil(position), Len(ids) + reserved = DivCeil(request.max_position),
           NEW q, q = NewRecord(x, ids, position, reserved, request)
    PROVE  /\ RecordOK(q) /\ q.pages = ids /\ q.position = position
           /\ q.pending.new_pages = <<>>
<1>1. /\ q.pages = ids /\ q.position = position /\ q.pending = NoPending
      /\ q.max_position = request.max_position /\ q.reserved_pages = reserved
  BY DEF NewRecord
<1>2. q.pending.rows = 0 /\ q.pending.new_pages = <<>>
  BY <1>1 DEF NoPending
<1>3. q.position + q.pending.rows <= q.max_position
  BY <1>1, <1>2
<1>4. Len(ids) + Len(<<>>) + reserved = DivCeil(request.max_position)
  <2>1. Len(ids) \in Nat /\ Len(<<>>) = 0
    OBVIOUS
  <2> QED BY <2>1
<1>5. Len(q.pages) + Len(q.pending.new_pages) + q.reserved_pages = DivCeil(q.max_position)
  BY <1>1, <1>2, <1>4
<1> QED BY <1>1, <1>2, <1>3, <1>5 DEF RecordOK

\* What an admitted sequence shares: the whole pages of an entry, or nothing.
LEMMA SharedRun ==
    ASSUME NEW c, Exact(c), Valid(c), NEW prefix \in Matches, prefix \subseteq DOMAIN c.prefixes
    PROVE  /\ SharedPages(c, prefix) \in Seq(PageId) /\ PrefixPosition(c, prefix) \in Nat
           /\ Len(SharedPages(c, prefix)) = DivCeil(PrefixPosition(c, prefix))
           /\ \A i \in DOMAIN SharedPages(c, prefix) :
                RowsInPage(PrefixPosition(c, prefix), i) = PageTokens
<1> DEFINE ids == SharedPages(c, prefix)
           start == PrefixPosition(c, prefix)
<1>1. ids \in Seq(PageId) /\ start \in Nat
  BY SharedParts DEF Exact
<1>2. Len(ids) * PageTokens = start
  <2>1. CASE prefix = {}
    <3>1. ids = <<>> /\ start = 0
      BY <2>1 DEF SharedPages, PrefixPosition
    <3>2. Len(<<>>) * PageTokens = 0
      BY ConfigAssumption
    <3> QED BY <3>1, <3>2
  <2>2. ASSUME NEW id, prefix = {id} PROVE Len(ids) * PageTokens = start
    <3>1. ids = c.prefixes[id].pages /\ start = c.prefixes[id].position
          /\ id \in DOMAIN c.prefixes
      BY <2>2 DEF SharedPages, PrefixPosition
    <3> QED BY <3>1 DEF Valid, EntryOK
  <2> QED BY <2>1, <2>2, MatchIs
<1> HIDE DEF ids, start
<1>3. Len(ids) \in Nat /\ DOMAIN ids = 1..Len(ids)
  BY <1>1
<1>4. start \div PageTokens = Len(ids) /\ DivCeil(start) = Len(ids)
  BY <1>2, <1>3, WholeRun
<1>5. \A i \in DOMAIN ids : RowsInPage(start, i) = PageTokens
  BY <1>1, <1>3, <1>4, RowsBefore
<1> QED BY <1>1, <1>4, <1>5 DEF ids, start

\* The entry it shares them with stays, so they are full after the evictions.
LEMMA SharedStay ==
    ASSUME NEW c, NEW prefix \in Matches, prefix \subseteq DOMAIN c.prefixes,
           NEW ids \in EvictionRuns(c, prefix), NEW e, Spared(c, ids, e)
    PROVE  \A p \in SlotsOf(SharedPages(c, prefix)) :
             p \in DOMAIN e.pages /\ e.pages[p].live /\ FullAt(e.pages, p)
<1>1. CASE prefix = {}
  BY <1>1 DEF SharedPages, SlotsOf
<1>2. ASSUME NEW id, prefix = {id}
      PROVE  \A p \in SlotsOf(SharedPages(c, prefix)) :
               p \in DOMAIN e.pages /\ e.pages[p].live /\ FullAt(e.pages, p)
  <2>1. SharedPages(c, prefix) = c.prefixes[id].pages /\ id \in DOMAIN c.prefixes
    BY <1>2 DEF SharedPages
  <2>2. id \notin ids
    BY <1>2, RunsSpare
  <2>3. id \in DOMAIN e.prefixes /\ e.prefixes[id] = c.prefixes[id]
    BY <2>1, <2>2 DEF Spared
  <2>4. Exact(e) /\ Valid(e)
    BY DEF Spared
  <2> QED BY <2>1, <2>3, <2>4, EntryFull, EntryParts
<1> QED BY <1>1, <1>2, MatchIs

\* A sequence that shares full pages is added.
LEMMA SharerValid ==
    ASSUME NEW e, Exact(e), Valid(e), NEW ids \in Seq(PageId), CanShare(e, SlotsOf(ids)),
           NEW position \in Nat, NEW reserved \in Nat,
           NEW request, request.max_position \in Nat, position <= request.max_position,
           Len(ids) = DivCeil(position), Len(ids) + reserved = DivCeil(request.max_position),
           \A p \in SlotsOf(ids) : p \in DOMAIN e.pages /\ e.pages[p].live /\ FullAt(e.pages, p),
           \A i \in DOMAIN ids : RowsInPage(position, i) = PageTokens,
           NEW d, Exact(d),
           d = RefreshStats(InsertSequence(IncrementActiveRefs(e, SlotsOf(ids)), ids,
                                           position, reserved, request))
    PROVE  Valid(d) /\ Grows(e.pages, d.pages)
<1>1. PICK x : x = IncrementActiveRefs(e, SlotsOf(ids))
  OBVIOUS
<1>2. SlotsOf(ids) \subseteq DOMAIN e.pages
  OBVIOUS
<1>3. Sound(x) /\ SameRest(x, e) /\ x.pages = MoreActive(e.pages, SlotsOf(ids))
  BY <1>1, <1>2, SharedTaken, SharedShape DEF Exact
<1>4. PICK s : s = NextSequenceSlot(x)
  OBVIOUS
<1>5. /\ d.pages = x.pages /\ d.prefixes = x.prefixes
      /\ s \notin LiveIn(x.sequences) /\ SequencesWith(x.sequences, s, d.sequences)
      /\ d.sequences[s] = NewRecord(x, ids, position, reserved, request)
      /\ Table(d.sequences[s]) = ids
  BY <1>1, <1>3, <1>4, InsertSequenceShape
<1>6. PICK q : q = d.sequences[s]
  OBVIOUS
<1>7. RecordOK(q) /\ q.pages = ids /\ q.position = position /\ q.pending.new_pages = <<>>
  BY <1>5, <1>6, NewRecordOK
<1>8. /\ ChangedOK(e, d, s, {})
      /\ \A p \in DOMAIN e.pages : d.pages[p].valid_tokens = e.pages[p].valid_tokens
  <2>1. Sound(e) /\ d.pages = MoreActive(e.pages, SlotsOf(ids))
    BY <1>3, <1>5 DEF Exact
  <2> QED BY <2>1, CountsUnchanged
<1>9. \A p \in SlotsOf(ids) : FullAt(d.pages, p)
  BY <1>2, <1>8 DEF FullAt
<1>10. FilledTo(d.pages, q)
  <2>1. \A i \in DOMAIN ids : ids[i].slot \in SlotsOf(ids)
    BY DEF SlotsOf
  <2>2. \A i \in DOMAIN ids : d.pages[ids[i].slot].valid_tokens = RowsInPage(position, i)
    BY <1>9, <2>1 DEF FullAt
  <2>3. DOMAIN q.pending.new_pages = {}
    BY <1>7
  <2> QED BY <1>7, <2>2, <2>3 DEF FilledTo
<1>11. RecordChanged(e, d, s, {})
  <2>1. e.sequences = x.sequences
    BY <1>3 DEF SameRest
  <2>2. \A t \in LiveIn(d.sequences) \ {s} :
          t \in LiveIn(e.sequences) /\ d.sequences[t] = e.sequences[t]
    BY <1>5, <2>1 DEF SequencesWith, LiveIn
  <2> QED BY <1>5, <1>6, <1>7, <1>9, <1>10, <2>2 DEF RecordChanged
<1>12. PICK id : id \notin DOMAIN d.prefixes
  BY Nobody
<1>13. EntryChanged(e, d, id)
  <2>1. d.prefixes = e.prefixes
    BY <1>3, <1>5 DEF SameRest
  <2> QED BY <1>12, <2>1, EntriesSame DEF EntryChanged
<1> QED BY <1>8, <1>11, <1>13, ChangeValid, ChangeGrows

\* admit.
LEMMA AdmitValid ==
    ASSUME IInv, Exact(cache), Valid(cache), Stepped, NEW polled \in SUBSET InPool("deferred"),
           NEW prefix \in Matches, NEW request \in Requests, Admit(polled, prefix, request)
    PROVE  StaysValid
<1>0. PICK c : c = Reclaimed(polled)
  OBVIOUS
<1> DEFINE shared == SharedPages(c, prefix)
           start == PrefixPosition(c, prefix)
           demand == AdmitDemand(c, prefix, request)
<1>1. /\ cache.deferred_pages - Cardinality(polled) \in Nat
      /\ prefix \subseteq DOMAIN c.prefixes /\ Admissible(c, prefix, request)
  BY <1>0 DEF Admit, Admissible
<1>2. /\ Sound(c) /\ Owned(c) /\ c.pages = cache.pages /\ c.sequences = cache.sequences
      /\ c.prefixes = cache.prefixes
  BY <1>0, <1>1, PolledParts, PolledSame, PolledIndex, PolledOwned DEF SameIndex, Exact
<1>3. Exact(c) /\ Valid(c)
  BY <1>2 DEF Exact, Valid
<1>4. PICK ids \in EvictionRuns(c, prefix) : CanEvict(c, ids) /\ \E e :
        /\ EvictedTo(c, ids, e)
        /\ CanShare(e, SlotsOf(shared))
        /\ cache' = RefreshStats(InsertSequence(IncrementActiveRefs(e, SlotsOf(shared)),
                      shared, start, demand.pages, request))
  BY <1>0 DEF Admit, EvictedTo
<1>5. PICK e : /\ EvictedTo(c, ids, e)
               /\ CanShare(e, SlotsOf(shared))
               /\ cache' = RefreshStats(InsertSequence(IncrementActiveRefs(e, SlotsOf(shared)),
                             shared, start, demand.pages, request))
  BY <1>4
<1>6. ids \subseteq DOMAIN c.prefixes
  BY <1>2, EvictionRunsParts
<1>7. Spared(c, ids, e)
  <2>1. Eviction(c, ids, e)
    BY <1>2, <1>4, <1>5, <1>6 DEF Eviction
  <2> QED BY <1>3, <2>1, EvictionValid
<1>8. Evolves(c.pages, e.pages)
  BY <1>2, <1>4, <1>5, <1>6, EvictionKeeping
<1>9. /\ shared \in Seq(PageId) /\ start \in Nat /\ Len(shared) = DivCeil(start)
      /\ \A i \in DOMAIN shared : RowsInPage(start, i) = PageTokens
  BY <1>1, <1>3, SharedRun
<1>10. \A p \in SlotsOf(shared) : p \in DOMAIN e.pages /\ e.pages[p].live /\ FullAt(e.pages, p)
  BY <1>1, <1>4, <1>7, SharedStay
<1>11. request.max_position \in Nat
  BY InputAssumption
<1>12. /\ start <= request.max_position /\ demand.pages \in Nat
       /\ Len(shared) + demand.pages = DivCeil(request.max_position)
  <2>1. demand.pages = DivCeil(request.max_position) - Len(shared)
    BY DEF AdmitDemand, AdmissionDemand, PagesToReserve
  <2>2. start <= request.max_position
    <3>1. request.max_position >= start
      BY <1>1 DEF Admissible
    <3> HIDE DEF start
    <3> QED BY <1>9, <1>11, <3>1
  <2>3. DivCeil(request.max_position) - Len(shared) \in Nat
    BY <1>1 DEF Admissible, PagesToReserve
  <2>4. DivCeil(request.max_position) \in Nat /\ Len(shared) \in Nat
    BY <1>9, <1>11, PagesFor
  <2> HIDE DEF demand, shared, start
  <2> QED BY <2>1, <2>2, <2>3, <2>4
<1>13. PICK d : d = cache'
  OBVIOUS
<1>14. Exact(d) /\ d = RefreshStats(InsertSequence(IncrementActiveRefs(e, SlotsOf(shared)),
                             shared, start, demand.pages, request))
  BY <1>5, <1>13 DEF Stepped
<1>15. Exact(e) /\ Valid(e) /\ Grows(c.pages, e.pages) /\ DOMAIN e.pages = DOMAIN c.pages
  BY <1>7 DEF Spared
<1> HIDE DEF shared, start, demand
<1>16. Valid(d) /\ Grows(e.pages, d.pages)
  BY <1>5, <1>9, <1>10, <1>11, <1>12, <1>14, <1>15, SharerValid
<1>17. Evolves(e.pages, d.pages)
  <2>1. SlotsOf(shared) \subseteq DOMAIN e.pages
    BY <1>10
  <2> QED BY <1>5, <1>9, <1>14, <1>15, <2>1, SharerKeeping DEF Keeping, Exact
<1>18. Grows(c.pages, d.pages)
  BY <1>2, <1>8, <1>14, <1>15, <1>16, <1>17, GrowsChain DEF Exact
<1> QED BY <1>2, <1>13, <1>16, <1>18 DEF StaysValid

\* Pages that are taken are not sealed, and hold as much as was written to them.
LEMMA TakenFilled ==
    ASSUME NEW pages, NEW new, NEW physical, NEW valid, NEW more,
           Taken(pages, new, physical, valid, more)
    PROVE  /\ \A i \in DOMAIN new : more[new[i].slot].valid_tokens = valid
           /\ \A p \in SlotsOf(new) : /\ p \in DOMAIN pages => ~pages[p].live
                                     /\ more[p].valid_tokens = valid /\ ~more[p].sealed
           /\ \A p \in DOMAIN more \ SlotsOf(new) : p \in DOMAIN pages /\ more[p] = pages[p]
<1>1. \A i \in DOMAIN new : /\ new[i].slot \in DOMAIN pages => ~pages[new[i].slot].live
                            /\ more[new[i].slot].valid_tokens = valid
                            /\ ~more[new[i].slot].sealed
  <2> SUFFICES ASSUME NEW i \in DOMAIN new
               PROVE  /\ new[i].slot \in DOMAIN pages => ~pages[new[i].slot].live
                      /\ more[new[i].slot].valid_tokens = valid
                      /\ ~more[new[i].slot].sealed
    OBVIOUS
  <2>1. more[new[i].slot] = PrivatePage(new[i].generation, physical[i], valid)
    BY DEF Taken
  <2>2. new[i].slot \in DOMAIN pages => ~pages[new[i].slot].live
    BY DEF Taken
  <2> QED BY <2>1, <2>2 DEF PrivatePage
<1>2. \A p \in SlotsOf(new) : \E i \in DOMAIN new : p = new[i].slot
  BY DEF SlotsOf
<1>3. \A p \in DOMAIN more \ SlotsOf(new) : p \in DOMAIN pages /\ more[p] = pages[p]
  BY DEF Taken
<1> QED BY <1>1, <1>2, <1>3

\* Nothing else changes.
LEMMA TakenChanged ==
    ASSUME NEW c, NEW d, Exact(d), NEW new, NEW s,
           \A p \in SlotsOf(new) : /\ p \in DOMAIN c.pages => ~c.pages[p].live
                                  /\ d.pages[p].valid_tokens # PageTokens
                                  /\ ~d.pages[p].sealed,
           \A p \in DOMAIN d.pages \ SlotsOf(new) : p \in DOMAIN c.pages /\ d.pages[p] = c.pages[p]
    PROVE  ChangedOK(c, d, s, SlotsOf(new))
<1>1. \A p \in DOMAIN d.pages : d.pages[p].sealed \in BOOLEAN
  BY PagesTyped DEF Exact, PageSlot
<1> QED BY <1>1 DEF ChangedOK

\* What reserve_append takes from the reservation of the sequence.
LEMMA ReservedCounts ==
    ASSUME NEW c, Sound(c), NEW s \in LiveIn(c.sequences), NEW n, NEW rows, NEW new, NEW r,
           r = RefreshStats(ReservedFor(c, s, n, rows, new))
    PROVE  /\ r.sequences[s].max_position = c.sequences[s].max_position
           /\ r.sequences[s].reserved_pages = c.sequences[s].reserved_pages - n
<1> DEFINE x == ReservedFor(c, s, n, rows, new)
           pending == [rows |-> rows, new_pages |-> new]
<1>1. DOMAIN c = Fields /\ c.sequences[s] \in SequenceSlot /\ s \in DOMAIN c.sequences
  BY SequenceParts DEF Sound, LiveIn
<1> HIDE DEF pending
<1>2. /\ DOMAIN x = Fields
      /\ x.sequences = [c.sequences EXCEPT ![s] =
           [c.sequences[s] EXCEPT !.reserved_pages = @ - n, !.pending = pending]]
  BY <1>1 DEF Fields, SequenceSlot, ReservedFor, pending
<1>3. r = RefreshStats(x)
  OBVIOUS
<1> HIDE DEF x
<1>4. r.sequences = x.sequences
  BY <1>2, <1>3, RefreshRest DEF SameRest
<1>5. r.sequences[s] = [c.sequences[s] EXCEPT !.reserved_pages = @ - n, !.pending = pending]
  BY <1>1, <1>2, <1>4
<1> QED BY <1>1, <1>5 DEF SequenceSlot

\* The changed record as the invariant speaks of it.
LEMMA OneRecord ==
    ASSUME NEW sequences, NEW after, NEW s, SequencesWith(sequences, s, after)
    PROVE  \A t \in LiveIn(after) \ {s} :
             t \in LiveIn(sequences) /\ after[t] = sequences[t]
BY DEF SequencesWith, LiveIn

\* reserve_append.
LEMMA ReserveAppendValid ==
    ASSUME IInv, Exact(cache), Valid(cache), Stepped, NEW s \in LiveSequences,
           NEW rows \in Nat, ReserveAppend(s, rows)
    PROVE  StaysValid
<1> DEFINE q == cache.sequences[s]
           n == NewPageCount(cache.sequences[s], rows)
           new == [i \in 1..n |-> FreshPageId(cache, i)]
<1>1. CanReserve(s, rows)
  BY SMTT(40) DEF ReserveAppend
<1>2. PICK physical \in Injection(1..n, InPool("free")) :
        cache' = RefreshStats([InsertPages(cache, physical, 0) EXCEPT
             !.sequences[s].reserved_pages = @ - n,
             !.sequences[s].pending = [rows |-> rows, new_pages |-> new],
             !.stats.reserved_pages = @ - n])
  BY ZenonT(60) DEF ReserveAppend
<1>3. /\ n \in Nat /\ Sound(cache) /\ s \in LiveIn(cache.sequences)
      /\ q.position + rows <= q.max_position
  BY <1>1 DEF CanReserve, IInv, LiveSequences, LiveIn
<1>4. cache' = RefreshStats(ReservedFor(InsertPages(cache, physical, 0), s, n, rows, new))
  BY <1>2 DEF ReservedFor
<1>5. new = FreshIds(cache, n) /\ DOMAIN new = 1..n /\ new \in Seq(PageId) /\ Len(new) = n
  BY <1>3, FreshPageIds DEF FreshIds
<1>6. q.pending = NoPending
  BY <1>1 DEF CanReserve
<1> HIDE DEF n, new
<1>7. physical \in Seq(PhysicalPages) /\ Len(physical) = n
  BY <1>3, AllocatedPages
<1>8. PICK x : x = InsertPages(cache, physical, 0)
  OBVIOUS
<1>9. SameRest(x, cache) /\ Taken(cache.pages, new, physical, 0, x.pages)
  BY <1>3, <1>5, <1>7, <1>8, InsertTaken
<1>10. Sound(x)
  <2>1. 0 \in 0..PageTokens
    BY ConfigAssumption
  <2> QED BY <1>3, <1>7, <1>8, <2>1, InsertPagesSound
<1>11. x.sequences = cache.sequences /\ s \in LiveIn(x.sequences)
  BY <1>3, <1>9 DEF SameRest
<1>12. PICK d : d = cache' /\ d = RefreshStats(ReservedFor(x, s, n, rows, new))
  BY <1>4, <1>8
<1>13. /\ d.pages = x.pages /\ d.prefixes = x.prefixes
       /\ d.next_prefix_id = x.next_prefix_id
       /\ SequencesWith(x.sequences, s, d.sequences)
       /\ d.sequences[s].pages = x.sequences[s].pages
       /\ d.sequences[s].position = x.sequences[s].position
       /\ d.sequences[s].pending = [rows |-> rows, new_pages |-> new]
       /\ d.sequences[s].generation = x.sequences[s].generation
  BY <1>10, <1>11, <1>12, ReservedShape
<1>14. /\ d.sequences[s].max_position = x.sequences[s].max_position
       /\ d.sequences[s].reserved_pages = x.sequences[s].reserved_pages - n
  BY <1>10, <1>11, <1>12, ReservedCounts
<1>15. PICK b : b = d.sequences[s]
  OBVIOUS
<1>16. /\ b.pages = q.pages /\ b.position = q.position /\ b.pending.rows = rows
       /\ b.pending.new_pages = new
       /\ b.max_position = q.max_position /\ b.reserved_pages = q.reserved_pages - n
  BY <1>11, <1>13, <1>14, <1>15
<1>17. /\ q \in SequenceSlot /\ q.pages \in Seq(PageId)
       /\ \A i \in DOMAIN q.pages : q.pages[i].slot \in SlotsOf(Table(q))
       /\ SlotsOf(Table(q)) = SlotsOf(q.pages) \cup SlotsOf(q.pending.new_pages)
       /\ \A p \in SlotsOf(Table(q)) : p \in DOMAIN cache.pages /\ cache.pages[p].live
  BY <1>3, TableParts
<1>18. /\ RecordOK(q) /\ FilledTo(cache.pages, q)
  BY <1>3 DEF Valid
<1>19. Exact(d)
  BY <1>12 DEF Stepped
<1>20. /\ ChangedOK(cache, d, s, SlotsOf(new))
       /\ \A i \in DOMAIN new : d.pages[new[i].slot].valid_tokens = 0
  <2>1. Taken(cache.pages, new, physical, 0, d.pages)
    BY <1>9, <1>13
  <2>2. /\ \A i \in DOMAIN new : d.pages[new[i].slot].valid_tokens = 0
        /\ \A p \in SlotsOf(new) : /\ p \in DOMAIN cache.pages => ~cache.pages[p].live
                                  /\ d.pages[p].valid_tokens = 0 /\ ~d.pages[p].sealed
        /\ \A p \in DOMAIN d.pages \ SlotsOf(new) :
             p \in DOMAIN cache.pages /\ d.pages[p] = cache.pages[p]
    BY <2>1, TakenFilled
  <2>3. 0 # PageTokens
    BY ConfigAssumption
  <2>4. ChangedOK(cache, d, s, SlotsOf(new))
    BY <1>19, <2>2, <2>3, TakenChanged
  <2> QED BY <2>2, <2>4
<1> HIDE DEF q
<1>21. RecordOK(b)
  <2>1. /\ Len(q.pages) \in Nat /\ q.reserved_pages \in Nat /\ q.max_position \in Nat
        /\ DivCeil(q.max_position) \in Nat
    BY <1>17, PagesFor DEF SequenceSlot
  <2>2. Len(q.pages) + 0 + q.reserved_pages = DivCeil(q.max_position)
    <3>1. q.pending.new_pages = <<>> /\ Len(<<>>) = 0
      BY <1>6 DEF NoPending
    <3> QED BY <1>18, <3>1 DEF RecordOK
  <2>3. Len(q.pages) + n + (q.reserved_pages - n) = DivCeil(q.max_position)
    BY <1>3, <2>1, <2>2
  <2>4. Len(b.pages) = DivCeil(b.position)
    BY <1>16, <1>18 DEF RecordOK
  <2>5. b.position + b.pending.rows <= b.max_position
    BY <1>3, <1>16 DEF q
  <2>6. Len(b.pages) + Len(b.pending.new_pages) + b.reserved_pages = DivCeil(b.max_position)
    BY <1>5, <1>16, <2>3
  <2> QED BY <2>4, <2>5, <2>6 DEF RecordOK
<1>22. FilledTo(d.pages, b)
  <2> SUFFICES ASSUME NEW i \in DOMAIN q.pages
               PROVE  d.pages[q.pages[i].slot].valid_tokens = RowsInPage(q.position, i)
    BY <1>16, <1>20 DEF FilledTo
  <2> DEFINE p == q.pages[i].slot
  <2>1. p \in DOMAIN cache.pages /\ cache.pages[p].live
    BY <1>17
  <2>2. p \in DOMAIN d.pages /\ d.pages[p] = cache.pages[p]
    <3>1. p \notin SlotsOf(new)
      BY <1>9, <2>1 DEF Taken, SlotsOf
    <3> QED BY <1>9, <1>13, <2>1, <3>1 DEF Taken
  <2>3. cache.pages[p].valid_tokens = RowsInPage(q.position, i)
    BY <1>18 DEF FilledTo
  <2> QED BY <2>2, <2>3
<1>23. SlotsOf(Table(b)) = SlotsOf(q.pages) \cup SlotsOf(new)
  BY <1>5, <1>16, <1>17, SlotsJoined DEF Table
<1>24. RecordChanged(cache, d, s, SlotsOf(new))
  <2>1. \A t \in LiveIn(d.sequences) \ {s} :
          t \in LiveIn(cache.sequences) /\ d.sequences[t] = cache.sequences[t]
    <3>1. SequencesWith(cache.sequences, s, d.sequences)
      BY <1>11, <1>13
    <3> QED BY <3>1, OneRecord
  <2>2. \A p \in SlotsOf(Table(b)) : p \in SlotsOf(new) \/ p \in SlotsOf(Table(q))
    BY <1>17, <1>23
  <2> QED BY <1>3, <1>15, <1>21, <1>22, <2>1, <2>2 DEF RecordChanged, q
<1>25. PICK id : id \notin DOMAIN d.prefixes
  BY <1>19, Nobody
<1>26. EntryChanged(cache, d, id)
  <2>1. d.prefixes = cache.prefixes
    BY <1>9, <1>13 DEF SameRest
  <2> QED BY <1>25, <2>1, EntriesSame DEF EntryChanged
<1>27. Valid(d) /\ Grows(cache.pages, d.pages)
  BY <1>19, <1>20, <1>24, <1>26, ChangeValid, ChangeGrows
<1> QED BY <1>12, <1>27 DEF StaysValid

\* What the end of commit_append and of abort_append gives back to the reservation.
LEMMA ReleasedCounts ==
    ASSUME NEW c, Sound(c), NEW s \in LiveIn(c.sequences), NEW released, NEW n,
           n = Len(released), NEW r, r = Released(c, s, released)
    PROVE  /\ r.sequences[s].max_position = c.sequences[s].max_position
           /\ r.sequences[s].reserved_pages = c.sequences[s].reserved_pages + n
<1> DEFINE m == RemovePages(c, Slots(released))
           x == [m EXCEPT
                  !.sequences[s].reserved_pages = @ + Len(released),
                  !.sequences[s].pending = NoPending,
                  !.stats.reserved_pages = @ + Len(released)]
<1>1. DOMAIN c = Fields /\ c.sequences[s] \in SequenceSlot /\ s \in DOMAIN c.sequences
  BY SequenceParts DEF Sound, LiveIn
<1>2. DOMAIN m = Fields /\ m.sequences = c.sequences
  BY <1>1 DEF Fields, RemovePages
<1>3. r = RefreshStats(x)
  BY DEF Released
<1> HIDE DEF m
<1>4. /\ DOMAIN x = Fields
      /\ x.sequences = [c.sequences EXCEPT ![s] =
           [c.sequences[s] EXCEPT !.reserved_pages = @ + Len(released), !.pending = NoPending]]
  BY <1>1, <1>2 DEF Fields, SequenceSlot
<1> HIDE DEF x
<1>5. r.sequences = x.sequences
  BY <1>3, <1>4, RefreshRest DEF SameRest
<1>6. r.sequences[s] =
        [c.sequences[s] EXCEPT !.reserved_pages = @ + Len(released), !.pending = NoPending]
  BY <1>1, <1>4, <1>5
<1> QED BY <1>1, <1>6 DEF SequenceSlot

\* Pages that leave the arena are not live, and the others are as they were.
LEMMA WithoutSame ==
    ASSUME NEW pages, NEW slots, NEW after, after = WithoutPages(pages, slots)
    PROVE  /\ DOMAIN after = DOMAIN pages
           /\ \A p \in DOMAIN pages : after[p].live => p \notin slots /\ after[p] = pages[p]
<1>1. \A g : ~VacantPage(g).live
  BY DEF VacantPage
<1>2. DOMAIN after = DOMAIN pages
  BY DEF WithoutPages
<1>3. ASSUME NEW p \in DOMAIN pages, after[p].live
      PROVE  p \notin slots /\ after[p] = pages[p]
  <2>1. p \notin slots
    BY <1>1, <1>3 DEF WithoutPages
  <2>2. after[p] = pages[p]
    BY <2>1 DEF WithoutPages
  <2> QED BY <2>1, <2>2
<1> QED BY <1>2, <1>3

\* abort_append.
LEMMA AbortAppendValid ==
    ASSUME IInv, Exact(cache), Valid(cache), Stepped, NEW s \in LiveSequences, AbortAppend(s)
    PROVE  StaysValid
<1> DEFINE q == cache.sequences[s]
           released == q.pending.new_pages
<1>1. Sound(cache) /\ s \in LiveIn(cache.sequences)
  BY DEF IInv, LiveSequences, LiveIn
<1>2. PICK d : d = cache'
  OBVIOUS
<1>3. d = Released(cache, s, released) /\ Exact(d)
  BY <1>2 DEF AbortAppend, Stepped
<1>4. /\ q \in SequenceSlot /\ q.pages \in Seq(PageId) /\ released \in Seq(PageId)
      /\ \A i \in DOMAIN q.pages : q.pages[i].slot \in SlotsOf(Table(q))
      /\ SlotsOf(Table(q)) = SlotsOf(q.pages) \cup SlotsOf(released)
  BY <1>1, TableParts
<1>5. RecordOK(q) /\ FilledTo(cache.pages, q)
  BY <1>1 DEF Valid
<1>6. q = cache.sequences[s] /\ released = q.pending.new_pages
  OBVIOUS
<1> HIDE DEF q, released
<1>7. /\ d.pages = WithoutPages(cache.pages, SlotsOf(released))
      /\ d.prefixes = cache.prefixes /\ d.next_prefix_id = cache.next_prefix_id
      /\ SequencesWith(cache.sequences, s, d.sequences)
      /\ d.sequences[s].pages = cache.sequences[s].pages
      /\ d.sequences[s].position = cache.sequences[s].position
      /\ d.sequences[s].pending = NoPending
      /\ d.sequences[s].generation = cache.sequences[s].generation
  BY <1>1, <1>3, ReleasedShape
<1>size. PICK k : k = Len(released)
  OBVIOUS
<1>8. /\ d.sequences[s].max_position = cache.sequences[s].max_position
      /\ d.sequences[s].reserved_pages = cache.sequences[s].reserved_pages + k
  BY <1>1, <1>3, <1>size, ReleasedCounts
<1>9. PICK b : b = d.sequences[s]
  OBVIOUS
<1>10. /\ b.pages = q.pages /\ b.position = q.position /\ b.pending = NoPending
       /\ b.max_position = q.max_position
       /\ b.reserved_pages = q.reserved_pages + Len(released)
  BY <1>6, <1>7, <1>8, <1>9, <1>size
<1>11. b.pending.rows = 0 /\ b.pending.new_pages = <<>>
  BY <1>10 DEF NoPending
<1>12. /\ DOMAIN d.pages = DOMAIN cache.pages
       /\ \A p \in DOMAIN cache.pages :
            d.pages[p].live => p \notin SlotsOf(released) /\ d.pages[p] = cache.pages[p]
  BY <1>7, WithoutSame
<1>13. ChangedOK(cache, d, s, {})
  BY <1>12 DEF ChangedOK
<1>14. RecordOK(b)
  <2>1. /\ Len(q.pages) \in Nat /\ Len(released) \in Nat /\ q.reserved_pages \in Nat
        /\ q.position \in Nat /\ q.max_position \in Nat /\ q.pending.rows \in Nat
    BY <1>4 DEF SequenceSlot
  <2>2. /\ q.position + q.pending.rows <= q.max_position
        /\ Len(q.pages) = DivCeil(q.position)
        /\ Len(q.pages) + Len(released) + q.reserved_pages = DivCeil(q.max_position)
    BY <1>5, <1>6 DEF RecordOK
  <2>3. b.position + b.pending.rows <= b.max_position
    BY <1>10, <1>11, <2>1, <2>2
  <2>4. Len(q.pages) + 0 + (q.reserved_pages + Len(released)) = DivCeil(q.max_position)
    BY <2>1, <2>2
  <2>5. Len(b.pending.new_pages) = 0
    BY <1>11
  <2>6. Len(b.pages) + Len(b.pending.new_pages) + b.reserved_pages = DivCeil(b.max_position)
    BY <1>10, <2>4, <2>5
  <2>7. Len(b.pages) = DivCeil(b.position)
    BY <1>10, <2>2
  <2> QED BY <2>3, <2>6, <2>7 DEF RecordOK
<1>15. s \in LiveIn(d.sequences)
  BY <1>7 DEF SequencesWith, LiveIn
<1>16. /\ \A i \in DOMAIN b.pages : b.pages[i].slot \in SlotsOf(Table(b))
       /\ \A p \in SlotsOf(Table(b)) : p \in DOMAIN d.pages /\ d.pages[p].live
       /\ SlotsOf(Table(b)) = SlotsOf(b.pages) \cup SlotsOf(b.pending.new_pages)
  BY <1>3, <1>9, <1>15, TableParts
<1>17. FilledTo(d.pages, b)
  <2>1. DOMAIN b.pending.new_pages = {}
    BY <1>11
  <2>2. \A i \in DOMAIN b.pages : d.pages[b.pages[i].slot] = cache.pages[b.pages[i].slot]
    BY <1>12, <1>16
  <2> QED BY <1>5, <1>10, <2>1, <2>2 DEF FilledTo
<1>18. RecordChanged(cache, d, s, {})
  <2>1. \A t \in LiveIn(d.sequences) \ {s} :
          t \in LiveIn(cache.sequences) /\ d.sequences[t] = cache.sequences[t]
    BY <1>7, OneRecord
  <2>2. SlotsOf(b.pending.new_pages) = {}
    BY <1>11 DEF SlotsOf
  <2>3. \A p \in SlotsOf(Table(b)) : p \in SlotsOf(Table(cache.sequences[s]))
    BY <1>4, <1>6, <1>10, <1>16, <2>2
  <2> QED BY <1>1, <1>9, <1>14, <1>17, <2>1, <2>3 DEF RecordChanged
<1>19. PICK id : id \notin DOMAIN d.prefixes
  BY <1>3, Nobody
<1>20. EntryChanged(cache, d, id)
  BY <1>7, <1>19, EntriesSame DEF EntryChanged
<1>21. Valid(d) /\ Grows(cache.pages, d.pages)
  BY <1>3, <1>13, <1>18, <1>20, ChangeValid, ChangeGrows
<1> QED BY <1>2, <1>21 DEF StaysValid

\* Rows that are appended never make a page hold less.
LEMMA RowsGrow ==
    ASSUME NEW n \in Nat, NEW rows \in Nat, NEW i \in Nat, n \div PageTokens < i
    PROVE  RowsInPage(n, i) < PageTokens /\ RowsInPage(n, i) <= RowsInPage(n + rows, i)
<1>1. /\ RowsInPage(n, i) = n - (i - 1) * PageTokens
      /\ RowsInPage(n, i) < PageTokens
      /\ (i - 1) * PageTokens \in Nat
  BY RowsAfter
<1>2. n + rows \in Nat /\ (n + rows) \div PageTokens \in Nat /\ n \div PageTokens \in Nat
  BY WholePages
<1>3. CASE i <= (n + rows) \div PageTokens
  <2>1. i \in 1..((n + rows) \div PageTokens)
    BY <1>2, <1>3
  <2>2. RowsInPage(n + rows, i) = PageTokens
    BY <1>2, <2>1, RowsBefore
  <2> QED BY <1>1, <2>2, ConfigAssumption
<1>4. CASE ~(i <= (n + rows) \div PageTokens)
  <2>1. (n + rows) \div PageTokens < i
    BY <1>2, <1>4
  <2>2. RowsInPage(n + rows, i) = (n + rows) - (i - 1) * PageTokens
    BY <1>2, <2>1, RowsAfter
  <2> QED BY <1>1, <2>2
<1> QED BY <1>3, <1>4

\* What commit_append leaves of the record but for pages and position.
LEMMA CommittedCounts ==
    ASSUME NEW c, Sound(c), NEW s \in LiveIn(c.sequences), NEW table, NEW rows, NEW x,
           x = WithTable(c, s, table, rows)
    PROVE  /\ x.sequences[s].max_position = c.sequences[s].max_position
           /\ x.sequences[s].reserved_pages = c.sequences[s].reserved_pages
<1> DEFINE b == [c.sequences[s] EXCEPT !.pages = table, !.position = @ + rows]
<1>1. DOMAIN c = Fields /\ c.sequences[s] \in SequenceSlot /\ s \in DOMAIN c.sequences
  BY SequenceParts DEF Sound, LiveIn
<1>2. x.sequences = [c.sequences EXCEPT ![s] = b]
  BY <1>1 DEF Fields, SequenceSlot, WithTable
<1>3. b.max_position = c.sequences[s].max_position /\ b.reserved_pages = c.sequences[s].reserved_pages
  BY <1>1 DEF SequenceSlot
<1> HIDE DEF b
<1> QED BY <1>1, <1>2, <1>3

\* The pages commit_append marks are filled as the new position says, and the others are
\* as they were.
LEMMA MarkedPages ==
    ASSUME NEW c, Sound(c), NEW q, NEW table, NEW rows, NEW span, span = CommittedSpan(q, rows),
           NEW position, position = q.position + rows, NEW m, m = MarkCommitted(c, q, table, rows)
    PROVE  \A p \in DOMAIN c.pages :
             \/ /\ \A i \in span : table[i].slot # p
                /\ m.pages[p] = c.pages[p]
             \/ \E i \in span : /\ table[i].slot = p
                                /\ m.pages[p].valid_tokens = RowsInPage(position, i)
                                /\ m.pages[p].sealed = (m.pages[p].valid_tokens = PageTokens)
<1> DEFINE index(p) == CHOOSE i \in span : table[i].slot = p
           valid(p) == RowsInPage(position, index(p))
<1>1. DOMAIN c = Fields /\ \A p \in DOMAIN c.pages : c.pages[p] \in PageSlot
  BY PagesTyped DEF Sound
<1>2. m.pages = [p \in DOMAIN c.pages |->
                   IF \E i \in span : table[i].slot = p
                   THEN [c.pages[p] EXCEPT !.valid_tokens = valid(p),
                                           !.sealed = (valid(p) = PageTokens)]
                   ELSE c.pages[p]]
  BY <1>1, Zenon DEF Fields, MarkCommitted
<1> SUFFICES ASSUME NEW p \in DOMAIN c.pages, \E i \in span : table[i].slot = p
             PROVE  \E i \in span : /\ table[i].slot = p
                                    /\ m.pages[p].valid_tokens = RowsInPage(position, i)
                                    /\ m.pages[p].sealed = (m.pages[p].valid_tokens = PageTokens)
  BY <1>2
<1>3. index(p) \in span /\ table[index(p)].slot = p
  OBVIOUS
<1>4. PICK v : v = valid(p)
  OBVIOUS
<1>5. m.pages[p] = [c.pages[p] EXCEPT !.valid_tokens = v, !.sealed = (v = PageTokens)]
  BY <1>2, <1>4
<1>6. v = RowsInPage(position, index(p))
  BY <1>4
<1> HIDE DEF index, valid
<1>7. c.pages[p] \in PageSlot
  BY <1>1
<1>8. m.pages[p].valid_tokens = v /\ m.pages[p].sealed = (v = PageTokens)
  BY <1>5, <1>7 DEF PageSlot
<1> QED BY <1>3, <1>6, <1>8

\* The length of two lists put together.
LEMMA JoinedSize ==
    ASSUME NEW S, NEW a \in Seq(S), NEW b \in Seq(S)
    PROVE  a \o b \in Seq(S) /\ Len(a \o b) = Len(a) + Len(b)
OBVIOUS

\* The table of the record q after commit_append, and what is given back.
CommitTable(q, rows, table, released) ==
    /\ table \in Seq(PageId) /\ Len(table) = DivCeil(q.position + rows)
    /\ released \in Seq(PageId)
    /\ Len(table) + 0 + (q.reserved_pages + Len(released)) = DivCeil(q.max_position)
    /\ q.position + rows <= q.max_position
    /\ CommittedSpan(q, rows) = (q.position \div PageTokens + 1)..Len(table)
    /\ 1..(q.position \div PageTokens) \subseteq DOMAIN q.pages
    /\ \A i \in DOMAIN table :
         \/ i \in DOMAIN q.pages /\ table[i] = q.pages[i]
         \/ \E j \in DOMAIN q.pending.new_pages : table[i] = q.pending.new_pages[j]
    /\ \A i \in DOMAIN q.pages : i \in DOMAIN table /\ table[i] = q.pages[i]

\* A list cut in two.
LEMMA SplitParts ==
    ASSUME NEW S, NEW ids \in Seq(S), NEW n \in Nat, n <= Len(ids)
    PROVE  /\ SubSeq(ids, 1, n) \in Seq(S) /\ Len(SubSeq(ids, 1, n)) = n
           /\ SubSeq(ids, n + 1, Len(ids)) \in Seq(S)
           /\ Len(SubSeq(ids, n + 1, Len(ids))) = Len(ids) - n
           /\ \A j \in 1..n : SubSeq(ids, 1, n)[j] = ids[j] /\ j \in DOMAIN ids
<1>1. PICK m : m = Len(ids)
  OBVIOUS
<1>2. m \in Nat /\ n <= m /\ DOMAIN ids = 1..m /\ \A j \in 1..m : ids[j] \in S
  BY <1>1
<1>3. /\ SubSeq(ids, 1, n) \in Seq(S) /\ Len(SubSeq(ids, 1, n)) = n
      /\ \A j \in 1..n : SubSeq(ids, 1, n)[j] = ids[j] /\ j \in DOMAIN ids
  BY <1>2
<1>4. SubSeq(ids, n + 1, m) \in Seq(S) /\ Len(SubSeq(ids, n + 1, m)) = m - n
  BY <1>2
<1> QED BY <1>1, <1>3, <1>4

\* The table commit_append makes is one.
LEMMA CommitSizes ==
    ASSUME NEW q \in SequenceSlot, RecordOK(q), NEW rows \in Nat, rows <= q.pending.rows,
           NewPageCount(q, rows) \in 0..Len(q.pending.new_pages),
           NEW table, table = q.pages \o KeptPages(q, rows),
           NEW released, released = ReleasedPages(q, rows)
    PROVE  CommitTable(q, rows, table, released)
<1> DEFINE new == q.pending.new_pages
           n == NewPageCount(q, rows)
           kept == SubSeq(new, 1, n)
<1>1. /\ q.pages \in Seq(PageId) /\ new \in Seq(PageId) /\ q.position \in Nat
      /\ q.max_position \in Nat /\ q.reserved_pages \in Nat /\ q.pending.rows \in Nat
  BY DEF SequenceSlot
<1>2. Len(q.pages) \in Nat /\ DOMAIN q.pages = 1..Len(q.pages) /\ Len(new) \in Nat
      /\ DOMAIN new = 1..Len(new)
  BY <1>1
<1>3. n \in 0..Len(new) /\ n = DivCeil(q.position + rows) - Len(q.pages)
      /\ table = q.pages \o kept /\ released = SubSeq(new, n + 1, Len(new))
  BY DEF NewPageCount, KeptPages, ReleasedPages
<1>4. /\ q.position + q.pending.rows <= q.max_position
      /\ Len(q.pages) = DivCeil(q.position)
      /\ Len(q.pages) + Len(new) + q.reserved_pages = DivCeil(q.max_position)
  BY DEF RecordOK
<1>5. /\ DivCeil(q.position) \in Nat /\ DivCeil(q.position + rows) \in Nat
      /\ DivCeil(q.max_position) \in Nat
  <2>1. PICK a : a = q.position + rows
    OBVIOUS
  <2>2. a \in Nat
    BY <1>1, <2>1
  <2>3. DivCeil(a) \in Nat
    BY <2>2, PagesFor
  <2>4. DivCeil(q.position) \in Nat /\ DivCeil(q.max_position) \in Nat
    BY <1>1, PagesFor
  <2> QED BY <2>1, <2>3, <2>4
<1>6. q.position \div PageTokens \in Nat /\ q.position \div PageTokens <= Len(q.pages)
  <2>1. q.position \div PageTokens \in Nat
    BY <1>1, WholePages
  <2>2. DivCeil(q.position) = (q.position \div PageTokens) + (IF Aligned(q.position) THEN 0 ELSE 1)
    BY <1>1, PagesFor
  <2> QED BY <1>4, <2>1, <2>2
<1> HIDE DEF n
<1>7. /\ kept \in Seq(PageId) /\ Len(kept) = n
      /\ released \in Seq(PageId) /\ Len(released) = Len(new) - n
      /\ \A j \in 1..n : kept[j] = new[j] /\ j \in DOMAIN new
  <2> HIDE DEF new
  <2>1. n \in Nat /\ n <= Len(new)
    BY <1>2, <1>3
  <2>2. PICK m, w : m = n /\ w = new
    OBVIOUS
  <2>3. m \in Nat /\ w \in Seq(PageId) /\ m <= Len(w)
    BY <1>1, <2>1, <2>2
  <2>4. /\ SubSeq(w, 1, m) \in Seq(PageId) /\ Len(SubSeq(w, 1, m)) = m
        /\ SubSeq(w, m + 1, Len(w)) \in Seq(PageId)
        /\ Len(SubSeq(w, m + 1, Len(w))) = Len(w) - m
        /\ \A j \in 1..m : SubSeq(w, 1, m)[j] = w[j] /\ j \in DOMAIN w
    BY <2>3, SplitParts
  <2>5. kept = SubSeq(w, 1, m) /\ released = SubSeq(w, m + 1, Len(w))
    BY <1>3, <2>2
  <2> QED BY <2>2, <2>4, <2>5
<1> HIDE DEF new, kept
<1>8. /\ table \in Seq(PageId) /\ Len(table) = Len(q.pages) + n
      /\ DOMAIN table = 1..(Len(q.pages) + n)
  <2>1. PICK a : a = q.pages
    OBVIOUS
  <2>2. PICK b : b = kept
    OBVIOUS
  <2>3. a \in Seq(PageId) /\ b \in Seq(PageId) /\ Len(b) = n
    BY <1>1, <1>7, <2>1, <2>2
  <2>4. a \o b \in Seq(PageId) /\ Len(a \o b) = Len(a) + Len(b)
    BY <2>3, JoinedSize
  <2>5. table = a \o b
    BY <1>3, <2>1, <2>2
  <2>6. table \in Seq(PageId) /\ Len(table) = Len(a) + n
    BY <2>3, <2>4, <2>5
  <2> QED BY <2>1, <2>6
<1>9. Len(table) = DivCeil(q.position + rows)
  <2>1. PICK a, b, k : a = Len(q.pages) /\ b = DivCeil(q.position + rows) /\ k = n
    OBVIOUS
  <2>2. a \in Nat /\ b \in Nat /\ k = b - a
    BY <1>2, <1>3, <1>5, <2>1
  <2>3. Len(table) = a + k
    BY <1>8, <2>1
  <2>4. a + k = b
    BY <2>2
  <2> QED BY <2>1, <2>3, <2>4
<1>10. Len(table) + 0 + (q.reserved_pages + Len(released)) = DivCeil(q.max_position)
  <2>1. PICK a, b, c, d, k : /\ a = Len(q.pages) /\ b = Len(new) /\ c = q.reserved_pages
                             /\ d = DivCeil(q.max_position) /\ k = n
    OBVIOUS
  <2>2. a \in Nat /\ b \in Nat /\ c \in Nat /\ k \in 0..b /\ a + b + c = d
    BY <1>1, <1>2, <1>3, <1>4, <2>1 DEF new
  <2>3. Len(table) = a + k /\ Len(released) = b - k
    BY <1>7, <1>8, <2>1
  <2>4. (a + k) + 0 + (c + (b - k)) = d
    BY <2>2
  <2> QED BY <2>1, <2>3, <2>4
<1>11. q.position + rows <= q.max_position
  BY <1>1, <1>4
<1>12. CommittedSpan(q, rows) = (q.position \div PageTokens + 1)..Len(table)
  BY <1>9 DEF CommittedSpan
<1>13. 1..(q.position \div PageTokens) \subseteq DOMAIN q.pages
  BY <1>2, <1>6
<1>14. /\ \A i \in DOMAIN (q.pages \o kept) :
            \/ i \in DOMAIN q.pages /\ (q.pages \o kept)[i] = q.pages[i]
            \/ i - Len(q.pages) \in DOMAIN kept /\ (q.pages \o kept)[i] = kept[i - Len(q.pages)]
       /\ \A i \in DOMAIN q.pages :
            i \in DOMAIN (q.pages \o kept) /\ (q.pages \o kept)[i] = q.pages[i]
  BY <1>1, <1>7, SlotsJoined
<1>15. DOMAIN kept = 1..n
  BY <1>7
<1>16. /\ \A i \in DOMAIN table :
            \/ i \in DOMAIN q.pages /\ table[i] = q.pages[i]
            \/ \E j \in DOMAIN new : table[i] = new[j]
       /\ \A i \in DOMAIN q.pages : i \in DOMAIN table /\ table[i] = q.pages[i]
  BY <1>3, <1>7, <1>14, <1>15
<1> QED BY <1>7, <1>8, <1>9, <1>10, <1>11, <1>12, <1>13, <1>16 DEF new, CommitTable

\* Every page of d was in c; those that the pages `span' of the table are in are filled up to
\* the position, and the others are as they were.
Marking(pages, after, table, span, position) ==
    \A p \in DOMAIN after : after[p].live =>
      /\ p \in DOMAIN pages /\ pages[p].live
      /\ \/ /\ \A i \in span : table[i].slot # p
            /\ after[p] = pages[p]
         \/ \E i \in span : /\ table[i].slot = p
                            /\ after[p].valid_tokens = RowsInPage(position, i)
                            /\ after[p].sealed = (after[p].valid_tokens = PageTokens)

\* The slots of some of the pages of a table.
SlotsIn(table, span) == {table[i].slot : i \in span}

\* The pages of the table are then filled up to the position.
LEMMA CommitFilled ==
    ASSUME NEW c, Exact(c), Valid(c), NEW s \in LiveIn(c.sequences), NEW q, q = c.sequences[s],
           NEW rows \in Nat, NEW position, position = q.position + rows,
           NEW d, Exact(d), s \in LiveIn(d.sequences), NEW b, b = d.sequences[s],
           NEW table, NEW released, CommitTable(q, rows, table, released),
           b.pages = table, b.position = position, b.pending = NoPending,
           NEW span, span = CommittedSpan(q, rows),
           Marking(c.pages, d.pages, table, span, position),
           NEW changed, changed = SlotsIn(table, span)
    PROVE  /\ FilledTo(d.pages, b)
           /\ ChangedOK(c, d, s, changed)
           /\ \A p \in SlotsOf(Table(b)) : p \in SlotsOf(Table(q))
<1>1. /\ q \in SequenceSlot
      /\ \A i \in DOMAIN q.pages : q.pages[i].slot \in SlotsOf(Table(q))
      /\ \A i \in DOMAIN q.pending.new_pages : q.pending.new_pages[i].slot \in SlotsOf(Table(q))
  BY TableParts
<1>2. FilledTo(c.pages, q)
  BY DEF Valid
<1>3. q.position \in Nat /\ position \in Nat /\ q.position <= position
  BY <1>1, SMTT(30) DEF SequenceSlot
<1>4. q.position \div PageTokens \in Nat /\ q.position \div PageTokens <= position \div PageTokens
  BY <1>3, WholePages, WholeMonotone
<1>table. /\ table \in Seq(PageId) /\ span = (q.position \div PageTokens + 1)..Len(table)
          /\ 1..(q.position \div PageTokens) \subseteq DOMAIN q.pages
          /\ \A i \in DOMAIN table :
               \/ i \in DOMAIN q.pages /\ table[i] = q.pages[i]
               \/ \E j \in DOMAIN q.pending.new_pages : table[i] = q.pending.new_pages[j]
          /\ \A i \in DOMAIN q.pages : i \in DOMAIN table /\ table[i] = q.pages[i]
  BY DEF CommitTable
<1>slots. changed = {table[i].slot : i \in span}
  BY DEF SlotsIn
<1>5. DOMAIN table = 1..Len(table) /\ Len(table) \in Nat
  BY <1>table
<1>6. \A i \in span : i \in DOMAIN table /\ i \in Nat /\ q.position \div PageTokens < i
  <2>1. PICK a : a = q.position \div PageTokens
    OBVIOUS
  <2>2. a \in Nat /\ span = (a + 1)..Len(table)
    BY <1>4, <1>table, <2>1
  <2> QED BY <1>5, <2>1, <2>2
<1>7. \A i \in DOMAIN table : i \notin span =>
        i \in 1..(q.position \div PageTokens) /\ i \in 1..(position \div PageTokens)
  <2>1. PICK a : a = q.position \div PageTokens
    OBVIOUS
  <2>2. PICK e : e = position \div PageTokens
    OBVIOUS
  <2>3. a \in Nat /\ span = (a + 1)..Len(table) /\ a <= e /\ e \in Nat
    BY <1>3, <1>4, <1>table, <2>1, <2>2, WholePages
  <2> QED BY <1>5, <2>1, <2>2, <2>3
<1>8. Table(b) = table
  <2>1. Table(b) = table \o <<>>
    BY DEF Table, NoPending
  <2> QED BY <1>table, <2>1
<1>9. Resolves(d.pages, table)
  BY <1>8, TableParts
<1>10. /\ \A i \in DOMAIN table : table[i].slot \in DOMAIN d.pages /\ d.pages[table[i].slot].live
       /\ \A i, j \in DOMAIN table : table[i].slot = table[j].slot => i = j
  BY <1>9 DEF Resolves
<1>11. ASSUME NEW i \in span
       PROVE  /\ d.pages[table[i].slot].valid_tokens = RowsInPage(position, i)
              /\ d.pages[table[i].slot].sealed
                   = (d.pages[table[i].slot].valid_tokens = PageTokens)
  <2>1. PICK p : p = table[i].slot
    OBVIOUS
  <2>2. p \in DOMAIN d.pages /\ d.pages[p].live
    BY <1>6, <1>10, <2>1
  <2>3. PICK j \in span : /\ table[j].slot = p
                          /\ d.pages[p].valid_tokens = RowsInPage(position, j)
                          /\ d.pages[p].sealed = (d.pages[p].valid_tokens = PageTokens)
    BY <2>1, <2>2 DEF Marking
  <2>4. j = i
    BY <1>6, <1>10, <2>1, <2>3
  <2> QED BY <2>1, <2>3, <2>4
<1>12. ASSUME NEW i \in DOMAIN table, i \notin span
       PROVE  d.pages[table[i].slot].valid_tokens = RowsInPage(position, i)
  <2>1. PICK p : p = table[i].slot
    OBVIOUS
  <2>2. p \in DOMAIN d.pages /\ d.pages[p].live
    BY <1>10, <2>1
  <2>3. \A j \in span : table[j].slot # p
    BY <1>6, <1>10, <1>12, <2>1
  <2>4. d.pages[p] = c.pages[p]
    BY <2>2, <2>3 DEF Marking
  <2>5. i \in 1..(q.position \div PageTokens) /\ i \in 1..(position \div PageTokens)
    BY <1>7, <1>12
  <2>6. RowsInPage(q.position, i) = PageTokens /\ RowsInPage(position, i) = PageTokens
    BY <1>3, <2>5, RowsBefore
  <2>7. i \in DOMAIN q.pages /\ table[i] = q.pages[i]
    BY <1>table, <2>5
  <2>8. c.pages[p].valid_tokens = RowsInPage(q.position, i)
    BY <1>2, <2>1, <2>7 DEF FilledTo
  <2> QED BY <2>1, <2>4, <2>6, <2>8
<1>13. FilledTo(d.pages, b)
  <2>1. DOMAIN b.pending.new_pages = {}
    BY DEF NoPending
  <2>2. \A i \in DOMAIN table : d.pages[table[i].slot].valid_tokens = RowsInPage(position, i)
    BY <1>11, <1>12
  <2> QED BY <2>1, <2>2 DEF FilledTo
<1>14. ChangedOK(c, d, s, changed)
  <2>1. ASSUME NEW p \in DOMAIN d.pages, d.pages[p].live, p \notin changed
        PROVE  p \in DOMAIN c.pages /\ c.pages[p].live /\ d.pages[p] = c.pages[p]
    BY <1>slots, <2>1 DEF Marking
  <2>2. ASSUME NEW i \in span, NEW p, p = table[i].slot
        PROVE  /\ d.pages[p].sealed = (d.pages[p].valid_tokens = PageTokens)
               /\ ~FullAt(c.pages, p)
               /\ p \in SlotsOf(Table(c.sequences[s]))
               /\ d.pages[p].valid_tokens >= c.pages[p].valid_tokens
    <3>1. i \in DOMAIN table /\ i \in Nat /\ q.position \div PageTokens < i
      BY <1>6
    <3>2. d.pages[p].valid_tokens = RowsInPage(position, i)
          /\ d.pages[p].sealed = (d.pages[p].valid_tokens = PageTokens)
      BY <1>11, <2>2
    <3>3. CASE i \in DOMAIN q.pages /\ table[i] = q.pages[i]
      <4>1. c.pages[p].valid_tokens = RowsInPage(q.position, i)
        BY <1>2, <2>2, <3>3 DEF FilledTo
      <4>2. RowsInPage(q.position, i) < PageTokens
            /\ RowsInPage(q.position, i) <= RowsInPage(q.position + rows, i)
        BY <1>3, <3>1, RowsGrow
      <4>3. p \in SlotsOf(Table(q))
        BY <1>1, <2>2, <3>3
      <4>4. p \in DOMAIN c.pages /\ c.pages[p] \in PageSlot /\ d.pages[p] \in PageSlot
        <5>1. p \in DOMAIN d.pages /\ d.pages[p].live
          BY <1>10, <2>2, <3>1
        <5>2. p \in DOMAIN c.pages
          BY <5>1 DEF Marking
        <5> QED BY <5>1, <5>2, PagesTyped DEF Exact
      <4>5. PICK old, new : old = c.pages[p].valid_tokens /\ new = d.pages[p].valid_tokens
        OBVIOUS
      <4>6. old \in Nat /\ new \in Nat
        BY <4>4, <4>5, ConfigAssumption DEF PageSlot
      <4>7. old < PageTokens /\ old <= new
        BY <3>2, <4>1, <4>2, <4>5
      <4>8. old # PageTokens /\ new >= old
        BY <4>6, <4>7, ConfigAssumption
      <4> QED BY <3>2, <4>3, <4>5, <4>8 DEF FullAt
    <3>4. CASE \E j \in DOMAIN q.pending.new_pages : table[i] = q.pending.new_pages[j]
      <4>1. PICK j \in DOMAIN q.pending.new_pages : table[i] = q.pending.new_pages[j]
        BY <3>4
      <4>2. c.pages[p].valid_tokens = 0
        <5>1. c.pages[q.pending.new_pages[j].slot].valid_tokens = 0
          BY <1>2, Zenon DEF FilledTo
        <5>2. q.pending.new_pages[j].slot = p
          BY <2>2, <4>1, Zenon
        <5> QED BY <5>1, <5>2, Zenon
      <4>3. p \in SlotsOf(Table(q))
        BY <1>1, <2>2, <4>1
      <4>4. d.pages[p].valid_tokens \in Nat
        <5>1. p \in DOMAIN d.pages
          BY <1>10, <2>2, <3>1
        <5> QED BY <5>1, PagesTyped, ConfigAssumption DEF Exact, PageSlot
      <4>5. ~FullAt(c.pages, p)
        BY <4>2, ConfigAssumption DEF FullAt
      <4>6. d.pages[p].valid_tokens >= c.pages[p].valid_tokens
        BY <4>2, <4>4
      <4> QED BY <3>2, <4>3, <4>5, <4>6
    <3> QED BY <1>table, <3>1, <3>3, <3>4
  <2> QED BY <1>slots, <2>1, <2>2 DEF ChangedOK
<1>15. \A p \in SlotsOf(Table(b)) : p \in SlotsOf(Table(q))
  <2> SUFFICES ASSUME NEW i \in DOMAIN table PROVE table[i].slot \in SlotsOf(Table(q))
    BY <1>8 DEF SlotsOf
  <2> QED BY <1>1, <1>table
<1> QED BY <1>13, <1>14, <1>15

\* commit_append.
LEMMA CommitAppendValid ==
    ASSUME IInv, Exact(cache), Valid(cache), Stepped, NEW s \in LiveSequences, NEW rows \in Rows,
           CommitAppend(s, rows)
    PROVE  StaysValid
<1> DEFINE q == cache.sequences[s]
           new == q.pending.new_pages
           n == NewPageCount(q, rows)
           table == q.pages \o KeptPages(q, rows)
           released == ReleasedPages(q, rows)
           m == MarkCommitted(cache, q, table, rows)
           x == WithTable(m, s, table, rows)
<1>1. /\ Sound(cache) /\ Ledger(cache) /\ s \in LiveIn(cache.sequences)
      /\ s \in DOMAIN cache.sequences
  BY DEF IInv, LiveSequences, LiveIn
<1>2. /\ PendingAppend(s) /\ n \in 0..Len(new) /\ cache' = Released(x, s, released)
      /\ rows <= q.pending.rows
  BY DEF CommitAppend, WithTable
<1>3. /\ q.position \in Nat /\ rows \in Nat /\ table \in Seq(PageId)
      /\ Present(cache, released)
  BY <1>2, CommitParts
<1>4. q \in SequenceSlot /\ RecordOK(q)
  BY <1>1, TableParts DEF Valid
<1>5. PICK d : d = cache'
  OBVIOUS
<1>6. Exact(d) /\ d = Released(x, s, released)
  BY <1>2, <1>5 DEF Stepped
<1>7. NewPageCount(q, rows) \in 0..Len(q.pending.new_pages) /\ rows <= q.pending.rows
  BY <1>2
<1>record. q = cache.sequences[s]
  OBVIOUS
<1>table. table = q.pages \o KeptPages(q, rows) /\ released = ReleasedPages(q, rows)
  OBVIOUS
<1>marked. m = MarkCommitted(cache, q, table, rows)
  OBVIOUS
<1>written. x = WithTable(m, s, table, rows)
  OBVIOUS
<1> HIDE DEF q, table, released, new, n
<1>8. Sound(m) /\ Ledger(m) /\ SameRest(m, cache) /\ Present(m, released)
  BY <1>1, <1>3, MarkedLedger
<1>9. /\ DOMAIN m.pages = DOMAIN cache.pages
      /\ \A p \in DOMAIN cache.pages : /\ SameCounts(cache.pages[p], m.pages[p])
                                       /\ m.pages[p].physical = cache.pages[p].physical
  BY <1>1, MarkedCounts
<1> HIDE DEF m
<1>10. /\ m.sequences = cache.sequences /\ s \in LiveIn(m.sequences) /\ s \in DOMAIN m.sequences
       /\ m.prefixes = cache.prefixes
  BY <1>1, <1>8 DEF SameRest
<1>11. Sound(x)
  BY <1>3, <1>8, <1>10, CommittedSound DEF WithTable
<1> HIDE DEF x
<1>12. /\ x.pages = m.pages /\ x.prefixes = m.prefixes
       /\ x.next_prefix_id = m.next_prefix_id
       /\ SequencesWith(m.sequences, s, x.sequences)
       /\ x.sequences[s].pages = table
       /\ x.sequences[s].position = m.sequences[s].position + rows
       /\ x.sequences[s].generation = m.sequences[s].generation
  BY <1>8, <1>10, <1>written, CommittedShape
<1>13. /\ x.sequences[s].max_position = m.sequences[s].max_position
       /\ x.sequences[s].reserved_pages = m.sequences[s].reserved_pages
  BY <1>8, <1>10, <1>written, CommittedCounts
<1>14. s \in LiveIn(x.sequences)
  BY <1>12 DEF LiveIn, SequencesWith
<1>15. /\ d.pages = WithoutPages(x.pages, SlotsOf(released))
       /\ d.prefixes = x.prefixes /\ d.next_prefix_id = x.next_prefix_id
       /\ SequencesWith(x.sequences, s, d.sequences)
       /\ d.sequences[s].pages = x.sequences[s].pages
       /\ d.sequences[s].position = x.sequences[s].position
       /\ d.sequences[s].pending = NoPending
       /\ d.sequences[s].generation = x.sequences[s].generation
  BY <1>6, <1>11, <1>14, ReleasedShape
<1>size. PICK k : k = Len(released)
  OBVIOUS
<1>16. /\ d.sequences[s].max_position = x.sequences[s].max_position
       /\ d.sequences[s].reserved_pages = x.sequences[s].reserved_pages + k
  BY <1>6, <1>11, <1>14, <1>size, ReleasedCounts
<1>17. PICK b, position : b = d.sequences[s] /\ position = q.position + rows
  OBVIOUS
<1>18. /\ b.pages = table /\ b.position = position /\ b.pending = NoPending
       /\ b.max_position = q.max_position /\ b.reserved_pages = q.reserved_pages + Len(released)
  <2>1. m.sequences[s] = q
    BY <1>10, <1>record
  <2>2. /\ b.pages = table /\ b.position = m.sequences[s].position + rows /\ b.pending = NoPending
        /\ b.max_position = m.sequences[s].max_position
        /\ b.reserved_pages = m.sequences[s].reserved_pages + k
    BY <1>12, <1>13, <1>15, <1>16, <1>17
  <2> QED BY <1>17, <1>size, <2>1, <2>2
<1>19. PICK span : span = CommittedSpan(q, rows)
  OBVIOUS
<1>20. CommitTable(q, rows, table, released)
  BY <1>3, <1>4, <1>7, <1>table, CommitSizes
<1>21. \A p \in DOMAIN cache.pages :
         \/ /\ \A i \in span : table[i].slot # p
            /\ m.pages[p] = cache.pages[p]
         \/ \E i \in span : /\ table[i].slot = p
                            /\ m.pages[p].valid_tokens = RowsInPage(position, i)
                            /\ m.pages[p].sealed = (m.pages[p].valid_tokens = PageTokens)
  BY <1>1, <1>17, <1>19, <1>marked, MarkedPages
<1>22. /\ DOMAIN d.pages = DOMAIN x.pages
       /\ \A p \in DOMAIN x.pages :
            d.pages[p].live => p \notin SlotsOf(released) /\ d.pages[p] = x.pages[p]
  BY <1>15, WithoutSame
<1>23. Marking(cache.pages, d.pages, table, span, position)
  <2> SUFFICES ASSUME NEW p \in DOMAIN d.pages, d.pages[p].live
               PROVE  /\ p \in DOMAIN cache.pages /\ cache.pages[p].live
                      /\ \/ /\ \A i \in span : table[i].slot # p
                            /\ d.pages[p] = cache.pages[p]
                         \/ \E i \in span :
                              /\ table[i].slot = p
                              /\ d.pages[p].valid_tokens = RowsInPage(position, i)
                              /\ d.pages[p].sealed = (d.pages[p].valid_tokens = PageTokens)
    BY DEF Marking
  <2>1. p \in DOMAIN cache.pages /\ d.pages[p] = m.pages[p]
    BY <1>9, <1>12, <1>22
  <2>2. cache.pages[p].live
    BY <1>9, <2>1 DEF SameCounts
  <2> QED BY <1>21, <2>1, <2>2
<1>24. SequencesWith(cache.sequences, s, d.sequences)
  BY <1>10, <1>12, <1>15 DEF SequencesWith
<1>25. s \in LiveIn(d.sequences)
  BY <1>24 DEF SequencesWith, LiveIn
<1>26. PICK changed : changed = SlotsIn(table, span)
  OBVIOUS
<1>27. /\ FilledTo(d.pages, b)
       /\ ChangedOK(cache, d, s, changed)
       /\ \A p \in SlotsOf(Table(b)) : p \in SlotsOf(Table(q))
  <2>1. s \in LiveIn(cache.sequences) /\ rows \in Nat /\ Exact(d)
    BY <1>1, <1>3, <1>6
  <2>2. b.pages = table /\ b.position = position /\ b.pending = NoPending
    BY <1>18
  <2> QED BY <1>record, <1>17, <1>19, <1>20, <1>23, <1>25, <1>26, <2>1, <2>2, CommitFilled
<1>28. RecordOK(b)
  <2>1. b.pending.rows = 0 /\ Len(b.pending.new_pages) = 0
    BY <1>18 DEF NoPending
  <2>2. position \in Nat /\ position <= q.max_position
    BY <1>3, <1>17, <1>20 DEF CommitTable
  <2>3. b.position + b.pending.rows <= b.max_position
    BY <1>18, <2>1, <2>2
  <2>4. Len(b.pages) + Len(b.pending.new_pages) + b.reserved_pages = DivCeil(b.max_position)
    BY <1>18, <1>20, <2>1 DEF CommitTable
  <2>5. Len(b.pages) = DivCeil(b.position)
    BY <1>17, <1>18, <1>20 DEF CommitTable
  <2> QED BY <2>3, <2>4, <2>5 DEF RecordOK
<1>29. RecordChanged(cache, d, s, changed)
  <2>1. \A t \in LiveIn(d.sequences) \ {s} :
          t \in LiveIn(cache.sequences) /\ d.sequences[t] = cache.sequences[t]
    BY <1>24, OneRecord
  <2>2. \A p \in SlotsOf(Table(b)) : p \in SlotsOf(Table(cache.sequences[s]))
    BY <1>27, <1>record
  <2> QED BY <1>1, <1>17, <1>27, <1>28, <2>1, <2>2 DEF RecordChanged
<1>30. PICK id : id \notin DOMAIN d.prefixes
  BY <1>6, Nobody
<1>31. EntryChanged(cache, d, id)
  <2>1. d.prefixes = cache.prefixes
    BY <1>10, <1>12, <1>15
  <2> QED BY <1>30, <2>1, EntriesSame DEF EntryChanged
<1>32. Valid(d) /\ Grows(cache.pages, d.pages)
  BY <1>6, <1>27, <1>29, <1>31, ChangeValid, ChangeGrows
<1> QED BY <1>5, <1>32 DEF StaysValid

\* The table of a branch of q: the whole pages of q, and a copy of the rest if there is one.
BranchTable(q, tail, table) ==
    /\ table \in Seq(PageId) /\ Len(table) = DivCeil(q.position)
    /\ \A i \in DOMAIN table :
         \/ /\ i \in DOMAIN q.pages /\ table[i] = q.pages[i]
            /\ RowsInPage(q.position, i) = PageTokens
         \/ /\ \E j \in DOMAIN tail : table[i] = tail[j]
            /\ RowsInPage(q.position, i) = q.position % PageTokens

\* The table branch makes is one.
LEMMA BranchRun ==
    ASSUME NEW q \in SequenceSlot, RecordOK(q), NEW shared, shared = CompletePages(q),
           NEW copies, copies = CopiedPages(q), NEW tail \in Seq(PageId), Len(tail) = copies,
           NEW table, table = shared \o tail
    PROVE  BranchTable(q, tail, table) /\ shared \in Seq(PageId)
<1>1. q.pages \in Seq(PageId) /\ q.position \in Nat /\ Len(q.pages) = DivCeil(q.position)
  BY DEF SequenceSlot, RecordOK
<1>2. PICK n, own, position : n = q.position \div PageTokens /\ own = q.pages /\ position = q.position
  OBVIOUS
<1>3. n \in Nat /\ DivCeil(position) = n + copies /\ copies \in 0..1 /\ position \in Nat
  <2>1. DivCeil(q.position) = (q.position \div PageTokens) + (IF Aligned(q.position) THEN 0 ELSE 1)
    BY <1>1, PagesFor
  <2>2. q.position \div PageTokens \in Nat
    BY <1>1, WholePages
  <2> QED BY <1>1, <1>2, <2>1, <2>2 DEF CopiedPages
<1>4. own \in Seq(PageId) /\ Len(own) = n + copies /\ shared = SubSeq(own, 1, n)
      /\ table = shared \o tail /\ Len(tail) = copies
  BY <1>1, <1>2, <1>3 DEF CompletePages
<1>5. /\ shared \in Seq(PageId) /\ Len(shared) = n
      /\ \A i \in 1..n : i \in DOMAIN own /\ shared[i] = own[i]
  BY <1>3, <1>4
<1>6. table \in Seq(PageId) /\ Len(table) = n + copies
  BY <1>4, <1>5, JoinedSize
<1>7. \A i \in DOMAIN (shared \o tail) :
        \/ i \in DOMAIN shared /\ (shared \o tail)[i] = shared[i]
        \/ i - Len(shared) \in DOMAIN tail /\ (shared \o tail)[i] = tail[i - Len(shared)]
  BY <1>5, SlotsJoined
<1>8. DOMAIN shared = 1..n /\ DOMAIN tail = 1..copies /\ DOMAIN table = 1..(n + copies)
  BY <1>3, <1>4, <1>5, <1>6
<1>9. ASSUME NEW i \in DOMAIN table
      PROVE  \/ i \in DOMAIN own /\ table[i] = own[i] /\ RowsInPage(position, i) = PageTokens
             \/ /\ \E j \in DOMAIN tail : table[i] = tail[j]
                /\ RowsInPage(position, i) = position % PageTokens
  <2>1. CASE i \in DOMAIN shared /\ table[i] = shared[i]
    <3>1. i \in 1..(position \div PageTokens)
      BY <1>2, <1>8, <2>1
    <3>2. RowsInPage(position, i) = PageTokens
      BY <1>3, <3>1, RowsBefore
    <3> QED BY <1>5, <1>8, <2>1, <3>2
  <2>2. CASE i - Len(shared) \in DOMAIN tail /\ table[i] = tail[i - Len(shared)]
    <3>1. i = n + 1 /\ i \in Nat
      BY <1>3, <1>5, <1>8, <2>2
    <3>2. position \div PageTokens < i /\ i = position \div PageTokens + 1
      BY <1>2, <1>3, <3>1
    <3>3. RowsInPage(position, i) = position % PageTokens
      BY <1>3, <3>1, <3>2, RowsAfter
    <3> QED BY <2>2, <3>3
  <2> QED BY <1>4, <1>7, <2>1, <2>2
<1> QED BY <1>2, <1>3, <1>5, <1>6, <1>9 DEF BranchTable

\* Pages that gain references are live, filled and sealed as they were.
LEMMA SharedSame ==
    ASSUME NEW c, Sound(c), NEW slots, NEW more, more = MoreActive(c.pages, slots)
    PROVE  /\ DOMAIN more = DOMAIN c.pages
           /\ \A p \in DOMAIN c.pages : /\ more[p].live = c.pages[p].live
                                        /\ more[p].valid_tokens = c.pages[p].valid_tokens
                                        /\ more[p].sealed = c.pages[p].sealed
<1>1. \A p \in DOMAIN c.pages : c.pages[p] \in PageSlot
  BY PagesTyped
<1> QED BY <1>1 DEF MoreActive, PageSlot

\* What the pages of a branch are: copies on fresh pages, and the others as they were.
BranchPages(pages, new, valid, more) ==
    /\ \A p \in SlotsOf(new) : /\ p \in DOMAIN pages => ~pages[p].live
                              /\ more[p].valid_tokens = valid /\ ~more[p].sealed
    /\ \A p \in DOMAIN more \ SlotsOf(new) :
         /\ p \in DOMAIN pages /\ more[p].live = pages[p].live
         /\ more[p].valid_tokens = pages[p].valid_tokens /\ more[p].sealed = pages[p].sealed
    /\ DOMAIN pages \subseteq DOMAIN more

\* The pages taken by branch are such pages.
LEMMA BranchTaken ==
    ASSUME NEW e, Sound(e), NEW slots, NEW new, NEW physical, NEW valid, NEW more,
           Taken(MoreActive(e.pages, slots), new, physical, valid, more)
    PROVE  BranchPages(e.pages, new, valid, more)
<1>1. PICK mid : mid = MoreActive(e.pages, slots)
  OBVIOUS
<1>2. /\ DOMAIN mid = DOMAIN e.pages
      /\ \A p \in DOMAIN e.pages : /\ mid[p].live = e.pages[p].live
                                   /\ mid[p].valid_tokens = e.pages[p].valid_tokens
                                   /\ mid[p].sealed = e.pages[p].sealed
  BY <1>1, SharedSame
<1>3. Taken(mid, new, physical, valid, more)
  BY <1>1
<1>4. /\ \A p \in SlotsOf(new) : /\ p \in DOMAIN mid => ~mid[p].live
                                /\ more[p].valid_tokens = valid /\ ~more[p].sealed
      /\ \A p \in DOMAIN more \ SlotsOf(new) : p \in DOMAIN mid /\ more[p] = mid[p]
  BY <1>3, TakenFilled
<1>5. DOMAIN mid \subseteq DOMAIN more
  BY <1>3 DEF Taken
<1> QED BY <1>2, <1>4, <1>5 DEF BranchPages

\* A sequence with the table of a branch is added.
LEMMA BrancherValid ==
    ASSUME NEW e, Exact(e), Valid(e), NEW source \in LiveIn(e.sequences),
           NEW q, q = e.sequences[source], NEW tail, NEW table, BranchTable(q, tail, table),
           NEW d, Exact(d), NEW s, SequencesWith(e.sequences, s, d.sequences),
           s \notin LiveIn(e.sequences),
           NEW b, b = d.sequences[s], RecordOK(b), b.pages = table, b.position = q.position,
           b.pending.new_pages = <<>>, d.prefixes = e.prefixes,
           NEW valid, valid = q.position % PageTokens,
           BranchPages(e.pages, tail, valid, d.pages)
    PROVE  Valid(d) /\ Grows(e.pages, d.pages)
<1>1. /\ q \in SequenceSlot /\ FilledTo(e.pages, q)
      /\ \A p \in SlotsOf(Table(q)) : p \in DOMAIN e.pages /\ e.pages[p].live
      /\ \A i \in DOMAIN q.pages : q.pages[i].slot \in SlotsOf(Table(q))
  BY TableParts DEF Valid
<1>2. valid # PageTokens
  <2>1. q.position \in Nat
    BY <1>1 DEF SequenceSlot
  <2>2. q.position % PageTokens \in 0..(PageTokens - 1)
    BY <2>1, WholePages
  <2> QED BY <2>2, ConfigAssumption
<1>3. ChangedOK(e, d, s, SlotsOf(tail))
  <2>1. \A p \in DOMAIN d.pages : d.pages[p].sealed \in BOOLEAN
    BY PagesTyped DEF Exact, PageSlot
  <2> QED BY <1>2, <2>1 DEF ChangedOK, BranchPages
<1>4. ASSUME NEW i \in DOMAIN table
      PROVE  /\ d.pages[table[i].slot].valid_tokens = RowsInPage(q.position, i)
             /\ table[i].slot \in SlotsOf(tail) \/ FullAt(d.pages, table[i].slot)
  <2>1. CASE i \in DOMAIN q.pages /\ table[i] = q.pages[i] /\ RowsInPage(q.position, i) = PageTokens
    <3>1. PICK p : p = q.pages[i].slot
      OBVIOUS
    <3>2. p \in DOMAIN e.pages /\ e.pages[p].live
      BY <1>1, <2>1, <3>1
    <3>3. p \notin SlotsOf(tail) /\ p \in DOMAIN d.pages
      BY <3>2 DEF BranchPages
    <3>4. d.pages[p].valid_tokens = e.pages[p].valid_tokens
      BY <3>3 DEF BranchPages
    <3>5. e.pages[p].valid_tokens = RowsInPage(q.position, i)
      BY <1>1, <2>1, <3>1 DEF FilledTo
    <3> QED BY <2>1, <3>1, <3>4, <3>5 DEF FullAt
  <2>2. ASSUME NEW j \in DOMAIN tail, table[i] = tail[j], RowsInPage(q.position, i) = valid
        PROVE  /\ d.pages[table[i].slot].valid_tokens = RowsInPage(q.position, i)
               /\ table[i].slot \in SlotsOf(tail)
    <3>1. table[i].slot \in SlotsOf(tail)
      BY <2>2 DEF SlotsOf
    <3> QED BY <2>2, <3>1 DEF BranchPages
  <2> QED BY <2>1, <2>2 DEF BranchTable
<1>5. FilledTo(d.pages, b)
  <2>1. DOMAIN b.pending.new_pages = {}
    OBVIOUS
  <2> QED BY <1>4, <2>1 DEF FilledTo
<1>6. s \in LiveIn(d.sequences)
  BY DEF SequencesWith, LiveIn
<1>7. \A p \in SlotsOf(Table(b)) : p \in SlotsOf(tail) \/ FullAt(d.pages, p)
  <2>1. SlotsOf(Table(b)) = SlotsOf(b.pages) \cup SlotsOf(b.pending.new_pages)
    BY <1>6, TableParts
  <2>2. SlotsOf(b.pending.new_pages) = {}
    BY DEF SlotsOf
  <2>3. \A p \in SlotsOf(table) : p \in SlotsOf(tail) \/ FullAt(d.pages, p)
    <3>1. \A p \in SlotsOf(table) : \E i \in DOMAIN table : p = table[i].slot
      BY DEF SlotsOf
    <3> QED BY <1>4, <3>1
  <2> QED BY <2>1, <2>2, <2>3
<1>8. RecordChanged(e, d, s, SlotsOf(tail))
  <2>1. \A t \in LiveIn(d.sequences) \ {s} :
          t \in LiveIn(e.sequences) /\ d.sequences[t] = e.sequences[t]
    BY OneRecord
  <2> QED BY <1>5, <1>7, <2>1 DEF RecordChanged
<1>9. PICK id : id \notin DOMAIN d.prefixes
  BY Nobody
<1>10. EntryChanged(e, d, id)
  BY <1>9, EntriesSame DEF EntryChanged
<1> QED BY <1>3, <1>8, <1>10, ChangeValid, ChangeGrows

\* What branch leaves of the entries and of the sequences.
LEMMA BranchRest ==
    ASSUME NEW e, Sound(e), NEW ids \in Seq(PageId), SlotsOf(ids) \subseteq DOMAIN e.pages,
           CanShare(e, SlotsOf(ids)), NEW copied \in Seq(PhysicalPages),
           NEW valid \in 0..PageTokens, NEW table \in Seq(PageId),
           NEW position, NEW reserved, NEW request, NEW r,
           r = RefreshStats(InsertSequence(
                 InsertPages(IncrementActiveRefs(e, SlotsOf(ids)), copied, valid),
                 table, position, reserved, request))
    PROVE  /\ r.prefixes = e.prefixes /\ NextSequenceSlot(e) \notin LiveIn(e.sequences)
           /\ \E x : r.sequences[NextSequenceSlot(e)]
                       = NewRecord(x, table, position, reserved, request)
<1>1. PICK y : y = IncrementActiveRefs(e, SlotsOf(ids))
  OBVIOUS
<1>2. PICK x : x = InsertPages(y, copied, valid)
  OBVIOUS
<1>3. Sound(y)
  BY <1>1, SharedTaken
<1>4. SameRest(y, e)
  BY <1>1, SharedShape
<1>5. SameRest(x, y)
  BY <1>2, <1>3, InsertTaken
<1>6. Sound(x)
  BY <1>2, <1>3, InsertPagesSound
<1>7. /\ NextSequenceSlot(x) = NextSequenceSlot(e) /\ x.sequences = e.sequences
      /\ x.prefixes = e.prefixes
  BY <1>4, <1>5 DEF SameRest, NextSequenceSlot
<1>8. r = RefreshStats(InsertSequence(x, table, position, reserved, request))
  BY <1>1, <1>2
<1>9. /\ r.prefixes = x.prefixes /\ NextSequenceSlot(x) \notin LiveIn(x.sequences)
      /\ r.sequences[NextSequenceSlot(x)] = NewRecord(x, table, position, reserved, request)
  BY <1>6, <1>8, InsertSequenceShape
<1> QED BY <1>7, <1>9

\* branch.
LEMMA BranchValid ==
    ASSUME IInv, Exact(cache), Valid(cache), Stepped, NEW source \in LiveSequences,
           NEW request \in Requests, Branch(source, request)
    PROVE  StaysValid
<1> DEFINE q == cache.sequences[source]
           shared == CompletePages(q)
           copies == CopiedPages(q)
           demand == BranchDemand(q, request)
           reserved == demand.pages - copies
           partial == q.position % PageTokens
           Sharing(e, copied) ==
             /\ CanShare(e, SlotsOf(shared))
             /\ cache' = RefreshStats(InsertSequence(
                  InsertPages(IncrementActiveRefs(e, SlotsOf(shared)), copied, partial),
                  shared \o [i \in 1..copies |-> FreshPageId(e, i)], q.position, reserved, request))
<1>1. CanBranchFrom(source, request)
  BY DEF Branch
<1>2. PICK ids \in EvictionRuns(cache, {}) : CanEvict(cache, ids) /\
        \E copied \in Injection(1..copies, InPool("free")) :
        \E e : EvictedTo(cache, ids, e) /\ Sharing(e, copied)
  BY ZenonT(90) DEF Branch, EvictedTo
<1>3. /\ Sound(cache) /\ ids \subseteq DOMAIN cache.prefixes
      /\ source \in LiveIn(cache.sequences)
  BY EvictionRunsParts DEF IInv, LiveSequences, LiveIn
<1>4. /\ shared \in Seq(PageId) /\ AllLive(cache, shared) /\ copies \in Nat /\ q.position \in Nat
      /\ partial \in 0..PageTokens
      /\ PagesToReserve(request, Len(shared)) - copies \in Nat
  BY <1>1, BranchParts
<1>5. SlotsOf(shared) \subseteq DOMAIN cache.pages
  BY <1>4 DEF AllLive, LivePage, SlotsOf
<1>6. q.position <= request.max_position /\ request.max_position \in Nat
  <2>1. request.max_position \in Nat
    BY InputAssumption
  <2>2. request.max_position >= q.position
    BY <1>1 DEF CanBranchFrom
  <2> QED BY <1>4, <2>1, <2>2
<1>7. reserved = PagesToReserve(request, Len(shared)) - copies
  BY DEF BranchDemand, AdmissionDemand
<1>8. q \in SequenceSlot /\ RecordOK(q)
  BY <1>3, TableParts DEF Valid
<1>own. q = cache.sequences[source]
  OBVIOUS
<1>named. shared = CompletePages(q) /\ copies = CopiedPages(q)
  OBVIOUS
<1>part. partial = q.position % PageTokens
  OBVIOUS
<1> HIDE DEF Sharing
<1>9. PICK copied \in Injection(1..copies, InPool("free")) :
        \E e : EvictedTo(cache, ids, e) /\ Sharing(e, copied)
  BY <1>2
<1>10. PICK e : EvictedTo(cache, ids, e) /\ Sharing(e, copied)
  BY <1>9
<1>11. /\ Sound(e) /\ Evolves(cache.pages, e.pages) /\ e.sequences = cache.sequences
       /\ DOMAIN e.pages = DOMAIN cache.pages
  BY <1>2, <1>3, <1>10, EvictionKeeping
<1>12. Spared(cache, ids, e)
  <2>1. Eviction(cache, ids, e)
    BY <1>2, <1>3, <1>10 DEF Eviction, Exact
  <2> QED BY <2>1, EvictionValid
<1>13. Exact(e) /\ Valid(e) /\ Grows(cache.pages, e.pages)
  BY <1>12 DEF Spared
<1> HIDE DEF q, copies, partial, reserved, shared
<1>14. copied \in Seq(PhysicalPages) /\ Len(copied) = copies
  BY <1>4, AllocatedPages
<1>15. PICK tail : tail = FreshIds(e, Len(copied))
  OBVIOUS
<1>16. tail \in Seq(PageId) /\ Len(tail) = copies
       /\ tail = [i \in 1..copies |-> FreshPageId(e, i)]
  <2>1. tail = [i \in 1..copies |-> FreshPageId(e, i)]
    BY <1>14, <1>15 DEF FreshIds
  <2> QED BY <1>4, <1>11, <2>1, FreshPageIds
<1>17. PICK table : table = shared \o tail
  OBVIOUS
<1>18. BranchTable(q, tail, table)
  BY <1>8, <1>16, <1>17, <1>named, BranchRun
<1>19. table \in Seq(PageId) /\ Len(table) = DivCeil(q.position) /\ Len(table) = Len(shared) + copies
  <2>1. Len(table) = Len(shared) + copies
    BY <1>4, <1>16, <1>17, JoinedSize
  <2> QED BY <1>18, <2>1 DEF BranchTable
<1>20. PICK d, s, position : d = cache' /\ s = NextSequenceSlot(e) /\ position = q.position
  OBVIOUS
<1>21. /\ CanShare(e, SlotsOf(shared))
       /\ d = RefreshStats(InsertSequence(
                  InsertPages(IncrementActiveRefs(e, SlotsOf(shared)), copied, partial),
                  table, position, reserved, request))
  BY <1>10, <1>16, <1>17, <1>20 DEF Sharing
<1>22. Exact(d) /\ Sound(d)
  BY <1>20 DEF Stepped, Exact
<1>23. SlotsOf(shared) \subseteq DOMAIN e.pages
  BY <1>5, <1>11
<1>24. Keeping(e, d)
  BY <1>4, <1>11, <1>14, <1>19, <1>21, <1>22, <1>23, BranchedKeeping
<1>25. /\ Taken(MoreActive(e.pages, SlotsOf(shared)), FreshIds(e, Len(copied)), copied, partial,
                d.pages)
       /\ SequencesWith(e.sequences, NextSequenceSlot(e), d.sequences)
  BY <1>4, <1>11, <1>14, <1>19, <1>21, <1>23, BrancherSlot
<1>26. /\ d.prefixes = e.prefixes /\ NextSequenceSlot(e) \notin LiveIn(e.sequences)
       /\ \E x : d.sequences[NextSequenceSlot(e)]
                   = NewRecord(x, table, position, reserved, request)
  BY <1>4, <1>11, <1>14, <1>19, <1>21, <1>23, BranchRest
<1>27. PICK b, x : b = d.sequences[s] /\ b = NewRecord(x, table, position, reserved, request)
  BY <1>20, <1>26
<1>28. reserved \in Nat /\ Len(table) + reserved = DivCeil(request.max_position)
  <2>1. PICK a, m, n : a = Len(shared) /\ m = DivCeil(request.max_position) /\ n = copies
    OBVIOUS
  <2>2. reserved = m - a - n /\ m - a - n \in Nat
    BY <1>4, <1>7, <2>1 DEF PagesToReserve
  <2>3. a \in Nat /\ m \in Nat /\ n \in Nat
    <3>1. DivCeil(request.max_position) \in Nat
      BY <1>6, PagesFor
    <3>2. Len(shared) \in Nat /\ copies \in Nat
      BY <1>4
    <3> QED BY <2>1, <3>1, <3>2
  <2>4. (a + n) + (m - a - n) = m
    BY <2>3
  <2>5. Len(table) = a + n
    BY <1>19, <2>1
  <2> QED BY <2>1, <2>2, <2>4, <2>5
<1>29. RecordOK(b) /\ b.pages = table /\ b.position = position /\ b.pending.new_pages = <<>>
  <2>1. position \in Nat /\ position <= request.max_position /\ Len(table) = DivCeil(position)
    BY <1>4, <1>6, <1>19, <1>20
  <2> QED BY <1>6, <1>19, <1>27, <1>28, <2>1, NewRecordOK
<1>30. BranchPages(e.pages, tail, partial, d.pages)
  BY <1>11, <1>15, <1>25, BranchTaken
<1>31. Valid(d) /\ Grows(e.pages, d.pages)
  <2>1. q = e.sequences[source] /\ source \in LiveIn(e.sequences)
    BY <1>3, <1>11, <1>own
  <2>2. SequencesWith(e.sequences, s, d.sequences) /\ s \notin LiveIn(e.sequences)
    BY <1>20, <1>25, <1>26
  <2>3. b = d.sequences[s] /\ b.position = q.position
    BY <1>20, <1>27, <1>29
  <2> QED BY <1>13, <1>18, <1>22, <1>26, <1>29, <1>30, <1>part, <2>1, <2>2, <2>3, BrancherValid
<1>32. Grows(cache.pages, d.pages)
  BY <1>3, <1>11, <1>13, <1>22, <1>24, <1>31, GrowsChain DEF Keeping
<1> QED BY <1>20, <1>31, <1>32 DEF StaysValid

\* Every step.
LEMMA NextValid ==
    ASSUME PageReuse < MaxGeneration, IInv, Exact(cache), Valid(cache), Ordered(cache), Stepped,
           [Next]_vars
    PROVE  StaysValid
<1>un. cache' = cache => StaysValid
  <2> SUFFICES ASSUME cache' = cache PROVE StaysValid
    OBVIOUS
  <2>1. \A p \in DOMAIN cache.pages : cache.pages[p].valid_tokens \in Nat
    BY PagesTyped, ConfigAssumption DEF Exact, PageSlot
  <2>2. Grows(cache.pages, cache.pages)
    BY <2>1 DEF Grows
  <2> QED BY <2>2 DEF StaysValid
<1>touch. (\E id \in DOMAIN cache.prefixes : cache' = Touch(cache, id)) => StaysValid
  BY TouchValid
<1>2. ASSUME NEW polled \in SUBSET InPool("deferred"), ReclaimDeferred(polled) PROVE StaysValid
  BY <1>2, PolledValid DEF ReclaimDeferred
<1>3. ASSUME NEW polled \in SUBSET InPool("deferred"), NEW prefix \in Matches,
             NEW request \in Requests, Admit(polled, prefix, request)
      PROVE  StaysValid
  BY <1>3, AdmitValid
<1>4. ASSUME NEW polled \in SUBSET InPool("deferred"), NEW prefix \in Matches,
             NEW request \in Requests, NEW outcome \in {"would_block", "refused", "backend"},
             AdmitDeclined(polled, prefix, request, outcome)
      PROVE  StaysValid
  BY <1>4, PolledValid DEF AdmitDeclined
<1>5. ASSUME NEW s \in LiveSequences, NEW rows \in Rows, ReserveAppend(s, rows) PROVE StaysValid
  <2>1. rows \in Nat
    BY DEF Rows
  <2> QED BY <1>5, <2>1, ReserveAppendValid
<1>6. ASSUME NEW s \in LiveSequences, NEW rows \in Rows, CommitAppend(s, rows) PROVE StaysValid
  BY <1>6, CommitAppendValid
<1>7. ASSUME NEW s \in LiveSequences, AbortAppend(s) PROVE StaysValid
  BY <1>7, AbortAppendValid
<1>9. ASSUME NEW prompt, NEW tail, LookupPrefix(prompt, tail) PROVE StaysValid
  BY <1>9, <1>touch, <1>un DEF LookupPrefix
<1>10. ASSUME NEW s \in LiveSequences, NEW key \in KeysFor(s), RetainDuplicate(s, key)
       PROVE  StaysValid
  BY <1>10, <1>touch DEF RetainDuplicate
<1>11. ASSUME NEW s \in LiveSequences, NEW n \in SnapshotSizes, NEW key \in KeysFor(s),
              RetainPrefix(s, key, n)
       PROVE  StaysValid
  BY <1>11, RetainPrefixValid
<1>12. ASSUME NEW id \in DOMAIN cache.prefixes, EvictPrefix(id) PROVE StaysValid
  BY <1>12, EvictPrefixValid
<1>13. ASSUME NEW s \in LiveSequences, NEW request \in Requests, Branch(s, request)
       PROVE  StaysValid
  BY <1>13, BranchValid
<1>14. ASSUME NEW s \in LiveSequences, Finish(s) PROVE StaysValid
  BY <1>14, FinishValid
<1>15. CASE \/ PollFails
            \/ \E s \in LiveSequences : FinalizeFails(s)
            \/ \E s \in LiveSequences, n \in SnapshotSizes, outcome \in {"refused", "backend"} :
                 \E key \in KeysFor(s) : RetainDeclined(s, key, n, outcome)
            \/ \E s \in LiveSequences, rows \in Rows : ReserveAppendFails(s, rows)
            \/ \E s \in LiveSequences, request \in Requests :
                 \/ BranchWouldBlock(s, request)
                 \/ BranchFails(s, request)
                 \/ BranchEvictionFails(s, request)
            \/ RetireFails
  <2>1. cache' = cache
    BY <1>15 DEF PollFails, FinalizeFails, RetainDeclined, ReserveAppendFails, BranchWouldBlock,
                 BranchFails, BranchEvictionFails, RetireFails, Unchanged
  <2> QED BY <1>un, <2>1
<1>20. CASE UNCHANGED vars
  BY <1>20, <1>un DEF vars
<1>21. CASE Next
  <2>1. /\ ~\E s \in LiveSequences : AbortAppendExhausted(s)
        /\ ~\E s \in LiveSequences, rows \in Rows : CommitAppendExhausted(s, rows)
    BY NeverStops DEF Exact
  <2> QED BY <1>2, <1>3, <1>4, <1>5, <1>6, <1>7, <1>9, <1>10, <1>11, <1>12, <1>13, <1>14, <1>15,
             <1>21, <2>1 DEF Next
<1> QED BY <1>20, <1>21

----------------------------------------------------------------------------
(* The results. *)

\* Everything that is proved of a state, and what a step needs of it.
LEMMA StepParts ==
    ASSUME PageReuse < MaxGeneration, IInv, Owned(cache), IInv', Owned(cache)', [Next]_vars
    PROVE  Exact(cache) /\ Exact(cache') /\ Keeping(cache, cache') /\ Stepped
<1>1. Exact(cache) /\ Exact(cache')
  BY DEF IInv, Sound, Owned, Exact
<1>2. Keeping(cache, cache')
  BY <1>1, NextKeeping, NeverStops DEF Exact
<1> QED BY <1>1, <1>2 DEF Stepped

\* A new manager has no page, sequence or entry to be valid.
LEMMA InitValid == Init => Valid(cache)
<1> SUFFICES ASSUME Init PROVE Valid(cache)
  OBVIOUS
<1>1. cache.pages = <<>> /\ cache.sequences = <<>> /\ cache.prefixes = <<>>
  BY InitEmpty
<1> QED BY <1>1 DEF Valid, Sealing, Lonely, LiveIn

\* In every configuration in which no page slot is used to its last generation, a page of
\* a live sequence is filled exactly as far as its position says, a page that is not full
\* has a single owner, and pages, pending pages and reservation add up to the maximum, after
\* every operation and every backend call that failed (page_capacity, reserve_append,
\* commit_append, abort_append, branch, retain_prefix and finish).
THEOREM ValidityInvariant ==
    ASSUME PageReuse < MaxGeneration
    PROVE  Spec => []Valid(cache)
<1>1. Init => Valid(cache)
  BY InitValid
<1>2. /\ Valid(cache) /\ Ordered(cache) /\ (IInv /\ Owned(cache)) /\ (IInv /\ Owned(cache))'
      /\ [Next]_vars
      => Valid(cache)'
  <2> SUFFICES ASSUME Valid(cache), Ordered(cache), IInv, Owned(cache), IInv', Owned(cache)',
                      [Next]_vars
               PROVE  Valid(cache')
    OBVIOUS
  <2>1. Exact(cache) /\ Stepped
    BY StepParts
  <2> QED BY <2>1, NextValid DEF StaysValid
<1> QED BY <1>1, <1>2, OwnershipInvariant, EntriesInvariant, PTL DEF Spec

\* A page of a sequence that is not full is its own.
LEMMA SingleOwner ==
    ASSUME NEW c, Exact(c), Valid(c), NEW s \in LiveIn(c.sequences),
           NEW p \in SlotsOf(Table(c.sequences[s])), ~FullAt(c.pages, p)
    PROVE  c.pages[p].active_refs = 1 /\ c.pages[p].prefix_refs = 0
<1> DEFINE tabs == Tabs(c.sequences)
           keeps == Keeps(c.prefixes)
<1>1. p \in DOMAIN c.pages /\ c.pages[p].live
  BY TableParts
<1>2. Counted(c.pages[p], tabs, keeps, p)
  BY <1>1 DEF Exact, Owned, OwnedParts, Refs
<1>3. /\ \A t, u \in DOMAIN tabs : p \in SlotsOf(tabs[t]) /\ p \in SlotsOf(tabs[u]) => t = u
      /\ \A id \in DOMAIN keeps : p \notin SlotsOf(keeps[id])
  BY <1>1 DEF Valid, Lonely
<1>4. s \in DOMAIN tabs /\ p \in SlotsOf(tabs[s])
  BY DEF Tabs
<1> HIDE DEF tabs, keeps
<1>5. Users(tabs, p) = {s} /\ Users(keeps, p) = {}
  BY <1>3, <1>4 DEF Users
<1>6. Cardinality({s}) = 1 /\ Cardinality({}) = 0
  BY FS_Singleton, FS_EmptySet
<1> QED BY <1>2, <1>5, <1>6 DEF Counted

\* What the invariants say of the sequences.
LEMMA SequencesAreValid ==
    ASSUME Exact(cache), Valid(cache)
    PROVE  SequencesValid
<1> SUFFICES ASSUME NEW s \in LiveSequences, NEW q, q = cache.sequences[s]
             PROVE  /\ q.position <= q.max_position
                    /\ IsInjective(Table(q))
                    /\ Len(q.pages) = DivCeil(q.position)
                    /\ \A i \in DOMAIN q.pages :
                         LET page == cache.pages[q.pages[i].slot]
                         IN  /\ page.valid_tokens = RowsInPage(q.position, i)
                             /\ page.sealed = (page.valid_tokens = PageTokens)
                             /\ ~page.sealed => page.active_refs = 1 /\ page.prefix_refs = 0
                    /\ \A i \in DOMAIN q.pending.new_pages :
                         LET page == cache.pages[q.pending.new_pages[i].slot]
                         IN  /\ page.valid_tokens = 0 /\ ~page.sealed
                             /\ page.active_refs = 1 /\ page.prefix_refs = 0
                    /\ Len(Table(q)) + q.reserved_pages = DivCeil(q.max_position)
  BY DEF SequencesValid
<1>1. s \in LiveIn(cache.sequences)
  BY DEF LiveSequences, LiveIn
<1>2. RecordOK(q) /\ FilledTo(cache.pages, q)
  BY <1>1 DEF Valid
<1>3. /\ q \in SequenceSlot /\ q.pages \in Seq(PageId) /\ q.pending.new_pages \in Seq(PageId)
      /\ \A p \in SlotsOf(Table(q)) : p \in DOMAIN cache.pages /\ cache.pages[p].live
      /\ \A i \in DOMAIN q.pages : q.pages[i].slot \in SlotsOf(Table(q))
      /\ \A i \in DOMAIN q.pending.new_pages : q.pending.new_pages[i].slot \in SlotsOf(Table(q))
      /\ Resolves(cache.pages, Table(q))
  BY <1>1, TableParts
<1>4. \A p \in SlotsOf(Table(q)) :
        /\ cache.pages[p].sealed = (cache.pages[p].valid_tokens = PageTokens)
        /\ cache.pages[p].valid_tokens # PageTokens =>
             cache.pages[p].active_refs = 1 /\ cache.pages[p].prefix_refs = 0
  <2>1. \A p \in SlotsOf(Table(q)) :
          cache.pages[p].sealed = (cache.pages[p].valid_tokens = PageTokens)
    BY <1>3 DEF Valid, Sealing
  <2>2. \A p \in SlotsOf(Table(q)) : cache.pages[p].valid_tokens # PageTokens =>
          cache.pages[p].active_refs = 1 /\ cache.pages[p].prefix_refs = 0
    BY <1>1, SingleOwner DEF FullAt
  <2> QED BY <2>1, <2>2
<1>5. q.position <= q.max_position
  <2>1. q.position \in Nat /\ q.pending.rows \in Nat /\ q.max_position \in Nat
    BY <1>3 DEF SequenceSlot
  <2>2. q.position + q.pending.rows <= q.max_position
    BY <1>2 DEF RecordOK
  <2> QED BY <2>1, <2>2
<1>6. IsInjective(Table(q))
  BY <1>3 DEF Resolves, IsInjective
<1>7. ASSUME NEW i \in DOMAIN q.pages, NEW page, page = cache.pages[q.pages[i].slot]
      PROVE  /\ page.valid_tokens = RowsInPage(q.position, i)
             /\ page.sealed = (page.valid_tokens = PageTokens)
             /\ ~page.sealed => page.active_refs = 1 /\ page.prefix_refs = 0
  <2>1. page.valid_tokens = RowsInPage(q.position, i)
    BY <1>2, <1>7 DEF FilledTo
  <2> QED BY <1>3, <1>4, <1>7, <2>1
<1>8. ASSUME NEW i \in DOMAIN q.pending.new_pages,
             NEW page, page = cache.pages[q.pending.new_pages[i].slot]
      PROVE  /\ page.valid_tokens = 0 /\ ~page.sealed
             /\ page.active_refs = 1 /\ page.prefix_refs = 0
  <2>1. page.valid_tokens = 0
    <3>1. cache.pages[q.pending.new_pages[i].slot].valid_tokens = 0
      BY <1>2, Zenon DEF FilledTo
    <3> QED BY <1>8, <3>1, Zenon
  <2>2. 0 # PageTokens
    BY ConfigAssumption
  <2> QED BY <1>3, <1>4, <1>8, <2>1, <2>2
<1>9. Len(Table(q)) + q.reserved_pages = DivCeil(q.max_position)
  <2>1. Len(Table(q)) = Len(q.pages) + Len(q.pending.new_pages)
    BY <1>3, JoinedSize DEF Table
  <2> QED BY <1>2, <2>1 DEF RecordOK
<1>10. Len(q.pages) = DivCeil(q.position)
  BY <1>2 DEF RecordOK
<1> QED BY <1>5, <1>6, <1>7, <1>8, <1>9, <1>10

\* What the invariants say of the entries.
LEMMA EntriesAreValid ==
    ASSUME Exact(cache), Valid(cache), Ordered(cache)
    PROVE  PrefixesValid
<1>1. ASSUME NEW id \in DOMAIN cache.prefixes
      PROVE  /\ EntryOK(cache.prefixes[id])
             /\ \A i \in DOMAIN cache.prefixes[id].pages :
                  cache.pages[cache.prefixes[id].pages[i].slot].sealed
  <2>1. PICK ids : ids = cache.prefixes[id].pages
    OBVIOUS
  <2>2. \A p \in SlotsOf(ids) :
          p \in DOMAIN cache.pages /\ cache.pages[p].live /\ FullAt(cache.pages, p)
    BY <2>1, EntryParts, EntryFull
  <2>3. \A p \in SlotsOf(ids) : cache.pages[p].sealed
    BY <2>2 DEF Valid, Sealing, FullAt
  <2>4. \A i \in DOMAIN ids : ids[i].slot \in SlotsOf(ids)
    BY DEF SlotsOf
  <2> QED BY <2>1, <2>3, <2>4 DEF Valid
<1>2. /\ \A id \in DOMAIN cache.prefixes : /\ cache.prefixes[id].key \in DOMAIN cache.tree
                                           /\ cache.tree[cache.prefixes[id].key] = id
      /\ \A key \in DOMAIN cache.tree : /\ cache.tree[key] \in DOMAIN cache.prefixes
                                        /\ cache.prefixes[cache.tree[key]].key = key
  BY DEF Ordered, Indexed
<1>3. Cardinality(DOMAIN cache.tree) = Cardinality(DOMAIN cache.prefixes)
  <2> DEFINE S == DOMAIN cache.prefixes
             T == DOMAIN cache.tree
             f == [id \in S |-> cache.prefixes[id].key]
  <2>1. IsFiniteSet(S)
    BY DEF Exact, Owned, OwnedParts, Refs, Keeps
  <2>2. f \in Injection(S, T)
    BY <1>2 DEF Injection, IsInjective
  <2>3. f \in Surjection(S, T)
    BY <1>2 DEF Surjection
  <2> HIDE DEF S, T, f
  <2>4. Cardinality(T) = Cardinality(S)
    BY <2>1, <2>2, <2>3, FS_Surjection
  <2> QED BY <2>4 DEF S, T
<1> QED BY <1>1, <1>2, <1>3 DEF PrefixesValid, EntryOK

\* What validate() checks of every live sequence holds in every state of every
\* configuration in which no page slot is used to its last generation: the table covers
\* the position, each page is filled as far as the position says and sealed exactly if it
\* is full, a page that is not full has no other owner, pending pages are empty and private,
\* and pages and reservation add up to the maximum (admit, reserve_append, commit_append,
\* abort_append, branch).
THEOREM SequencesCorrect ==
    ASSUME PageReuse < MaxGeneration
    PROVE  Spec => []SequencesValid
<1>1. (IInv /\ Owned(cache)) /\ Valid(cache) => SequencesValid
  BY SequencesAreValid DEF IInv, Exact
<1> QED BY <1>1, OwnershipInvariant, ValidityInvariant, PTL

\* In the same configurations every retained entry is a nonempty run of whole, sealed pages,
\* the index finds it under its key, and the index holds nothing else (retain_prefix,
\* commit_evictions).
THEOREM PrefixesCorrect ==
    ASSUME PageReuse < MaxGeneration
    PROVE  Spec => []PrefixesValid
<1>1. (IInv /\ Owned(cache)) /\ Valid(cache) /\ Ordered(cache) => PrefixesValid
  BY EntriesAreValid DEF IInv, Exact
<1> QED BY <1>1, OwnershipInvariant, ValidityInvariant, EntriesInvariant, PTL

\* In the same configurations no step writes a sealed page: for as long as its handle is
\* valid a page keeps its storage, never loses committed tokens and stays sealed once it is
\* (commit_append marks only pages from the first one that is not full).
THEOREM SealedCorrect ==
    ASSUME PageReuse < MaxGeneration
    PROVE  Spec => SealedImmutable
<1>1. (IInv /\ Owned(cache)) /\ (IInv /\ Owned(cache))' /\ Valid(cache) /\ Ordered(cache) /\ [Next]_vars =>
        [\A p \in LivePageSlots :
           LET old == cache.pages[p]
               new == cache'.pages[p]
           IN  new.live /\ new.generation = old.generation =>
                 /\ new.physical = old.physical
                 /\ new.valid_tokens >= old.valid_tokens
                 /\ old.sealed => new.sealed]_vars
  <2> SUFFICES ASSUME IInv, Owned(cache), IInv', Owned(cache)', Valid(cache), Ordered(cache),
                      [Next]_vars, NEW p \in LivePageSlots, cache'.pages[p].live,
                      cache'.pages[p].generation = cache.pages[p].generation
               PROVE  /\ cache'.pages[p].physical = cache.pages[p].physical
                      /\ cache'.pages[p].valid_tokens >= cache.pages[p].valid_tokens
                      /\ cache.pages[p].sealed => cache'.pages[p].sealed
    OBVIOUS
  <2>1. Exact(cache) /\ Keeping(cache, cache') /\ Stepped
    BY StepParts
  <2>2. Grows(cache.pages, cache'.pages)
    BY <2>1, NextValid DEF StaysValid
  <2>3. PICK old, new : old = cache.pages /\ new = cache'.pages
    OBVIOUS
  <2>4. Evolves(old, new) /\ Grows(old, new)
    BY <2>1, <2>2, <2>3 DEF Keeping
  <2>5. p \in DOMAIN old /\ old[p].live /\ new[p].live /\ new[p].generation = old[p].generation
    BY <2>3 DEF LivePageSlots
  <2>6. p \in DOMAIN new /\ new[p].physical = old[p].physical
    BY <2>4, <2>5 DEF Evolves, PageKept
  <2>7. new[p].valid_tokens >= old[p].valid_tokens /\ (old[p].sealed => new[p].sealed)
    BY <2>4, <2>5, <2>6 DEF Grows
  <2> QED BY <2>3, <2>6, <2>7
<1> QED BY <1>1, OwnershipInvariant, ValidityInvariant, EntriesInvariant, PTL
        DEF Spec, SealedImmutable

====
