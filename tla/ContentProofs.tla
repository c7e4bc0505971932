--------------------------- MODULE ContentProofs ---------------------------
(***************************************************************************)
(* Proofs about the rows in the pages: the cache with its pages implements *)
(* TokenStore, and every retained entry holds the tokens of its key.       *)
(*                                                                         *)
(* A step other than a write leaves the rows of every page alone that is   *)
(* handed out before and after it; a write reaches only pages that are not *)
(* full, at rows behind the position.  What anybody reads is in pages that *)
(* stay handed out, and in full ones or below the reader's own position,   *)
(* because of the invariants of the manager.                               *)
(***************************************************************************)
EXTENDS ContentCache, ValidityProofs, SequenceTheorems

----------------------------------------------------------------------------
(* The invariant. *)

\* The page of the k-th token, in table order.
PageAt(k) == ((k - 1) \div PageTokens) + 1

\* Its row in that page.
RowAt(k) == ((k - 1) % PageTokens) + 1

\* The k-th token that is found through a table.
At(slab, table, k) == slab[table[PageAt(k)]][RowAt(k)]

\* What is known of the manager.
Managed == IInv /\ Stored /\ Valid(cache) /\ Ordered(cache)

\* The rows of a page.
PageContent == [1..PageTokens -> Tokens \cup {Blank}]

\* The table of a sequence reaches to the end of its pending append.
Covered(q) == Len(Table(q)) = DivCeil(q.position + q.pending.rows)

\* What a sequence has committed are tokens.
HasTokens(s) ==
    \A k \in 1..tables[s].position : At(content, tables[s].pages, k) \in Tokens

\* What was written for the pending append of a sequence is behind its position.
Drafted(s) ==
    draft[s] # <<>> =>
      /\ cache.sequences[s].pending.rows = Len(draft[s])
      /\ \A k \in 1..Len(draft[s]) :
           At(content, tables[s].pages, tables[s].position + k) = draft[s][k]

\* All that is known of a live sequence.
SequenceReadable(s) == Covered(cache.sequences[s]) /\ HasTokens(s) /\ Drafted(s)

\* The types of what ContentCache adds.
ContentTyped ==
    /\ content \in [PhysicalPages -> PageContent]
    /\ draft \in [SlotBound -> Seq(Tokens)]
    /\ DOMAIN cache.sequences \subseteq SlotBound

\* All of it.
Readable ==
    /\ ContentTyped
    /\ \A s \in LiveIn(cache.sequences) : SequenceReadable(s)
    /\ \A s \in SlotBound \ LiveIn(cache.sequences) : draft[s] = <<>>
    /\ EntriesHoldTheirKeys

----------------------------------------------------------------------------
(* Rows and pages. *)

\* The k-th of n tokens is in a row of one of the pages of n tokens.
LEMMA CellParts ==
    ASSUME NEW n \in Nat, NEW k \in 1..n
    PROVE  /\ PageAt(k) \in 1..DivCeil(n) /\ RowAt(k) \in 1..PageTokens
           /\ k = (PageAt(k) - 1) * PageTokens + RowAt(k)
<1> DEFINE m == k - 1
           a == n \div PageTokens
           b == m \div PageTokens
<1>1. m \in Nat /\ m < n
  OBVIOUS
<1>2. /\ b \in Nat /\ b * PageTokens \in Nat /\ b * PageTokens <= m
      /\ m % PageTokens = m - b * PageTokens /\ m % PageTokens \in 0..(PageTokens - 1)
  BY <1>1, WholePages
<1>3. /\ a \in Nat /\ a * PageTokens \in Nat /\ a * PageTokens <= n
      /\ n % PageTokens = n - a * PageTokens
  BY WholePages
<1>4. b <= a
  BY <1>1, WholeMonotone
<1>5. PageTokens \in Nat \ {0}
  BY ConfigAssumption
<1>6. PageAt(k) = b + 1 /\ RowAt(k) = (m % PageTokens) + 1
  BY DEF PageAt, RowAt
<1>7. Aligned(n) => b # a
  <2> SUFFICES ASSUME n % PageTokens = 0, b = a PROVE FALSE
    BY DEF Aligned
  <2>1. a * PageTokens = n
    BY <1>3
  <2> HIDE DEF m, a, b
  <2> QED BY <1>1, <1>2, <1>3, <2>1
<1>8. DivCeil(n) = a + (IF Aligned(n) THEN 0 ELSE 1) /\ DivCeil(n) \in Nat
  BY PagesFor
<1>9. m = k - 1 /\ k \in Nat
  OBVIOUS
<1> HIDE DEF m, a, b
<1>10. PageAt(k) \in 1..DivCeil(n)
  BY <1>2, <1>3, <1>4, <1>6, <1>7, <1>8
<1>11. RowAt(k) \in 1..PageTokens
  BY <1>2, <1>5, <1>6
<1>12. b + 1 - 1 = b
  BY <1>2
<1>13. k = (PageAt(k) - 1) * PageTokens + RowAt(k)
  BY <1>1, <1>2, <1>6, <1>9, <1>12
<1> QED BY <1>10, <1>11, <1>13

\* What lies behind a position is in a page past the whole ones before it.
LEMMA CellBehind ==
    ASSUME NEW n \in Nat, NEW k \in Nat \ {0}
    PROVE  PageAt(n + k) \in Nat /\ n \div PageTokens < PageAt(n + k)
<1>1. n + k - 1 \in Nat /\ n <= n + k - 1
  OBVIOUS
<1>2. n \div PageTokens <= (n + k - 1) \div PageTokens
  BY <1>1, WholeMonotone
<1>3. n \div PageTokens \in Nat /\ (n + k - 1) \div PageTokens \in Nat
  BY <1>1, WholePages
<1> QED BY <1>2, <1>3 DEF PageAt

\* Two tokens are not in the same row of the same page.
LEMMA CellUnique ==
    ASSUME NEW k \in Nat \ {0}, NEW l \in Nat \ {0}, PageAt(k) = PageAt(l), RowAt(k) = RowAt(l)
    PROVE  k = l
<1>1. k = (PageAt(k) - 1) * PageTokens + RowAt(k)
  BY CellParts
<1>2. l = (PageAt(l) - 1) * PageTokens + RowAt(l)
  BY CellParts
<1> QED BY <1>1, <1>2

\* The row of a token in the page past the whole ones.
LEMMA CellOfTail ==
    ASSUME NEW n \in Nat, NEW k \in 1..n, n \div PageTokens < PageAt(k)
    PROVE  /\ ~Aligned(n) /\ PageAt(k) = n \div PageTokens + 1 /\ PageAt(k) = DivCeil(n)
           /\ RowAt(k) <= n % PageTokens
<1>1. /\ PageAt(k) \in 1..DivCeil(n) /\ RowAt(k) \in 1..PageTokens
      /\ k = (PageAt(k) - 1) * PageTokens + RowAt(k)
  BY CellParts
<1>2. DivCeil(n) = (n \div PageTokens) + (IF Aligned(n) THEN 0 ELSE 1) /\ DivCeil(n) \in Nat
  BY PagesFor
<1>3. /\ n \div PageTokens \in Nat /\ n % PageTokens = n - (n \div PageTokens) * PageTokens
      /\ (n \div PageTokens) * PageTokens \in Nat
  BY WholePages
<1>4. ~Aligned(n) /\ PageAt(k) = n \div PageTokens + 1 /\ PageAt(k) = DivCeil(n)
  BY <1>1, <1>2, <1>3
<1>5. PageAt(k) - 1 = n \div PageTokens
  BY <1>3, <1>4
<1>6. RowAt(k) = k - (n \div PageTokens) * PageTokens
  BY <1>1, <1>3, <1>5
<1>7. RowAt(k) <= n % PageTokens
  BY <1>3, <1>6
<1> QED BY <1>4, <1>7

\* What a reader finds, token by token.
LEMMA ReadsAt ==
    ASSUME NEW slab, NEW table, NEW n
    PROVE  ReadThrough(slab, table, n) = [k \in 1..n |-> At(slab, table, k)]
BY DEF ReadThrough, At, PageAt, RowAt

----------------------------------------------------------------------------
(* Where the pages of a sequence and of an entry are. *)

\* Pages of their own for everybody, and published tables that list them.
Laid(c, pl, tabs) == Exact(c) /\ Placed(c.pages, pl) /\ Shown(c, tabs)

\* The table of a live sequence lists storage of its own pages that is handed out.
LEMMA TableStored ==
    ASSUME NEW c, NEW pl, NEW tabs, Laid(c, pl, tabs), NEW s \in LiveIn(c.sequences),
           NEW q, q = c.sequences[s]
    PROVE  /\ q \in SequenceSlot /\ Table(q) \in Seq(PageId)
           /\ tabs[s].position = q.position
           /\ DOMAIN tabs[s].pages = DOMAIN Table(q)
           /\ Len(tabs[s].pages) = Len(Table(q))
           /\ tabs[s].pages \in Seq(PhysicalPages)
           /\ \A i \in DOMAIN Table(q) :
                /\ Table(q)[i].slot \in DOMAIN c.pages
                /\ c.pages[Table(q)[i].slot].live
                /\ tabs[s].pages[i] = c.pages[Table(q)[i].slot].physical
                /\ tabs[s].pages[i] \in PhysicalPages
                /\ pl[tabs[s].pages[i]] = "held"
           /\ \A i, j \in DOMAIN Table(q) : tabs[s].pages[i] = tabs[s].pages[j] => i = j
<1>1. Exact(c) /\ Placed(c.pages, pl) /\ Shown(c, tabs)
  BY DEF Laid
<1>2. q \in SequenceSlot /\ Resolves(c.pages, Table(q))
  BY <1>1, TableParts
<1>3. Table(q) \in Seq(PageId)
  BY <1>1, HandlesLive
<1>4. tabs[s] = [pages |-> PhysicalRefs(c, Table(q)), position |-> q.position]
  BY <1>1, SMTT(30) DEF Shown, TableOf
<1>5. /\ tabs[s].position = q.position /\ DOMAIN tabs[s].pages = DOMAIN Table(q)
      /\ \A i \in DOMAIN Table(q) : tabs[s].pages[i] = c.pages[Table(q)[i].slot].physical
  BY <1>4 DEF PhysicalRefs
<1>6. \A i \in DOMAIN Table(q) :
        Table(q)[i].slot \in DOMAIN c.pages /\ c.pages[Table(q)[i].slot].live
  BY <1>2 DEF Resolves
<1>7. \A i \in DOMAIN Table(q) :
        tabs[s].pages[i] \in PhysicalPages /\ pl[tabs[s].pages[i]] = "held"
  BY <1>1, <1>5, <1>6 DEF Placed
<1>8. \A i, j \in DOMAIN Table(q) : tabs[s].pages[i] = tabs[s].pages[j] => i = j
  BY <1>1, <1>2, <1>5, <1>6 DEF Placed, Resolves
<1>9. tabs[s].pages = [i \in 1..Len(Table(q)) |-> c.pages[Table(q)[i].slot].physical]
  BY <1>3, <1>4 DEF PhysicalRefs
<1>10. tabs[s].pages \in Seq(PhysicalPages) /\ Len(tabs[s].pages) = Len(Table(q))
  <2>1. Len(Table(q)) \in Nat /\ DOMAIN Table(q) = 1..Len(Table(q))
    BY <1>3
  <2>2. PICK n, table : n \in Nat /\ n = Len(Table(q)) /\ table = tabs[s].pages
    BY <2>1
  <2>3. table \in [1..n -> PhysicalPages]
    BY <1>5, <1>7, <1>9, <2>1, <2>2, Zenon
  <2>4. table \in Seq(PhysicalPages) /\ Len(table) = n
    BY <2>2, <2>3
  <2> QED BY <2>2, <2>4
<1> QED BY <1>2, <1>3, <1>5, <1>6, <1>7, <1>8, <1>10

\* The pages of an entry are full, and on storage that is handed out.
LEMMA EntryStored ==
    ASSUME NEW c, NEW pl, NEW tabs, Laid(c, pl, tabs), Valid(c), NEW id \in DOMAIN c.prefixes,
           NEW e, e = c.prefixes[id]
    PROVE  /\ e \in PrefixEntry /\ AllLive(c, e.pages)
           /\ e.position = Len(e.pages) * PageTokens /\ DivCeil(e.position) = Len(e.pages)
           /\ \A i \in DOMAIN e.pages :
                /\ e.pages[i].slot \in DOMAIN c.pages
                /\ c.pages[e.pages[i].slot].live /\ FullAt(c.pages, e.pages[i].slot)
                /\ c.pages[e.pages[i].slot].physical \in PhysicalPages
                /\ pl[c.pages[e.pages[i].slot].physical] = "held"
<1>1. Exact(c) /\ Placed(c.pages, pl) /\ Valid(c)
  BY DEF Laid
<1>2. e \in PrefixEntry
  BY <1>1 DEF Exact, Sound, PrefixesOK
<1>3. \A p \in SlotsOf(e.pages) : p \in DOMAIN c.pages /\ c.pages[p].live /\ FullAt(c.pages, p)
  BY <1>1, EntryParts, EntryFull
<1>4. \A i \in DOMAIN e.pages : e.pages[i].slot \in SlotsOf(e.pages)
  BY DEF SlotsOf
<1>5. \A i \in DOMAIN e.pages :
        /\ c.pages[e.pages[i].slot].physical \in PhysicalPages
        /\ pl[c.pages[e.pages[i].slot].physical] = "held"
  BY <1>1, <1>3, <1>4 DEF Placed
<1>6. Resolves(c.pages, e.pages)
  BY <1>1, SMTT(30) DEF Exact, Owned, OwnedParts, Refs, Keeps
<1>7. AllLive(c, e.pages)
  BY <1>6 DEF Resolves, AllLive, LivePage
<1>8. Len(e.pages) * PageTokens = e.position /\ Len(e.pages) \in Nat
  BY <1>1, <1>2 DEF Valid, EntryOK, PrefixEntry
<1>9. DivCeil(e.position) = Len(e.pages)
  BY <1>8, WholeRun
<1> QED BY <1>2, <1>3, <1>4, <1>5, <1>7, <1>8, <1>9, Zenon

\* The table of a sequence is its pages followed by the pending ones.
LEMMA TableCells ==
    ASSUME NEW q, q.pages \in Seq(PageId), q.pending.new_pages \in Seq(PageId)
    PROVE  /\ Table(q) \in Seq(PageId)
           /\ Len(Table(q)) = Len(q.pages) + Len(q.pending.new_pages)
           /\ \A i \in DOMAIN q.pages : i \in DOMAIN Table(q) /\ Table(q)[i] = q.pages[i]
           /\ \A i \in DOMAIN Table(q) : i \notin DOMAIN q.pages =>
                /\ i - Len(q.pages) \in DOMAIN q.pending.new_pages
                /\ Table(q)[i] = q.pending.new_pages[i - Len(q.pages)]
<1>1. PICK a \in Seq(PageId), b \in Seq(PageId) : a = q.pages /\ b = q.pending.new_pages
  OBVIOUS
<1>2. /\ a \o b \in Seq(PageId)
      /\ \A i \in DOMAIN a : i \in DOMAIN (a \o b) /\ (a \o b)[i] = a[i]
      /\ \A i \in DOMAIN (a \o b) :
           \/ i \in DOMAIN a /\ (a \o b)[i] = a[i]
           \/ i - Len(a) \in DOMAIN b /\ (a \o b)[i] = b[i - Len(a)]
  BY SlotsJoined
<1>3. Len(a \o b) = Len(a) + Len(b)
  BY JoinedSize
<1>4. Table(q) = a \o b
  BY <1>1 DEF Table
<1> QED BY <1>1, <1>2, <1>3, <1>4

\* The rows of a pending append go to pages that are not full.
LEMMA SpanOpen ==
    ASSUME Managed, NEW s \in LiveIn(cache.sequences), NEW q, q = cache.sequences[s], Covered(q),
           NEW k \in 1..q.pending.rows, NEW i, i = PageAt(q.position + k)
    PROVE  i \in DOMAIN Table(q) /\ ~FullAt(cache.pages, Table(q)[i].slot)
<1>1. Exact(cache) /\ Valid(cache)
  BY DEF Managed, Stored
<1>2. /\ q \in SequenceSlot /\ q.pages \in Seq(PageId) /\ q.pending.new_pages \in Seq(PageId)
  BY <1>1, TableParts
<1>3. q.position \in Nat /\ q.pending.rows \in Nat
  BY <1>2 DEF SequenceSlot
<1>4. q.position + k \in 1..(q.position + q.pending.rows) /\ q.position + q.pending.rows \in Nat
  BY <1>3
<1>5. i \in 1..DivCeil(q.position + q.pending.rows)
  BY <1>4, CellParts
<1>6. /\ Len(Table(q)) = DivCeil(q.position + q.pending.rows) /\ Table(q) \in Seq(PageId)
      /\ Len(Table(q)) = Len(q.pages) + Len(q.pending.new_pages)
  BY <1>2, TableCells DEF Covered
<1>7. i \in DOMAIN Table(q)
  BY <1>5, <1>6
<1>8. i \in Nat /\ q.position \div PageTokens < i
  BY <1>3, CellBehind
<1>9. FilledTo(cache.pages, q)
  BY <1>1 DEF Valid
<1>10. CASE i \in DOMAIN q.pages
  <2>1. Table(q)[i] = q.pages[i]
    BY <1>2, <1>10, TableCells
  <2>2. cache.pages[q.pages[i].slot].valid_tokens = RowsInPage(q.position, i)
    BY <1>9, <1>10 DEF FilledTo
  <2>3. RowsInPage(q.position, i) < PageTokens
    BY <1>3, <1>8, RowsAfter
  <2>4. RowsInPage(q.position, i) # PageTokens
    BY <2>3, ConfigAssumption
  <2> QED BY <1>7, <2>1, <2>2, <2>4 DEF FullAt
<1>11. CASE i \notin DOMAIN q.pages
  <2>1. /\ i - Len(q.pages) \in DOMAIN q.pending.new_pages
        /\ Table(q)[i] = q.pending.new_pages[i - Len(q.pages)]
    BY <1>2, <1>7, <1>11, TableCells, Zenon
  <2>2. cache.pages[Table(q)[i].slot].valid_tokens = 0
    BY <1>9, <2>1, Zenon DEF FilledTo
  <2> QED BY <1>7, <2>2, ConfigAssumption DEF FullAt
<1> QED BY <1>10, <1>11

----------------------------------------------------------------------------
(* Steps that write nothing to a page in use. *)

\* The pages that stay handed out keep their rows.
Steady ==
    /\ content' \in [PhysicalPages -> PageContent]
    /\ \A p \in PhysicalPages : pool[p] = "held" /\ pool'[p] = "held" => content'[p] = content[p]

\* What is known of the manager before and after a step.
BothLaid ==
    /\ Laid(cache, pool, tables) /\ Valid(cache)
    /\ Laid(cache', pool', tables') /\ Valid(cache')
    /\ Evolves(cache.pages, cache'.pages)

\* A step that only takes rows from pages that are given back.
LEMMA HoldingSteady ==
    ASSUME NEW rows \in [PhysicalPages -> PageContent], Holding(rows),
           \A p \in PhysicalPages : pool[p] = "held" => rows[p] = content[p]
    PROVE  Steady
<1>1. BlankPage \in PageContent
  BY DEF BlankPage, PageContent
<1>2. content' = [p \in PhysicalPages |-> IF pool'[p] = "held" THEN rows[p] ELSE BlankPage]
  BY DEF Holding
<1> QED BY <1>1, <1>2 DEF Steady

\* A page that is in use before and after the step is on the same storage, with the same rows.
LEMMA HandleStays ==
    ASSUME BothLaid, Steady, NEW h, LivePage(cache, h), LivePage(cache', h)
    PROVE  /\ cache'.pages[h.slot].physical = cache.pages[h.slot].physical
           /\ content'[cache'.pages[h.slot].physical] = content[cache.pages[h.slot].physical]
<1>1. PICK d, pl : d = cache' /\ pl = pool'
  OBVIOUS
<1>2. Placed(cache.pages, pool) /\ Placed(d.pages, pl) /\ Evolves(cache.pages, d.pages)
  BY <1>1 DEF BothLaid, Laid
<1>3. /\ h.slot \in DOMAIN cache.pages /\ cache.pages[h.slot].live
      /\ h.slot \in DOMAIN d.pages /\ d.pages[h.slot].live
      /\ d.pages[h.slot].generation = cache.pages[h.slot].generation
  BY <1>1 DEF LivePage
<1>4. d.pages[h.slot].physical = cache.pages[h.slot].physical
  BY <1>2, <1>3 DEF Evolves, PageKept
<1>5. /\ cache.pages[h.slot].physical \in PhysicalPages
      /\ pool[cache.pages[h.slot].physical] = "held" /\ pl[d.pages[h.slot].physical] = "held"
  BY <1>2, <1>3 DEF Placed
<1>6. content'[cache.pages[h.slot].physical] = content[cache.pages[h.slot].physical]
  BY <1>1, <1>4, <1>5 DEF Steady
<1> QED BY <1>1, <1>4, <1>6

\* Whoever reads the same pages, in use before and after the step, finds the same tokens.
LEMMA RunStays ==
    ASSUME BothLaid, Steady, NEW ids, NEW others, NEW n \in Nat,
           \A i \in 1..DivCeil(n) :
             /\ i \in DOMAIN ids /\ i \in DOMAIN others /\ others[i] = ids[i]
             /\ LivePage(cache, ids[i]) /\ LivePage(cache', ids[i])
    PROVE  \A k \in 1..n :
             At(content', PhysicalRefs(cache', others), k) = At(content, PhysicalRefs(cache, ids), k)
<1> SUFFICES ASSUME NEW k \in 1..n
             PROVE  At(content', PhysicalRefs(cache', others), k)
                      = At(content, PhysicalRefs(cache, ids), k)
  OBVIOUS
<1>1. PICK i, h : i = PageAt(k) /\ h = ids[i]
  OBVIOUS
<1>2. i \in 1..DivCeil(n)
  BY <1>1, CellParts
<1>3. /\ i \in DOMAIN ids /\ i \in DOMAIN others /\ others[i] = h
      /\ LivePage(cache, h) /\ LivePage(cache', h)
  BY <1>1, <1>2
<1>4. content'[cache'.pages[h.slot].physical] = content[cache.pages[h.slot].physical]
  BY <1>3, HandleStays
<1>5. /\ PhysicalRefs(cache', others)[i] = cache'.pages[h.slot].physical
      /\ PhysicalRefs(cache, ids)[i] = cache.pages[h.slot].physical
  BY <1>1, <1>3 DEF PhysicalRefs
<1> QED BY <1>1, <1>4, <1>5 DEF At

\* The handles of a sequence and of an entry, before and after a step.
LEMMA HandlesIn ==
    ASSUME NEW c, NEW pl, NEW tabs, Laid(c, pl, tabs)
    PROVE  /\ \A s \in LiveIn(c.sequences) :
                /\ c.sequences[s] \in SequenceSlot
                /\ Table(c.sequences[s]) \in Seq(PageId)
                /\ tabs[s].pages = PhysicalRefs(c, Table(c.sequences[s]))
                /\ tabs[s].position = c.sequences[s].position
                /\ \A i \in DOMAIN Table(c.sequences[s]) : LivePage(c, Table(c.sequences[s])[i])
           /\ \A id \in DOMAIN c.prefixes :
                /\ c.prefixes[id] \in PrefixEntry
                /\ \A i \in DOMAIN c.prefixes[id].pages : LivePage(c, c.prefixes[id].pages[i])
<1>1. Exact(c) /\ Sound(c) /\ Shown(c, tabs)
  BY DEF Laid, Exact
<1>2. ASSUME NEW s \in LiveIn(c.sequences)
      PROVE  /\ c.sequences[s] \in SequenceSlot
             /\ Table(c.sequences[s]) \in Seq(PageId)
             /\ tabs[s].pages = PhysicalRefs(c, Table(c.sequences[s]))
             /\ tabs[s].position = c.sequences[s].position
             /\ \A i \in DOMAIN Table(c.sequences[s]) : LivePage(c, Table(c.sequences[s])[i])
  <2>1. c.sequences[s] \in SequenceSlot
    BY <1>1, TableParts
  <2>2. Table(c.sequences[s]) \in Seq(PageId) /\ AllLive(c, Table(c.sequences[s]))
    BY <1>1, HandlesLive
  <2>3. /\ tabs[s].pages = PhysicalRefs(c, Table(c.sequences[s]))
        /\ tabs[s].position = c.sequences[s].position
    <3>1. tabs[s] = [pages |-> PhysicalRefs(c, Table(c.sequences[s])),
                     position |-> c.sequences[s].position]
      BY <1>1, SMTT(30) DEF Shown, TableOf
    <3> QED BY <3>1
  <2> QED BY <2>1, <2>2, <2>3 DEF AllLive
<1>3. ASSUME NEW id \in DOMAIN c.prefixes
      PROVE  /\ c.prefixes[id] \in PrefixEntry
             /\ \A i \in DOMAIN c.prefixes[id].pages : LivePage(c, c.prefixes[id].pages[i])
  <2>1. Resolves(c.pages, c.prefixes[id].pages)
    BY <1>1 DEF Exact, Owned, OwnedParts, Refs, Keeps
  <2>2. c.prefixes[id] \in PrefixEntry
    BY <1>1 DEF Sound, PrefixesOK
  <2> QED BY <2>1, <2>2 DEF Resolves, LivePage
<1> QED BY <1>2, <1>3

----------------------------------------------------------------------------
(* What a step leaves alone. *)

\* What a reader finds for a sequence.
History(s) ==
    IF s \in LiveSequences THEN ReadThrough(content, tables[s].pages, tables[s].position) ELSE <<>>

\* What a reader finds for an entry.
Kept(id) ==
    ReadThrough(content, PhysicalRefs(cache, cache.prefixes[id].pages), cache.prefixes[id].position)

\* The entry has the tokens of its key in its pages.
HoldsKey(id) ==
    LET e == cache.prefixes[id]
    IN  /\ AllLive(cache, e.pages)
        /\ [i \in DOMAIN e.pages |-> content[cache.pages[e.pages[i].slot].physical]] = e.key

\* A sequence with the same record reads the same tokens.
LEMMA SequenceStays ==
    ASSUME BothLaid, Steady, NEW s \in LiveIn(cache.sequences), SequenceReadable(s),
           s \in LiveIn(cache'.sequences), cache'.sequences[s] = cache.sequences[s],
           draft'[s] = draft[s], draft[s] \in Seq(Tokens)
    PROVE  SequenceReadable(s)' /\ History(s)' = History(s)
<1>1. PICK d, pl, tabs, q, table :
        d = cache' /\ pl = pool' /\ tabs = tables' /\ q = cache.sequences[s] /\ table = Table(q)
  OBVIOUS
<1>2. /\ Laid(d, pl, tabs) /\ s \in LiveIn(d.sequences) /\ d.sequences[s] = q
      /\ table = Table(d.sequences[s])
  BY <1>1 DEF BothLaid
<1>3. /\ q \in SequenceSlot /\ table \in Seq(PageId)
      /\ tables[s].pages = PhysicalRefs(cache, table) /\ tables[s].position = q.position
      /\ \A i \in DOMAIN table : LivePage(cache, table[i])
  BY <1>1, HandlesIn, ZenonT(60) DEF BothLaid
<1>4. /\ tabs[s].pages = PhysicalRefs(d, table) /\ tabs[s].position = q.position
      /\ \A i \in DOMAIN table : LivePage(d, table[i])
  BY <1>2, HandlesIn, ZenonT(60)
<1>5. PICK n \in Nat : n = q.position + q.pending.rows /\ q.position \in Nat /\ q.pending.rows \in Nat
  <2>1. q \in SequenceSlot
    BY <1>3
  <2>2. q.position \in Nat /\ q.pending.rows \in Nat
    BY <2>1 DEF SequenceSlot
  <2> QED BY <2>2
<1>6. Covered(q) /\ Len(table) = DivCeil(n)
  BY <1>1, <1>5 DEF SequenceReadable, Covered
<1>7. \A i \in 1..DivCeil(n) : i \in DOMAIN table /\ LivePage(cache, table[i]) /\ LivePage(cache', table[i])
  BY <1>1, <1>3, <1>4, <1>6
<1>8. \A k \in 1..n : At(content', PhysicalRefs(cache', table), k) = At(content, PhysicalRefs(cache, table), k)
  BY <1>7, RunStays
<1>9. \A k \in 1..n : At(content', tables'[s].pages, k) = At(content, tables[s].pages, k)
  BY <1>1, <1>3, <1>4, <1>8
<1>10. tables'[s].position = tables[s].position /\ tables[s].position = q.position
  BY <1>1, <1>3, <1>4
<1>11. HasTokens(s)'
  BY <1>5, <1>9, <1>10 DEF SequenceReadable, HasTokens
<1>12. Drafted(s)'
  <2>1. CASE draft[s] = <<>>
    BY <2>1 DEF Drafted
  <2>2. CASE draft[s] # <<>>
    <3>1. /\ q.pending.rows = Len(draft[s])
          /\ \A k \in 1..Len(draft[s]) :
               At(content, tables[s].pages, tables[s].position + k) = draft[s][k]
      BY <1>1, <2>2 DEF SequenceReadable, Drafted
    <3>2. \A k \in 1..Len(draft[s]) : tables[s].position + k \in 1..n
      BY <1>5, <1>10, <3>1
    <3> QED BY <1>1, <1>9, <1>10, <3>1, <3>2 DEF Drafted
  <2> QED BY <2>1, <2>2
<1>13. Covered(cache.sequences[s])'
  BY <1>1, <1>6 DEF Covered
<1>14. History(s)' = History(s)
  <2>1. s \in LiveSequences /\ s \in LiveSequences'
    BY DEF LiveSequences, LiveIn
  <2>2. \A k \in 1..q.position : At(content', tables'[s].pages, k) = At(content, tables[s].pages, k)
    BY <1>5, <1>9
  <2>3. /\ History(s) = [k \in 1..q.position |-> At(content, tables[s].pages, k)]
        /\ History(s)' = [k \in 1..q.position |-> At(content', tables'[s].pages, k)]
    BY <1>10, <2>1, ReadsAt DEF History
  <2> QED BY <2>2, <2>3
<1> QED BY <1>11, <1>12, <1>13, <1>14 DEF SequenceReadable

\* An entry that stays has the same tokens.
LEMMA EntryStays ==
    ASSUME BothLaid, Steady, NEW id \in DOMAIN cache.prefixes, id \in DOMAIN cache'.prefixes,
           SameEntry(cache.prefixes[id], cache'.prefixes[id]), HoldsKey(id)
    PROVE  HoldsKey(id)' /\ Kept(id)' = Kept(id)
<1>1. PICK d, pl, tabs, e, f :
        /\ d = cache' /\ pl = pool' /\ tabs = tables' /\ e = cache.prefixes[id]
        /\ f = d.prefixes[id]
  OBVIOUS
<1>2. /\ Laid(d, pl, tabs) /\ Valid(d) /\ id \in DOMAIN d.prefixes
      /\ Laid(cache, pool, tables) /\ Valid(cache)
      /\ f.pages = e.pages /\ f.position = e.position /\ f.key = e.key
  BY <1>1 DEF BothLaid, SameEntry
<1>3. /\ \A i \in DOMAIN e.pages : LivePage(cache, e.pages[i]) /\ LivePage(d, e.pages[i])
  BY <1>1, <1>2, HandlesIn
<1>4. e \in PrefixEntry /\ DivCeil(e.position) = Len(e.pages)
  BY <1>1, <1>2, EntryStored
<1>5. e.position \in Nat /\ \A i \in 1..DivCeil(e.position) : i \in DOMAIN e.pages
  BY <1>4 DEF PrefixEntry
<1>6. \A k \in 1..e.position :
        At(content', PhysicalRefs(cache', e.pages), k) = At(content, PhysicalRefs(cache, e.pages), k)
  BY <1>1, <1>3, <1>5, RunStays
<1>7. Kept(id) = [k \in 1..e.position |-> At(content, PhysicalRefs(cache, e.pages), k)]
  BY <1>1, ReadsAt DEF Kept
<1>8. Kept(id)' = [k \in 1..e.position |-> At(content', PhysicalRefs(cache', e.pages), k)]
  <2>1. Kept(id)' = ReadThrough(content', PhysicalRefs(cache', f.pages), f.position)
    BY <1>1 DEF Kept
  <2> QED BY <1>2, <2>1, ReadsAt
<1>9. Kept(id)' = Kept(id)
  BY <1>6, <1>7, <1>8, SMTT(30)
<1>10. \A i \in DOMAIN e.pages :
         content'[cache'.pages[e.pages[i].slot].physical] = content[cache.pages[e.pages[i].slot].physical]
  BY <1>1, <1>3, HandleStays
<1>11. [i \in DOMAIN e.pages |-> content[cache.pages[e.pages[i].slot].physical]] = e.key
  BY <1>1, Zenon DEF HoldsKey
<1>12. [i \in DOMAIN e.pages |-> content'[cache'.pages[e.pages[i].slot].physical]] = e.key
  BY <1>10, <1>11, Zenon
<1>13. AllLive(cache', e.pages)
  BY <1>1, <1>3 DEF AllLive
<1>14. f = cache'.prefixes[id] /\ f.pages = e.pages /\ f.key = e.key
  BY <1>1, <1>2
<1>15. HoldsKey(id)'
  BY <1>12, <1>13, <1>14, Zenon DEF HoldsKey
<1> QED BY <1>9, <1>15

----------------------------------------------------------------------------
(* The manager's part of a step. *)

\* A lookup of any prompt, and a retention of what is retained, touch an entry.
Touches ==
    \E id \in DOMAIN cache.prefixes :
      cache' = Touch(cache, id) /\ UNCHANGED <<pool, tables>> /\ result' = "ok"

\* Whatever the manager does keeps what is known of it.
LEMMA StepManaged ==
    ASSUME Managed, [Next]_vars \/ Touches
    PROVE  Managed' /\ BothLaid
<1>1. PageReuse < MaxGeneration
  BY ContentAssumption
<1>2. IInv /\ Owned(cache) /\ Exact(cache) /\ Stored /\ Valid(cache) /\ Ordered(cache)
  BY DEF Managed, Stored, Exact
<1>3. CASE [Next]_vars
  <2>1. IInv' /\ Owned(cache)'
    BY <1>1, <1>2, <1>3, NextIInv, NextOwned
  <2>2. Exact(cache') /\ Stepped
    BY <1>1, <1>2, <1>3, <2>1, StepParts
  <2>3. Stored' /\ Valid(cache') /\ Ordered(cache')
    BY <1>1, <1>2, <1>3, <2>2, NextStored, NextValid, NextOrdered DEF StaysValid
  <2>4. Evolves(cache.pages, cache'.pages)
    BY <2>2 DEF Stepped, Keeping
  <2> QED BY <1>2, <2>1, <2>3, <2>4 DEF Managed, BothLaid, Laid, Stored
<1>4. CASE Touches
  <2>1. PICK id \in DOMAIN cache.prefixes :
          cache' = Touch(cache, id) /\ UNCHANGED <<pool, tables>> /\ result' = "ok"
    BY <1>4 DEF Touches
  <2>2. PICK d : d = cache'
    OBVIOUS
  <2>3. IInv' /\ Owned(d) /\ Keeping(cache, d) /\ Sound(d)
    BY <1>2, <2>1, <2>2, TouchedIInv, TouchOwned, TouchKeeping DEF IInv
  <2>4. Stepped
    BY <2>2, <2>3 DEF Stepped, Exact
  <2>5. Ordered(d) /\ Touched(cache, d)
    BY <1>2, <2>1, <2>2, TouchOrdered DEF Exact
  <2>6. StaysValid
    BY <1>2, <2>1, <2>4, TouchValid
  <2>7. TakesBack(pool, {}, pool')
    BY <2>1 DEF TakesBack
  <2>8. Stored'
    BY <1>2, <2>1, <2>2, <2>4, <2>5, <2>7, QuietStored DEF Touched
  <2> QED BY <1>2, <2>2, <2>3, <2>5, <2>6, <2>8 DEF Managed, BothLaid, Laid, Stored, StaysValid, Keeping
<1> QED BY <1>3, <1>4

----------------------------------------------------------------------------
(* Putting the parts together. *)

\* Only the sequence s has another record, or comes or goes.
OnlyChanges(s) ==
    /\ \A t \in LiveIn(cache.sequences) \ {s} :
         t \in LiveIn(cache'.sequences) /\ cache'.sequences[t] = cache.sequences[t]
    /\ \A t \in LiveIn(cache'.sequences) \ {s} : t \in LiveIn(cache.sequences)
    /\ \A t \in SlotBound \ {s} : draft'[t] = draft[t]
    /\ draft' \in [SlotBound -> Seq(Tokens)]
    /\ DOMAIN cache'.sequences \subseteq SlotBound

\* Entries may go, and none comes or changes its pages.
OnlyEvicts ==
    \A id \in DOMAIN cache'.prefixes :
      id \in DOMAIN cache.prefixes /\ SameEntry(cache.prefixes[id], cache'.prefixes[id])

\* The other sequences read what they read before.
LEMMA OthersRead ==
    ASSUME BothLaid, Steady, Readable, NEW s, OnlyChanges(s), NEW t \in SlotBound \ {s}
    PROVE  /\ History(t)' = History(t)
           /\ t \in LiveIn(cache'.sequences) => SequenceReadable(t)'
           /\ t \notin LiveIn(cache'.sequences) => draft'[t] = <<>>
<1>1. draft'[t] = draft[t] /\ draft[t] \in Seq(Tokens)
  BY DEF OnlyChanges, Readable, ContentTyped
<1>2. CASE t \in LiveIn(cache.sequences)
  <2>1. t \in LiveIn(cache'.sequences) /\ cache'.sequences[t] = cache.sequences[t]
    BY <1>2 DEF OnlyChanges
  <2>2. SequenceReadable(t)
    BY <1>2 DEF Readable
  <2> QED BY <1>1, <1>2, <2>1, <2>2, SequenceStays
<1>3. CASE t \notin LiveIn(cache.sequences)
  <2>1. t \notin LiveIn(cache'.sequences)
    BY <1>3 DEF OnlyChanges
  <2>2. t \notin LiveSequences /\ t \notin LiveSequences'
    BY <1>3, <2>1 DEF LiveSequences, LiveIn
  <2>3. draft[t] = <<>>
    BY <1>3 DEF Readable
  <2> QED BY <1>1, <2>1, <2>2, <2>3 DEF History
<1> QED BY <1>2, <1>3

\* What remains to be shown of a step.
LEMMA ReadableAfter ==
    ASSUME BothLaid, Steady, Readable, NEW s, OnlyChanges(s), EntriesHoldTheirKeys',
           s \in LiveIn(cache'.sequences) => SequenceReadable(s)',
           s \in SlotBound \ LiveIn(cache'.sequences) => draft'[s] = <<>>
    PROVE  Readable'
<1>1. ContentTyped'
  BY DEF Steady, OnlyChanges, ContentTyped
<1>2. ASSUME NEW t \in LiveIn(cache'.sequences) PROVE SequenceReadable(t)'
  <2>1. t \in SlotBound
    BY DEF OnlyChanges, LiveIn
  <2> QED BY <2>1, OthersRead
<1>3. ASSUME NEW t \in SlotBound \ LiveIn(cache'.sequences) PROVE draft'[t] = <<>>
  BY OthersRead
<1> QED BY <1>1, <1>2, <1>3 DEF Readable

\* The entries that stay.
LEMMA EntriesRead ==
    ASSUME BothLaid, Steady, Readable, OnlyEvicts
    PROVE  EntriesHoldTheirKeys' /\ \A id \in DOMAIN cache'.prefixes : Kept(id)' = Kept(id)
<1>1. \A id \in DOMAIN cache.prefixes : HoldsKey(id)
  BY Zenon DEF Readable, EntriesHoldTheirKeys, HoldsKey
<1>2. ASSUME NEW id \in DOMAIN cache'.prefixes PROVE HoldsKey(id)' /\ Kept(id)' = Kept(id)
  BY <1>1, EntryStays DEF OnlyEvicts
<1> QED BY <1>2, Zenon DEF EntriesHoldTheirKeys, HoldsKey

----------------------------------------------------------------------------
(* The steps of the store. *)

\* What the variable history of TokenStore stands for.
Histories == [s \in SlotBound |-> History(s)]

\* What the variable retained of TokenStore stands for.
Retained == [id \in DOMAIN cache.prefixes |-> Kept(id)]

\* Entries that go.
LEMMA StoreEvicting ==
    ASSUME OnlyEvicts, \A id \in DOMAIN cache'.prefixes : Kept(id)' = Kept(id)
    PROVE  Store!Evicting
<1>1. PICK gone : gone = DOMAIN cache.prefixes \ DOMAIN cache'.prefixes
  OBVIOUS
<1>2. gone \in SUBSET DOMAIN Retained /\ DOMAIN Retained \ gone = DOMAIN cache'.prefixes
  BY <1>1 DEF OnlyEvicts, Retained
<1>3. Retained' = [id \in DOMAIN cache'.prefixes |-> Kept(id)']
  BY DEF Retained
<1>4. \A id \in DOMAIN cache'.prefixes : Kept(id)' = Retained[id]
  BY DEF Retained, OnlyEvicts
<1>5. Retained' = Store!Restrict(Retained, DOMAIN Retained \ gone)
  BY <1>2, <1>3, <1>4 DEF Store!Restrict
<1> QED BY <1>2, <1>5 DEF Store!Evicting, Retained, Kept

\* One history changes, or none.
LEMMA HistoriesWith ==
    ASSUME NEW s \in SlotBound, \A t \in SlotBound \ {s} : History(t)' = History(t)
    PROVE  /\ Histories' = [Histories EXCEPT ![s] = History(s)']
           /\ Histories[s] = History(s) /\ Histories'[s] = History(s)'
           /\ History(s)' = History(s) => Histories' = Histories
BY DEF Histories

\* The entries are the same.
LEMMA SameEntries ==
    ASSUME BothLaid, Steady, Readable, cache'.prefixes = cache.prefixes
    PROVE  EntriesHoldTheirKeys' /\ Retained' = Retained /\ OnlyEvicts
<1>1. OnlyEvicts
  BY DEF OnlyEvicts, SameEntry
<1>2. EntriesHoldTheirKeys' /\ \A id \in DOMAIN cache'.prefixes : Kept(id)' = Kept(id)
  BY <1>1, EntriesRead
<1> QED BY <1>1, <1>2 DEF Retained

\* A step that changes no sequence, and of the entries at most takes some away.
LEMMA QuietServes ==
    ASSUME BothLaid, Steady, Readable, cache'.sequences = cache.sequences, draft' = draft, OnlyEvicts
    PROVE  Readable' /\ Store!Next
<1>1. OnlyChanges(0) /\ 0 \notin SlotBound
  BY DEF OnlyChanges, SlotBound, Readable, ContentTyped
<1>2. EntriesHoldTheirKeys' /\ \A id \in DOMAIN cache'.prefixes : Kept(id)' = Kept(id)
  BY EntriesRead
<1>3. 0 \notin LiveIn(cache'.sequences)
  BY <1>1 DEF OnlyChanges, LiveIn
<1>4. Readable'
  BY <1>1, <1>2, <1>3, ReadableAfter
<1>5. \A t \in SlotBound : History(t)' = History(t)
  BY <1>1, OthersRead
<1>6. Histories' = Histories
  BY <1>5 DEF Histories
<1>7. Store!Evicting
  BY <1>2, StoreEvicting
<1>8. Store!Evict
  BY <1>6, <1>7 DEF Store!Evict, Histories, History
<1> QED BY <1>4, <1>8 DEF Store!Next

\* A table with the same handles at its start gives the same tokens.
LEMMA RunRead ==
    ASSUME BothLaid, Steady, NEW s \in LiveIn(cache.sequences), NEW t \in LiveIn(cache'.sequences),
           NEW n \in Nat,
           \A i \in 1..DivCeil(n) : /\ i \in DOMAIN Table(cache.sequences[s])
                                    /\ i \in DOMAIN Table(cache'.sequences[t])
                                    /\ Table(cache'.sequences[t])[i] = Table(cache.sequences[s])[i]
    PROVE  /\ \A k \in 1..n : At(content', tables'[t].pages, k) = At(content, tables[s].pages, k)
           /\ tables[s].position = cache.sequences[s].position
           /\ tables'[t].position = cache'.sequences[t].position
<1>1. PICK d, pl, tabs, ids, others :
        /\ d = cache' /\ pl = pool' /\ tabs = tables' /\ ids = Table(cache.sequences[s])
        /\ others = Table(d.sequences[t])
  OBVIOUS
<1>2. Laid(d, pl, tabs) /\ t \in LiveIn(d.sequences) /\ others = Table(d.sequences[t])
  BY <1>1 DEF BothLaid
<1>3. /\ tables[s].pages = PhysicalRefs(cache, ids)
      /\ tables[s].position = cache.sequences[s].position
      /\ \A i \in DOMAIN ids : LivePage(cache, ids[i])
  BY <1>1, HandlesIn, ZenonT(60) DEF BothLaid
<1>4. /\ tabs[t].pages = PhysicalRefs(d, others) /\ tabs[t].position = d.sequences[t].position
      /\ \A i \in DOMAIN others : LivePage(d, others[i])
  BY <1>2, HandlesIn, ZenonT(60)
<1>5. \A i \in 1..DivCeil(n) : /\ i \in DOMAIN ids /\ i \in DOMAIN others /\ others[i] = ids[i]
                               /\ LivePage(cache, ids[i]) /\ LivePage(cache', ids[i])
  BY <1>1, <1>3, <1>4
<1>6. \A k \in 1..n :
        At(content', PhysicalRefs(cache', others), k) = At(content, PhysicalRefs(cache, ids), k)
  BY <1>5, RunStays
<1> QED BY <1>1, <1>3, <1>4, <1>6

\* A sequence that has no pending append has the pages of its table.
LEMMA SettledTable ==
    ASSUME NEW q, q.pages \in Seq(PageId), q.pending = NoPending
    PROVE  Table(q) = q.pages /\ q.pending.rows = 0
<1>1. q.pending.new_pages = <<>> /\ q.pending.rows = 0
  BY DEF NoPending
<1>2. PICK a \in Seq(PageId) : a = q.pages
  OBVIOUS
<1>3. a \o <<>> = a
  OBVIOUS
<1> QED BY <1>1, <1>2, <1>3 DEF Table

\* The sequence s stays where it is, whatever becomes of its pending append.
LEMMA PlaceKept ==
    ASSUME BothLaid, Steady, Readable, NEW s \in LiveIn(cache.sequences) \cap SlotBound,
           s \in LiveIn(cache'.sequences), OnlyChanges(s), cache'.prefixes = cache.prefixes,
           cache'.sequences[s].pages = cache.sequences[s].pages,
           cache'.sequences[s].position = cache.sequences[s].position,
           Covered(cache'.sequences[s]), draft'[s] = <<>>
    PROVE  Readable' /\ Histories' = Histories /\ Retained' = Retained
<1>1. PICK d, pl, tabs, q, b :
        /\ d = cache' /\ pl = pool' /\ tabs = tables' /\ q = cache.sequences[s]
        /\ b = d.sequences[s]
  OBVIOUS
<1>2. /\ Laid(d, pl, tabs) /\ s \in LiveIn(d.sequences) /\ Laid(cache, pool, tables)
      /\ Exact(cache) /\ Exact(d) /\ Valid(cache)
  BY <1>1 DEF BothLaid, Laid
<1>3. /\ q \in SequenceSlot /\ q.pages \in Seq(PageId) /\ q.pending.new_pages \in Seq(PageId)
      /\ b.pages \in Seq(PageId) /\ b.pending.new_pages \in Seq(PageId)
  BY <1>1, <1>2, TableParts
<1>4. RecordOK(q) /\ b.pages = q.pages /\ b.position = q.position /\ q.position \in Nat
  BY <1>1, <1>2, <1>3 DEF Valid, SequenceSlot
<1>5. Len(q.pages) = DivCeil(q.position)
  BY <1>4 DEF RecordOK
<1>6. \A i \in 1..DivCeil(q.position) :
        /\ i \in DOMAIN Table(q) /\ i \in DOMAIN Table(b) /\ Table(b)[i] = Table(q)[i]
  <2> SUFFICES ASSUME NEW i \in 1..DivCeil(q.position)
               PROVE  i \in DOMAIN Table(q) /\ i \in DOMAIN Table(b) /\ Table(b)[i] = Table(q)[i]
    OBVIOUS
  <2>1. i \in DOMAIN q.pages /\ i \in DOMAIN b.pages
    BY <1>3, <1>4, <1>5
  <2>2. i \in DOMAIN Table(q) /\ Table(q)[i] = q.pages[i]
    BY <1>3, <2>1, TableCells
  <2>3. i \in DOMAIN Table(b) /\ Table(b)[i] = b.pages[i]
    BY <1>3, <2>1, TableCells
  <2> QED BY <1>4, <2>2, <2>3
<1>7. /\ \A k \in 1..q.position : At(content', tables'[s].pages, k) = At(content, tables[s].pages, k)
      /\ tables[s].position = q.position /\ tables'[s].position = q.position
  BY <1>1, <1>4, <1>6, RunRead
<1>8. SequenceReadable(s)
  BY DEF Readable
<1>9. SequenceReadable(s)'
  BY <1>7, <1>8 DEF SequenceReadable, HasTokens, Drafted
<1>10. EntriesHoldTheirKeys' /\ Retained' = Retained
  BY SameEntries
<1>11. Readable'
  BY <1>9, <1>10, ReadableAfter
<1>12. History(s)' = History(s)
  <2>1. s \in LiveSequences /\ s \in LiveSequences'
    BY DEF LiveSequences, LiveIn
  <2>2. /\ History(s) = [k \in 1..q.position |-> At(content, tables[s].pages, k)]
        /\ History(s)' = [k \in 1..q.position |-> At(content', tables'[s].pages, k)]
    BY <1>7, <2>1, ReadsAt DEF History
  <2> QED BY <1>7, <2>2
<1>13. Histories' = Histories
  BY <1>12, OthersRead, HistoriesWith
<1> QED BY <1>10, <1>11, <1>13

----------------------------------------------------------------------------
(* Appends. *)

\* One record is written.
LEMMA WithChanges ==
    ASSUME Readable, NEW s \in SlotBound, NEW after, after = cache'.sequences,
           SequencesWith(cache.sequences, s, after),
           draft' = draft \/ draft' = [draft EXCEPT ![s] = <<>>]
    PROVE  OnlyChanges(s) /\ s \in LiveIn(cache'.sequences)
<1>1. draft \in [SlotBound -> Seq(Tokens)] /\ <<>> \in Seq(Tokens)
  BY DEF Readable, ContentTyped
<1>2. draft' \in [SlotBound -> Seq(Tokens)] /\ \A t \in SlotBound \ {s} : draft'[t] = draft[t]
  BY <1>1
<1>3. DOMAIN after \subseteq SlotBound
  BY DEF Readable, ContentTyped, SequencesWith
<1> QED BY <1>2, <1>3 DEF OnlyChanges, SequencesWith, LiveIn

\* A live sequence is within the bound.
LEMMA LiveBound ==
    ASSUME Readable, NEW s \in LiveSequences
    PROVE  s \in SlotBound /\ s \in LiveIn(cache.sequences) /\ SequenceReadable(s)
BY DEF Readable, ContentTyped, LiveSequences, LiveIn

\* The record that reserve_append writes.
LEMMA ReserveRecord ==
    ASSUME IInv, NEW s \in LiveSequences, NEW rows \in Rows, ReserveAppend(s, rows),
           NEW d, d = cache', NEW q, q = cache.sequences[s], NEW n, n = NewPageCount(q, rows)
    PROVE  /\ SequencesWith(cache.sequences, s, d.sequences) /\ d.prefixes = cache.prefixes
           /\ d.sequences[s].pages = q.pages /\ d.sequences[s].position = q.position
           /\ d.sequences[s].pending.rows = rows /\ rows \in Nat
           /\ d.sequences[s].pending.new_pages \in Seq(PageId)
           /\ Len(d.sequences[s].pending.new_pages) = n /\ n \in Nat
           /\ q.pending = NoPending
<1> DEFINE new == [i \in 1..n |-> FreshPageId(cache, i)]
<1>1. CanReserve(s, rows)
  BY SMTT(40) DEF ReserveAppend
<1>2. PICK physical \in Injection(1..n, InPool("free")) :
        d = RefreshStats([InsertPages(cache, physical, 0) EXCEPT
             !.sequences[s].reserved_pages = @ - n,
             !.sequences[s].pending = [rows |-> rows, new_pages |-> new],
             !.stats.reserved_pages = @ - n])
  BY ZenonT(60) DEF ReserveAppend
<1>3. n \in Nat /\ Sound(cache) /\ s \in LiveIn(cache.sequences) /\ q.pending = NoPending
  BY <1>1 DEF CanReserve, IInv, LiveSequences, LiveIn
<1>4. d = RefreshStats(ReservedFor(InsertPages(cache, physical, 0), s, n, rows, new))
  BY <1>2 DEF ReservedFor
<1>5. new \in Seq(PageId) /\ Len(new) = n
  BY <1>3, FreshPageIds
<1> HIDE DEF new
<1>6. physical \in Seq(PhysicalPages)
  BY <1>3, AllocatedPages
<1>7. PICK x : x = InsertPages(cache, physical, 0)
  OBVIOUS
<1>8. SameRest(x, cache)
  BY <1>3, <1>6, <1>7, InsertTaken
<1>9. Sound(x)
  <2>1. 0 \in 0..PageTokens
    BY ConfigAssumption
  <2> QED BY <1>3, <1>6, <1>7, <2>1, InsertPagesSound
<1>10. x.sequences = cache.sequences /\ x.prefixes = cache.prefixes /\ s \in LiveIn(x.sequences)
  BY <1>3, <1>8 DEF SameRest
<1>11. /\ d.prefixes = x.prefixes /\ SequencesWith(x.sequences, s, d.sequences)
       /\ d.sequences[s].pages = x.sequences[s].pages
       /\ d.sequences[s].position = x.sequences[s].position
       /\ d.sequences[s].pending = [rows |-> rows, new_pages |-> new]
  BY <1>4, <1>7, <1>9, <1>10, ReservedShape
<1>12. rows \in Nat
  BY RowsNat
<1> QED BY <1>3, <1>5, <1>10, <1>11, <1>12

\* Reserving changes nothing that anybody reads.
LEMMA ReserveServes ==
    ASSUME Managed, BothLaid, Steady, Readable, draft' = draft, NEW s \in LiveSequences,
           NEW rows \in Rows, ReserveAppend(s, rows)
    PROVE  Readable' /\ UNCHANGED Store!vars
<1>1. PICK d, q, n, b :
        d = cache' /\ q = cache.sequences[s] /\ n = NewPageCount(q, rows) /\ b = d.sequences[s]
  OBVIOUS
<1>2. s \in SlotBound /\ s \in LiveIn(cache.sequences) /\ SequenceReadable(s)
  BY LiveBound
<1>3. /\ SequencesWith(cache.sequences, s, d.sequences) /\ d.prefixes = cache.prefixes
      /\ b.pages = q.pages /\ b.position = q.position
      /\ b.pending.rows = rows /\ rows \in Nat
      /\ b.pending.new_pages \in Seq(PageId)
      /\ Len(b.pending.new_pages) = n /\ n \in Nat
      /\ q.pending = NoPending
  BY <1>1, ReserveRecord DEF Managed
<1>4. OnlyChanges(s) /\ s \in LiveIn(cache'.sequences)
  <2>1. PICK after : after = cache'.sequences
    OBVIOUS
  <2> QED BY <1>1, <1>2, <1>3, <2>1, WithChanges
<1>5. q.pages \in Seq(PageId) /\ q.position \in Nat
  BY <1>1, <1>2, TableParts DEF BothLaid, Laid, SequenceSlot
<1>6. Covered(b)
  <2>1. Len(Table(b)) = Len(q.pages) + n
    BY <1>3, <1>5, TableCells
  <2>2. n = DivCeil(q.position + rows) - Len(q.pages)
    BY <1>1 DEF NewPageCount
  <2>3. Len(q.pages) \in Nat /\ DivCeil(q.position + rows) \in Nat
    <3>1. PICK m \in Nat : m = q.position + rows
      BY <1>3, <1>5
    <3>2. DivCeil(m) \in Nat
      BY PagesFor
    <3> QED BY <1>5, <3>1, <3>2
  <2>4. Len(q.pages) + n = DivCeil(q.position + rows)
    BY <2>2, <2>3
  <2> QED BY <1>3, <2>1, <2>4 DEF Covered
<1>7. draft[s] = <<>>
  <2>1. q.pending.rows = 0
    BY <1>3 DEF NoPending
  <2>2. draft[s] \in Seq(Tokens)
    BY <1>2 DEF Readable, ContentTyped
  <2>3. draft[s] # <<>> => q.pending.rows = Len(draft[s])
    BY <1>1, <1>2 DEF SequenceReadable, Drafted
  <2>4. PICK t \in Seq(Tokens) : t = draft[s]
    BY <2>2
  <2>5. Len(t) = 0 => t = <<>>
    OBVIOUS
  <2> QED BY <2>1, <2>3, <2>4, <2>5
<1>8. Readable' /\ Histories' = Histories /\ Retained' = Retained
  <2>1. /\ cache'.prefixes = cache.prefixes /\ cache'.sequences[s].pages = cache.sequences[s].pages
        /\ cache'.sequences[s].position = cache.sequences[s].position
        /\ Covered(cache'.sequences[s]) /\ draft'[s] = <<>>
    BY <1>1, <1>3, <1>6, <1>7
  <2> QED BY <1>2, <1>4, <2>1, PlaceKept
<1> QED BY <1>8 DEF Store!vars, Histories, History, Retained, Kept

\* An abort forgets what was written.
LEMMA AbortServes ==
    ASSUME Managed, BothLaid, Steady, Readable, NEW s \in LiveSequences,
           draft' = [draft EXCEPT ![s] = <<>>], AbortAppend(s)
    PROVE  Readable' /\ Store!Next
<1>1. PICK d, q, b : d = cache' /\ q = cache.sequences[s] /\ b = d.sequences[s]
  OBVIOUS
<1>2. s \in SlotBound /\ s \in LiveIn(cache.sequences) /\ Sound(cache)
  BY LiveBound DEF Managed, IInv
<1>3. PICK released : d = Released(cache, s, released)
  BY <1>1 DEF AbortAppend
<1>4. /\ d.prefixes = cache.prefixes /\ SequencesWith(cache.sequences, s, d.sequences)
      /\ b.pages = q.pages /\ b.position = q.position /\ b.pending = NoPending
  BY <1>1, <1>2, <1>3, ReleasedShape
<1>5. OnlyChanges(s) /\ s \in LiveIn(cache'.sequences)
  <2>1. PICK after : after = cache'.sequences
    OBVIOUS
  <2> QED BY <1>1, <1>2, <1>4, <2>1, WithChanges
<1>6. q.pages \in Seq(PageId) /\ q.position \in Nat /\ RecordOK(q)
  BY <1>1, <1>2, TableParts DEF BothLaid, Laid, SequenceSlot, Valid
<1>7. Covered(b)
  <2>1. Table(b) = q.pages /\ b.pending.rows = 0
    BY <1>4, <1>6, SettledTable
  <2>2. q.position + 0 = q.position
    BY <1>6
  <2> QED BY <1>4, <1>6, <2>1, <2>2 DEF Covered, RecordOK
<1>8. draft'[s] = <<>>
  BY <1>2 DEF Readable, ContentTyped
<1>9. Readable' /\ Histories' = Histories /\ Retained' = Retained
  <2>1. /\ cache'.prefixes = cache.prefixes /\ cache'.sequences[s].pages = cache.sequences[s].pages
        /\ cache'.sequences[s].position = cache.sequences[s].position
        /\ Covered(cache'.sequences[s])
    BY <1>1, <1>4, <1>7
  <2> QED BY <1>2, <1>5, <1>8, <2>1, PlaceKept
<1>10. Store!Abort(s)
  BY <1>9 DEF Store!Abort, Histories, History, Retained, Kept
<1> QED BY <1>2, <1>9, <1>10 DEF Store!Next

\* The pages that a commit leaves to the sequence.
TableAfter(q, rows) == q.pages \o KeptPages(q, rows)

\* What a commit does to the sequences and entries.
CommitsTo(d, s, q, table, rows) ==
    /\ SequencesWith(cache.sequences, s, d.sequences) /\ d.prefixes = cache.prefixes
    /\ d.sequences[s].pages = table /\ d.sequences[s].position = q.position + rows
    /\ d.sequences[s].pending = NoPending /\ rows \in Nat
    /\ table \in Seq(PageId) /\ Len(table) = DivCeil(q.position + rows)
    /\ \A i \in DOMAIN table : i \in DOMAIN Table(q) /\ Table(q)[i] = table[i]

\* The record that commit_append writes.
LEMMA CommitRecord ==
    ASSUME IInv, Exact(cache), Valid(cache), NEW s \in LiveSequences, NEW rows \in Rows,
           CommitAppend(s, rows), NEW d, d = cache', NEW q, q = cache.sequences[s],
           NEW table, table = TableAfter(q, rows)
    PROVE  CommitsTo(d, s, q, table, rows)
<1> DEFINE n == NewPageCount(q, rows)
           m == MarkCommitted(cache, q, table, rows)
           x == WithTable(m, s, table, rows)
<1>1. PICK released : released = ReleasedPages(q, rows)
  OBVIOUS
<1>2. /\ PendingAppend(s) /\ n \in 0..Len(q.pending.new_pages) /\ rows <= q.pending.rows
      /\ d = Released(x, s, released)
  BY <1>1, Zenon DEF CommitAppend, WithTable, TableAfter
<1>3. /\ Sound(cache) /\ Ledger(cache) /\ s \in LiveIn(cache.sequences) /\ s \in DOMAIN cache.sequences
  BY DEF IInv, LiveSequences, LiveIn
<1>4. /\ q.position \in Nat /\ rows \in Nat /\ table \in Seq(PageId) /\ Present(cache, released)
  BY <1>1, <1>2, CommitParts DEF TableAfter
<1>5. /\ q \in SequenceSlot /\ RecordOK(q) /\ q.pages \in Seq(PageId)
      /\ q.pending.new_pages \in Seq(PageId)
  BY <1>3, TableParts DEF Valid
<1>6. CommitTable(q, rows, table, released)
  BY <1>1, <1>2, <1>4, <1>5, CommitSizes DEF TableAfter
<1>7. \A i \in DOMAIN table : i \in DOMAIN Table(q) /\ Table(q)[i] = table[i]
  <2>1. PICK a \in Seq(PageId), new \in Seq(PageId), k \in Nat :
          a = q.pages /\ new = q.pending.new_pages /\ k = n
    BY <1>2, <1>5
  <2>2. k <= Len(new)
    BY <1>2, <2>1
  <2>3. PICK kept : kept = SubSeq(new, 1, k)
    OBVIOUS
  <2>4. kept \in Seq(PageId) /\ Len(kept) = k /\ \A j \in 1..k : kept[j] = new[j] /\ j \in DOMAIN new
    BY <2>2, <2>3, SplitParts
  <2>5. table = a \o kept /\ Table(q) = a \o new
    BY <2>1, <2>3 DEF KeptPages, Table, TableAfter
  <2>6. \A i \in DOMAIN (a \o kept) :
          \/ i \in DOMAIN a /\ (a \o kept)[i] = a[i]
          \/ i - Len(a) \in DOMAIN kept /\ (a \o kept)[i] = kept[i - Len(a)]
    BY <2>4, SlotsJoined
  <2>7. /\ \A i \in DOMAIN a : i \in DOMAIN (a \o new) /\ (a \o new)[i] = a[i]
        /\ \A j \in DOMAIN new : /\ Len(a) + j \in DOMAIN (a \o new)
                                 /\ (a \o new)[Len(a) + j] = new[j]
    BY SlotsJoined
  <2> SUFFICES ASSUME NEW i \in DOMAIN (a \o kept)
               PROVE  i \in DOMAIN (a \o new) /\ (a \o new)[i] = (a \o kept)[i]
    BY <2>5
  <2>8. CASE i \in DOMAIN a /\ (a \o kept)[i] = a[i]
    BY <2>7, <2>8
  <2>9. CASE i - Len(a) \in DOMAIN kept /\ (a \o kept)[i] = kept[i - Len(a)]
    <3>1. PICK j : j = i - Len(a)
      OBVIOUS
    <3>2. j \in 1..k /\ j \in DOMAIN new /\ kept[j] = new[j]
      BY <2>4, <2>9, <3>1
    <3>3. i \in Nat /\ Len(a) \in Nat
      <4>1. a \o kept \in Seq(PageId)
        BY <2>4, JoinedSize
      <4> QED BY <4>1
    <3>4. Len(a) + j = i
      BY <3>1, <3>3
    <3> QED BY <2>7, <2>9, <3>1, <3>2, <3>4
  <2> QED BY <2>6, <2>8, <2>9
<1>8. m = MarkCommitted(cache, q, table, rows) /\ x = WithTable(m, s, table, rows)
  OBVIOUS
<1> HIDE DEF n
<1>9. Sound(m) /\ Ledger(m) /\ SameRest(m, cache) /\ Present(m, released)
  BY <1>3, <1>4, MarkedLedger
<1> HIDE DEF m
<1>10. /\ m.sequences = cache.sequences /\ s \in LiveIn(m.sequences) /\ s \in DOMAIN m.sequences
       /\ m.prefixes = cache.prefixes
  BY <1>3, <1>9 DEF SameRest
<1>11. Sound(x)
  BY <1>4, <1>9, <1>10, CommittedSound DEF WithTable
<1>12. /\ x.prefixes = m.prefixes /\ SequencesWith(m.sequences, s, x.sequences)
       /\ x.sequences[s].pages = table
       /\ x.sequences[s].position = m.sequences[s].position + rows
  <2>1. PICK y, z : y = m /\ z = WithTable(y, s, table, rows)
    OBVIOUS
  <2>2. Sound(y) /\ s \in LiveIn(y.sequences)
    BY <1>9, <1>10, <2>1
  <2>3. /\ z.prefixes = y.prefixes /\ SequencesWith(y.sequences, s, z.sequences)
        /\ z.sequences[s].pages = table
        /\ z.sequences[s].position = y.sequences[s].position + rows
    BY <1>4, <2>1, <2>2, CommittedShape
  <2>4. z = x
    BY <2>1
  <2> HIDE DEF x
  <2> QED BY <2>1, <2>3, <2>4
<1> HIDE DEF x
<1>13. s \in LiveIn(x.sequences)
  BY <1>12 DEF LiveIn, SequencesWith
<1>14. /\ d.prefixes = x.prefixes /\ SequencesWith(x.sequences, s, d.sequences)
       /\ d.sequences[s].pages = x.sequences[s].pages
       /\ d.sequences[s].position = x.sequences[s].position
       /\ d.sequences[s].pending = NoPending
  <2>1. d = Released(x, s, released)
    BY <1>2
  <2> QED BY <1>11, <1>13, <2>1, ReleasedShape
<1>15. SequencesWith(cache.sequences, s, d.sequences)
  BY <1>10, <1>12, <1>14 DEF SequencesWith
<1>16. d.sequences[s].position = q.position + rows
  BY <1>10, <1>12, <1>14
<1>17. Len(table) = DivCeil(q.position + rows)
  BY <1>6 DEF CommitTable
<1> QED BY <1>4, <1>7, <1>10, <1>12, <1>14, <1>15, <1>16, <1>17 DEF CommitsTo

\* The n tokens of new are the a tokens of old and then the c tokens of more.
GoesOn(n, new, a, old, c, more) ==
    /\ a \in Nat /\ c \in Nat /\ n \in Nat /\ n = a + c
    /\ old \in [1..a -> Tokens] /\ new \in [1..n -> Tokens]
    /\ more \in Seq(Tokens) /\ Len(more) = c
    /\ \A k \in 1..a : new[k] = old[k]
    /\ \A j \in 1..c : new[a + j] = more[j]

\* A sequence that starts like one and goes on like another is the two in a row.
LEMMA Appended ==
    ASSUME NEW n, NEW new, NEW a, NEW old, NEW c, NEW more, GoesOn(n, new, a, old, c, more)
    PROVE  new = old \o more
<1> USE DEF GoesOn
<1>1. n = a + c
  OBVIOUS
<1>2. old \in Seq(Tokens) /\ Len(old) = a /\ new \in Seq(Tokens) /\ Len(new) = n
  BY <1>1
<1>3. old \o more \in Seq(Tokens) /\ Len(old \o more) = n
  BY <1>1, <1>2, JoinedSize
<1>4. \A k \in 1..n : (old \o more)[k] = IF k <= a THEN old[k] ELSE more[k - a]
  <2>1. Len(old) + Len(more) = n /\ Len(old) = a
    BY <1>1, <1>2
  <2>2. \A k \in 1..(Len(old) + Len(more)) :
          (old \o more)[k] = IF k <= Len(old) THEN old[k] ELSE more[k - Len(old)]
    BY <1>2, ConcatProperties
  <2> QED BY <2>1, <2>2
<1>5. ASSUME NEW k \in 1..n PROVE new[k] = (old \o more)[k]
  <2>1. CASE k <= a
    BY <1>4, <2>1
  <2>2. CASE ~(k <= a)
    <3>1. PICK j \in 1..c : k = a + j /\ j = k - a
      BY <1>1, <2>2
    <3> QED BY <1>4, <2>2, <3>1
  <2> QED BY <2>1, <2>2
<1>6. PICK both : both = old \o more
  OBVIOUS
<1>7. both \in Seq(Tokens) /\ Len(both) = n /\ \A k \in 1..n : new[k] = both[k]
  BY <1>3, <1>5, <1>6
<1> QED BY <1>2, <1>6, <1>7, SeqEqual

\* A commit appends what was written, as far as it is committed.
LEMMA CommitServes ==
    ASSUME Managed, BothLaid, Steady, Readable, NEW s \in LiveSequences, NEW rows \in Rows,
           rows <= Len(draft[s]), draft' = [draft EXCEPT ![s] = <<>>], CommitAppend(s, rows)
    PROVE  Readable' /\ Store!Next
<1>1. PICK d, q, b, table :
        /\ d = cache' /\ q = cache.sequences[s] /\ b = d.sequences[s]
        /\ table = TableAfter(q, rows)
  OBVIOUS
<1>2. s \in SlotBound /\ s \in LiveIn(cache.sequences) /\ SequenceReadable(s)
  BY LiveBound
<1>3. /\ SequencesWith(cache.sequences, s, d.sequences) /\ d.prefixes = cache.prefixes
      /\ b.pages = table /\ b.position = q.position + rows
      /\ b.pending = NoPending /\ rows \in Nat
      /\ table \in Seq(PageId) /\ Len(table) = DivCeil(q.position + rows)
      /\ \A i \in DOMAIN table : i \in DOMAIN Table(q) /\ Table(q)[i] = table[i]
  <2>1. IInv /\ Exact(cache) /\ Valid(cache)
    BY DEF Managed, BothLaid, Laid
  <2>2. CommitsTo(d, s, q, table, rows)
    BY <1>1, <2>1, CommitRecord
  <2> QED BY <1>1, <2>2 DEF CommitsTo
<1>4. OnlyChanges(s) /\ s \in LiveIn(cache'.sequences)
  <2>1. PICK after : after = cache'.sequences
    OBVIOUS
  <2> QED BY <1>1, <1>2, <1>3, <2>1, WithChanges
<1>5. q \in SequenceSlot /\ q.position \in Nat
  BY <1>1, <1>2, TableParts DEF BothLaid, Laid, SequenceSlot
<1>6. Table(b) = table /\ b.pending.rows = 0
  BY <1>3, SettledTable
<1>7. PICK n \in Nat : n = q.position + rows /\ n + 0 = n
  BY <1>3, <1>5
<1>8. Covered(b)
  BY <1>3, <1>6, <1>7 DEF Covered
<1>9. /\ \A k \in 1..n : At(content', tables'[s].pages, k) = At(content, tables[s].pages, k)
      /\ tables[s].position = q.position /\ tables'[s].position = n
  <2>1. \A i \in 1..DivCeil(n) :
          i \in DOMAIN Table(q) /\ i \in DOMAIN Table(b) /\ Table(b)[i] = Table(q)[i]
    BY <1>3, <1>6, <1>7
  <2> QED BY <1>1, <1>2, <1>3, <1>4, <1>7, <2>1, RunRead
<1>10. PICK t \in Seq(Tokens) : t = draft[s]
  BY <1>2 DEF Readable, ContentTyped
<1>11. rows # 0 /\ rows \in 1..Len(t) /\ t # <<>>
  <2>1. rows # 0
    BY <1>3 DEF Rows
  <2> QED BY <1>3, <1>10, <2>1
<1>12. /\ \A k \in 1..q.position : At(content, tables[s].pages, k) \in Tokens
       /\ \A j \in 1..Len(t) : At(content, tables[s].pages, q.position + j) = t[j] /\ t[j] \in Tokens
  BY <1>2, <1>9, <1>10, <1>11 DEF SequenceReadable, HasTokens, Drafted
<1>13. HasTokens(s)'
  <2> SUFFICES ASSUME NEW k \in 1..n PROVE At(content', tables'[s].pages, k) \in Tokens
    BY <1>9 DEF HasTokens
  <2>1. CASE k <= q.position
    BY <1>5, <1>9, <1>12, <2>1
  <2>2. CASE ~(k <= q.position)
    <3>1. PICK j : j = k - q.position
      OBVIOUS
    <3>2. j \in 1..Len(t) /\ q.position + j = k
      BY <1>3, <1>5, <1>7, <1>11, <2>2, <3>1, SMTT(30)
    <3> QED BY <1>9, <1>12, <3>2
  <2> QED BY <2>1, <2>2
<1>14. draft'[s] = <<>>
  BY <1>2 DEF Readable, ContentTyped
<1>15. SequenceReadable(s)'
  BY <1>1, <1>8, <1>13, <1>14 DEF SequenceReadable, Drafted
<1>16. EntriesHoldTheirKeys' /\ Retained' = Retained
  BY <1>1, <1>3, SameEntries
<1>17. Readable'
  BY <1>4, <1>15, <1>16, ReadableAfter
<1>18. History(s)' = History(s) \o SubSeq(t, 1, rows)
  <2>1. s \in LiveSequences /\ s \in LiveSequences'
    BY <1>4 DEF LiveSequences, LiveIn
  <2>2. PICK old, new : old = History(s) /\ new = History(s)'
    OBVIOUS
  <2>3. /\ old = [k \in 1..q.position |-> At(content, tables[s].pages, k)]
        /\ new = [k \in 1..n |-> At(content', tables'[s].pages, k)]
    BY <1>9, <2>1, <2>2, ReadsAt DEF History
  <2>4. PICK a \in Nat, c \in Nat : a = q.position /\ c = rows /\ n = a + c
    BY <1>3, <1>5, <1>7
  <2>5. PICK more : more = SubSeq(t, 1, c)
    OBVIOUS
  <2>6. more \in Seq(Tokens) /\ Len(more) = c /\ \A j \in 1..c : more[j] = t[j] /\ j \in DOMAIN t
    <3>1. c <= Len(t)
      BY <1>11, <2>4
    <3> QED BY <2>5, <3>1, SplitParts
  <2>7. \A k \in 1..n : At(content', tables'[s].pages, k) \in Tokens
    BY <1>9, <1>13 DEF HasTokens
  <2>8. old \in [1..a -> Tokens] /\ new \in [1..n -> Tokens]
    BY <1>12, <2>3, <2>4, <2>7
  <2>9. \A k \in 1..a : new[k] = old[k]
    BY <1>9, <2>3, <2>4
  <2>10. \A j \in 1..c : new[a + j] = more[j]
    <3> SUFFICES ASSUME NEW j \in 1..c PROVE new[a + j] = more[j]
      OBVIOUS
    <3>1. a + j \in 1..n /\ j \in 1..Len(t)
      BY <1>11, <2>4
    <3>2. new[a + j] = At(content, tables[s].pages, q.position + j)
      BY <1>9, <2>3, <2>4, <3>1
    <3> QED BY <1>12, <2>6, <3>1, <3>2
  <2>11. new = old \o more
    <3>1. n = a + c /\ more \in Seq(Tokens) /\ Len(more) = c
      BY <2>4, <2>6
    <3>2. GoesOn(n, new, a, old, c, more)
      BY <2>8, <2>9, <2>10, <3>1 DEF GoesOn
    <3> QED BY <3>2, Appended
  <2> QED BY <2>2, <2>4, <2>5, <2>11
<1>19. Histories' = [Histories EXCEPT ![s] = Histories[s] \o SubSeq(draft[s], 1, rows)]
  BY <1>2, <1>4, <1>10, <1>18, OthersRead, HistoriesWith
<1>20. \E k \in 1..Len(draft[s]) : Histories' = [Histories EXCEPT ![s] = @ \o SubSeq(draft[s], 1, k)]
  BY <1>10, <1>11, <1>19
<1>21. Store!Commit(s)
  BY <1>16, <1>20 DEF Store!Commit, Histories, History, Retained, Kept
<1> QED BY <1>2, <1>17, <1>21 DEF Store!Next

----------------------------------------------------------------------------
(* Sequences and entries that go. *)

\* What finish does to the sequences.
LEMMA FinishRecord ==
    ASSUME IInv, NEW s \in LiveSequences, Finish(s), NEW d, d = cache'
    PROVE  /\ d.prefixes = cache.prefixes
           /\ DOMAIN d.sequences = DOMAIN cache.sequences /\ ~d.sequences[s].live
           /\ \A t \in DOMAIN cache.sequences : t # s => d.sequences[t] = cache.sequences[t]
           /\ cache.sequences[s].pending = NoPending
<1>1. PICK ids, sole : ids = cache.sequences[s].pages /\ sole = SoleSlots(cache.sequences[s])
  OBVIOUS
<1>2. PICK slots \in SetToSeqs(sole) : \E later :
        d = RefreshStats(RemoveSequence(
              DecrementActiveRefs(RetirePages(cache, slots, Cardinality(later)),
                                  SlotsOf(ids) \ sole), s))
  BY <1>1 DEF Finish
<1>3. PICK count, others :
        /\ others = SlotsOf(ids) \ sole
        /\ d = RefreshStats(RemoveSequence(
                 DecrementActiveRefs(RetirePages(cache, slots, count), others), s))
  BY <1>2
<1>4. /\ Sound(cache) /\ s \in LiveIn(cache.sequences) /\ AllLive(cache, ids)
      /\ cache.sequences[s].pending = NoPending
  BY <1>1, SMTT(30) DEF IInv, LiveSequences, LiveIn, Finish, CanFinish
<1>5. sole \in SUBSET DOMAIN cache.pages
  BY <1>1, <1>4 DEF SoleSlots, AllLive, LivePage, SlotsOf
<1>6. sole \in SUBSET Nat /\ IsFiniteSet(sole)
  BY <1>4, <1>5, ReclaimableBytesInt DEF Sound
<1>7. Range(slots) = sole
  BY <1>2, <1>6, SeqOfSet
<1>8. others \cap sole = {}
  BY <1>3
<1>9. /\ d.prefixes = cache.prefixes
      /\ DOMAIN d.sequences = DOMAIN cache.sequences /\ ~d.sequences[s].live
      /\ \A t \in DOMAIN cache.sequences : t # s => d.sequences[t] = cache.sequences[t]
  BY <1>3, <1>4, <1>7, <1>8, FinishShape
<1> QED BY <1>4, <1>9

\* Without a pending append nothing is written.
LEMMA NoDraft ==
    ASSUME Readable, NEW s \in LiveSequences, cache.sequences[s].pending = NoPending
    PROVE  draft[s] = <<>>
<1>1. s \in SlotBound /\ SequenceReadable(s)
  BY LiveBound
<1>2. cache.sequences[s].pending.rows = 0
  BY DEF NoPending
<1>3. PICK t \in Seq(Tokens) : t = draft[s]
  BY <1>1 DEF Readable, ContentTyped
<1>4. t # <<>> => Len(t) = 0
  BY <1>1, <1>2, <1>3 DEF SequenceReadable, Drafted
<1>5. Len(t) = 0 => t = <<>>
  OBVIOUS
<1> QED BY <1>3, <1>4, <1>5

\* A finished sequence is forgotten.
LEMMA FinishServes ==
    ASSUME Managed, BothLaid, Steady, Readable, draft' = draft, NEW s \in LiveSequences, Finish(s)
    PROVE  Readable' /\ Store!Next
<1>1. PICK d : d = cache'
  OBVIOUS
<1>2. IInv /\ s \in SlotBound
  BY LiveBound DEF Managed
<1>3. /\ d.prefixes = cache.prefixes
      /\ DOMAIN d.sequences = DOMAIN cache.sequences /\ ~d.sequences[s].live
      /\ \A t \in DOMAIN cache.sequences : t # s => d.sequences[t] = cache.sequences[t]
      /\ cache.sequences[s].pending = NoPending
  BY <1>1, <1>2, FinishRecord
<1>4. draft[s] = <<>>
  BY <1>3, NoDraft
<1>5. OnlyChanges(s) /\ s \notin LiveIn(cache'.sequences)
  BY <1>1, <1>3 DEF OnlyChanges, LiveIn, Readable, ContentTyped
<1>6. EntriesHoldTheirKeys' /\ Retained' = Retained
  BY <1>1, <1>3, SameEntries
<1>7. Readable'
  BY <1>4, <1>5, <1>6, ReadableAfter
<1>8. History(s)' = <<>>
  BY <1>5 DEF History, LiveSequences, LiveIn
<1>9. Histories' = [Histories EXCEPT ![s] = <<>>]
  BY <1>2, <1>5, <1>8, OthersRead, HistoriesWith
<1>10. Store!Finish(s)
  BY <1>4, <1>6, <1>9 DEF Store!Finish, Histories, History, Retained, Kept
<1> QED BY <1>2, <1>7, <1>10 DEF Store!Next

\* Entries that are evicted, or touched.
LEMMA IndexEvicts ==
    ASSUME Managed, \/ SameIndex(cache', cache)
                    \/ Touched(cache, cache')
                    \/ \E ids : Forgotten(cache, ids, cache')
    PROVE  OnlyEvicts
BY DEF OnlyEvicts, SameIndex, Touched, Forgotten, SameEntry

\* A call that only takes entries away, moves pages of the pool or touches an entry.
LEMMA QuietCalls ==
    ASSUME Managed, BothLaid, Steady, Readable, draft' = draft,
           \/ \E polled \in SUBSET InPool("deferred") : ReclaimDeferred(polled)
           \/ UNCHANGED cache
           \/ Touches
           \/ \E id \in DOMAIN cache.prefixes : EvictPrefix(id)
    PROVE  Readable' /\ Store!Next
<1>1. IInv /\ Sound(cache) /\ Ordered(cache)
  BY DEF Managed, IInv
<1> SUFFICES cache'.sequences = cache.sequences /\ OnlyEvicts
  BY QuietServes
<1>2. CASE \E polled \in SUBSET InPool("deferred") : ReclaimDeferred(polled)
  <2>1. PICK polled \in SUBSET InPool("deferred") : ReclaimDeferred(polled)
    BY <1>2
  <2>2. cache' = Reclaimed(polled)
    BY <2>1 DEF ReclaimDeferred
  <2> QED BY <1>1, <2>2, PolledIndex, IndexEvicts
<1>3. CASE UNCHANGED cache
  BY <1>3 DEF OnlyEvicts, SameEntry
<1>4. CASE Touches
  <2>1. PICK id, d : id \in DOMAIN cache.prefixes /\ cache' = Touch(cache, id) /\ d = cache'
    BY <1>4 DEF Touches
  <2>2. Touched(cache, d)
    BY <1>1, <2>1, TouchOrdered
  <2> QED BY <2>1, <2>2, IndexEvicts DEF Touched
<1>5. CASE \E id \in DOMAIN cache.prefixes : EvictPrefix(id)
  <2>1. PICK id \in DOMAIN cache.prefixes : EvictPrefix(id)
    BY <1>5
  <2>2. PICK ids, d : ids = {id} /\ d = cache'
    OBVIOUS
  <2>3. CanEvict(cache, ids) /\ EvictedTo(cache, ids, d) /\ ids \subseteq DOMAIN cache.prefixes
    BY <2>1, <2>2 DEF EvictPrefix, EvictedTo
  <2>4. Forgotten(cache, ids, d) /\ d.sequences = cache.sequences
    BY <1>1, <2>3, EvictedForgotten
  <2> QED BY <2>2, <2>4, IndexEvicts
<1> QED BY <1>2, <1>3, <1>4, <1>5

----------------------------------------------------------------------------
(* Sequences that come. *)

\* A new sequence takes a slot that no live sequence has.
Arrives(new) ==
    /\ new \in SlotBound \ LiveIn(cache.sequences)
    /\ SequencesWith(cache.sequences, new, cache'.sequences)
    /\ cache'.sequences[new].pending = NoPending
    /\ draft' = draft

\* What remains to be shown of a step with which a sequence comes.
LEMMA ArrivalServes ==
    ASSUME BothLaid, Steady, Readable, OnlyEvicts, NEW new, Arrives(new),
           Covered(cache'.sequences[new]), HasTokens(new)'
    PROVE  /\ Readable' /\ Store!Evicting /\ draft' = draft
           /\ Histories' = [Histories EXCEPT ![new] = History(new)'] /\ Histories[new] = <<>>
           /\ History(new)' = [k \in 1..tables'[new].position |-> At(content', tables'[new].pages, k)]
<1>1. new \in SlotBound /\ new \notin LiveIn(cache.sequences)
  BY DEF Arrives
<1>2. OnlyChanges(new) /\ new \in LiveIn(cache'.sequences)
  <2>1. PICK after : after = cache'.sequences
    OBVIOUS
  <2> QED BY <1>1, <2>1, WithChanges DEF Arrives
<1>3. draft[new] = <<>> /\ draft' = draft
  BY <1>1 DEF Readable, Arrives
<1>4. SequenceReadable(new)'
  BY <1>3 DEF SequenceReadable, Drafted
<1>5. EntriesHoldTheirKeys' /\ \A id \in DOMAIN cache'.prefixes : Kept(id)' = Kept(id)
  BY EntriesRead
<1>6. Readable'
  BY <1>2, <1>4, <1>5, ReadableAfter
<1>7. Store!Evicting
  BY <1>5, StoreEvicting
<1>8. History(new) = <<>>
  BY <1>1 DEF History, LiveSequences, LiveIn
<1>9. History(new)' = [k \in 1..tables'[new].position |-> At(content', tables'[new].pages, k)]
  <2>1. new \in LiveSequences'
    BY <1>2 DEF LiveSequences, LiveIn
  <2> QED BY <2>1, ReadsAt DEF History
<1>10. Histories' = [Histories EXCEPT ![new] = History(new)'] /\ Histories[new] = <<>>
  BY <1>1, <1>2, <1>8, OthersRead, HistoriesWith
<1> QED BY <1>3, <1>6, <1>7, <1>9, <1>10

\* The slot of a new sequence is within the bound.
LEMMA NewSlot ==
    ASSUME NEW c, Sound(c), RoomForSequence(c), NEW new, new = NextSequenceSlot(c)
    PROVE  new \in SlotBound
<1>1. SequencesOK(c.sequences, c.free_sequence_slots)
  BY DEF Sound
<1>2. c.sequences \in Seq(SequenceSlot)
  BY <1>1 DEF SequencesOK
<1>3. NextSequenceSlot(c) \in 1..(Len(c.sequences) + 1)
  BY <1>1, NextSlotParts
<1> QED BY <1>2, <1>3, InputAssumption DEF RoomForSequence, SlotBound

\* The record that admit writes.
LEMMA AdmitRecord ==
    ASSUME Managed, NEW polled \in SUBSET InPool("deferred"), NEW prefix \in Matches, NEW request,
           Admit(polled, prefix, request), draft' = draft, NEW new, new = NextSequenceSlot(cache)
    PROVE  /\ OnlyEvicts /\ Arrives(new) /\ prefix \subseteq DOMAIN cache.prefixes
           /\ cache'.sequences[new].pages = SharedPages(cache, prefix)
           /\ cache'.sequences[new].position = PrefixPosition(cache, prefix)
<1>0. PICK c : c = Reclaimed(polled)
  OBVIOUS
<1>00. PICK shared, start, count :
         /\ shared = SharedPages(c, prefix) /\ start = PrefixPosition(c, prefix)
         /\ count = AdmitDemand(c, prefix, request).pages
  OBVIOUS
<1>1. /\ cache.deferred_pages - Cardinality(polled) \in Nat
      /\ prefix \subseteq DOMAIN c.prefixes /\ AllLive(c, shared) /\ RoomForSequence(c)
  BY <1>0, <1>00 DEF Admit, Admissible
<1>2. IInv /\ Sound(c) /\ SameIndex(c, cache) /\ c.sequences = cache.sequences
  BY <1>0, <1>1, PolledParts, PolledIndex DEF Managed
<1>3. PICK ids \in EvictionRuns(c, prefix) : CanEvict(c, ids) /\ \E e :
        /\ EvictedTo(c, ids, e)
        /\ CanShare(e, SlotsOf(shared))
        /\ cache' = RefreshStats(InsertSequence(IncrementActiveRefs(e, SlotsOf(shared)),
                      shared, start, count, request))
  BY <1>0, <1>00 DEF Admit, EvictedTo
<1>4. PICK e : /\ EvictedTo(c, ids, e)
               /\ CanShare(e, SlotsOf(shared))
               /\ cache' = RefreshStats(InsertSequence(IncrementActiveRefs(e, SlotsOf(shared)),
                             shared, start, count, request))
  BY <1>3
<1>5. ids \subseteq DOMAIN c.prefixes /\ shared \in Seq(PageId)
  BY <1>00, <1>1, <1>2, EvictionRunsParts, SharedParts
<1>6. SlotsOf(shared) \subseteq DOMAIN c.pages
  BY <1>1 DEF AllLive, LivePage, SlotsOf
<1>7. Sound(e) /\ Forgotten(c, ids, e) /\ e.sequences = c.sequences
  BY <1>2, <1>3, <1>4, <1>5, EvictedForgotten
<1>8. DOMAIN e.pages = DOMAIN c.pages /\ e.free_sequence_slots = c.free_sequence_slots
  BY <1>2, <1>3, <1>4, <1>5, EvictedParts DEF EvictedTo
<1>9. PICK x : x = IncrementActiveRefs(e, SlotsOf(shared))
  OBVIOUS
<1>10. /\ Sound(x) /\ SameIndex(x, e) /\ x.sequences = e.sequences
       /\ x.free_sequence_slots = e.free_sequence_slots
  <2>1. Sound(x) /\ SameRest(x, e)
    BY <1>4, <1>6, <1>7, <1>8, <1>9, IncrementActiveSound
  <2> QED BY <2>1 DEF SameRest, SameIndex
<1>11. PICK d, r : d = cache' /\ r = NewRecord(x, shared, start, count, request)
  OBVIOUS
<1>12. c.free_sequence_slots = cache.free_sequence_slots
  BY <1>0 DEF Reclaimed, RefreshStats
<1>13. new = NextSequenceSlot(x) /\ new = NextSequenceSlot(c)
  BY <1>2, <1>7, <1>8, <1>10, <1>12 DEF NextSequenceSlot
<1>14. d = RefreshStats(InsertSequence(x, shared, start, count, request))
  BY <1>4, <1>9, <1>11
<1>15. /\ d.prefixes = x.prefixes /\ new \notin LiveIn(x.sequences)
       /\ SequencesWith(x.sequences, new, d.sequences) /\ d.sequences[new] = r
  <2>1. Sound(x) /\ r = NewRecord(x, shared, start, count, request) /\ new = NextSequenceSlot(x)
    BY <1>10, <1>11, <1>13
  <2> QED BY <1>5, <1>14, <2>1, InsertSequenceShape
<1>16. r.pages = shared /\ r.position = start /\ r.pending = NoPending
  BY <1>11 DEF NewRecord
<1>17. new \in SlotBound
  BY <1>1, <1>2, <1>13, NewSlot
<1>18. Arrives(new)
  BY <1>2, <1>7, <1>10, <1>11, <1>15, <1>16, <1>17 DEF Arrives
<1>19. d.prefixes = [id \in DOMAIN cache.prefixes \ ids |-> cache.prefixes[id]]
  BY <1>2, <1>7, <1>10, <1>15 DEF SameIndex, Forgotten
<1>20. OnlyEvicts
  BY <1>11, <1>19 DEF OnlyEvicts, SameEntry
<1>21. /\ prefix \subseteq DOMAIN cache.prefixes /\ shared = SharedPages(cache, prefix)
       /\ start = PrefixPosition(cache, prefix)
  BY <1>00, <1>1, <1>2 DEF SameIndex, SharedPages, PrefixPosition
<1> QED BY <1>11, <1>15, <1>16, <1>18, <1>20, <1>21

\* An entry holds tokens.
LEMMA EntryTokens ==
    ASSUME BothLaid, NEW id \in DOMAIN cache.prefixes, HoldsKey(id), NEW e, e = cache.prefixes[id],
           NEW k \in 1..e.position
    PROVE  At(content, PhysicalRefs(cache, e.pages), k) \in Tokens
<1>1. /\ e \in PrefixEntry /\ DivCeil(e.position) = Len(e.pages)
  BY EntryStored DEF BothLaid
<1>2. /\ e.position \in Nat /\ e.pages \in Seq(PageId) /\ e.key \in Seq(Blocks)
  BY <1>1 DEF PrefixEntry
<1>3. PICK i, row : i = PageAt(k) /\ row = RowAt(k)
  OBVIOUS
<1>4. i \in 1..DivCeil(e.position) /\ row \in 1..PageTokens
  BY <1>2, <1>3, CellParts
<1>5. i \in DOMAIN e.pages
  BY <1>1, <1>2, <1>4
<1>6. [j \in DOMAIN e.pages |-> content[cache.pages[e.pages[j].slot].physical]] = e.key
  BY Zenon DEF HoldsKey
<1>7. content[cache.pages[e.pages[i].slot].physical] = e.key[i] /\ i \in DOMAIN e.key
  BY <1>5, <1>6, Zenon
<1>8. e.key[i] \in Blocks
  <2>1. PICK key \in Seq(Blocks) : key = e.key
    BY <1>2
  <2>2. \A j \in DOMAIN key : key[j] \in Blocks
    OBVIOUS
  <2> QED BY <1>7, <2>1, <2>2, Zenon
<1>9. e.key[i][row] \in Tokens
  BY <1>4, <1>8, ContentAssumption, Zenon
<1>10. At(content, PhysicalRefs(cache, e.pages), k) = content[cache.pages[e.pages[i].slot].physical][row]
  BY <1>3, <1>5, Zenon DEF At, PhysicalRefs
<1> QED BY <1>7, <1>9, <1>10

\* What a sequence starts with that is admitted with a match, or without one.
LEMMA SharedRead ==
    ASSUME BothLaid, Readable, NEW prefix \in Matches, prefix \subseteq DOMAIN cache.prefixes,
           NEW ids, ids = SharedPages(cache, prefix), NEW n, n = PrefixPosition(cache, prefix)
    PROVE  /\ ids \in Seq(PageId) /\ n \in Nat /\ Len(ids) = DivCeil(n)
           /\ \A i \in DOMAIN ids : LivePage(cache, ids[i])
           /\ \A k \in 1..n : At(content, PhysicalRefs(cache, ids), k) \in Tokens
           /\ prefix = {} => n = 0
           /\ \A id \in prefix : prefix = {id} /\
                [k \in 1..n |-> At(content, PhysicalRefs(cache, ids), k)] = Kept(id)
<1>1. CASE prefix = {}
  <2>1. ids = <<>> /\ n = 0
    BY <1>1 DEF SharedPages, PrefixPosition
  <2>2. DivCeil(0) = 0
    <3>1. 0 * PageTokens = 0
      BY ConfigAssumption
    <3> QED BY <3>1, WholeRun
  <2>3. ids \in Seq(PageId) /\ Len(ids) = 0 /\ DOMAIN ids = {}
    BY <2>1
  <2>4. \A k \in 1..n : FALSE
    BY <2>1
  <2> QED BY <1>1, <2>1, <2>2, <2>3, <2>4
<1>2. ASSUME NEW id, prefix = {id} PROVE
           /\ ids \in Seq(PageId) /\ n \in Nat /\ Len(ids) = DivCeil(n)
           /\ \A i \in DOMAIN ids : LivePage(cache, ids[i])
           /\ \A k \in 1..n : At(content, PhysicalRefs(cache, ids), k) \in Tokens
           /\ [k \in 1..n |-> At(content, PhysicalRefs(cache, ids), k)] = Kept(id)
  <2>1. PICK e : e = cache.prefixes[id]
    OBVIOUS
  <2>2. id \in DOMAIN cache.prefixes
    BY <1>2
  <2>3. ids = e.pages /\ n = e.position
    BY <1>2, <2>1 DEF SharedPages, PrefixPosition
  <2>4. e \in PrefixEntry /\ DivCeil(e.position) = Len(e.pages)
    BY <2>1, <2>2, EntryStored DEF BothLaid
  <2>5. \A i \in DOMAIN e.pages : LivePage(cache, e.pages[i])
    BY <2>1, <2>2, HandlesIn DEF BothLaid
  <2>6. HoldsKey(id)
    BY <2>2, Zenon DEF Readable, EntriesHoldTheirKeys, HoldsKey
  <2>7. \A k \in 1..e.position : At(content, PhysicalRefs(cache, e.pages), k) \in Tokens
    BY <2>1, <2>2, <2>6, EntryTokens
  <2>8. Kept(id) = [k \in 1..e.position |-> At(content, PhysicalRefs(cache, e.pages), k)]
    BY <2>1, ReadsAt DEF Kept
  <2>9. e.pages \in Seq(PageId) /\ e.position \in Nat
    BY <2>4 DEF PrefixEntry
  <2> QED BY <2>3, <2>4, <2>5, <2>7, <2>8, <2>9
<1>3. prefix = {} \/ \E id : prefix = {id}
  BY MatchIs
<1>4. CASE \E id : prefix = {id}
  <2>1. PICK id : prefix = {id}
    BY <1>4
  <2> QED BY <1>2, <2>1
<1> QED BY <1>1, <1>3, <1>4

\* A sequence is admitted with the tokens of the entry that it matched.
LEMMA AdmitServes ==
    ASSUME Managed, BothLaid, Steady, Readable, draft' = draft,
           NEW polled \in SUBSET InPool("deferred"), NEW prefix \in Matches, NEW request,
           Admit(polled, prefix, request)
    PROVE  Readable' /\ Store!Next
<1>1. PICK d, pl, tabs, new, ids, n :
        /\ d = cache' /\ pl = pool' /\ tabs = tables' /\ new = NextSequenceSlot(cache)
        /\ ids = SharedPages(cache, prefix) /\ n = PrefixPosition(cache, prefix)
  OBVIOUS
<1>2. /\ OnlyEvicts /\ Arrives(new) /\ prefix \subseteq DOMAIN cache.prefixes
      /\ d.sequences[new].pages = ids /\ d.sequences[new].position = n
  BY <1>1, AdmitRecord
<1>3. /\ ids \in Seq(PageId) /\ n \in Nat /\ Len(ids) = DivCeil(n)
      /\ \A i \in DOMAIN ids : LivePage(cache, ids[i])
      /\ \A k \in 1..n : At(content, PhysicalRefs(cache, ids), k) \in Tokens
      /\ prefix = {} => n = 0
      /\ \A id \in prefix : prefix = {id} /\
           [k \in 1..n |-> At(content, PhysicalRefs(cache, ids), k)] = Kept(id)
  BY <1>1, <1>2, SharedRead
<1>4. PICK q : q = d.sequences[new]
  OBVIOUS
<1>5. /\ q.pages = ids /\ q.position = n /\ q.pending = NoPending /\ new \in LiveIn(d.sequences)
      /\ new \in SlotBound
  BY <1>1, <1>2, <1>4 DEF Arrives, SequencesWith, LiveIn
<1>6. Table(q) = ids /\ q.pending.rows = 0
  BY <1>3, <1>5, SettledTable
<1>7. Covered(cache'.sequences[new])
  <2>1. n + 0 = n
    BY <1>3
  <2>2. Covered(q)
    BY <1>3, <1>5, <1>6, <2>1 DEF Covered
  <2> QED BY <1>1, <1>4, <2>2
<1>8. /\ tabs[new].pages = PhysicalRefs(d, ids) /\ tabs[new].position = n
      /\ \A i \in DOMAIN ids : LivePage(d, ids[i])
  <2>1. Laid(d, pl, tabs)
    BY <1>1 DEF BothLaid
  <2>2. /\ tabs[new].pages = PhysicalRefs(d, Table(d.sequences[new]))
        /\ tabs[new].position = d.sequences[new].position
        /\ \A i \in DOMAIN Table(d.sequences[new]) : LivePage(d, Table(d.sequences[new])[i])
    BY <1>5, <2>1, HandlesIn, Zenon
  <2>3. Table(d.sequences[new]) = ids /\ d.sequences[new].position = n
    BY <1>4, <1>5, <1>6
  <2> QED BY <2>2, <2>3
<1>9. \A k \in 1..n :
        At(content', PhysicalRefs(cache', ids), k) = At(content, PhysicalRefs(cache, ids), k)
  <2>1. \A i \in 1..DivCeil(n) : i \in DOMAIN ids /\ LivePage(cache, ids[i]) /\ LivePage(cache', ids[i])
    BY <1>1, <1>3, <1>8
  <2> QED BY <1>3, <2>1, RunStays
<1>10. tables'[new].pages = PhysicalRefs(cache', ids) /\ tables'[new].position = n
  BY <1>1, <1>8
<1>11. HasTokens(new)'
  BY <1>3, <1>9, <1>10 DEF HasTokens
<1>12. /\ Readable' /\ Store!Evicting /\ draft' = draft
       /\ Histories' = [Histories EXCEPT ![new] = History(new)'] /\ Histories[new] = <<>>
       /\ History(new)' = [k \in 1..tables'[new].position |-> At(content', tables'[new].pages, k)]
  BY <1>2, <1>7, <1>11, ArrivalServes
<1>13. History(new)' = [k \in 1..n |-> At(content, PhysicalRefs(cache, ids), k)]
  BY <1>9, <1>10, <1>12
<1>14. CASE prefix = {}
  <2>1. History(new)' = <<>>
    BY <1>3, <1>13, <1>14
  <2>2. Histories' = Histories
    BY <1>12, <2>1 DEF Histories
  <2>3. Store!Evict
    BY <1>12, <2>2 DEF Store!Evict, Histories, History
  <2> QED BY <1>12, <2>3 DEF Store!Next
<1>15. CASE prefix # {}
  <2>1. PICK id \in prefix : History(new)' = Kept(id)
    BY <1>3, <1>13, <1>15
  <2>2. id \in DOMAIN Retained /\ Retained[id] = Kept(id)
    BY <1>2 DEF Retained
  <2>3. Histories' = [Histories EXCEPT ![new] = Retained[id]]
    BY <1>12, <2>1, <2>2
  <2>4. Store!Resume(id, new)
    BY <1>12, <2>3 DEF Store!Resume, Histories, History, Retained, Kept
  <2>5. id \in DOMAIN Retained /\ new \in SlotBound
    BY <1>5, <2>2
  <2> QED BY <1>12, <2>4, <2>5 DEF Store!Next, Retained
<1> QED BY <1>14, <1>15

----------------------------------------------------------------------------
(* Retention. *)

\* What is known of the present state.
LEMMA ManagedLaid ==
    ASSUME Managed
    PROVE  Laid(cache, pool, tables) /\ Valid(cache) /\ Exact(cache) /\ IInv /\ Sound(cache)
BY DEF Managed, Laid, Stored, Exact

\* A page of whole tokens is a block.
LEMMA WholeBlock ==
    ASSUME Readable, NEW table, NEW n \in Nat, NEW i \in 1..(n \div PageTokens),
           table[i] \in PhysicalPages, \A k \in 1..n : At(content, table, k) \in Tokens
    PROVE  content[table[i]] \in Blocks
<1>1. PICK m, a : m = n \div PageTokens /\ a = i - 1
  OBVIOUS
<1>2. m \in Nat /\ m * PageTokens \in Nat /\ m * PageTokens <= n /\ PageTokens \in Nat \ {0}
  BY <1>1, WholePages, ConfigAssumption
<1>3. i \in 1..m /\ a \in Nat /\ a + 1 = i /\ a + 1 <= m
  BY <1>1, <1>2
<1>4. content[table[i]] \in PageContent
  BY DEF Readable, ContentTyped
<1>5. ASSUME NEW row \in 1..PageTokens PROVE content[table[i]][row] \in Tokens
  <2>1. PICK b : b = row - 1
    OBVIOUS
  <2>2. b \in 0..(PageTokens - 1) /\ b + 1 = row
    BY <1>2, <2>1
  <2>3. /\ a * PageTokens + b \in Nat /\ (a * PageTokens + b) \div PageTokens = a
        /\ (a * PageTokens + b) % PageTokens = b
    BY <1>3, <2>2, PageOf
  <2>4. PICK k : k = a * PageTokens + b + 1
    OBVIOUS
  <2>5. PICK c \in Nat : c = a * PageTokens + b /\ k = c + 1 /\ k - 1 = c
    BY <2>3, <2>4
  <2>6. PageAt(k) = i /\ RowAt(k) = row
    BY <1>3, <2>2, <2>3, <2>5 DEF PageAt, RowAt
  <2>7. k \in 1..n
    <3>1. (a + 1) * PageTokens <= m * PageTokens
      BY <1>2, <1>3, TokensMonotone
    <3>2. (a + 1) * PageTokens = a * PageTokens + PageTokens /\ a * PageTokens \in Nat
      BY <1>2, <1>3
    <3>3. a * PageTokens + b + 1 <= a * PageTokens + PageTokens
      BY <1>2, <2>2, <3>2
    <3> QED BY <1>2, <2>4, <2>5, <3>1, <3>2, <3>3
  <2> QED BY <2>6, <2>7 DEF At
<1>6. content[table[i]] \in [1..PageTokens -> Tokens]
  <2>1. PICK page \in PageContent : page = content[table[i]]
    BY <1>4
  <2>2. \A row \in 1..PageTokens : page[row] \in Tokens
    BY <1>5, <2>1
  <2> QED BY <2>1, <2>2 DEF PageContent
<1> QED BY <1>6, ContentAssumption

\* The key under which a sequence is retained is one that a caller may name.
LEMMA KeyNamed ==
    ASSUME Managed, Readable, NEW s \in LiveSequences
    PROVE  KeyOf(s) \in KeysFor(s)
<1>1. PICK q, n, table :
        q = cache.sequences[s] /\ n = tables[s].position /\ table = tables[s].pages
  OBVIOUS
<1>2. s \in LiveIn(cache.sequences) /\ SequenceReadable(s) /\ Laid(cache, pool, tables) /\ Valid(cache)
  BY LiveBound, ManagedLaid
<1>3. /\ q \in SequenceSlot /\ n = q.position /\ DOMAIN table = DOMAIN Table(q)
      /\ Table(q) \in Seq(PageId) /\ \A i \in DOMAIN Table(q) : table[i] \in PhysicalPages
  BY <1>1, <1>2, TableStored
<1>4. n \in Nat /\ q.pending.rows \in Nat
  BY <1>3 DEF SequenceSlot
<1>5. \A k \in 1..n : At(content, table, k) \in Tokens
  BY <1>1, <1>2 DEF SequenceReadable, HasTokens
<1>6. ASSUME NEW i \in 1..(n \div PageTokens) PROVE table[i] \in PhysicalPages
  <2>1. PICK m \in Nat : m = q.position + q.pending.rows
    BY <1>3, <1>4
  <2>2. n <= m
    BY <1>3, <1>4, <2>1
  <2>3. n \div PageTokens <= m \div PageTokens /\ n \div PageTokens \in Nat /\ m \div PageTokens \in Nat
    BY <1>4, <2>2, WholeMonotone, WholePages
  <2>4. m \div PageTokens <= DivCeil(m) /\ DivCeil(m) \in Nat
    BY <2>3, PagesFor
  <2>5. Len(Table(q)) = DivCeil(m)
    BY <1>1, <1>2, <2>1 DEF SequenceReadable, Covered
  <2>6. i \in DOMAIN Table(q)
    BY <1>3, <2>3, <2>4, <2>5
  <2> QED BY <1>3, <2>6
<1>7. \A i \in 1..(n \div PageTokens) : content[table[i]] \in Blocks
  BY <1>4, <1>5, <1>6, WholeBlock
<1>8. KeyOf(s) = [i \in 1..(n \div PageTokens) |-> content[table[i]]]
  BY <1>1 DEF KeyOf
<1>9. KeysFor(s) = [1..(n \div PageTokens) -> Blocks]
  BY <1>1, <1>3 DEF KeysFor
<1> QED BY <1>7, <1>8, <1>9

\* What retain_prefix does to the entries.
LEMMA RetainRecord ==
    ASSUME Managed, NEW s \in LiveSequences, NEW n, NEW key, RetainPrefix(s, key, n), NEW d, d = cache',
           NEW id, id = cache.next_prefix_id
    PROVE  /\ d.sequences = cache.sequences /\ CanRetain(s)
           /\ id \in DOMAIN d.prefixes /\ id \notin DOMAIN cache.prefixes
           /\ \A other \in DOMAIN d.prefixes : other # id =>
                /\ other \in DOMAIN cache.prefixes
                /\ SameEntry(cache.prefixes[other], d.prefixes[other])
           /\ d.prefixes[id].key = key /\ d.prefixes[id].pages = cache.sequences[s].pages
           /\ d.prefixes[id].position = cache.sequences[s].position
<1>1. PICK ids \in EvictionRuns(cache, {}) : CanEvict(cache, ids) /\ \E e :
        EvictedTo(cache, ids, e) /\ d = InsertEntry(e, s, key, n)
  BY DEF RetainPrefix, EvictedTo
<1>2. PICK e : EvictedTo(cache, ids, e) /\ d = InsertEntry(e, s, key, n)
  BY <1>1
<1>3. /\ Sound(cache) /\ Ordered(cache) /\ CanRetain(s) /\ key \notin DOMAIN cache.tree
      /\ ids \subseteq DOMAIN cache.prefixes
  BY EvictionRunsParts DEF Managed, IInv, RetainPrefix
<1>4. Sound(e) /\ Forgotten(cache, ids, e) /\ e.sequences = cache.sequences
  BY <1>1, <1>2, <1>3, EvictedForgotten
<1>5. Ordered(e) /\ key \notin DOMAIN e.tree
  BY <1>3, <1>4, ForgottenOrdered DEF Forgotten
<1>6. Inserted(e, s, key, d)
  BY <1>2, <1>4, <1>5, InsertOrdered
<1>7. /\ e.prefixes = [i \in DOMAIN cache.prefixes \ ids |-> cache.prefixes[i]]
      /\ e.next_prefix_id = id
  BY <1>4 DEF Forgotten
<1>8. id \notin DOMAIN cache.prefixes
  <2>1. \A i \in DOMAIN cache.prefixes : i < id /\ i \in Nat
    BY <1>3 DEF Ordered, Indexed, Sound, PrefixesOK
  <2>2. id \in Nat
    BY <1>3 DEF Sound
  <2> QED BY <2>1, <2>2
<1> QED BY <1>3, <1>4, <1>6, <1>7, <1>8, SMTT(30) DEF Inserted, SameEntry

\* The new entry holds what the sequence has committed, under the key of its tokens.
LEMMA RetainedReads ==
    ASSUME Managed, BothLaid, Steady, Readable, NEW s \in LiveSequences, CanRetain(s),
           NEW id \in DOMAIN cache'.prefixes, cache'.prefixes[id].key = KeyOf(s),
           cache'.prefixes[id].pages = cache.sequences[s].pages,
           cache'.prefixes[id].position = cache.sequences[s].position
    PROVE  HoldsKey(id)' /\ Kept(id)' = History(s)
<1>1. PICK d, pl, tabs, q, e, pages, table, n :
        /\ d = cache' /\ pl = pool' /\ tabs = tables' /\ q = cache.sequences[s]
        /\ e = d.prefixes[id] /\ pages = q.pages /\ table = Table(q) /\ n = q.position
  OBVIOUS
<1>2. /\ s \in LiveIn(cache.sequences) /\ Laid(cache, pool, tables) /\ Laid(d, pl, tabs)
      /\ Valid(cache) /\ id \in DOMAIN d.prefixes /\ Exact(cache)
  BY <1>1, LiveBound, ManagedLaid DEF BothLaid
<1>3. e.pages = pages /\ e.position = n /\ e.key = KeyOf(s)
  BY <1>1
<1>4. /\ q \in SequenceSlot /\ pages \in Seq(PageId) /\ q.pending.new_pages \in Seq(PageId)
      /\ RecordOK(q)
  BY <1>1, <1>2, TableParts, SMTT(30) DEF Valid
<1>5. n \in Nat /\ Len(pages) = DivCeil(n) /\ Aligned(n) /\ AllLive(cache, pages)
  BY <1>1, <1>4 DEF RecordOK, CanRetain, SequenceSlot
<1>6. Len(pages) = n \div PageTokens
  BY <1>5, PagesFor, WholePages
<1>7. /\ tables[s].pages = PhysicalRefs(cache, table) /\ tables[s].position = n
  BY <1>1, <1>2, HandlesIn
<1>8. \A i \in DOMAIN pages : i \in DOMAIN table /\ table[i] = pages[i]
  BY <1>1, <1>4, TableCells
<1>9. \A i \in DOMAIN pages : LivePage(cache, pages[i]) /\ LivePage(d, pages[i])
  BY <1>1, <1>2, <1>3, <1>5, HandlesIn DEF AllLive
<1>10. \A i \in DOMAIN pages :
         content'[cache'.pages[pages[i].slot].physical] = content[tables[s].pages[i]]
  <2> SUFFICES ASSUME NEW i \in DOMAIN pages
               PROVE  content'[cache'.pages[pages[i].slot].physical] = content[tables[s].pages[i]]
    BY Zenon
  <2>1. content'[cache'.pages[pages[i].slot].physical] = content[cache.pages[pages[i].slot].physical]
    BY <1>1, <1>9, HandleStays
  <2>2. tables[s].pages[i] = cache.pages[pages[i].slot].physical
    BY <1>7, <1>8 DEF PhysicalRefs
  <2> QED BY <2>1, <2>2
<1>11. KeyOf(s) = [i \in DOMAIN pages |-> content[tables[s].pages[i]]]
  <2>1. DOMAIN pages = 1..(n \div PageTokens)
    BY <1>4, <1>6
  <2> QED BY <1>7, <2>1 DEF KeyOf
<1>12. [i \in DOMAIN pages |-> content'[cache'.pages[pages[i].slot].physical]] = KeyOf(s)
  BY <1>10, <1>11
<1>13. HoldsKey(id)'
  <2>1. AllLive(cache', pages)
    BY <1>1, <1>9 DEF AllLive
  <2>2. cache'.prefixes[id].pages = pages
    BY <1>1, <1>3
  <2> QED BY <1>12, <2>1, <2>2 DEF HoldsKey
<1>14. \A i \in 1..DivCeil(n) :
         /\ i \in DOMAIN table /\ i \in DOMAIN pages /\ pages[i] = table[i]
         /\ LivePage(cache, table[i]) /\ LivePage(cache', table[i])
  <2> SUFFICES ASSUME NEW i \in 1..DivCeil(n)
               PROVE  /\ i \in DOMAIN table /\ i \in DOMAIN pages /\ pages[i] = table[i]
                      /\ LivePage(cache, table[i]) /\ LivePage(cache', table[i])
    OBVIOUS
  <2>1. i \in DOMAIN pages
    BY <1>4, <1>5
  <2> QED BY <1>1, <1>8, <1>9, <2>1
<1>15. \A k \in 1..n : At(content', PhysicalRefs(cache', pages), k) = At(content, tables[s].pages, k)
  <2>1. \A k \in 1..n :
          At(content', PhysicalRefs(cache', pages), k) = At(content, PhysicalRefs(cache, table), k)
    BY <1>5, <1>14, RunStays
  <2> QED BY <1>7, <2>1
<1>16. Kept(id)' = [k \in 1..n |-> At(content', PhysicalRefs(cache', pages), k)]
  <2>1. Kept(id)' = ReadThrough(content', PhysicalRefs(cache', e.pages), e.position)
    BY <1>1 DEF Kept
  <2> QED BY <1>3, <2>1, ReadsAt
<1>17. History(s) = [k \in 1..n |-> At(content, tables[s].pages, k)]
  BY <1>7, ReadsAt DEF History
<1> QED BY <1>13, <1>15, <1>16, <1>17

\* A retention adds an entry with the tokens of the sequence, and may evict others.
LEMMA RetainServes ==
    ASSUME Managed, BothLaid, Steady, Readable, draft' = draft, NEW s \in LiveSequences, NEW n,
           RetainPrefix(s, KeyOf(s), n)
    PROVE  Readable' /\ Store!Next
<1>1. PICK d, id, key : d = cache' /\ id = cache.next_prefix_id /\ key = KeyOf(s)
  OBVIOUS
<1>2. /\ d.sequences = cache.sequences /\ CanRetain(s)
      /\ id \in DOMAIN d.prefixes /\ id \notin DOMAIN cache.prefixes
      /\ \A other \in DOMAIN d.prefixes : other # id =>
           other \in DOMAIN cache.prefixes /\ SameEntry(cache.prefixes[other], d.prefixes[other])
      /\ d.prefixes[id].key = key /\ d.prefixes[id].pages = cache.sequences[s].pages
      /\ d.prefixes[id].position = cache.sequences[s].position
  BY <1>1, RetainRecord
<1>3. s \in SlotBound
  BY LiveBound
<1>4. HoldsKey(id)' /\ Kept(id)' = History(s)
  BY <1>1, <1>2, RetainedReads
<1>5. \A other \in DOMAIN cache.prefixes : HoldsKey(other)
  BY Zenon DEF Readable, EntriesHoldTheirKeys, HoldsKey
<1>6. ASSUME NEW other \in DOMAIN cache'.prefixes, other # id
      PROVE  /\ HoldsKey(other)' /\ Kept(other)' = Kept(other)
             /\ other \in DOMAIN cache.prefixes
  BY <1>1, <1>2, <1>5, <1>6, EntryStays
<1>7. EntriesHoldTheirKeys'
  BY <1>4, <1>6, Zenon DEF EntriesHoldTheirKeys, HoldsKey
<1>8. OnlyChanges(0) /\ 0 \notin SlotBound /\ 0 \notin LiveIn(cache'.sequences)
  BY <1>1, <1>2 DEF OnlyChanges, SlotBound, Readable, ContentTyped, LiveIn
<1>9. Readable'
  BY <1>7, <1>8, ReadableAfter
<1>10. Histories' = Histories
  <2>1. \A t \in SlotBound : History(t)' = History(t)
    BY <1>8, OthersRead
  <2> QED BY <2>1 DEF Histories
<1>11. PICK gone : gone = DOMAIN cache.prefixes \ DOMAIN cache'.prefixes
  OBVIOUS
<1>12. /\ gone \in SUBSET DOMAIN Retained /\ id \in DOMAIN Retained' \ DOMAIN Retained
       /\ DOMAIN Retained' \ {id} = DOMAIN Retained \ gone
  BY <1>1, <1>2, <1>6, <1>11 DEF Retained
<1>13. Retained'[id] = Histories[s]
  BY <1>1, <1>2, <1>3, <1>4 DEF Retained, Histories
<1>14. \A other \in DOMAIN Retained' \ {id} : Retained'[other] = Retained[other]
  BY <1>6 DEF Retained
<1>15. Store!Restrict(Retained', DOMAIN Retained' \ {id})
         = Store!Restrict(Retained, DOMAIN Retained \ gone)
  BY <1>12, <1>14 DEF Store!Restrict
<1>16. /\ \E entry \in DOMAIN Retained' \ DOMAIN Retained :
            /\ Retained'[entry] = Histories[s]
            /\ \E out \in SUBSET DOMAIN Retained :
                 Store!Restrict(Retained', DOMAIN Retained' \ {entry})
                   = Store!Restrict(Retained, DOMAIN Retained \ out)
  BY <1>12, <1>13, <1>15
<1>17. Store!Retain(s)
  BY <1>10, <1>16 DEF Store!Retain, Histories, History, Retained, Kept
<1> QED BY <1>3, <1>9, <1>17 DEF Store!Next

----------------------------------------------------------------------------
(* Branches. *)

\* The whole pages are shared and the page past them, if any, is one of its own.
Branched(d, q, new, tabs) ==
    /\ d.sequences[new].position = q.position
    /\ d.sequences[new].pages \in Seq(PageId)
    /\ Len(d.sequences[new].pages) = DivCeil(q.position)
    /\ \A i \in 1..(q.position \div PageTokens) :
         d.sequences[new].pages[i] = q.pages[i]
    /\ ~Aligned(q.position) =>
         pool[tabs[new].pages[q.position \div PageTokens + 1]] # "held"
    /\ q.pending = NoPending

\* The record that branch writes, and the page that it copies to.
LEMMA BranchRecord ==
    ASSUME Managed, NEW source \in LiveSequences, NEW request \in Requests, Branch(source, request),
           draft' = draft, NEW new, new = NextSequenceSlot(cache),
           NEW r, r = cache', NEW tabs, tabs = tables', NEW p, p = cache.sequences[source]
    PROVE  OnlyEvicts /\ Arrives(new) /\ Branched(r, p, new, tabs)
<1> DEFINE q == cache.sequences[source]
           shared == CompletePages(q)
           copies == CopiedPages(q)
           demand == BranchDemand(q, request)
           reserved == demand.pages - copies
           partial == q.position % PageTokens
           Sharing(e, copied) ==
             /\ CanShare(e, SlotsOf(shared))
             /\ cache' = RefreshStats(InsertSequence(
                  InsertPages(IncrementActiveRefs(e, SlotsOf(shared)), copied, partial),
                  shared \o [i \in 1..copies |-> FreshPageId(e, i)], q.position, reserved, request))
             /\ tables' = Published(NextSequenceSlot(cache),
                            PhysicalRefs(cache, shared) \o copied, q.position)
<1>1. CanBranchFrom(source, request) /\ RoomForSequence(cache)
  BY DEF Branch
<1>2. PICK ids \in EvictionRuns(cache, {}) : CanEvict(cache, ids) /\
        \E copied \in Injection(1..copies, InPool("free")) :
        \E e : EvictedTo(cache, ids, e) /\ Sharing(e, copied)
  BY ZenonT(90) DEF Branch, EvictedTo
<1>3. /\ Sound(cache) /\ ids \subseteq DOMAIN cache.prefixes /\ IInv /\ Exact(cache) /\ Valid(cache)
      /\ source \in LiveIn(cache.sequences)
  BY EvictionRunsParts, ManagedLaid DEF LiveSequences, LiveIn
<1>4. /\ shared \in Seq(PageId) /\ AllLive(cache, shared) /\ copies \in Nat /\ q.position \in Nat
      /\ partial \in 0..PageTokens
  BY <1>1, <1>3, BranchParts
<1>5. SlotsOf(shared) \subseteq DOMAIN cache.pages
  BY <1>4 DEF AllLive, LivePage, SlotsOf
<1>6. q \in SequenceSlot /\ RecordOK(q) /\ q.pages \in Seq(PageId)
  BY <1>3, TableParts DEF Valid
<1>7. q.pending = NoPending
  BY <1>1 DEF CanBranchFrom
<1>named. /\ p = q /\ shared = CompletePages(q) /\ copies = CopiedPages(q)
          /\ partial = q.position % PageTokens
  OBVIOUS
<1> HIDE DEF Sharing
<1>8. PICK copied \in Injection(1..copies, InPool("free")) :
        \E e : EvictedTo(cache, ids, e) /\ Sharing(e, copied)
  BY <1>2
<1>9. PICK e : EvictedTo(cache, ids, e) /\ Sharing(e, copied)
  BY <1>8
<1>10. /\ Sound(e) /\ Forgotten(cache, ids, e) /\ e.sequences = cache.sequences
       /\ DOMAIN e.pages = DOMAIN cache.pages /\ e.free_sequence_slots = cache.free_sequence_slots
  <2>1. Sound(e) /\ Forgotten(cache, ids, e) /\ e.sequences = cache.sequences
    BY <1>2, <1>3, <1>9, EvictedForgotten
  <2>2. DOMAIN e.pages = DOMAIN cache.pages /\ e.free_sequence_slots = cache.free_sequence_slots
    BY <1>2, <1>3, <1>9, EvictedParts DEF EvictedTo
  <2> QED BY <2>1, <2>2
<1> HIDE DEF q, copies, partial, reserved, shared
<1>11. /\ copied \in Seq(PhysicalPages) /\ Len(copied) = copies /\ DOMAIN copied = 1..copies
       /\ \A i \in DOMAIN copied : copied[i] \in PhysicalPages /\ pool[copied[i]] = "free"
  BY <1>4, AllocatedPages, AllocatedParts
<1>12. PICK tail : tail = [i \in 1..copies |-> FreshPageId(e, i)]
  OBVIOUS
<1>13. tail \in Seq(PageId) /\ Len(tail) = copies
  BY <1>4, <1>10, <1>12, FreshPageIds
<1>14. PICK table, position : table = shared \o tail /\ position = q.position
  OBVIOUS
<1>15. BranchTable(q, tail, table)
  BY <1>6, <1>13, <1>14, <1>named, BranchRun
<1>16. /\ CanShare(e, SlotsOf(shared))
       /\ r = RefreshStats(InsertSequence(
                InsertPages(IncrementActiveRefs(e, SlotsOf(shared)), copied, partial),
                table, position, reserved, request))
       /\ tabs = Published(new, PhysicalRefs(cache, shared) \o copied, position)
  BY <1>9, <1>12, <1>14 DEF Sharing
<1>17. table \in Seq(PageId) /\ Len(table) = DivCeil(q.position)
  <2>1. table \in Seq(PageId)
    BY <1>4, <1>13, <1>14, JoinedSize
  <2> QED BY <1>15, <2>1 DEF BranchTable
<1>18. SlotsOf(shared) \subseteq DOMAIN e.pages /\ new = NextSequenceSlot(e)
  BY <1>5, <1>10 DEF NextSequenceSlot
<1>19. SequencesWith(e.sequences, new, r.sequences)
  <2>1. SequencesWith(e.sequences, NextSequenceSlot(e), r.sequences)
    BY <1>4, <1>10, <1>11, <1>16, <1>17, <1>18, BrancherSlot
  <2> QED BY <1>18, <2>1
<1>20. /\ r.prefixes = e.prefixes /\ new \notin LiveIn(e.sequences)
       /\ \E x : r.sequences[new] = NewRecord(x, table, position, reserved, request)
  <2>1. /\ r.prefixes = e.prefixes /\ NextSequenceSlot(e) \notin LiveIn(e.sequences)
        /\ \E x : r.sequences[NextSequenceSlot(e)]
                    = NewRecord(x, table, position, reserved, request)
    BY <1>4, <1>10, <1>11, <1>16, <1>17, <1>18, BranchRest, SMTT(30)
  <2> QED BY <1>18, <2>1
<1>21. /\ r.sequences[new].pages = table /\ r.sequences[new].position = q.position
       /\ r.sequences[new].pending = NoPending
  BY <1>14, <1>20 DEF NewRecord
<1>22. new \in SlotBound
  BY <1>1, <1>3, NewSlot
<1>23. Arrives(new)
  BY <1>10, <1>19, <1>20, <1>21, <1>22 DEF Arrives
<1>24. OnlyEvicts
  <2>1. r.prefixes = [id \in DOMAIN cache.prefixes \ ids |-> cache.prefixes[id]]
    BY <1>10, <1>20 DEF Forgotten
  <2> QED BY <2>1 DEF OnlyEvicts, SameEntry
<1>25. Branched(r, q, new, tabs)
  <2>1. PICK m : m = q.position \div PageTokens
    OBVIOUS
  <2>2. m \in Nat /\ m <= Len(q.pages)
    <3>1. m \in Nat /\ DivCeil(q.position) = m + (IF Aligned(q.position) THEN 0 ELSE 1)
      BY <1>4, <2>1, WholePages, PagesFor
    <3>2. Len(q.pages) = DivCeil(q.position)
      BY <1>6 DEF RecordOK
    <3> QED BY <3>1, <3>2
  <2>3. /\ shared = SubSeq(q.pages, 1, m) /\ Len(shared) = m /\ DOMAIN shared = 1..m
        /\ \A i \in 1..m : shared[i] = q.pages[i]
    <3>1. PICK pages \in Seq(PageId) : pages = q.pages
      BY <1>6
    <3>2. m <= Len(pages)
      BY <2>2, <3>1
    <3>3. Len(SubSeq(pages, 1, m)) = m /\ \A i \in 1..m : SubSeq(pages, 1, m)[i] = pages[i]
      BY <2>2, <3>2, SplitParts
    <3>4. shared = SubSeq(pages, 1, m)
      BY <1>named, <2>1, <3>1 DEF CompletePages
    <3>5. DOMAIN shared = 1..Len(shared)
      BY <1>4
    <3> QED BY <3>1, <3>3, <3>4, <3>5
  <2>4. \A i \in 1..m : table[i] = q.pages[i]
    <3>1. \A i \in DOMAIN shared : (shared \o tail)[i] = shared[i]
      BY <1>4, <1>13, SlotsJoined
    <3> QED BY <1>14, <2>3, <3>1
  <2>5. ASSUME ~Aligned(q.position) PROVE pool[tabs[new].pages[m + 1]] # "held"
    <3>1. PICK refs : refs = PhysicalRefs(cache, shared)
      OBVIOUS
    <3>2. refs \in Seq(PhysicalPages) /\ Len(refs) = m
      <4>1. \A i \in 1..m : cache.pages[shared[i].slot].physical \in PhysicalPages
        <5>1. Placed(cache.pages, pool)
          BY ManagedLaid DEF Laid
        <5> QED BY <1>4, <2>3, <5>1 DEF AllLive, LivePage, Placed
      <4>2. refs = [i \in 1..m |-> cache.pages[shared[i].slot].physical]
        BY <2>3, <3>1 DEF PhysicalRefs
      <4>3. refs \in [1..m -> PhysicalPages]
        BY <4>1, <4>2
      <4> QED BY <2>2, <4>3
    <3>3. copies = 1 /\ 1 \in DOMAIN copied
      BY <1>11, <1>named, <2>5 DEF CopiedPages
    <3>4. PICK both : both = refs \o copied
      OBVIOUS
    <3>5. \A i \in 1..(Len(refs) + Len(copied)) :
            (refs \o copied)[i] = IF i <= Len(refs) THEN refs[i] ELSE copied[i - Len(refs)]
      BY <1>11, <3>2, ConcatProperties
    <3>6. m + 1 \in 1..(m + 1) /\ ~(m + 1 <= m) /\ m + 1 - m = 1
      BY <2>2
    <3>7. both[m + 1] = copied[1]
      <4>1. Len(refs) = m /\ Len(copied) = 1
        BY <1>11, <3>2, <3>3
      <4>2. \A i \in 1..(m + 1) : both[i] = IF i <= m THEN refs[i] ELSE copied[i - m]
        BY <3>4, <3>5, <4>1
      <4>3. PICK j : j = m + 1
        OBVIOUS
      <4>4. j \in 1..(m + 1) /\ ~(j <= m) /\ j - m = 1
        BY <2>2, <4>3
      <4>5. both[j] = copied[j - m]
        BY <4>2, <4>4
      <4> QED BY <4>3, <4>4, <4>5
    <3>8. tabs[new].pages = both
      <4>1. tabs = Published(new, both, position)
        BY <1>16, <3>1, <3>4
      <4>2. tabs[new] = [pages |-> both, position |-> position]
        BY <4>1, PublishedParts
      <4> QED BY <4>2
    <3> QED BY <1>11, <3>3, <3>7, <3>8
  <2> QED BY <1>7, <1>17, <1>21, <2>1, <2>4, <2>5 DEF Branched
<1> QED BY <1>23, <1>24, <1>25, <1>named

\* The copy goes to a page that was in nobody's use.
LEMMA CopySteady ==
    ASSUME Readable, NEW from, NEW to, NEW rows \in Nat, Holding(CopyRows(content, from, to, rows)),
           from \in PhysicalPages, to \in PhysicalPages, pool[to] # "held"
    PROVE  /\ Steady
           /\ pool'[to] = "held" => \A row \in 1..PageTokens : row <= rows =>
                content'[to][row] = content[from][row]
<1>1. PICK slab, page : /\ slab = CopyRows(content, from, to, rows)
                        /\ page = [row \in 1..PageTokens |->
                                     IF row <= rows THEN content[from][row] ELSE content[to][row]]
  OBVIOUS
<1>2. content \in [PhysicalPages -> PageContent]
  BY DEF Readable, ContentTyped
<1>3. page \in PageContent
  BY <1>1, <1>2 DEF PageContent
<1>4. slab = [content EXCEPT ![to] = page]
  BY <1>1 DEF CopyRows
<1>5. /\ slab \in [PhysicalPages -> PageContent] /\ slab[to] = page
      /\ \A p \in PhysicalPages : pool[p] = "held" => slab[p] = content[p]
  BY <1>2, <1>3, <1>4
<1>6. Holding(slab)
  BY <1>1
<1>7. Steady
  BY <1>5, <1>6, HoldingSteady
<1>8. pool'[to] = "held" => content'[to] = page
  BY <1>5, <1>6 DEF Holding
<1> QED BY <1>1, <1>7, <1>8

\* A branch changes no row that is in use, and its copy has the rows of the tail.
LEMMA BranchReads ==
    ASSUME Managed, BothLaid, Readable, NEW s \in LiveSequences, NEW request, BranchCopying(s, request),
           NEW new, new = NextSequenceSlot(cache), Arrives(new),
           NEW q, q = cache.sequences[s], Branched(cache', q, new, tables')
    PROVE  /\ Steady /\ Covered(cache'.sequences[new])
           /\ tables[s].position = q.position /\ tables'[new].position = q.position
           /\ \A k \in 1..q.position : At(content', tables'[new].pages, k) = At(content, tables[s].pages, k)
<1>1. PICK d, pl, tabs, b, n, m, table, fresh :
        /\ d = cache' /\ pl = pool' /\ tabs = tables' /\ b = d.sequences[new] /\ n = q.position
        /\ m = n \div PageTokens /\ table = tables[s].pages /\ fresh = tabs[new].pages
  OBVIOUS
<1>2. /\ Laid(cache, pool, tables) /\ Laid(d, pl, tabs) /\ Valid(cache) /\ Exact(cache)
      /\ s \in LiveIn(cache.sequences) /\ SequenceReadable(s) /\ new \in LiveIn(d.sequences)
  BY <1>1, LiveBound, ManagedLaid DEF BothLaid, Arrives, SequencesWith, LiveIn
<1>3. /\ b.position = n /\ b.pages \in Seq(PageId) /\ Len(b.pages) = DivCeil(n)
      /\ \A i \in 1..m : b.pages[i] = q.pages[i]
      /\ ~Aligned(n) => pool[fresh[m + 1]] # "held"
      /\ q.pending = NoPending /\ b.pending = NoPending
  BY <1>1 DEF Branched, Arrives
<1>4. /\ q \in SequenceSlot /\ q.pages \in Seq(PageId) /\ RecordOK(q) /\ n \in Nat
  BY <1>1, <1>2, TableParts DEF Valid, SequenceSlot
<1>5. Table(b) = b.pages /\ b.pending.rows = 0 /\ Table(q) = q.pages /\ Len(q.pages) = DivCeil(n)
  BY <1>1, <1>3, <1>4, SettledTable DEF RecordOK
<1>6. /\ tables[s].position = n /\ Len(table) = DivCeil(n) /\ DOMAIN table = DOMAIN q.pages
      /\ \A i \in DOMAIN q.pages : table[i] \in PhysicalPages
                                    /\ table[i] = cache.pages[q.pages[i].slot].physical
  BY <1>1, <1>2, <1>5, TableStored, SMTT(30)
<1>7. /\ tabs[new].position = n /\ Len(fresh) = DivCeil(n) /\ DOMAIN fresh = DOMAIN b.pages
      /\ \A i \in DOMAIN b.pages : /\ fresh[i] \in PhysicalPages /\ pl[fresh[i]] = "held"
                                   /\ fresh[i] = d.pages[b.pages[i].slot].physical
  BY <1>1, <1>2, <1>3, <1>5, TableStored
<1>8. m \in Nat /\ DivCeil(n) = m + (IF Aligned(n) THEN 0 ELSE 1) /\ n % PageTokens \in Nat
  <2>1. m \in Nat /\ n % PageTokens \in 0..(PageTokens - 1)
    BY <1>1, <1>4, WholePages
  <2>2. DivCeil(n) = m + (IF Aligned(n) THEN 0 ELSE 1)
    BY <1>1, <1>4, PagesFor
  <2>3. n % PageTokens \in Nat
    BY <2>1, ConfigAssumption
  <2> QED BY <2>1, <2>2, <2>3
<1>9. DOMAIN q.pages = 1..DivCeil(n) /\ DOMAIN b.pages = 1..DivCeil(n)
  BY <1>3, <1>4, <1>5
<1>10. Covered(cache'.sequences[new])
  <2>1. n + 0 = n
    BY <1>4
  <2>2. Covered(b)
    BY <1>3, <1>5, <2>1 DEF Covered
  <2> QED BY <1>1, <2>2
<1>11. /\ Steady
       /\ ~Aligned(n) => \A row \in 1..PageTokens : row <= n % PageTokens =>
            content'[fresh[m + 1]][row] = content[table[m + 1]][row]
  <2>1. CASE Aligned(n)
    <3>1. Holding(content)
      BY <1>1, <2>1 DEF BranchCopying
    <3>2. Steady
      BY <3>1, HoldingSteady DEF Readable, ContentTyped
    <3> QED BY <2>1, <3>2
  <2>2. CASE ~Aligned(n)
    <3>1. m + 1 \in 1..DivCeil(n) /\ DivCeil(n) = m + 1
      BY <1>8, <2>2
    <3>2. Last(table) = table[m + 1] /\ Last(fresh) = fresh[m + 1]
      BY <1>6, <1>7, <3>1 DEF Last
    <3>3. PICK from, to, rows : from = table[m + 1] /\ to = fresh[m + 1] /\ rows = n % PageTokens
      OBVIOUS
    <3>4. Holding(CopyRows(content, from, to, rows))
      BY <1>1, <2>2, <3>2, <3>3, Zenon DEF BranchCopying
    <3>5. /\ from \in PhysicalPages /\ to \in PhysicalPages /\ pool[to] # "held" /\ pl[to] = "held"
          /\ rows \in Nat
      BY <1>3, <1>6, <1>7, <1>8, <1>9, <2>2, <3>1, <3>3
    <3>6. pool'[to] = "held"
      BY <1>1, <3>5
    <3>7. Steady /\ \A row \in 1..PageTokens : row <= rows => content'[to][row] = content[from][row]
      BY <3>4, <3>5, <3>6, CopySteady
    <3> QED BY <3>3, <3>7
  <2> QED BY <2>1, <2>2
<1>12. \A i \in 1..m : i \in 1..DivCeil(n) /\ content'[fresh[i]] = content[table[i]]
  <2> SUFFICES ASSUME NEW i \in 1..m
               PROVE  i \in 1..DivCeil(n) /\ content'[fresh[i]] = content[table[i]]
    OBVIOUS
  <2>1. i \in 1..DivCeil(n)
    BY <1>8
  <2>2. PICK h : h = q.pages[i] /\ h = b.pages[i]
    BY <1>3
  <2>3. LivePage(cache, h)
    <3>1. Resolves(cache.pages, Table(q))
      BY <1>2, TableParts
    <3>2. Resolves(cache.pages, q.pages) /\ i \in DOMAIN q.pages
      BY <1>5, <1>9, <2>1, <3>1
    <3> QED BY <2>2, <3>2 DEF Resolves, LivePage
  <2>4. LivePage(d, h)
    <3>1. Exact(d)
      BY <1>2 DEF Laid
    <3>2. Resolves(d.pages, Table(b))
      BY <1>1, <1>2, <3>1, TableParts, SMTT(30)
    <3> QED BY <1>5, <1>9, <2>1, <2>2, <3>2 DEF Resolves, LivePage
  <2>5. content'[cache'.pages[h.slot].physical] = content[cache.pages[h.slot].physical]
    BY <1>1, <1>11, <2>3, <2>4, HandleStays, SMTT(30)
  <2>6. table[i] = cache.pages[h.slot].physical /\ fresh[i] = d.pages[h.slot].physical
    BY <1>6, <1>7, <1>9, <2>1, <2>2, ZenonT(60)
  <2> QED BY <1>1, <2>1, <2>5, <2>6
<1>13. ASSUME NEW k \in 1..n PROVE At(content', fresh, k) = At(content, table, k)
  <2>1. PageAt(k) \in 1..DivCeil(n) /\ RowAt(k) \in 1..PageTokens
    BY <1>4, CellParts
  <2>2. CASE PageAt(k) <= m
    <3>1. PageAt(k) \in 1..m
      BY <1>8, <2>1, <2>2
    <3> QED BY <1>12, <3>1 DEF At
  <2>3. CASE ~(PageAt(k) <= m)
    <3>1. m < PageAt(k)
      BY <1>8, <2>1, <2>3
    <3>2. ~Aligned(n) /\ PageAt(k) = m + 1 /\ RowAt(k) <= n % PageTokens
      BY <1>1, <1>4, <3>1, CellOfTail
    <3> QED BY <1>11, <2>1, <3>2 DEF At
  <2> QED BY <2>2, <2>3
<1> QED BY <1>1, <1>6, <1>7, <1>10, <1>11, <1>13, Zenon

\* A branch starts with the tokens of its source.
LEMMA BranchServes ==
    ASSUME Managed, BothLaid, Readable, NEW s \in LiveSequences, NEW request \in Requests,
           BranchCopying(s, request)
    PROVE  Readable' /\ Store!Next
<1>1. PICK d, tabs, new, q :
        d = cache' /\ tabs = tables' /\ new = NextSequenceSlot(cache) /\ q = cache.sequences[s]
  OBVIOUS
<1>2. Branch(s, request) /\ draft' = draft
  BY DEF BranchCopying
<1>3. OnlyEvicts /\ Arrives(new) /\ Branched(d, q, new, tabs)
  BY <1>1, <1>2, BranchRecord
<1>4. Branched(cache', q, new, tables')
  BY <1>1, <1>3
<1>5. /\ Steady /\ Covered(cache'.sequences[new])
      /\ tables[s].position = q.position /\ tables'[new].position = q.position
      /\ \A k \in 1..q.position : At(content', tables'[new].pages, k) = At(content, tables[s].pages, k)
  BY <1>1, <1>3, <1>4, BranchReads
<1>6. SequenceReadable(s) /\ s \in SlotBound /\ new \in SlotBound
  BY <1>3, LiveBound DEF Arrives
<1>7. HasTokens(new)'
  BY <1>5, <1>6 DEF SequenceReadable, HasTokens
<1>8. /\ Readable' /\ Store!Evicting
      /\ Histories' = [Histories EXCEPT ![new] = History(new)'] /\ Histories[new] = <<>>
      /\ History(new)' = [k \in 1..tables'[new].position |-> At(content', tables'[new].pages, k)]
  BY <1>3, <1>5, <1>7, ArrivalServes
<1>9. History(s) = [k \in 1..q.position |-> At(content, tables[s].pages, k)]
  BY <1>5, ReadsAt DEF History
<1>10. History(new)' = History(s) /\ Histories[s] = History(s)
  BY <1>5, <1>6, <1>8, <1>9 DEF Histories
<1>11. Histories' = [Histories EXCEPT ![new] = Histories[s]]
  BY <1>8, <1>10
<1>12. Store!Branch(s, new)
  BY <1>2, <1>8, <1>11 DEF Store!Branch, Histories, History
<1> QED BY <1>6, <1>8, <1>12 DEF Store!Next


----------------------------------------------------------------------------
(* Writes. *)

\* A written token is found in its row, if no other one goes there; no other row changes.
WritesTo(slab, table, start, tokens, after) ==
    /\ after \in [PhysicalPages -> PageContent]
    /\ \A p \in PhysicalPages, row \in 1..PageTokens :
         (\A k \in DOMAIN tokens : table[PageAt(start + k)] = p => RowAt(start + k) # row)
           => after[p][row] = slab[p][row]
    /\ \A k \in DOMAIN tokens :
         /\ table[PageAt(start + k)] \in PhysicalPages
         /\ \A j \in DOMAIN tokens \ {k} :
              table[PageAt(start + j)] = table[PageAt(start + k)]
                => RowAt(start + j) # RowAt(start + k)
         => At(after, table, start + k) = tokens[k]

\* The rows of an append, written through a table.
LEMMA WrittenCells ==
    ASSUME NEW slab \in [PhysicalPages -> PageContent], NEW table, NEW start \in Nat,
           NEW tokens \in Seq(Tokens), NEW after, after = WriteThrough(slab, table, start, tokens)
    PROVE  WritesTo(slab, table, start, tokens, after)
<1> DEFINE hits(p, row) == {k \in DOMAIN tokens :
                              table[PageAt(start + k)] = p /\ RowAt(start + k) = row}
           cell(p, row) == IF hits(p, row) = {} THEN slab[p][row]
                           ELSE tokens[CHOOSE k \in hits(p, row) : TRUE]
<1>1. \A k \in DOMAIN tokens : start + k - 1 \in Nat /\ RowAt(start + k) \in 1..PageTokens
  <2> SUFFICES ASSUME NEW k \in DOMAIN tokens
               PROVE  start + k - 1 \in Nat /\ RowAt(start + k) \in 1..PageTokens
    OBVIOUS
  <2>1. PICK n \in Nat : n = start + k /\ n \in 1..n /\ n - 1 \in Nat
    OBVIOUS
  <2>2. RowAt(n) \in 1..PageTokens
    BY <2>1, CellParts
  <2> QED BY <2>1, <2>2
<1>2. \A row \in 1..PageTokens, k \in DOMAIN tokens :
        (start + k - 1) % PageTokens = row - 1 <=> RowAt(start + k) = row
  <2> SUFFICES ASSUME NEW row \in 1..PageTokens, NEW k \in DOMAIN tokens
               PROVE  (start + k - 1) % PageTokens = row - 1 <=> RowAt(start + k) = row
    OBVIOUS
  <2>1. PICK m \in Nat : m = start + k - 1
    BY <1>1
  <2>2. m % PageTokens \in 0..(PageTokens - 1)
    BY WholePages
  <2>3. RowAt(start + k) = (m % PageTokens) + 1
    BY <2>1 DEF RowAt
  <2>4. PICK x \in Int : x = m % PageTokens
    BY <2>2
  <2> QED BY <2>1, <2>3, <2>4
<1>3. \A p \in PhysicalPages, row \in 1..PageTokens :
        hits(p, row) = {k \in DOMAIN tokens :
                          /\ table[((start + k - 1) \div PageTokens) + 1] = p
                          /\ (start + k - 1) % PageTokens = row - 1}
  BY <1>2 DEF PageAt
<1>4. after = [p \in PhysicalPages |-> [row \in 1..PageTokens |-> cell(p, row)]]
  <2>1. DOMAIN slab = PhysicalPages
    OBVIOUS
  <2> DEFINE struck(p, row) == {k \in DOMAIN tokens :
                                  /\ table[((start + k - 1) \div PageTokens) + 1] = p
                                  /\ (start + k - 1) % PageTokens = row - 1}
  <2>2. after = [p \in PhysicalPages |-> [row \in 1..PageTokens |->
                   IF struck(p, row) = {} THEN slab[p][row]
                   ELSE tokens[CHOOSE k \in struck(p, row) : TRUE]]]
    BY <2>1 DEF WriteThrough
  <2>3. \A p \in PhysicalPages, row \in 1..PageTokens : struck(p, row) = hits(p, row)
    BY <1>3
  <2> HIDE DEF struck, hits
  <2>4. \A p \in PhysicalPages, row \in 1..PageTokens :
          (IF struck(p, row) = {} THEN slab[p][row] ELSE tokens[CHOOSE k \in struck(p, row) : TRUE])
            = cell(p, row)
    <3> SUFFICES ASSUME NEW p \in PhysicalPages, NEW row \in 1..PageTokens
                 PROVE  (IF struck(p, row) = {} THEN slab[p][row]
                         ELSE tokens[CHOOSE k \in struck(p, row) : TRUE]) = cell(p, row)
      OBVIOUS
    <3>1. struck(p, row) = hits(p, row)
      BY <2>3
    <3>2. (CHOOSE k \in struck(p, row) : TRUE) = (CHOOSE k \in hits(p, row) : TRUE)
      BY <3>1, Zenon
    <3> QED BY <3>1, <3>2
  <2> HIDE DEF cell
  <2> QED BY <2>2, <2>4
<1>5. ASSUME NEW p \in PhysicalPages, NEW row \in 1..PageTokens, hits(p, row) # {}
      PROVE  \E k \in hits(p, row) : cell(p, row) = tokens[k]
  <2> HIDE DEF hits
  <2>1. (CHOOSE k \in hits(p, row) : TRUE) \in hits(p, row)
    BY <1>5
  <2> QED BY <1>5, <2>1
<1>6. ASSUME NEW p \in PhysicalPages, NEW row \in 1..PageTokens
      PROVE  cell(p, row) \in Tokens \cup {Blank}
  <2>1. CASE hits(p, row) = {}
    <3>1. slab[p][row] \in Tokens \cup {Blank}
      BY DEF PageContent
    <3> QED BY <2>1, <3>1
  <2>2. CASE hits(p, row) # {}
    <3>1. PICK k \in DOMAIN tokens : cell(p, row) = tokens[k]
      BY <1>5, <2>2
    <3>2. tokens[k] \in Tokens
      OBVIOUS
    <3> QED BY <3>1, <3>2
  <2> QED BY <2>1, <2>2
<1>7. after \in [PhysicalPages -> PageContent]
  <2> HIDE DEF cell
  <2> QED BY <1>4, <1>6 DEF PageContent
<1>8. ASSUME NEW p \in PhysicalPages, NEW row \in 1..PageTokens,
             \A k \in DOMAIN tokens : table[PageAt(start + k)] = p => RowAt(start + k) # row
      PROVE  after[p][row] = slab[p][row]
  <2>1. hits(p, row) = {}
    BY <1>8
  <2>2. after[p][row] = cell(p, row)
    BY <1>4
  <2> QED BY <2>1, <2>2
<1>9. ASSUME NEW k \in DOMAIN tokens, table[PageAt(start + k)] \in PhysicalPages,
             \A j \in DOMAIN tokens \ {k} :
               table[PageAt(start + j)] = table[PageAt(start + k)]
                 => RowAt(start + j) # RowAt(start + k)
      PROVE  At(after, table, start + k) = tokens[k]
  <2>1. PICK p, row : p = table[PageAt(start + k)] /\ row = RowAt(start + k)
    OBVIOUS
  <2>2. p \in PhysicalPages /\ row \in 1..PageTokens
    BY <1>1, <1>9, <2>1
  <2>3. k \in hits(p, row) /\ \A j \in hits(p, row) : j = k
    <3>1. \A j \in DOMAIN tokens : table[PageAt(start + j)] = p /\ RowAt(start + j) = row => j = k
      BY <1>9, <2>1
    <3> QED BY <2>1, <3>1
  <2>4. cell(p, row) = tokens[k]
    <3> HIDE DEF cell
    <3> QED BY <1>5, <2>2, <2>3
  <2>5. after[p][row] = cell(p, row)
    BY <1>4, <2>2, SMTT(30)
  <2> QED BY <2>1, <2>4, <2>5 DEF At
<1> HIDE DEF hits, cell
<1> QED BY <1>7, <1>8, <1>9 DEF WritesTo

\* The pages that an append writes to are read by nobody else.
LEMMA SpanOwn ==
    ASSUME Managed, NEW s \in LiveIn(cache.sequences), NEW q, q = cache.sequences[s], Covered(q),
           NEW k \in 1..q.pending.rows, NEW p, p = tables[s].pages[PageAt(q.position + k)]
    PROVE  /\ PageAt(q.position + k) \in DOMAIN Table(q) /\ p \in PhysicalPages
           /\ \A t \in LiveIn(cache.sequences) : \A j \in DOMAIN Table(cache.sequences[t]) :
                tables[t].pages[j] = p => t = s /\ j = PageAt(q.position + k)
           /\ \A id \in DOMAIN cache.prefixes : \A j \in DOMAIN cache.prefixes[id].pages :
                cache.pages[cache.prefixes[id].pages[j].slot].physical # p
<1>1. PICK i : i = PageAt(q.position + k)
  OBVIOUS
<1>2. i \in DOMAIN Table(q) /\ ~FullAt(cache.pages, Table(q)[i].slot)
  BY <1>1, SpanOpen
<1>3. Laid(cache, pool, tables) /\ Valid(cache) /\ Placed(cache.pages, pool)
  BY ManagedLaid DEF Laid
<1>4. PICK o : o = Table(q)[i].slot
  OBVIOUS
<1>5. /\ o \in DOMAIN cache.pages /\ cache.pages[o].live /\ ~FullAt(cache.pages, o)
      /\ p = cache.pages[o].physical /\ p \in PhysicalPages
  BY <1>1, <1>2, <1>3, <1>4, TableStored
<1>6. \A a, b \in DOMAIN Table(q) : tables[s].pages[a] = tables[s].pages[b] => a = b
  BY <1>3, TableStored
<1>7. ASSUME NEW t \in LiveIn(cache.sequences), NEW j \in DOMAIN Table(cache.sequences[t]),
             tables[t].pages[j] = p
      PROVE  t = s /\ j = i
  <2>1. PICK r : r = cache.sequences[t]
    OBVIOUS
  <2>2. /\ Table(r)[j].slot \in DOMAIN cache.pages /\ cache.pages[Table(r)[j].slot].live
        /\ tables[t].pages[j] = cache.pages[Table(r)[j].slot].physical
    BY <1>3, <1>7, <2>1, TableStored
  <2>3. Table(r)[j].slot = o
    BY <1>3, <1>5, <1>7, <2>2 DEF Placed
  <2>4. t = s
    <3>1. PICK tabs : tabs = Tabs(cache.sequences)
      OBVIOUS
    <3>2. t \in DOMAIN tabs /\ s \in DOMAIN tabs /\ tabs[t] = Table(r) /\ tabs[s] = Table(q)
      BY <2>1, <3>1 DEF Tabs
    <3>3. o \in SlotsOf(tabs[t]) /\ o \in SlotsOf(tabs[s])
      BY <1>2, <1>4, <1>7, <2>1, <2>3, <3>2 DEF SlotsOf
    <3> QED BY <1>3, <1>5, <3>1, <3>2, <3>3 DEF Valid, Lonely
  <2> QED BY <1>1, <1>2, <1>6, <1>7, <2>4
<1>8. ASSUME NEW id \in DOMAIN cache.prefixes, NEW j \in DOMAIN cache.prefixes[id].pages,
             cache.pages[cache.prefixes[id].pages[j].slot].physical = p
      PROVE  FALSE
  <2>1. PICK e : e = cache.prefixes[id]
    OBVIOUS
  <2>2. /\ e.pages[j].slot \in DOMAIN cache.pages /\ cache.pages[e.pages[j].slot].live
        /\ FullAt(cache.pages, e.pages[j].slot)
    BY <1>3, <2>1, EntryStored
  <2>3. e.pages[j].slot = o
    BY <1>3, <1>5, <1>8, <2>1, <2>2 DEF Placed
  <2> QED BY <1>5, <2>2, <2>3
<1> QED BY <1>1, <1>2, <1>5, <1>7, <1>8


\* A page is what its rows are.
LEMMA SameRows ==
    ASSUME NEW a \in PageContent, NEW b \in PageContent, \A row \in 1..PageTokens : a[row] = b[row]
    PROVE  a = b
<1>1. a = [row \in 1..PageTokens |-> a[row]] /\ b = [row \in 1..PageTokens |-> b[row]]
  BY DEF PageContent
<1>2. [row \in 1..PageTokens |-> a[row]] = [row \in 1..PageTokens |-> b[row]]
  OBVIOUS
<1> QED BY <1>1, <1>2

\* What the model writes for an append, and what it leaves.
Wrote(s, q, tokens, slab) ==
    /\ slab \in [PhysicalPages -> PageContent]
    /\ \A k \in 1..Len(tokens) : At(slab, tables[s].pages, q.position + k) = tokens[k]
    /\ \A t \in LiveIn(cache.sequences) : \A n \in Nat \ {0} :
         PageAt(n) \in DOMAIN Table(cache.sequences[t]) /\ (t = s => n <= q.position)
           => At(slab, tables[t].pages, n) = At(content, tables[t].pages, n)
    /\ \A id \in DOMAIN cache.prefixes : \A j \in DOMAIN cache.prefixes[id].pages :
         slab[cache.pages[cache.prefixes[id].pages[j].slot].physical]
           = content[cache.pages[cache.prefixes[id].pages[j].slot].physical]

\* A write reaches its own rows and nothing that anybody reads.
LEMMA WriteLeaves ==
    ASSUME Managed, Readable, NEW s \in LiveSequences, NEW tokens \in Seq(Tokens), NEW q, NEW slab,
           q = cache.sequences[s], Len(tokens) = q.pending.rows,
           slab = WriteThrough(content, tables[s].pages, q.position, tokens)
    PROVE  Wrote(s, q, tokens, slab)
<1>1. PICK table, start : table = tables[s].pages /\ start = q.position
  OBVIOUS
<1>2. /\ s \in LiveIn(cache.sequences) /\ Covered(q) /\ Laid(cache, pool, tables) /\ Valid(cache)
      /\ content \in [PhysicalPages -> PageContent] /\ DOMAIN tokens = 1..q.pending.rows
  BY LiveBound, ManagedLaid DEF SequenceReadable, Readable, ContentTyped
<1>3. start \in Nat
  BY <1>1, <1>2, TableParts DEF Laid, SequenceSlot
<1>4. /\ slab \in [PhysicalPages -> PageContent]
      /\ \A p \in PhysicalPages, row \in 1..PageTokens :
           (\A k \in DOMAIN tokens : table[PageAt(start + k)] = p => RowAt(start + k) # row)
             => slab[p][row] = content[p][row]
      /\ \A k \in DOMAIN tokens :
           /\ table[PageAt(start + k)] \in PhysicalPages
           /\ \A j \in DOMAIN tokens \ {k} :
                table[PageAt(start + j)] = table[PageAt(start + k)]
                  => RowAt(start + j) # RowAt(start + k)
           => At(slab, table, start + k) = tokens[k]
  <2>1. slab = WriteThrough(content, table, start, tokens)
    BY <1>1
  <2>2. content \in [PhysicalPages -> PageContent]
    BY <1>2
  <2>3. WritesTo(content, table, start, tokens, slab)
    BY <1>3, <2>1, <2>2, WrittenCells, SMTT(30)
  <2> QED BY <2>3 DEF WritesTo
<1>5. ASSUME NEW k \in DOMAIN tokens, NEW p, p = table[PageAt(start + k)]
      PROVE  /\ PageAt(start + k) \in DOMAIN Table(q) /\ p \in PhysicalPages
             /\ \A t \in LiveIn(cache.sequences) : \A j \in DOMAIN Table(cache.sequences[t]) :
                  tables[t].pages[j] = p => t = s /\ j = PageAt(start + k)
             /\ \A id \in DOMAIN cache.prefixes : \A j \in DOMAIN cache.prefixes[id].pages :
                  cache.pages[cache.prefixes[id].pages[j].slot].physical # p
  <2>1. k \in 1..q.pending.rows /\ p = tables[s].pages[PageAt(q.position + k)]
    BY <1>1, <1>2, <1>5, SMTT(30)
  <2>2. /\ PageAt(q.position + k) \in DOMAIN Table(q) /\ p \in PhysicalPages
        /\ \A t \in LiveIn(cache.sequences) : \A j \in DOMAIN Table(cache.sequences[t]) :
             tables[t].pages[j] = p => t = s /\ j = PageAt(q.position + k)
        /\ \A id \in DOMAIN cache.prefixes : \A j \in DOMAIN cache.prefixes[id].pages :
             cache.pages[cache.prefixes[id].pages[j].slot].physical # p
    BY <1>2, <2>1, SpanOwn
  <2> QED BY <1>1, <2>2
<1>6. ASSUME NEW k \in DOMAIN tokens PROVE At(slab, table, start + k) = tokens[k]
  <2>1. table[PageAt(start + k)] \in PhysicalPages
    BY <1>5
  <2>2. ASSUME NEW j \in DOMAIN tokens \ {k}, table[PageAt(start + j)] = table[PageAt(start + k)],
               RowAt(start + j) = RowAt(start + k)
        PROVE  FALSE
    <3>1. PageAt(start + j) \in DOMAIN Table(cache.sequences[s])
      BY <1>5, SMTT(30)
    <3>2. PageAt(start + j) = PageAt(start + k)
      BY <1>1, <1>2, <1>5, <2>2, <3>1
    <3>3. PICK a \in Nat \ {0}, b \in Nat \ {0} : a = start + j /\ b = start + k
      BY <1>3
    <3>4. a = b
      BY <2>2, <3>2, <3>3, CellUnique
    <3> QED BY <1>2, <1>3, <3>3, <3>4
  <2> QED BY <1>4, <2>1, <2>2
<1>7. ASSUME NEW t \in LiveIn(cache.sequences), NEW n \in Nat \ {0},
             PageAt(n) \in DOMAIN Table(cache.sequences[t]), t = s => n <= start
      PROVE  At(slab, tables[t].pages, n) = At(content, tables[t].pages, n)
  <2>1. PICK p, row : p = tables[t].pages[PageAt(n)] /\ row = RowAt(n)
    OBVIOUS
  <2>2. p \in PhysicalPages
    <3>1. \A i \in DOMAIN Table(cache.sequences[t]) : tables[t].pages[i] \in PhysicalPages
      BY <1>2, TableStored
    <3> QED BY <1>7, <2>1, <3>1
  <2>3. row \in 1..PageTokens
    <3>1. n \in 1..n
      OBVIOUS
    <3> QED BY <2>1, <3>1, CellParts
  <2>4. ASSUME NEW k \in DOMAIN tokens, table[PageAt(start + k)] = p, RowAt(start + k) = row
        PROVE  FALSE
    <3>1. t = s /\ PageAt(n) = PageAt(start + k)
      BY <1>5, <1>7, <2>1, <2>4
    <3>2. PICK b \in Nat \ {0} : b = start + k /\ start < b
      BY <1>3
    <3>3. n = b
      BY <2>1, <2>4, <3>1, <3>2, CellUnique
    <3> QED BY <1>3, <1>7, <3>1, <3>2, <3>3
  <2>5. slab[p][row] = content[p][row]
    BY <1>4, <2>2, <2>3, <2>4
  <2> QED BY <2>1, <2>5 DEF At
<1>8. ASSUME NEW id \in DOMAIN cache.prefixes, NEW j \in DOMAIN cache.prefixes[id].pages, NEW p,
             p = cache.pages[cache.prefixes[id].pages[j].slot].physical
      PROVE  slab[p] = content[p]
  <2>1. p \in PhysicalPages
    <3>1. \A i \in DOMAIN cache.prefixes[id].pages :
            cache.pages[cache.prefixes[id].pages[i].slot].physical \in PhysicalPages
      BY <1>2, EntryStored
    <3> QED BY <1>8, <3>1, SMTT(30)
  <2>2. \A k \in DOMAIN tokens : table[PageAt(start + k)] # p
    BY <1>5, <1>8
  <2>3. \A row \in 1..PageTokens : slab[p][row] = content[p][row]
    BY <1>4, <2>1, <2>2
  <2>4. slab[p] \in PageContent /\ content[p] \in PageContent
    BY <1>2, <1>4, <2>1
  <2> QED BY <2>3, <2>4, SameRows
<1> QED BY <1>1, <1>2, <1>4, <1>6, <1>7, <1>8, Zenon DEF Wrote

\* The model writes the rows of a pending append.
LEMMA WriteServes ==
    ASSUME Managed, Readable, NEW s \in LiveSequences, NEW n \in Rows, NEW tokens \in [1..n -> Tokens],
           WriteAppend(s, tokens)
    PROVE  Readable' /\ Store!Next
<1>1. PICK slab, written, q : slab = content' /\ written = draft' /\ q = cache.sequences[s]
  OBVIOUS
<1>2. /\ Len(tokens) = q.pending.rows
      /\ slab = WriteThrough(content, tables[s].pages, q.position, tokens)
      /\ written = [draft EXCEPT ![s] = tokens]
      /\ cache' = cache /\ tables' = tables /\ pool' = pool
  BY <1>1 DEF WriteAppend, vars
<1>3. tokens \in Seq(Tokens) /\ tokens # <<>> /\ Len(tokens) = n
  <2>1. n \in Nat \ {0}
    BY ConfigAssumption DEF Rows
  <2> QED BY <2>1
<1>4. /\ slab \in [PhysicalPages -> PageContent]
      /\ \A k \in 1..Len(tokens) : At(slab, tables[s].pages, q.position + k) = tokens[k]
      /\ \A t \in LiveIn(cache.sequences) : \A m \in Nat \ {0} :
           PageAt(m) \in DOMAIN Table(cache.sequences[t]) /\ (t = s => m <= q.position)
             => At(slab, tables[t].pages, m) = At(content, tables[t].pages, m)
      /\ \A id \in DOMAIN cache.prefixes : \A j \in DOMAIN cache.prefixes[id].pages :
           slab[cache.pages[cache.prefixes[id].pages[j].slot].physical]
             = content[cache.pages[cache.prefixes[id].pages[j].slot].physical]
  <2>1. tokens \in Seq(Tokens) /\ Len(tokens) = q.pending.rows
    BY <1>2, <1>3
  <2>2. slab = WriteThrough(content, tables[s].pages, q.position, tokens) /\ q = cache.sequences[s]
    BY <1>1, <1>2
  <2>3. Wrote(s, q, tokens, slab)
    BY <2>1, <2>2, WriteLeaves
  <2> QED BY <2>3, Zenon DEF Wrote
<1>5. s \in SlotBound /\ s \in LiveIn(cache.sequences) /\ Laid(cache, pool, tables) /\ Valid(cache)
  BY LiveBound, ManagedLaid
<1>6. written \in [SlotBound -> Seq(Tokens)] /\ written[s] = tokens
      /\ \A t \in SlotBound \ {s} : written[t] = draft[t]
  <2>1. draft \in [SlotBound -> Seq(Tokens)]
    BY SMTT(30) DEF Readable, ContentTyped
  <2> QED BY <1>2, <1>3, <1>5, <2>1
<1>7. ASSUME NEW t \in LiveIn(cache.sequences)
      PROVE  \A k \in 1..tables[t].position :
               At(slab, tables[t].pages, k) = At(content, tables[t].pages, k)
  <2>1. PICK r : r = cache.sequences[t]
    OBVIOUS
  <2>2. /\ r \in SequenceSlot /\ tables[t].position = r.position /\ Table(r) \in Seq(PageId)
    BY <1>5, <2>1, TableStored
  <2>3. r.position \in Nat /\ r.pending.rows \in Nat
    BY <2>2 DEF SequenceSlot
  <2>4. Len(Table(r)) = DivCeil(r.position + r.pending.rows)
    BY <2>1 DEF Readable, SequenceReadable, Covered
  <2> SUFFICES ASSUME NEW k \in 1..r.position
               PROVE  At(slab, tables[t].pages, k) = At(content, tables[t].pages, k)
    BY <2>2
  <2>5. PICK m \in Nat : m = r.position + r.pending.rows /\ k \in 1..m
    BY <2>3
  <2>6. PageAt(k) \in 1..DivCeil(m)
    BY <2>5, CellParts
  <2>7. PageAt(k) \in DOMAIN Table(r)
    BY <2>2, <2>4, <2>5, <2>6
  <2>8. t = s => k <= q.position
    BY <1>1, <2>1, <2>3
  <2>9. k \in Nat \ {0}
    BY <2>3
  <2> QED BY <1>4, <2>1, <2>7, <2>8, <2>9
<1>8. ASSUME NEW t \in LiveIn(cache.sequences)
      PROVE  SequenceReadable(t)'
  <2>1. PICK r : r = cache.sequences[t]
    OBVIOUS
  <2>2. Covered(r) /\ HasTokens(t) /\ Drafted(t) /\ t \in SlotBound
    BY <2>1 DEF Readable, SequenceReadable, ContentTyped, LiveIn
  <2>3. r \in SequenceSlot /\ tables[t].position = r.position /\ Table(r) \in Seq(PageId)
    BY <1>5, <2>1, TableStored
  <2>4. r.position \in Nat /\ r.pending.rows \in Nat
    BY <2>3 DEF SequenceSlot
  <2>5. HasTokens(t)'
    BY <1>1, <1>2, <1>7, <2>2 DEF HasTokens
  <2>6. Drafted(t)'
    <3>1. CASE t = s
      <4>1. \A k \in 1..Len(tokens) : At(slab, tables[s].pages, tables[s].position + k) = tokens[k]
        BY <1>1, <1>4, <2>1, <2>3, <3>1, Zenon
      <4> QED BY <1>1, <1>2, <1>6, <3>1, <4>1 DEF Drafted
    <3>2. CASE t # s
      <4>1. written[t] = draft[t]
        BY <1>6, <2>2, <3>2
      <4>2. ASSUME draft[t] # <<>>
            PROVE  /\ r.pending.rows = Len(draft[t])
                   /\ \A k \in 1..Len(draft[t]) :
                        At(slab, tables[t].pages, tables[t].position + k) = draft[t][k]
        <5>1. /\ r.pending.rows = Len(draft[t])
              /\ \A k \in 1..Len(draft[t]) :
                   At(content, tables[t].pages, tables[t].position + k) = draft[t][k]
          BY <2>1, <2>2, <4>2 DEF Drafted
        <5> SUFFICES ASSUME NEW k \in 1..r.pending.rows
                     PROVE  At(slab, tables[t].pages, tables[t].position + k)
                              = At(content, tables[t].pages, tables[t].position + k)
          BY <5>1
        <5>2. PageAt(r.position + k) \in DOMAIN Table(r)
          BY <2>1, <2>2, SpanOpen
        <5>3. PICK m \in Nat \ {0} : m = r.position + k
          BY <2>4
        <5> QED BY <1>4, <2>1, <2>3, <3>2, <5>2, <5>3, Zenon
      <4> QED BY <1>1, <1>2, <2>1, <4>1, <4>2 DEF Drafted
    <3> QED BY <3>1, <3>2
  <2>7. Covered(cache'.sequences[t])
    BY <1>2, <2>1, <2>2
  <2> QED BY <2>5, <2>6, <2>7 DEF SequenceReadable
<1>9. EntriesHoldTheirKeys'
  <2>1. ASSUME NEW id \in DOMAIN cache.prefixes PROVE HoldsKey(id)'
    <3>1. PICK e : e = cache.prefixes[id]
      OBVIOUS
    <3>2. /\ AllLive(cache, e.pages)
          /\ [i \in DOMAIN e.pages |-> content[cache.pages[e.pages[i].slot].physical]] = e.key
      BY <3>1, Zenon DEF Readable, EntriesHoldTheirKeys
    <3>3. [i \in DOMAIN e.pages |-> slab[cache.pages[e.pages[i].slot].physical]]
            = [i \in DOMAIN e.pages |-> content[cache.pages[e.pages[i].slot].physical]]
      BY <1>4, <3>1, Zenon
    <3>4. AllLive(cache', cache'.prefixes[id].pages)
      BY <1>2, <3>1, <3>2, Zenon
    <3> QED BY <1>1, <1>2, <3>1, <3>2, <3>3, <3>4, Zenon DEF HoldsKey
  <2> QED BY <1>2, <2>1, Zenon DEF EntriesHoldTheirKeys, HoldsKey
<1>10. ContentTyped'
  BY <1>1, <1>2, <1>4, <1>6, Zenon DEF ContentTyped, Readable
<1>11. Readable'
  <2>1. \A t \in SlotBound \ LiveIn(cache.sequences) : written[t] = <<>>
    BY <1>5, <1>6 DEF Readable
  <2> QED BY <1>1, <1>2, <1>8, <1>9, <1>10, <2>1 DEF Readable
<1>12. Histories' = Histories
  <2>1. ASSUME NEW t \in SlotBound PROVE History(t)' = History(t)
    <3>1. CASE t \in LiveSequences
      <4>1. t \in LiveIn(cache.sequences) /\ t \in LiveSequences'
        BY <1>2, <3>1 DEF LiveSequences, LiveIn
      <4>2. ReadThrough(slab, tables[t].pages, tables[t].position)
              = ReadThrough(content, tables[t].pages, tables[t].position)
        BY <1>7, <4>1, ReadsAt
      <4> QED BY <1>1, <1>2, <3>1, <4>1, <4>2 DEF History
    <3>2. CASE t \notin LiveSequences
      <4>1. t \notin LiveSequences'
        BY <1>2, <3>2 DEF LiveSequences
      <4> QED BY <3>2, <4>1 DEF History
    <3> QED BY <3>1, <3>2
  <2> QED BY <2>1 DEF Histories
<1>13. Retained' = Retained
  <2>1. ASSUME NEW id \in DOMAIN cache.prefixes PROVE Kept(id)' = Kept(id)
    <3>1. PICK e, m, run : /\ e = cache.prefixes[id] /\ m = e.position
                           /\ run = PhysicalRefs(cache, e.pages)
      OBVIOUS
    <3>2. e \in PrefixEntry /\ DivCeil(m) = Len(e.pages)
      BY <1>5, <3>1, EntryStored
    <3>3. e.pages \in Seq(PageId) /\ m \in Nat
      BY <3>1, <3>2 DEF PrefixEntry
    <3>4. \A i \in 1..DivCeil(m) : /\ i \in DOMAIN e.pages
                                   /\ run[i] = cache.pages[e.pages[i].slot].physical
      <4>1. DOMAIN e.pages = 1..DivCeil(m)
        BY <3>2, <3>3
      <4>2. run = [i \in DOMAIN e.pages |-> cache.pages[e.pages[i].slot].physical]
        BY <3>1 DEF PhysicalRefs
      <4> QED BY <4>1, <4>2
    <3>5. \A i \in 1..DivCeil(m) : slab[run[i]] = content[run[i]]
      BY <1>4, <3>1, <3>4, Zenon
    <3>6. \A k \in 1..m : At(slab, run, k) = At(content, run, k)
      BY <3>3, <3>5, CellParts DEF At
    <3>7. ReadThrough(slab, run, m) = ReadThrough(content, run, m)
      BY <3>6, ReadsAt
    <3> QED BY <1>1, <1>2, <3>1, <3>7 DEF Kept
  <2> QED BY <1>2, <2>1 DEF Retained
<1>14. draft'[s] \in Seq(Tokens) \ {<<>>} /\ draft' = [draft EXCEPT ![s] = draft'[s]]
  BY <1>1, <1>2, <1>3, <1>6
<1>15. Store!Write(s)
  BY <1>12, <1>13, <1>14 DEF Store!Write, Histories, History, Retained, Kept
<1> QED BY <1>5, <1>11, <1>15 DEF Store!Next


----------------------------------------------------------------------------
(* The whole system. *)

\* Every call is one of the manager's steps, or touches an entry.
LEMMA CallManages ==
    ASSUME Managed, Readable, Call
    PROVE  Next \/ Touches
<1>1. CASE \E key \in DOMAIN cache.tree : LookupPrefix(key, 1)
  BY <1>1 DEF LookupPrefix, Touches
<1>2. CASE \E s \in LiveSequences : CanRetain(s) /\ RetainDuplicate(s, KeyOf(s))
  BY <1>2 DEF RetainDuplicate, Touches
<1>3. CASE \E s \in LiveSequences, n \in SnapshotSizes : CanRetain(s) /\ RetainPrefix(s, KeyOf(s), n)
  <2>1. PICK s \in LiveSequences, n \in SnapshotSizes : RetainPrefix(s, KeyOf(s), n)
    BY <1>3
  <2>2. PICK key \in KeysFor(s) : key = KeyOf(s)
    BY KeyNamed
  <2>3. RetainPrefix(s, key, n)
    BY <2>1, <2>2
  <2> QED BY <2>3 DEF Next
<1>4. CASE \E polled \in SUBSET InPool("deferred") : ReclaimDeferred(polled)
  BY <1>4 DEF Next
<1>5. CASE \E polled \in SUBSET InPool("deferred"), prefix \in Matches, request \in Requests :
             Admit(polled, prefix, request)
  BY <1>5 DEF Next
<1>6. CASE \E s \in LiveSequences, rows \in Rows :
             ReserveAppend(s, rows) \/ ReserveAppendFails(s, rows)
  BY <1>6 DEF Next
<1>7. CASE \E id \in DOMAIN cache.prefixes : EvictPrefix(id)
  BY <1>7 DEF Next
<1>8. CASE \E s \in LiveSequences, request \in Requests :
             BranchFails(s, request) \/ BranchEvictionFails(s, request)
  BY <1>8 DEF Next
<1>9. CASE \E s \in LiveSequences : Finish(s)
  BY <1>9 DEF Next
<1> QED BY <1>1, <1>2, <1>3, <1>4, <1>5, <1>6, <1>7, <1>8, <1>9 DEF Call

\* A call serves its caller and changes nothing for the others.
LEMMA CallServes ==
    ASSUME Managed, BothLaid, Steady, Readable, draft' = draft, Call
    PROVE  Readable' /\ (Store!Next \/ UNCHANGED Store!vars)
<1>1. CASE \E key \in DOMAIN cache.tree : LookupPrefix(key, 1)
  <2>1. Touches
    BY <1>1 DEF LookupPrefix, Touches
  <2> QED BY <2>1, QuietCalls
<1>2. CASE \E s \in LiveSequences : CanRetain(s) /\ RetainDuplicate(s, KeyOf(s))
  <2>1. Touches
    BY <1>2 DEF RetainDuplicate, Touches
  <2> QED BY <2>1, QuietCalls
<1>3. CASE \E s \in LiveSequences, n \in SnapshotSizes : CanRetain(s) /\ RetainPrefix(s, KeyOf(s), n)
  BY <1>3, RetainServes
<1>4. CASE \E polled \in SUBSET InPool("deferred") : ReclaimDeferred(polled)
  BY <1>4, QuietCalls
<1>5. CASE \E polled \in SUBSET InPool("deferred"), prefix \in Matches, request \in Requests :
             Admit(polled, prefix, request)
  BY <1>5, AdmitServes
<1>6. CASE \E s \in LiveSequences, rows \in Rows : ReserveAppend(s, rows)
  BY <1>6, ReserveServes
<1>7. CASE \E s \in LiveSequences, rows \in Rows : ReserveAppendFails(s, rows)
  <2>1. UNCHANGED cache
    BY <1>7 DEF ReserveAppendFails
  <2> QED BY <2>1, QuietCalls
<1>8. CASE \E id \in DOMAIN cache.prefixes : EvictPrefix(id)
  BY <1>8, QuietCalls
<1>9. CASE \E s \in LiveSequences, request \in Requests :
             BranchFails(s, request) \/ BranchEvictionFails(s, request)
  <2>1. UNCHANGED cache
    BY <1>9 DEF BranchFails, BranchEvictionFails
  <2> QED BY <2>1, QuietCalls
<1>10. CASE \E s \in LiveSequences : Finish(s)
  BY <1>10, FinishServes
<1> QED BY <1>1, <1>2, <1>3, <1>4, <1>5, <1>6, <1>7, <1>8, <1>9, <1>10 DEF Call

\* Whatever happens, what is known of the manager and of the rows stays known, and the
\* store takes a step or none.
LEMMA ContentStep ==
    ASSUME Managed, Readable, [ContentNext]_allVars
    PROVE  Managed' /\ Readable' /\ (Store!Next \/ UNCHANGED Store!vars)
<1>1. content \in [PhysicalPages -> PageContent]
  BY DEF Readable, ContentTyped
<1>2. Holding(content) => Steady
  BY <1>1, HoldingSteady
<1>3. CASE UNCHANGED allVars
  <2>1. UNCHANGED vars /\ content' = content /\ draft' = draft
    BY <1>3 DEF allVars
  <2>2. Managed' /\ BothLaid
    BY <2>1, StepManaged
  <2>3. Steady /\ UNCHANGED cache
    BY <1>1, <2>1 DEF Steady, vars
  <2> QED BY <2>1, <2>2, <2>3, QuietCalls
<1>4. CASE \E s \in LiveSequences, n \in Rows : \E tokens \in [1..n -> Tokens] : WriteAppend(s, tokens)
  <2>1. PICK s \in LiveSequences, n \in Rows : \E tokens \in [1..n -> Tokens] : WriteAppend(s, tokens)
    BY <1>4
  <2>2. PICK tokens \in [1..n -> Tokens] : WriteAppend(s, tokens)
    BY <2>1
  <2>3. UNCHANGED vars
    BY <2>2 DEF WriteAppend
  <2>4. Managed'
    BY <2>3, StepManaged
  <2> QED BY <2>2, <2>4, WriteServes
<1>5. CASE \E s \in LiveSequences, rows \in Rows : CommitWritten(s, rows)
  <2>1. PICK s \in LiveSequences, rows \in Rows : CommitWritten(s, rows)
    BY <1>5
  <2>2. /\ rows <= Len(draft[s]) /\ CommitAppend(s, rows) /\ Holding(content)
        /\ draft' = [draft EXCEPT ![s] = <<>>]
    BY <2>1 DEF CommitWritten
  <2>3. Next
    BY <2>2 DEF Next
  <2>4. Managed' /\ BothLaid
    BY <2>3, StepManaged
  <2> QED BY <1>2, <2>2, <2>4, CommitServes
<1>6. CASE \E s \in LiveSequences : AbortWritten(s)
  <2>1. PICK s \in LiveSequences : AbortWritten(s)
    BY <1>6
  <2>2. AbortAppend(s) /\ Holding(content) /\ draft' = [draft EXCEPT ![s] = <<>>]
    BY <2>1 DEF AbortWritten
  <2>3. Next
    BY <2>2 DEF Next
  <2>4. Managed' /\ BothLaid
    BY <2>3, StepManaged
  <2> QED BY <1>2, <2>2, <2>4, AbortServes
<1>7. CASE \E s \in LiveSequences, request \in Requests : BranchCopying(s, request)
  <2>1. PICK s \in LiveSequences, request \in Requests : BranchCopying(s, request)
    BY <1>7
  <2>2. Branch(s, request)
    BY <2>1 DEF BranchCopying
  <2>3. Next
    BY <2>2 DEF Next
  <2>4. Managed' /\ BothLaid
    BY <2>3, StepManaged
  <2> QED BY <2>1, <2>4, BranchServes
<1>8. CASE Call /\ Holding(content) /\ UNCHANGED draft
  <2>1. Managed' /\ BothLaid
    BY <1>8, CallManages, StepManaged
  <2> QED BY <1>2, <1>8, <2>1, CallServes
<1> QED BY <1>3, <1>4, <1>5, <1>6, <1>7, <1>8 DEF ContentNext

\* Nothing is read and nothing retained before the first call.
LEMMA ContentStart ==
    ASSUME ContentInit
    PROVE  Managed /\ Readable /\ Store!Init
<1>1. Init /\ content = [p \in PhysicalPages |-> BlankPage] /\ draft = [s \in SlotBound |-> <<>>]
  BY DEF ContentInit
<1>2. Managed
  BY <1>1, InitIInv, InitStored, InitValid, InitOrdered DEF Managed
<1>3. cache.sequences = <<>> /\ cache.prefixes = <<>>
  BY <1>1, InitEmpty
<1>4. LiveSequences = {} /\ LiveIn(cache.sequences) = {} /\ DOMAIN cache.prefixes = {}
  BY <1>3 DEF LiveSequences, LiveIn
<1>5. Readable
  <2>1. BlankPage \in PageContent
    BY DEF BlankPage, PageContent
  <2>2. DOMAIN cache.sequences \subseteq SlotBound
    BY <1>3
  <2>3. draft \in [SlotBound -> Seq(Tokens)]
    BY <1>1
  <2> QED BY <1>1, <1>4, <2>1, <2>2, <2>3 DEF Readable, ContentTyped, EntriesHoldTheirKeys
<1>6. Histories = [s \in SlotBound |-> <<>>]
  BY <1>4 DEF Histories, History
<1>7. Retained = <<>>
  BY <1>4 DEF Retained
<1>8. Store!Init
  BY <1>1, <1>6, <1>7 DEF Store!Init, Histories, History, Retained, Kept
<1> QED BY <1>2, <1>5, <1>8

\* The inductive invariant of the system with its rows.
THEOREM ContentInvariant == ContentSpec => [](Managed /\ Readable)
<1>1. ContentInit => Managed /\ Readable
  BY ContentStart
<1>2. (Managed /\ Readable) /\ [ContentNext]_allVars => (Managed /\ Readable)'
  BY ContentStep
<1> QED BY <1>1, <1>2, PTL DEF ContentSpec

\* In every configuration in which no page slot is used to its last generation, the pages of
\* every retained entry hold the tokens of its key, over evictions, recycled pages, branches
\* and appends of others in any order (lookup_prefix, admit and retain_prefix).
THEOREM EntriesCorrect == ContentSpec => []EntriesHoldTheirKeys
<1>1. Managed /\ Readable => EntriesHoldTheirKeys
  BY DEF Readable
<1> QED BY <1>1, ContentInvariant, PTL

\* In the same configurations the manager with its pages implements the store of tokens: a
\* sequence reads back what was committed to it and a retained entry what it was retained
\* with, whatever the other sequences do and whichever reservations and branches fail
\* (with_append_pages, commit_append, copy_partial_page, branch, admit, retain_prefix).
THEOREM StoreImplemented == ContentSpec => RefinesStore
<1>1. ContentInit => Store!Init
  BY ContentStart
<1>2. (Managed /\ Readable) /\ [ContentNext]_allVars => [Store!Next]_Store!vars
  BY ContentStep
<1> QED BY <1>1, <1>2, ContentInvariant, PTL DEF ContentSpec, RefinesStore, Store!Spec

====
