-------------------------- MODULE OwnershipProofs --------------------------
(***************************************************************************)
(* Proofs about who owns a page: the counts of a page are the numbers of   *)
(* sequences and retained entries that list it, and their handles resolve. *)
(*                                                                         *)
(* The argument is made twice.  First for plain functions: page records,   *)
(* the tables of the live sequences and the page lists of the entries, and *)
(* the six ways in which the operations change them.  Then every operation *)
(* is shown to change the manager's record in these ways.                  *)
(*                                                                         *)
(* The last part is about what a step may never do to a page or a sequence *)
(* that somebody still has a handle of: its generation never goes back,    *)
(* and while it stays the handle names the same storage and the same       *)
(* history.  An operation is a chain of updates of the two arenas, each    *)
(* keeps what a handle names, and that is transitive.                      *)
(***************************************************************************)
EXTENDS SequenceCacheProofs

----------------------------------------------------------------------------
(* References. *)

\* Every handle of a list names a live page of its generation, and no page twice.
Resolves(pages, ids) ==
    /\ \A i \in DOMAIN ids :
         /\ ids[i].slot \in DOMAIN pages
         /\ pages[ids[i].slot].live
         /\ pages[ids[i].slot].generation = ids[i].generation
    /\ \A i, j \in DOMAIN ids : ids[i].slot = ids[j].slot => i = j

\* The owners in a map from owners to page lists that list the page in slot p.
Users(lists, p) == {s \in DOMAIN lists : p \in SlotsOf(lists[s])}

\* The counts of the page in slot p are the numbers of its owners, and it has one.
Counted(page, tabs, keeps, p) ==
    /\ page.active_refs = Cardinality(Users(tabs, p))
    /\ page.prefix_refs = Cardinality(Users(keeps, p))
    /\ page.active_refs # 0 \/ page.prefix_refs # 0

\* The lists of sequences (tabs) and entries (keeps) resolve and are counted.
Refs(pages, tabs, keeps) ==
    /\ IsFiniteSet(DOMAIN tabs) /\ IsFiniteSet(DOMAIN keeps)
    /\ \A s \in DOMAIN tabs : Resolves(pages, tabs[s])
    /\ \A id \in DOMAIN keeps : Resolves(pages, keeps[id])
    /\ \A p \in DOMAIN pages : pages[p].live => Counted(pages[p], tabs, keeps, p)

\* The page in slot p is live before and after, under the same handle.
Stays(pages, after, p) ==
    /\ p \in DOMAIN after
    /\ after[p].live
    /\ after[p].generation = pages[p].generation

\* The owners of a page are finitely many.
LEMMA UsersFinite ==
    ASSUME NEW lists, IsFiniteSet(DOMAIN lists), NEW p
    PROVE  /\ IsFiniteSet(Users(lists, p))
           /\ Cardinality(Users(lists, p)) \in Nat
           /\ Cardinality(Users(lists, p)) = 0 <=> Users(lists, p) = {}
BY FS_Subset, FS_CardinalityType, FS_EmptySet DEF Users

\* A list resolves as long as its pages stay.
LEMMA ResolvesStays ==
    ASSUME NEW pages, NEW after, NEW ids, Resolves(pages, ids),
           \A i \in DOMAIN ids : Stays(pages, after, ids[i].slot)
    PROVE  Resolves(after, ids)
BY DEF Resolves, Stays

\* lists with `ids' for owner s.
ListsWith(lists, s, ids, more) ==
    /\ DOMAIN more = DOMAIN lists \cup {s}
    /\ more[s] = ids
    /\ \A t \in DOMAIN lists : t # s => more[t] = lists[t]

\* lists without some owners.
ListsWithout(lists, gone, left) ==
    /\ DOMAIN left = DOMAIN lists \ gone
    /\ \A t \in DOMAIN left : left[t] = lists[t]

\* A new owner is one more for each page it lists.
LEMMA UsersWith ==
    ASSUME NEW lists, IsFiniteSet(DOMAIN lists), NEW s, s \notin DOMAIN lists, NEW ids, NEW more,
           ListsWith(lists, s, ids, more), NEW p
    PROVE  /\ IsFiniteSet(DOMAIN more)
           /\ Cardinality(Users(more, p)) =
                IF p \in SlotsOf(ids) THEN Cardinality(Users(lists, p)) + 1
                                      ELSE Cardinality(Users(lists, p))
<1>1. IsFiniteSet(DOMAIN more)
  BY FS_AddElement DEF ListsWith
<1>2. s \notin Users(lists, p) /\ IsFiniteSet(Users(lists, p))
  BY UsersFinite DEF Users
<1>3. CASE p \in SlotsOf(ids)
  <2>1. Users(more, p) = Users(lists, p) \cup {s}
    BY <1>3 DEF Users, ListsWith
  <2> QED BY <1>1, <1>2, <1>3, <2>1, FS_AddElement
<1>4. CASE p \notin SlotsOf(ids)
  <2>1. Users(more, p) = Users(lists, p)
    BY <1>4 DEF Users, ListsWith
  <2> QED BY <1>1, <1>4, <2>1
<1> QED BY <1>3, <1>4

\* Those of some owners that list the page in slot p.
Removed(lists, gone, p) == {t \in gone : p \in SlotsOf(lists[t])}

\* Without some owners a page has that many fewer.
LEMMA UsersWithout ==
    ASSUME NEW lists, IsFiniteSet(DOMAIN lists), NEW gone, gone \subseteq DOMAIN lists, NEW left,
           ListsWithout(lists, gone, left), NEW p
    PROVE  /\ IsFiniteSet(DOMAIN left)
           /\ Cardinality(Removed(lists, gone, p)) \in Nat
           /\ Cardinality(Users(left, p)) \in Nat
           /\ Cardinality(Users(lists, p))
                = Cardinality(Users(left, p)) + Cardinality(Removed(lists, gone, p))
<1> DEFINE removed == Removed(lists, gone, p)
<1>1. IsFiniteSet(DOMAIN left) /\ IsFiniteSet(Users(lists, p)) /\ IsFiniteSet(Users(left, p))
  BY FS_Subset, UsersFinite DEF ListsWithout
<1>2. removed \subseteq Users(lists, p)
  BY DEF Users, Removed
<1>3. IsFiniteSet(removed)
  BY <1>1, <1>2, FS_Subset
<1>4. Users(lists, p) = Users(left, p) \cup removed /\ Users(left, p) \cap removed = {}
  BY DEF Users, ListsWithout, Removed
<1>5. /\ Cardinality(Users(left, p)) \in Nat /\ Cardinality(removed) \in Nat
      /\ Cardinality(Users(left, p) \cap removed) = 0
  BY <1>1, <1>3, <1>4, FS_CardinalityType, FS_EmptySet
<1>6. Cardinality(Users(lists, p)) =
        Cardinality(Users(left, p)) + Cardinality(removed) - Cardinality(Users(left, p) \cap removed)
  BY <1>1, <1>3, <1>4, FS_Union
<1> QED BY <1>1, <1>3, <1>5, <1>6

\* The owners of an owner's page.
LEMMA OwnerCounts ==
    ASSUME NEW lists, IsFiniteSet(DOMAIN lists), NEW s \in DOMAIN lists, NEW i \in DOMAIN lists[s]
    PROVE  /\ s \in Users(lists, lists[s][i].slot)
           /\ Cardinality(Users(lists, lists[s][i].slot)) \in Nat \ {0}
<1>1. s \in Users(lists, lists[s][i].slot)
  BY DEF Users, SlotsOf
<1>2. \A p : Cardinality(Users(lists, p)) \in Nat /\ (Cardinality(Users(lists, p)) = 0 => Users(lists, p) = {})
  BY UsersFinite
<1>3. /\ Cardinality(Users(lists, lists[s][i].slot)) \in Nat
      /\ Cardinality(Users(lists, lists[s][i].slot)) = 0 => Users(lists, lists[s][i].slot) = {}
  BY <1>2
<1> QED BY <1>1, <1>3

\* What becomes of a page when some of its entries go: it goes if they were its last
\* owners, otherwise it loses their references.
EvictedPage(old, new, removed) ==
    /\ new.live => old.live
    /\ old.live => (new.live <=> old.active_refs # 0 \/ removed = 0 \/ old.prefix_refs # removed)
    /\ new.live => /\ new.generation = old.generation
                   /\ new.active_refs = old.active_refs
                   /\ new.prefix_refs = old.prefix_refs - removed

\* commit_evictions: the entries `ids' leave.
Evicts(pages, keeps, ids, after, left) ==
    /\ ids \subseteq DOMAIN keeps
    /\ ListsWithout(keeps, ids, left)
    /\ DOMAIN after = DOMAIN pages
    /\ \A p \in DOMAIN pages :
         EvictedPage(pages[p], after[p], Cardinality(Removed(keeps, ids, p)))

\* Evictions keep the references exact.
LEMMA EvictsRefs ==
    ASSUME NEW pages, NEW tabs, NEW keeps, Refs(pages, tabs, keeps), NEW ids, NEW after, NEW left,
           Evicts(pages, keeps, ids, after, left)
    PROVE  Refs(after, tabs, left)
<1>1. /\ IsFiniteSet(DOMAIN tabs) /\ IsFiniteSet(DOMAIN keeps)
      /\ ids \subseteq DOMAIN keeps /\ ListsWithout(keeps, ids, left)
      /\ DOMAIN after = DOMAIN pages
  BY DEF Refs, Evicts
<1>2. \A p : /\ Cardinality(Users(tabs, p)) \in Nat
             /\ Cardinality(Removed(keeps, ids, p)) \in Nat
             /\ Cardinality(Users(left, p)) \in Nat
             /\ Cardinality(Users(keeps, p))
                  = Cardinality(Users(left, p)) + Cardinality(Removed(keeps, ids, p))
  BY <1>1, UsersWithout, UsersFinite
<1>3. IsFiniteSet(DOMAIN left)
  BY <1>1, UsersWithout
<1>4. ASSUME NEW p \in DOMAIN pages, pages[p].live,
             Cardinality(Users(tabs, p)) # 0 \/ Cardinality(Users(left, p)) # 0
      PROVE  Stays(pages, after, p)
  <2>1. Counted(pages[p], tabs, keeps, p)
    BY <1>4 DEF Refs
  <2>2. EvictedPage(pages[p], after[p], Cardinality(Removed(keeps, ids, p)))
    BY DEF Evicts
  <2>3. pages[p].active_refs # 0 \/ pages[p].prefix_refs # Cardinality(Removed(keeps, ids, p))
    BY <1>2, <1>4, <2>1 DEF Counted
  <2> QED BY <1>1, <1>4, <2>2, <2>3 DEF EvictedPage, Stays
<1>5. ASSUME NEW s \in DOMAIN tabs PROVE Resolves(after, tabs[s])
  <2>1. Resolves(pages, tabs[s])
    BY DEF Refs
  <2>2. ASSUME NEW i \in DOMAIN tabs[s] PROVE Stays(pages, after, tabs[s][i].slot)
    <3>1. Cardinality(Users(tabs, tabs[s][i].slot)) # 0
      BY <1>1, OwnerCounts
    <3>2. tabs[s][i].slot \in DOMAIN pages /\ pages[tabs[s][i].slot].live
      BY <2>1 DEF Resolves
    <3> QED BY <1>4, <3>1, <3>2
  <2> QED BY <2>1, <2>2, ResolvesStays
<1>6. ASSUME NEW id \in DOMAIN left PROVE Resolves(after, left[id])
  <2>1. Resolves(pages, left[id])
    BY <1>1 DEF Refs, ListsWithout
  <2>2. ASSUME NEW i \in DOMAIN left[id] PROVE Stays(pages, after, left[id][i].slot)
    <3>1. Cardinality(Users(left, left[id][i].slot)) # 0
      BY <1>3, OwnerCounts
    <3>2. left[id][i].slot \in DOMAIN pages /\ pages[left[id][i].slot].live
      BY <2>1 DEF Resolves
    <3> QED BY <1>4, <3>1, <3>2
  <2> QED BY <2>1, <2>2, ResolvesStays
<1>7. ASSUME NEW p \in DOMAIN after, after[p].live PROVE Counted(after[p], tabs, left, p)
  <2>1. EvictedPage(pages[p], after[p], Cardinality(Removed(keeps, ids, p))) /\ pages[p].live
    BY <1>1, <1>7 DEF Evicts, EvictedPage
  <2>2. Counted(pages[p], tabs, keeps, p)
    BY <1>1, <2>1 DEF Refs
  <2>3. /\ after[p].active_refs = pages[p].active_refs
        /\ after[p].prefix_refs = pages[p].prefix_refs - Cardinality(Removed(keeps, ids, p))
        /\ \/ pages[p].active_refs # 0 \/ Cardinality(Removed(keeps, ids, p)) = 0
           \/ pages[p].prefix_refs # Cardinality(Removed(keeps, ids, p))
    BY <1>7, <2>1 DEF EvictedPage
  <2>4. after[p].prefix_refs = Cardinality(Users(left, p))
    BY <1>2, <2>2, <2>3 DEF Counted
  <2>5. after[p].active_refs # 0 \/ after[p].prefix_refs # 0
    BY <1>2, <2>2, <2>3 DEF Counted
  <2> QED BY <2>2, <2>3, <2>4, <2>5 DEF Counted
<1> QED BY <1>1, <1>3, <1>5, <1>6, <1>7 DEF Refs

\* A page keeps its handle and has the given counts.
Becomes(old, new, active, prefix) ==
    /\ new.live = old.live
    /\ new.generation = old.generation
    /\ old.live => new.active_refs = active /\ new.prefix_refs = prefix

\* A new sequence s lists the pages ids, each of which gains a reference.
Shares(pages, tabs, s, ids, after, more) ==
    /\ s \notin DOMAIN tabs
    /\ ListsWith(tabs, s, ids, more)
    /\ Resolves(pages, ids)
    /\ DOMAIN after = DOMAIN pages
    /\ \A p \in DOMAIN pages :
         Becomes(pages[p], after[p],
                 IF p \in SlotsOf(ids) THEN pages[p].active_refs + 1 ELSE pages[p].active_refs,
                 pages[p].prefix_refs)

\* Sharing pages with a new sequence keeps the references exact.
LEMMA SharesRefs ==
    ASSUME NEW pages, NEW tabs, NEW keeps, Refs(pages, tabs, keeps), NEW s, NEW ids, NEW after,
           NEW more, Shares(pages, tabs, s, ids, after, more)
    PROVE  Refs(after, more, keeps)
<1>1. /\ IsFiniteSet(DOMAIN tabs) /\ IsFiniteSet(DOMAIN keeps) /\ s \notin DOMAIN tabs
      /\ ListsWith(tabs, s, ids, more) /\ Resolves(pages, ids) /\ DOMAIN after = DOMAIN pages
  BY DEF Refs, Shares
<1>2. \A p : /\ Cardinality(Users(tabs, p)) \in Nat
             /\ Cardinality(Users(keeps, p)) \in Nat
             /\ Cardinality(Users(more, p)) =
                  IF p \in SlotsOf(ids) THEN Cardinality(Users(tabs, p)) + 1
                                        ELSE Cardinality(Users(tabs, p))
  BY <1>1, UsersWith, UsersFinite
<1>3. IsFiniteSet(DOMAIN more)
  BY <1>1, UsersWith
<1>4. \A p \in DOMAIN pages : pages[p].live => Stays(pages, after, p)
  BY <1>1 DEF Shares, Becomes, Stays
<1>5. ASSUME NEW list, Resolves(pages, list) PROVE Resolves(after, list)
  <2>1. \A i \in DOMAIN list : Stays(pages, after, list[i].slot)
    BY <1>4, <1>5 DEF Resolves
  <2> QED BY <1>5, <2>1, ResolvesStays
<1>6. \A t \in DOMAIN more : Resolves(after, more[t])
  BY <1>1, <1>5 DEF ListsWith, Refs
<1>7. \A id \in DOMAIN keeps : Resolves(after, keeps[id])
  BY <1>5 DEF Refs
<1>8. ASSUME NEW p \in DOMAIN after, after[p].live PROVE Counted(after[p], more, keeps, p)
  <2>1. Counted(pages[p], tabs, keeps, p)
    BY <1>1, <1>8 DEF Refs, Shares, Becomes
  <2>2. /\ after[p].active_refs =
             IF p \in SlotsOf(ids) THEN pages[p].active_refs + 1 ELSE pages[p].active_refs
        /\ after[p].prefix_refs = pages[p].prefix_refs
    BY <1>1, <1>8 DEF Shares, Becomes
  <2> QED BY <1>2, <2>1, <2>2 DEF Counted
<1> QED BY <1>1, <1>3, <1>6, <1>7, <1>8 DEF Refs

\* A new entry id lists the pages ids, each of which gains a reference.
Retains(pages, keeps, id, ids, after, more) ==
    /\ id \notin DOMAIN keeps
    /\ ListsWith(keeps, id, ids, more)
    /\ Resolves(pages, ids)
    /\ DOMAIN after = DOMAIN pages
    /\ \A p \in DOMAIN pages :
         Becomes(pages[p], after[p], pages[p].active_refs,
                 IF p \in SlotsOf(ids) THEN pages[p].prefix_refs + 1 ELSE pages[p].prefix_refs)

\* Retaining pages under a new entry keeps the references exact.
LEMMA RetainsRefs ==
    ASSUME NEW pages, NEW tabs, NEW keeps, Refs(pages, tabs, keeps), NEW id, NEW ids, NEW after,
           NEW more, Retains(pages, keeps, id, ids, after, more)
    PROVE  Refs(after, tabs, more)
<1>1. /\ IsFiniteSet(DOMAIN tabs) /\ IsFiniteSet(DOMAIN keeps) /\ id \notin DOMAIN keeps
      /\ ListsWith(keeps, id, ids, more) /\ Resolves(pages, ids) /\ DOMAIN after = DOMAIN pages
  BY DEF Refs, Retains
<1>2. \A p : /\ Cardinality(Users(tabs, p)) \in Nat
             /\ Cardinality(Users(keeps, p)) \in Nat
             /\ Cardinality(Users(more, p)) =
                  IF p \in SlotsOf(ids) THEN Cardinality(Users(keeps, p)) + 1
                                        ELSE Cardinality(Users(keeps, p))
  BY <1>1, UsersWith, UsersFinite
<1>3. IsFiniteSet(DOMAIN more)
  BY <1>1, UsersWith
<1>4. \A p \in DOMAIN pages : pages[p].live => Stays(pages, after, p)
  BY <1>1 DEF Retains, Becomes, Stays
<1>5. ASSUME NEW list, Resolves(pages, list) PROVE Resolves(after, list)
  <2>1. \A i \in DOMAIN list : Stays(pages, after, list[i].slot)
    BY <1>4, <1>5 DEF Resolves
  <2> QED BY <1>5, <2>1, ResolvesStays
<1>6. \A t \in DOMAIN more : Resolves(after, more[t])
  BY <1>1, <1>5 DEF ListsWith, Refs
<1>7. \A s \in DOMAIN tabs : Resolves(after, tabs[s])
  BY <1>5 DEF Refs
<1>8. ASSUME NEW p \in DOMAIN after, after[p].live PROVE Counted(after[p], tabs, more, p)
  <2>1. Counted(pages[p], tabs, keeps, p)
    BY <1>1, <1>8 DEF Refs, Retains, Becomes
  <2>2. /\ after[p].active_refs = pages[p].active_refs
        /\ after[p].prefix_refs =
             IF p \in SlotsOf(ids) THEN pages[p].prefix_refs + 1 ELSE pages[p].prefix_refs
    BY <1>1, <1>8 DEF Retains, Becomes
  <2> QED BY <1>2, <2>1, <2>2 DEF Counted
<1> QED BY <1>1, <1>3, <1>6, <1>7, <1>8 DEF Refs

\* What becomes of a page when one of its sequences leaves: it goes if that was its last
\* owner, otherwise it loses a reference.
LeftPage(old, new) ==
    /\ new.live => old.live
    /\ old.live => (new.live <=> old.active_refs # 1 \/ old.prefix_refs # 0)
    /\ new.live => /\ new.generation = old.generation
                   /\ new.active_refs = old.active_refs - 1
                   /\ new.prefix_refs = old.prefix_refs

\* finish: the sequence s leaves.
Leaves(pages, tabs, s, after, left) ==
    /\ s \in DOMAIN tabs
    /\ ListsWithout(tabs, {s}, left)
    /\ DOMAIN after = DOMAIN pages
    /\ \A p \in DOMAIN pages :
         IF p \in SlotsOf(tabs[s]) THEN LeftPage(pages[p], after[p])
         ELSE Becomes(pages[p], after[p], pages[p].active_refs, pages[p].prefix_refs)

\* The end of a sequence keeps the references exact.
LEMMA LeavesRefs ==
    ASSUME NEW pages, NEW tabs, NEW keeps, Refs(pages, tabs, keeps), NEW s, NEW after,
           NEW left, Leaves(pages, tabs, s, after, left)
    PROVE  Refs(after, left, keeps)
<1>1. /\ IsFiniteSet(DOMAIN tabs) /\ IsFiniteSet(DOMAIN keeps) /\ s \in DOMAIN tabs
      /\ ListsWithout(tabs, {s}, left) /\ DOMAIN after = DOMAIN pages /\ {s} \subseteq DOMAIN tabs
  BY DEF Refs, Leaves
<1>2. \A p : Cardinality(Removed(tabs, {s}, p)) = IF p \in SlotsOf(tabs[s]) THEN 1 ELSE 0
  <2> SUFFICES ASSUME NEW p
               PROVE  Cardinality(Removed(tabs, {s}, p)) = IF p \in SlotsOf(tabs[s]) THEN 1 ELSE 0
    OBVIOUS
  <2>1. CASE p \in SlotsOf(tabs[s])
    <3>1. Removed(tabs, {s}, p) = {s}
      BY <2>1 DEF Removed
    <3> QED BY <2>1, <3>1, FS_Singleton
  <2>2. CASE p \notin SlotsOf(tabs[s])
    <3>1. Removed(tabs, {s}, p) = {}
      BY <2>2 DEF Removed
    <3> QED BY <2>2, <3>1, FS_EmptySet
  <2> QED BY <2>1, <2>2
<1>3. \A p : /\ Cardinality(Users(left, p)) \in Nat
             /\ Cardinality(Users(keeps, p)) \in Nat
             /\ Cardinality(Users(tabs, p)) =
                  Cardinality(Users(left, p)) + (IF p \in SlotsOf(tabs[s]) THEN 1 ELSE 0)
  <2>1. \A p : /\ Cardinality(Users(left, p)) \in Nat
               /\ Cardinality(Users(tabs, p)) =
                    Cardinality(Users(left, p)) + Cardinality(Removed(tabs, {s}, p))
    BY <1>1, UsersWithout
  <2>2. \A p : Cardinality(Users(keeps, p)) \in Nat
    BY <1>1, UsersFinite
  <2> QED BY <1>2, <2>1, <2>2
<1>4. IsFiniteSet(DOMAIN left)
  BY <1>1, UsersWithout
<1>5. ASSUME NEW p \in DOMAIN pages, pages[p].live,
             Cardinality(Users(left, p)) # 0 \/ Cardinality(Users(keeps, p)) # 0
      PROVE  Stays(pages, after, p)
  <2>1. Counted(pages[p], tabs, keeps, p)
    BY <1>5 DEF Refs
  <2>2. CASE p \in SlotsOf(tabs[s])
    <3>1. pages[p].active_refs # 1 \/ pages[p].prefix_refs # 0
      BY <1>3, <1>5, <2>1, <2>2 DEF Counted
    <3> QED BY <1>1, <1>5, <2>2, <3>1 DEF Leaves, LeftPage, Stays
  <2>3. CASE p \notin SlotsOf(tabs[s])
    BY <1>1, <1>5, <2>3 DEF Leaves, Becomes, Stays
  <2> QED BY <2>2, <2>3
<1>6. ASSUME NEW t \in DOMAIN left PROVE Resolves(after, left[t])
  <2>1. Resolves(pages, left[t])
    BY <1>1 DEF Refs, ListsWithout
  <2>2. ASSUME NEW i \in DOMAIN left[t] PROVE Stays(pages, after, left[t][i].slot)
    <3>1. Cardinality(Users(left, left[t][i].slot)) # 0
      BY <1>4, OwnerCounts
    <3>2. left[t][i].slot \in DOMAIN pages /\ pages[left[t][i].slot].live
      BY <2>1 DEF Resolves
    <3> QED BY <1>5, <3>1, <3>2
  <2> QED BY <2>1, <2>2, ResolvesStays
<1>7. ASSUME NEW id \in DOMAIN keeps PROVE Resolves(after, keeps[id])
  <2>1. Resolves(pages, keeps[id])
    BY DEF Refs
  <2>2. ASSUME NEW i \in DOMAIN keeps[id] PROVE Stays(pages, after, keeps[id][i].slot)
    <3>1. Cardinality(Users(keeps, keeps[id][i].slot)) # 0
      BY <1>1, OwnerCounts
    <3>2. keeps[id][i].slot \in DOMAIN pages /\ pages[keeps[id][i].slot].live
      BY <2>1 DEF Resolves
    <3> QED BY <1>5, <3>1, <3>2
  <2> QED BY <2>1, <2>2, ResolvesStays
<1>8. ASSUME NEW p \in DOMAIN after, after[p].live PROVE Counted(after[p], left, keeps, p)
  <2>1. CASE p \in SlotsOf(tabs[s])
    <3>1. LeftPage(pages[p], after[p])
      BY <1>1, <2>1 DEF Leaves
    <3>2. Counted(pages[p], tabs, keeps, p)
      BY <1>1, <1>8, <3>1 DEF Refs, LeftPage
    <3> QED BY <1>3, <1>8, <2>1, <3>1, <3>2 DEF LeftPage, Counted
  <2>2. CASE p \notin SlotsOf(tabs[s])
    <3>1. Becomes(pages[p], after[p], pages[p].active_refs, pages[p].prefix_refs)
      BY <1>1, <2>2 DEF Leaves
    <3>2. Counted(pages[p], tabs, keeps, p)
      BY <1>1, <1>8, <3>1 DEF Refs, Becomes
    <3> QED BY <1>3, <1>8, <2>2, <3>1, <3>2 DEF Becomes, Counted
  <2> QED BY <2>1, <2>2
<1> QED BY <1>1, <1>4, <1>6, <1>7, <1>8 DEF Refs

\* Every page of `ids' is one of the page lists' joined by \o.
LEMMA SlotsJoined ==
    ASSUME NEW ids \in Seq(PageId), NEW more \in Seq(PageId)
    PROVE  /\ SlotsOf(ids \o more) = SlotsOf(ids) \cup SlotsOf(more)
           /\ \A i \in DOMAIN ids : i \in DOMAIN (ids \o more) /\ (ids \o more)[i] = ids[i]
           /\ \A i \in DOMAIN more : /\ Len(ids) + i \in DOMAIN (ids \o more)
                                     /\ (ids \o more)[Len(ids) + i] = more[i]
           /\ \A i \in DOMAIN (ids \o more) :
                \/ i \in DOMAIN ids /\ (ids \o more)[i] = ids[i]
                \/ i - Len(ids) \in DOMAIN more /\ (ids \o more)[i] = more[i - Len(ids)]
           /\ ids \o more \in Seq(PageId)
<1>1. /\ ids \o more \in Seq(PageId) /\ Len(ids) \in Nat /\ Len(more) \in Nat
      /\ DOMAIN ids = 1..Len(ids) /\ DOMAIN more = 1..Len(more)
      /\ DOMAIN (ids \o more) = 1..(Len(ids) + Len(more))
  OBVIOUS
<1>2. \A i \in DOMAIN ids : i \in DOMAIN (ids \o more) /\ (ids \o more)[i] = ids[i]
  BY <1>1
<1>3. \A i \in DOMAIN more : /\ Len(ids) + i \in DOMAIN (ids \o more)
                             /\ (ids \o more)[Len(ids) + i] = more[i]
  BY <1>1
<1>4. \A i \in DOMAIN (ids \o more) :
        \/ i \in DOMAIN ids /\ (ids \o more)[i] = ids[i]
        \/ i - Len(ids) \in DOMAIN more /\ (ids \o more)[i] = more[i - Len(ids)]
  BY <1>1
<1>5. SlotsOf(ids \o more) = SlotsOf(ids) \cup SlotsOf(more)
  <2>1. PICK joined : joined = ids \o more
    OBVIOUS
  <2>2. PICK n : n = Len(ids)
    OBVIOUS
  <2>3. \A i \in DOMAIN ids : i \in DOMAIN joined /\ joined[i] = ids[i]
    BY <1>2, <2>1
  <2>4. \A i \in DOMAIN more : n + i \in DOMAIN joined /\ joined[n + i] = more[i]
    BY <1>3, <2>1, <2>2
  <2>5. \A i \in DOMAIN joined : \/ i \in DOMAIN ids /\ joined[i] = ids[i]
                                \/ \E j \in DOMAIN more : joined[i] = more[j]
    BY <1>4, <2>1
  <2>6. SlotsOf(joined) \subseteq SlotsOf(ids) \cup SlotsOf(more)
    BY <2>5, Zenon DEF SlotsOf
  <2>7. SlotsOf(ids) \subseteq SlotsOf(joined)
    BY <2>3 DEF SlotsOf
  <2>8. SlotsOf(more) \subseteq SlotsOf(joined)
    BY <2>4 DEF SlotsOf
  <2>9. SlotsOf(joined) = SlotsOf(ids) \cup SlotsOf(more)
    BY <2>6, <2>7, <2>8
  <2> QED BY <2>1, <2>9
<1> QED BY <1>1, <1>2, <1>3, <1>4, <1>5

\* New pages for the sequence s, in slots that were not in use.
Takes(pages, tabs, s, new, after, more) ==
    /\ s \in DOMAIN tabs
    /\ tabs[s] \in Seq(PageId) /\ new \in Seq(PageId)
    /\ ListsWith(tabs, s, tabs[s] \o new, more)
    /\ DOMAIN pages \subseteq DOMAIN after
    /\ Resolves(after, new)
    /\ \A p \in SlotsOf(new) :
         /\ p \in DOMAIN pages => ~pages[p].live
         /\ after[p].active_refs = 1 /\ after[p].prefix_refs = 0
    /\ \A p \in DOMAIN after \ SlotsOf(new) : p \in DOMAIN pages /\ after[p] = pages[p]

\* Inserting pages for a sequence keeps the references exact.
LEMMA TakesRefs ==
    ASSUME NEW pages, NEW tabs, NEW keeps, Refs(pages, tabs, keeps), NEW s, NEW new, NEW after,
           NEW more, Takes(pages, tabs, s, new, after, more)
    PROVE  Refs(after, more, keeps)
<1>1. /\ IsFiniteSet(DOMAIN tabs) /\ IsFiniteSet(DOMAIN keeps) /\ s \in DOMAIN tabs
      /\ ListsWith(tabs, s, tabs[s] \o new, more) /\ DOMAIN more = DOMAIN tabs
      /\ tabs[s] \in Seq(PageId) /\ new \in Seq(PageId)
      /\ DOMAIN pages \subseteq DOMAIN after /\ Resolves(after, new)
  BY DEF Refs, Takes, ListsWith
<1>2. SlotsOf(more[s]) = SlotsOf(tabs[s]) \cup SlotsOf(new)
  BY <1>1, SlotsJoined DEF ListsWith
<1>3. ASSUME NEW p \in DOMAIN pages, pages[p].live PROVE Stays(pages, after, p) /\ p \notin SlotsOf(new)
  BY <1>1, <1>3 DEF Takes, Stays
<1>4. ASSUME NEW list, Resolves(pages, list)
      PROVE  /\ Resolves(after, list)
             /\ SlotsOf(list) \cap SlotsOf(new) = {}
  <2>1. \A i \in DOMAIN list : /\ Stays(pages, after, list[i].slot)
                               /\ list[i].slot \notin SlotsOf(new)
    BY <1>3, <1>4 DEF Resolves
  <2> QED BY <1>4, <2>1, ResolvesStays DEF SlotsOf
<1>5. \A t \in DOMAIN tabs : Resolves(after, tabs[t]) /\ SlotsOf(tabs[t]) \cap SlotsOf(new) = {}
  BY <1>4 DEF Refs
<1>6. \A id \in DOMAIN keeps : Resolves(after, keeps[id]) /\ SlotsOf(keeps[id]) \cap SlotsOf(new) = {}
  BY <1>4 DEF Refs
<1>7. Resolves(after, tabs[s] \o new)
  <2> DEFINE j == tabs[s] \o new
             n == Len(tabs[s])
  <2>1. /\ \A i \in DOMAIN j : \/ i \in DOMAIN tabs[s] /\ j[i] = tabs[s][i]
                               \/ i - n \in DOMAIN new /\ j[i] = new[i - n]
        /\ n \in Nat /\ DOMAIN j \subseteq Nat
    BY <1>1, SlotsJoined
  <2>2. Resolves(after, tabs[s]) /\ Resolves(after, new) /\ SlotsOf(tabs[s]) \cap SlotsOf(new) = {}
    BY <1>1, <1>5
  <2> HIDE DEF j, n
  <2>3. \A i \in DOMAIN j : /\ j[i].slot \in DOMAIN after /\ after[j[i].slot].live
                            /\ after[j[i].slot].generation = j[i].generation
    BY <2>1, <2>2 DEF Resolves
  <2>4. ASSUME NEW a \in DOMAIN j, NEW b \in DOMAIN j, j[a].slot = j[b].slot PROVE a = b
    <3>1. CASE a \in DOMAIN tabs[s] /\ j[a] = tabs[s][a]
      <4>1. CASE b \in DOMAIN tabs[s] /\ j[b] = tabs[s][b]
        BY <2>2, <2>4, <3>1, <4>1 DEF Resolves
      <4>2. CASE b - n \in DOMAIN new /\ j[b] = new[b - n]
        BY <2>2, <2>4, <3>1, <4>2 DEF SlotsOf
      <4> QED BY <2>1, <4>1, <4>2
    <3>2. CASE a - n \in DOMAIN new /\ j[a] = new[a - n]
      <4>1. CASE b \in DOMAIN tabs[s] /\ j[b] = tabs[s][b]
        BY <2>2, <2>4, <3>2, <4>1 DEF SlotsOf
      <4>2. CASE b - n \in DOMAIN new /\ j[b] = new[b - n]
        <5>1. a - n = b - n
          BY <2>2, <2>4, <3>2, <4>2 DEF Resolves
        <5> QED BY <2>1, <5>1
      <4> QED BY <2>1, <4>1, <4>2
    <3> QED BY <2>1, <3>1, <3>2
  <2>5. Resolves(after, j)
    BY <2>3, <2>4 DEF Resolves
  <2> QED BY <2>5 DEF j
<1>8. \A t \in DOMAIN more : Resolves(after, more[t])
  BY <1>1, <1>5, <1>7 DEF ListsWith
<1>9. ASSUME NEW p \in DOMAIN after, after[p].live PROVE Counted(after[p], more, keeps, p)
  <2>1. CASE p \in SlotsOf(new)
    <3>1. Users(more, p) = {s}
      BY <1>1, <1>2, <1>5, <2>1 DEF Users, ListsWith
    <3>2. Users(keeps, p) = {}
      BY <1>6, <2>1 DEF Users
    <3> QED BY <2>1, <3>1, <3>2, FS_Singleton, FS_EmptySet DEF Counted, Takes
  <2>2. CASE p \notin SlotsOf(new)
    <3>1. Users(more, p) = Users(tabs, p)
      BY <1>1, <1>2, <2>2 DEF Users, ListsWith
    <3>2. p \in DOMAIN pages /\ after[p] = pages[p]
      BY <2>2 DEF Takes
    <3> QED BY <1>9, <3>1, <3>2 DEF Counted, Refs
  <2> QED BY <2>1, <2>2
<1>10. IsFiniteSet(DOMAIN more) /\ \A id \in DOMAIN keeps : Resolves(after, keeps[id])
  BY <1>1, <1>6
<1> QED BY <1>1, <1>8, <1>9, <1>10 DEF Refs

\* The sequence s gives its own pages in the slots `gone' back and keeps the list `kept'.
Releases(pages, tabs, s, kept, gone, after, more) ==
    /\ s \in DOMAIN tabs
    /\ ListsWith(tabs, s, kept, more)
    /\ Resolves(pages, kept)
    /\ SlotsOf(tabs[s]) = SlotsOf(kept) \cup gone /\ SlotsOf(kept) \cap gone = {}
    /\ DOMAIN after = DOMAIN pages
    /\ \A p \in gone : /\ pages[p].active_refs = 1 /\ pages[p].prefix_refs = 0
                       /\ ~after[p].live
    /\ \A p \in DOMAIN pages \ gone :
         Becomes(pages[p], after[p], pages[p].active_refs, pages[p].prefix_refs)

\* Giving back pages that nobody else has keeps the references exact.
LEMMA ReleasesRefs ==
    ASSUME NEW pages, NEW tabs, NEW keeps, Refs(pages, tabs, keeps), NEW s, NEW kept, NEW gone,
           NEW after, NEW more, Releases(pages, tabs, s, kept, gone, after, more)
    PROVE  Refs(after, more, keeps)
<1>1. /\ IsFiniteSet(DOMAIN tabs) /\ IsFiniteSet(DOMAIN keeps) /\ s \in DOMAIN tabs
      /\ ListsWith(tabs, s, kept, more) /\ DOMAIN more = DOMAIN tabs
      /\ Resolves(pages, kept) /\ DOMAIN after = DOMAIN pages
      /\ SlotsOf(tabs[s]) = SlotsOf(kept) \cup gone /\ SlotsOf(kept) \cap gone = {}
  BY DEF Refs, Releases, ListsWith
<1>2. ASSUME NEW p \in gone PROVE Users(tabs, p) = {s} /\ Users(keeps, p) = {}
  <2>1. s \in Users(tabs, p)
    BY <1>1 DEF Users
  <2>2. p \in DOMAIN pages /\ pages[p].live
    BY <1>1 DEF Refs, Resolves, SlotsOf
  <2>3. Cardinality(Users(tabs, p)) = 1 /\ Cardinality(Users(keeps, p)) = 0
    BY <2>2 DEF Refs, Counted, Releases
  <2>4. IsFiniteSet(Users(tabs, p)) /\ IsFiniteSet(Users(keeps, p))
    BY <1>1, UsersFinite
  <2>5. \E x : Users(tabs, p) = {x}
    BY <2>3, <2>4, FS_Singleton
  <2>6. Users(keeps, p) = {}
    BY <2>3, <2>4, FS_EmptySet
  <2> QED BY <2>1, <2>5, <2>6
<1>3. ASSUME NEW p \in DOMAIN pages, pages[p].live, p \notin gone PROVE Stays(pages, after, p)
  BY <1>1, <1>3 DEF Releases, Becomes, Stays
<1>4. ASSUME NEW list, Resolves(pages, list), SlotsOf(list) \cap gone = {}
      PROVE  Resolves(after, list)
  <2>1. \A i \in DOMAIN list : Stays(pages, after, list[i].slot)
    BY <1>3, <1>4 DEF Resolves, SlotsOf
  <2> QED BY <1>4, <2>1, ResolvesStays
<1>5. \A t \in DOMAIN tabs \ {s} : SlotsOf(tabs[t]) \cap gone = {}
  BY <1>2 DEF Users
<1>6. \A id \in DOMAIN keeps : SlotsOf(keeps[id]) \cap gone = {}
  BY <1>2 DEF Users
<1>7. \A t \in DOMAIN more : Resolves(after, more[t])
  <2> SUFFICES ASSUME NEW t \in DOMAIN more PROVE Resolves(after, more[t])
    OBVIOUS
  <2>1. CASE t = s
    BY <1>1, <1>4, <2>1 DEF ListsWith
  <2>2. CASE t # s
    <3>1. t \in DOMAIN tabs /\ more[t] = tabs[t] /\ Resolves(pages, tabs[t])
      BY <1>1, <2>2 DEF ListsWith, Refs
    <3> QED BY <1>4, <1>5, <2>2, <3>1
  <2> QED BY <2>1, <2>2
<1>8. \A id \in DOMAIN keeps : Resolves(after, keeps[id])
  BY <1>4, <1>6 DEF Refs
<1>9. ASSUME NEW p \in DOMAIN after, after[p].live PROVE Counted(after[p], more, keeps, p)
  <2>1. p \notin gone
    BY <1>9 DEF Releases
  <2>2. Users(more, p) = Users(tabs, p)
    BY <1>1, <2>1 DEF Users, ListsWith
  <2>3. Becomes(pages[p], after[p], pages[p].active_refs, pages[p].prefix_refs) /\ p \in DOMAIN pages
    BY <1>1, <2>1 DEF Releases
  <2>4. Counted(pages[p], tabs, keeps, p)
    BY <1>9, <2>3 DEF Refs, Becomes
  <2> QED BY <1>9, <2>2, <2>3, <2>4 DEF Becomes, Counted
<1>10. IsFiniteSet(DOMAIN more)
  BY <1>1
<1> QED BY <1>1, <1>7, <1>8, <1>9, <1>10 DEF Refs

----------------------------------------------------------------------------
(* The lists of a manager record. *)

\* The live sequences of an arena.
LiveIn(sequences) == {s \in DOMAIN sequences : sequences[s].live}

\* The pages each live sequence lists, committed and pending.
Tabs(sequences) == [s \in LiveIn(sequences) |-> Table(sequences[s])]

\* The pages of each live sequence's pending append.
News(sequences) == [s \in LiveIn(sequences) |-> sequences[s].pending.new_pages]

\* The pages each entry retains.
Keeps(prefixes) == [id \in DOMAIN prefixes |-> prefixes[id].pages]

\* The pages of a pending append are listed by their sequence and nobody else.
Exclusive(tabs, keeps, news) ==
    \A s \in DOMAIN news : \A p \in SlotsOf(news[s]) :
      /\ s \in DOMAIN tabs /\ p \in SlotsOf(tabs[s])
      /\ \A t \in DOMAIN tabs : p \in SlotsOf(tabs[t]) => t = s
      /\ \A id \in DOMAIN keeps : p \notin SlotsOf(keeps[id])

\* The list shares no page with a pending append.
Apart(news, ids) == \A t \in DOMAIN news : SlotsOf(news[t]) \cap SlotsOf(ids) = {}

\* after is the arena with a live record in slot s.
SequencesWith(sequences, s, after) ==
    /\ DOMAIN after = DOMAIN sequences \cup {s}
    /\ after[s].live
    /\ \A t \in DOMAIN sequences : t # s => after[t] = sequences[t]

\* A record written in slot s is one list more, or replaces the list of s.
LEMMA TabsWith ==
    ASSUME NEW sequences, NEW s, NEW after, SequencesWith(sequences, s, after)
    PROVE  /\ ListsWith(Tabs(sequences), s, Table(after[s]), Tabs(after))
           /\ ListsWith(News(sequences), s, after[s].pending.new_pages, News(after))
           /\ DOMAIN Tabs(after) = LiveIn(sequences) \cup {s}
           /\ DOMAIN News(after) = LiveIn(sequences) \cup {s}
<1>1. LiveIn(after) = LiveIn(sequences) \cup {s}
  BY DEF LiveIn, SequencesWith
<1>2. \A t \in LiveIn(sequences) : t # s => after[t] = sequences[t]
  BY DEF LiveIn, SequencesWith
<1> QED BY <1>1, <1>2 DEF Tabs, News, ListsWith

\* A vacated slot is one list less.
LEMMA TabsWithout ==
    ASSUME NEW sequences, NEW s, NEW after, DOMAIN after = DOMAIN sequences,
           ~after[s].live, \A t \in DOMAIN sequences : t # s => after[t] = sequences[t]
    PROVE  /\ ListsWithout(Tabs(sequences), {s}, Tabs(after))
           /\ ListsWithout(News(sequences), {s}, News(after))
<1>1. LiveIn(after) = LiveIn(sequences) \ {s}
  BY DEF LiveIn
<1>2. \A t \in LiveIn(after) : after[t] = sequences[t]
  BY DEF LiveIn
<1> QED BY <1>1, <1>2 DEF Tabs, News, ListsWithout

\* A list of no pages.
LEMMA NoSlots == SlotsOf(<<>>) = {}
BY DEF SlotsOf

\* A sequence without a pending append lists its committed pages.
LEMMA TableIs ==
    ASSUME NEW q, q.pages \in Seq(PageId), q.pending.new_pages = <<>>
    PROVE  Table(q) = q.pages
BY DEF Table

\* Evictions leave pending appends alone.
LEMMA ExclusiveEvicts ==
    ASSUME NEW tabs, NEW keeps, NEW news, Exclusive(tabs, keeps, news), NEW ids, NEW left,
           ListsWithout(keeps, ids, left)
    PROVE  Exclusive(tabs, left, news)
BY DEF Exclusive, ListsWithout

\* A new sequence without a pending append leaves those of others alone.
LEMMA ExclusiveShares ==
    ASSUME NEW tabs, NEW keeps, NEW news, Exclusive(tabs, keeps, news), NEW s, NEW ids, NEW none,
           NEW more, NEW newer, s \notin DOMAIN news, ListsWith(tabs, s, ids, more),
           ListsWith(news, s, none, newer), SlotsOf(none) = {}, Apart(news, ids)
    PROVE  Exclusive(more, keeps, newer)
BY DEF Exclusive, ListsWith, Apart

\* A new entry that is apart from the pending appends leaves them alone.
LEMMA ExclusiveRetains ==
    ASSUME NEW tabs, NEW keeps, NEW news, Exclusive(tabs, keeps, news), NEW id, NEW ids,
           NEW more, ListsWith(keeps, id, ids, more), Apart(news, ids)
    PROVE  Exclusive(tabs, more, news)
BY DEF Exclusive, ListsWith, Apart

\* The end of a sequence leaves the pending appends of others alone.
LEMMA ExclusiveLeaves ==
    ASSUME NEW tabs, NEW keeps, NEW news, Exclusive(tabs, keeps, news), NEW s,
           NEW left, NEW fewer, ListsWithout(tabs, {s}, left), ListsWithout(news, {s}, fewer)
    PROVE  Exclusive(left, keeps, fewer)
BY DEF Exclusive, ListsWithout

\* Pages that nobody listed may become the pending append of s, or stay out of all.
LEMMA ExclusiveTakes ==
    ASSUME NEW tabs, NEW keeps, NEW news, Exclusive(tabs, keeps, news), NEW s \in DOMAIN tabs,
           NEW new, NEW ids, NEW none, NEW more, NEW newer,
           SlotsOf(ids) = SlotsOf(tabs[s]) \cup SlotsOf(new),
           \A t \in DOMAIN tabs : SlotsOf(tabs[t]) \cap SlotsOf(new) = {},
           \A id \in DOMAIN keeps : SlotsOf(keeps[id]) \cap SlotsOf(new) = {},
           Apart(news, new), SlotsOf(none) \subseteq SlotsOf(new),
           ListsWith(tabs, s, ids, more), ListsWith(news, s, none, newer)
    PROVE  Exclusive(more, keeps, newer)
BY DEF Exclusive, ListsWith, Apart

\* A sequence that gives pages back has no pending append left.
LEMMA ExclusiveReleases ==
    ASSUME NEW tabs, NEW keeps, NEW news, Exclusive(tabs, keeps, news), NEW s \in DOMAIN tabs,
           NEW kept, NEW none, NEW more, NEW newer, SlotsOf(kept) \subseteq SlotsOf(tabs[s]),
           SlotsOf(none) = {},
           ListsWith(tabs, s, kept, more), ListsWith(news, s, none, newer)
    PROVE  Exclusive(more, keeps, newer)
BY DEF Exclusive, ListsWith

----------------------------------------------------------------------------
(* The inductive invariant of ownership. *)

\* Entries are named by ids issued before the next one.
Dated(prefixes, next) == \A id \in DOMAIN prefixes : id < next

\* No live page is at a generation that its slot cannot leave.
Young(pages) == \A p \in DOMAIN pages : pages[p].live => pages[p].generation <= PageReuse

\* References are exact, pending appends have their pages for themselves, ids are issued
\* in order and generations are not used up.
OwnedParts(pages, sequences, prefixes, next) ==
    /\ Refs(pages, Tabs(sequences), Keeps(prefixes))
    /\ Exclusive(Tabs(sequences), Keeps(prefixes), News(sequences))
    /\ Dated(prefixes, next)
    /\ Young(pages)

\* The same of one manager record.
Owned(c) == OwnedParts(c.pages, c.sequences, c.prefixes, c.next_prefix_id)

\* refresh_stats changes the statistics only.
LEMMA RefreshRest ==
    ASSUME NEW c, DOMAIN c = Fields
    PROVE  LET r == RefreshStats(c)
           IN  /\ SameRest(r, c) /\ r.pages = c.pages
               /\ r.free_page_slots = c.free_page_slots
BY DEF Fields, RefreshStats, SameRest

----------------------------------------------------------------------------
(* Evictions. *)

\* What commit_evictions makes of a page record.
AfterEviction(c, ids, s) ==
    IF s \in RetireSlots(c, ids) THEN VacantPage(c.pages[s].generation + 1)
    ELSE [c.pages[s] EXCEPT !.prefix_refs = @ - RemovedRefs(c, ids, s)]

\* What commit_evictions makes of the manager, field by field.
EvictShape(c, ids, later, r) ==
    /\ r.sequences = c.sequences /\ r.free_sequence_slots = c.free_sequence_slots
    /\ r.next_prefix_id = c.next_prefix_id /\ r.clock = c.clock
    /\ r.deferred_pages = c.deferred_pages + later
    /\ r.pages = [s \in DOMAIN c.pages |-> AfterEviction(c, ids, s)]
    /\ r.prefixes = [id \in DOMAIN c.prefixes \ ids |-> c.prefixes[id]]
    /\ r.lru = {e \in c.lru : e[2] \notin ids}
    /\ r.tree = [key \in {k \in DOMAIN c.tree : c.tree[k] \notin ids} |-> c.tree[key]]

\* commit_evictions does what its shape says.
LEMMA EvictShaped ==
    ASSUME NEW c, Sound(c), NEW ids, CanEvict(c, ids),
           NEW slots \in SetToSeqs(RetireSlots(c, ids)), NEW later \in Nat
    PROVE  EvictShape(c, ids, later, CommitEvictions(c, ids, slots, later))
<1> DEFINE S == RetireSlots(c, ids)
           t == RetirePages(c, slots, later)
           m == RemovePages(c, slots)
           p == [t EXCEPT !.pages = [s \in DOMAIN @ |->
                   IF s \in Range(slots) THEN @[s]
                   ELSE [t.pages[s] EXCEPT !.prefix_refs = @ - RemovedRefs(c, ids, s)]]]
           d == DropEntries(p, ids)
           r == CommitEvictions(c, ids, slots, later)
<1>1. DOMAIN c = Fields /\ c.stats \in Stats /\ PagesOK(c.pages, c.free_page_slots)
  BY DEF Sound
<1>2. S \in SUBSET DOMAIN c.pages /\ (\A s \in S : c.pages[s].live) /\ CanRetire(c, S)
  BY RetireSlotsParts DEF CanEvict
<1>3. Sound(t) /\ Range(slots) = S
  BY <1>2, RetireSound
<1>4. /\ DOMAIN t = Fields
      /\ t.pages = m.pages /\ t.free_page_slots = m.free_page_slots
      /\ t.sequences = c.sequences /\ t.free_sequence_slots = c.free_sequence_slots
      /\ t.prefixes = c.prefixes /\ t.lru = c.lru /\ t.tree = c.tree
      /\ t.next_prefix_id = c.next_prefix_id /\ t.clock = c.clock
      /\ t.deferred_pages = c.deferred_pages + later
      /\ t.stats = [c.stats EXCEPT !.reclaimable_prefix_only_bytes =
                       @ - ReclaimableBytes(c, Range(slots))]
  BY <1>1, RetireFields
<1>5. t.pages = [s \in DOMAIN c.pages |->
         IF s \in S THEN VacantPage(c.pages[s].generation + 1) ELSE c.pages[s]]
  BY <1>1, <1>3, <1>4, RemoveFields
<1>6. r = RefreshStats(d)
  BY DEF CommitEvictions
<1> HIDE DEF t, S
<1>7. DOMAIN t = Fields /\ t.stats \in Stats
  BY <1>3 DEF Sound
<1>8. /\ SameRest(p, t) /\ p.stats = t.stats
      /\ p.pages = [s \in DOMAIN t.pages |->
           IF s \in S THEN t.pages[s]
           ELSE [t.pages[s] EXCEPT !.prefix_refs = @ - RemovedRefs(c, ids, s)]]
  BY <1>3, <1>7 DEF Fields, SameRest
<1> HIDE DEF p
<1>9. DOMAIN p = Fields /\ p.stats \in Stats
  BY <1>7, <1>8 DEF SameRest
<1>10. p.pages = [s \in DOMAIN c.pages |-> AfterEviction(c, ids, s)]
  BY <1>5, <1>8 DEF AfterEviction, S
<1>11. /\ DOMAIN d = Fields
       /\ d.sequences = p.sequences /\ d.free_sequence_slots = p.free_sequence_slots
       /\ d.next_prefix_id = p.next_prefix_id /\ d.clock = p.clock
       /\ d.pages = p.pages /\ d.deferred_pages = p.deferred_pages
       /\ d.prefixes = [id \in DOMAIN p.prefixes \ ids |-> p.prefixes[id]]
       /\ d.lru = {e \in p.lru : e[2] \notin ids}
       /\ d.tree = [key \in {k \in DOMAIN p.tree : p.tree[k] \notin ids} |-> p.tree[key]]
  BY <1>9 DEF DropEntries, Fields, Restrict
<1> HIDE DEF d
<1>12. /\ r.sequences = d.sequences /\ r.free_sequence_slots = d.free_sequence_slots
       /\ r.next_prefix_id = d.next_prefix_id /\ r.clock = d.clock
       /\ r.pages = d.pages /\ r.deferred_pages = d.deferred_pages
       /\ r.prefixes = d.prefixes /\ r.lru = d.lru /\ r.tree = d.tree
  BY <1>6, <1>11, RefreshRest DEF SameRest
<1> HIDE DEF r
<1>13. EvictShape(c, ids, later, r)
  BY <1>4, <1>8, <1>10, <1>11, <1>12 DEF EvictShape, SameRest
<1> QED BY <1>13 DEF r

\* A page's handle is in a list that resolves just if its slot is.
LEMMA HandleListed ==
    ASSUME NEW c, NEW ids, Resolves(c.pages, ids), NEW p
    PROVE  /\ PageIdAt(c, p) \in Range(ids) => p \in SlotsOf(ids)
           /\ p \in SlotsOf(ids) =>
                /\ p \in DOMAIN c.pages /\ c.pages[p].live
                /\ ids \in Seq(PageId) => PageIdAt(c, p) \in Range(ids)
<1>1. PageIdAt(c, p) \in Range(ids) => p \in SlotsOf(ids)
  BY DEF PageIdAt, Range, SlotsOf
<1>2. ASSUME p \in SlotsOf(ids), ids \in Seq(PageId)
      PROVE  PageIdAt(c, p) \in Range(ids)
  <2>1. PICK i \in DOMAIN ids : ids[i].slot = p
    BY <1>2 DEF SlotsOf
  <2>2. ids[i] \in PageId /\ c.pages[p].generation = ids[i].generation
    BY <1>2, <2>1 DEF Resolves
  <2>3. ids[i] = PageIdAt(c, p)
    BY <2>1, <2>2 DEF PageIdAt, PageId
  <2> QED BY <2>3 DEF Range
<1>3. p \in SlotsOf(ids) => p \in DOMAIN c.pages /\ c.pages[p].live
  BY DEF Resolves, SlotsOf
<1> QED BY <1>1, <1>2, <1>3

\* The handles of the entries are typed, and those of the live sequences.
LEMMA ListsTyped ==
    ASSUME NEW c, Sound(c)
    PROVE  /\ \A id \in DOMAIN c.prefixes : c.prefixes[id].pages \in Seq(PageId)
           /\ \A s \in LiveIn(c.sequences) : /\ c.sequences[s].pages \in Seq(PageId)
                                             /\ c.sequences[s].pending.new_pages \in Seq(PageId)
                                             /\ Table(c.sequences[s]) \in Seq(PageId)
<1>1. \A id \in DOMAIN c.prefixes : c.prefixes[id].pages \in Seq(PageId)
  BY DEF Sound, PrefixesOK, PrefixEntry
<1>2. ASSUME NEW s \in LiveIn(c.sequences)
      PROVE  /\ c.sequences[s].pages \in Seq(PageId)
             /\ c.sequences[s].pending.new_pages \in Seq(PageId)
  BY SequenceParts DEF LiveIn
<1>3. \A s \in LiveIn(c.sequences) : Table(c.sequences[s]) \in Seq(PageId)
  BY <1>2, SlotsJoined DEF Table
<1> QED BY <1>1, <1>2, <1>3

\* removed_refs counts the entries that go and list the page.
LEMMA RemovedRefsAre ==
    ASSUME NEW c, Sound(c), Owned(c), NEW ids, ids \subseteq DOMAIN c.prefixes, NEW p
    PROVE  RemovedRefs(c, ids, p) = Cardinality(Removed(Keeps(c.prefixes), ids, p))
<1>1. \A id \in ids : /\ Keeps(c.prefixes)[id] = c.prefixes[id].pages
                      /\ c.prefixes[id].pages \in Seq(PageId)
                      /\ Resolves(c.pages, c.prefixes[id].pages)
  BY ListsTyped DEF Keeps, Owned, OwnedParts, Refs
<1>2. \A id \in ids : PageIdAt(c, p) \in Range(c.prefixes[id].pages)
                        <=> p \in SlotsOf(Keeps(c.prefixes)[id])
  BY <1>1, HandleListed
<1> QED BY <1>2 DEF RemovedRefs, Removed

\* Evictions keep ownership exact.
LEMMA EvictOwned ==
    ASSUME NEW c, Sound(c), Owned(c), NEW ids, ids \subseteq DOMAIN c.prefixes,
           NEW later, NEW r, EvictShape(c, ids, later, r)
    PROVE  Owned(r)
<1> DEFINE keeps == Keeps(c.prefixes)
           left == Keeps(r.prefixes)
<1>1. /\ r.sequences = c.sequences /\ r.next_prefix_id = c.next_prefix_id
      /\ r.pages = [s \in DOMAIN c.pages |-> AfterEviction(c, ids, s)]
      /\ r.prefixes = [id \in DOMAIN c.prefixes \ ids |-> c.prefixes[id]]
  BY DEF EvictShape
<1>2. ListsWithout(keeps, ids, left) /\ DOMAIN keeps = DOMAIN c.prefixes
  BY <1>1 DEF ListsWithout, Keeps
<1>3. \A p : RemovedRefs(c, ids, p) = Cardinality(Removed(keeps, ids, p))
  BY RemovedRefsAre
<1>4. ASSUME NEW p \in DOMAIN c.pages
      PROVE  EvictedPage(c.pages[p], r.pages[p], RemovedRefs(c, ids, p))
  <2>1. c.pages[p] \in PageSlot /\ r.pages[p] = AfterEviction(c, ids, p)
    BY <1>1, SeqParts DEF Sound, PagesOK
  <2>2. CASE p \in RetireSlots(c, ids)
    <3>1. ~r.pages[p].live
      BY <2>1, <2>2 DEF AfterEviction, VacantPage
    <3>2. /\ c.pages[p].active_refs = 0 /\ RemovedRefs(c, ids, p) # 0
          /\ c.pages[p].prefix_refs = RemovedRefs(c, ids, p)
      BY <2>2 DEF RetireSlots
    <3> QED BY <3>1, <3>2 DEF EvictedPage
  <2>3. CASE p \notin RetireSlots(c, ids)
    <3>1. r.pages[p] = [c.pages[p] EXCEPT !.prefix_refs = @ - RemovedRefs(c, ids, p)]
      BY <2>1, <2>3 DEF AfterEviction
    <3>2. /\ r.pages[p].live = c.pages[p].live /\ r.pages[p].generation = c.pages[p].generation
          /\ r.pages[p].active_refs = c.pages[p].active_refs
          /\ r.pages[p].prefix_refs = c.pages[p].prefix_refs - RemovedRefs(c, ids, p)
      BY <2>1, <3>1 DEF PageSlot
    <3>3. c.pages[p].live => \/ c.pages[p].active_refs # 0 \/ RemovedRefs(c, ids, p) = 0
                             \/ c.pages[p].prefix_refs # RemovedRefs(c, ids, p)
      BY <2>3 DEF RetireSlots
    <3> QED BY <3>2, <3>3 DEF EvictedPage
  <2> QED BY <2>2, <2>3
<1>5. Evicts(c.pages, keeps, ids, r.pages, left)
  BY <1>1, <1>2, <1>3, <1>4 DEF Evicts
<1>6. Refs(r.pages, Tabs(r.sequences), left)
  BY <1>1, <1>5, EvictsRefs DEF Owned, OwnedParts
<1>7. Exclusive(Tabs(r.sequences), left, News(r.sequences))
  BY <1>1, <1>2, ExclusiveEvicts DEF Owned, OwnedParts
<1>8. Dated(r.prefixes, r.next_prefix_id)
  BY <1>1 DEF Owned, OwnedParts, Dated
<1>9. Young(r.pages)
  BY <1>1, <1>4 DEF Owned, OwnedParts, Young, EvictedPage
<1> QED BY <1>6, <1>7, <1>8, <1>9 DEF Owned, OwnedParts

----------------------------------------------------------------------------
(* Ownership under the other changes. *)

\* A part of a list resolves if the list does.
LEMMA ResolvesPart ==
    ASSUME NEW pages, NEW ids, Resolves(pages, ids), NEW part,
           \A i \in DOMAIN part : i \in DOMAIN ids /\ part[i] = ids[i]
    PROVE  Resolves(pages, part) /\ SlotsOf(part) \subseteq SlotsOf(ids)
BY DEF Resolves, SlotsOf

\* Two lists joined resolve just if both do, without a common page.
LEMMA JoinedResolves ==
    ASSUME NEW pages, NEW a \in Seq(PageId), NEW b \in Seq(PageId), Resolves(pages, a \o b)
    PROVE  Resolves(pages, a) /\ Resolves(pages, b) /\ SlotsOf(a) \cap SlotsOf(b) = {}
<1>1. /\ \A i \in DOMAIN a : i \in DOMAIN (a \o b) /\ (a \o b)[i] = a[i]
      /\ \A i \in DOMAIN b : Len(a) + i \in DOMAIN (a \o b) /\ (a \o b)[Len(a) + i] = b[i]
      /\ Len(a) \in Nat /\ DOMAIN a = 1..Len(a) /\ DOMAIN b \subseteq Nat \ {0}
  BY SlotsJoined
<1>2. PICK j : j = a \o b
  OBVIOUS
<1>3. PICK n : n = Len(a)
  OBVIOUS
<1>4. /\ \A i \in DOMAIN a : i \in DOMAIN j /\ j[i] = a[i]
      /\ \A i \in DOMAIN b : n + i \in DOMAIN j /\ j[n + i] = b[i]
      /\ n \in Nat /\ DOMAIN a = 1..n /\ DOMAIN b \subseteq Nat \ {0}
      /\ Resolves(pages, j)
  BY <1>1, <1>2, <1>3
<1>5. Resolves(pages, a)
  BY <1>4, ResolvesPart
<1>6. Resolves(pages, b)
  <2>1. ASSUME NEW i \in DOMAIN b
        PROVE  /\ b[i].slot \in DOMAIN pages /\ pages[b[i].slot].live
               /\ pages[b[i].slot].generation = b[i].generation
    BY <1>4 DEF Resolves
  <2>2. ASSUME NEW i \in DOMAIN b, NEW k \in DOMAIN b, b[i].slot = b[k].slot PROVE i = k
    <3>1. n + i = n + k
      BY <1>4, <2>2 DEF Resolves
    <3> QED BY <1>4, <3>1
  <2> QED BY <2>1, <2>2 DEF Resolves
<1>7. ASSUME NEW i \in DOMAIN a, NEW k \in DOMAIN b, a[i].slot = b[k].slot PROVE FALSE
  <2>1. i = n + k
    BY <1>4, <1>7 DEF Resolves
  <2> QED BY <1>4, <2>1
<1> QED BY <1>5, <1>6, <1>7 DEF SlotsOf

\* The committed pages of a live sequence resolve and are apart from all pending appends.
LEMMA CommittedApart ==
    ASSUME NEW c, Sound(c), Owned(c), NEW s \in LiveIn(c.sequences)
    PROVE  /\ Resolves(c.pages, c.sequences[s].pages)
           /\ Apart(News(c.sequences), c.sequences[s].pages)
<1> DEFINE a == c.sequences[s].pages
           b == c.sequences[s].pending.new_pages
           tabs == Tabs(c.sequences)
           news == News(c.sequences)
<1>1. a \in Seq(PageId) /\ b \in Seq(PageId)
  BY ListsTyped
<1>2. tabs[s] = a \o b /\ s \in DOMAIN tabs /\ news[s] = b /\ DOMAIN news = DOMAIN tabs
  BY DEF Tabs, News, Table
<1>3. Resolves(c.pages, a \o b) /\ Exclusive(tabs, Keeps(c.prefixes), news)
  BY <1>2 DEF Owned, OwnedParts, Refs
<1>4. Resolves(c.pages, a) /\ SlotsOf(a) \cap SlotsOf(b) = {}
  BY <1>1, <1>3, JoinedResolves
<1>5. SlotsOf(a) \subseteq SlotsOf(tabs[s])
  BY <1>1, <1>2, SlotsJoined
<1> HIDE DEF a, b, tabs, news
<1>6. Apart(news, a)
  BY <1>2, <1>3, <1>4, <1>5 DEF Apart, Exclusive
<1> QED BY <1>4, <1>6 DEF a, news

\* The pages of an entry resolve and are apart from all pending appends.
LEMMA RetainedApart ==
    ASSUME NEW c, Owned(c), NEW id \in DOMAIN c.prefixes
    PROVE  /\ Resolves(c.pages, c.prefixes[id].pages)
           /\ Apart(News(c.sequences), c.prefixes[id].pages)
<1>1. id \in DOMAIN Keeps(c.prefixes) /\ Keeps(c.prefixes)[id] = c.prefixes[id].pages
  BY DEF Keeps
<1> QED BY <1>1 DEF Owned, OwnedParts, Refs, Exclusive, Apart

\* The page records after an increment of the active counts.
MoreActive(pages, slots) ==
    [p \in DOMAIN pages |->
        IF p \in slots THEN [pages[p] EXCEPT !.active_refs = @ + 1] ELSE pages[p]]

\* A new sequence that shares pages keeps ownership exact.
LEMMA SharesOwned ==
    ASSUME NEW pages, NEW sequences, NEW prefixes, NEW next,
           OwnedParts(pages, sequences, prefixes, next),
           \A p \in DOMAIN pages : pages[p] \in PageSlot,
           NEW s, s \notin LiveIn(sequences), NEW after, SequencesWith(sequences, s, after),
           NEW ids, Table(after[s]) = ids, after[s].pending.new_pages = <<>>,
           Resolves(pages, ids), Apart(News(sequences), ids)
    PROVE  OwnedParts(MoreActive(pages, SlotsOf(ids)), after, prefixes, next)
<1> DEFINE tabs == Tabs(sequences)
           more == Tabs(after)
           changed == MoreActive(pages, SlotsOf(ids))
<1>1. /\ ListsWith(tabs, s, ids, more) /\ ListsWith(News(sequences), s, <<>>, News(after))
      /\ s \notin DOMAIN tabs /\ s \notin DOMAIN News(sequences)
  <2>1. /\ ListsWith(tabs, s, Table(after[s]), more)
        /\ ListsWith(News(sequences), s, after[s].pending.new_pages, News(after))
    BY TabsWith
  <2> QED BY <2>1 DEF Tabs, News
<1>2. ASSUME NEW p \in DOMAIN pages
      PROVE  Becomes(pages[p], changed[p],
                     IF p \in SlotsOf(ids) THEN pages[p].active_refs + 1 ELSE pages[p].active_refs,
                     pages[p].prefix_refs)
  BY DEF MoreActive, Becomes, PageSlot
<1>3. Shares(pages, tabs, s, ids, changed, more)
  BY <1>1, <1>2 DEF Shares, MoreActive
<1>4. Refs(changed, more, Keeps(prefixes))
  BY <1>3, SharesRefs DEF OwnedParts
<1>5. Exclusive(more, Keeps(prefixes), News(after))
  BY <1>1, NoSlots, ExclusiveShares DEF OwnedParts
<1>6. Young(changed)
  BY <1>2 DEF OwnedParts, Young, Becomes, MoreActive
<1> QED BY <1>4, <1>5, <1>6 DEF OwnedParts

\* insert_page put the pages `new' in slots that were not in use.
Taken(pages, new, physical, valid, more) ==
    /\ DOMAIN more = DOMAIN pages \cup SlotsOf(new)
    /\ \A i, j \in DOMAIN new : new[i].slot = new[j].slot => i = j
    /\ \A i \in DOMAIN new :
         /\ new[i].slot \in DOMAIN pages => ~pages[new[i].slot].live
         /\ more[new[i].slot] = PrivatePage(new[i].generation, physical[i], valid)
    /\ \A p \in DOMAIN more \ SlotsOf(new) : p \in DOMAIN pages /\ more[p] = pages[p]

\* after is the arena in which the table of the live sequence s goes on with `new'.
Extended(sequences, s, new, after) ==
    /\ s \in LiveIn(sequences) /\ SequencesWith(sequences, s, after)
    /\ Table(sequences[s]) \in Seq(PageId) /\ new \in Seq(PageId)
    /\ Table(after[s]) = Table(sequences[s]) \o new
    /\ SlotsOf(after[s].pending.new_pages) \subseteq SlotsOf(new)
    /\ \A i \in DOMAIN new : new[i].generation <= PageReuse

\* New pages for a sequence keep ownership exact.
LEMMA TakesOwned ==
    ASSUME NEW pages, NEW sequences, NEW prefixes, NEW next,
           OwnedParts(pages, sequences, prefixes, next),
           NEW s, NEW new, NEW after, Extended(sequences, s, new, after),
           NEW physical, NEW valid, NEW more, Taken(pages, new, physical, valid, more)
    PROVE  OwnedParts(more, after, prefixes, next)
<1> DEFINE tabs == Tabs(sequences)
           keeps == Keeps(prefixes)
           ids == Table(sequences[s]) \o new
<1>0. /\ s \in LiveIn(sequences) /\ SequencesWith(sequences, s, after)
      /\ Table(sequences[s]) \in Seq(PageId) /\ new \in Seq(PageId)
      /\ Table(after[s]) = Table(sequences[s]) \o new
      /\ SlotsOf(after[s].pending.new_pages) \subseteq SlotsOf(new)
      /\ \A i \in DOMAIN new : new[i].generation <= PageReuse
  BY DEF Extended
<1>1. /\ ListsWith(tabs, s, ids, Tabs(after))
      /\ ListsWith(News(sequences), s, after[s].pending.new_pages, News(after))
      /\ s \in DOMAIN tabs /\ tabs[s] = Table(sequences[s])
      /\ DOMAIN News(sequences) = DOMAIN tabs
  <2>1. /\ ListsWith(tabs, s, Table(after[s]), Tabs(after))
        /\ ListsWith(News(sequences), s, after[s].pending.new_pages, News(after))
    BY <1>0, TabsWith
  <2> QED BY <1>0, <2>1 DEF Tabs, News
<1>2. ASSUME NEW i \in DOMAIN new
      PROVE  LET page == more[new[i].slot]
             IN  /\ page.live /\ page.generation = new[i].generation
                 /\ page.active_refs = 1 /\ page.prefix_refs = 0
  <2>1. more[new[i].slot] = PrivatePage(new[i].generation, physical[i], valid)
    BY DEF Taken
  <2> QED BY <2>1 DEF PrivatePage
<1>3. Resolves(more, new)
  BY <1>2 DEF Resolves, Taken, SlotsOf
<1>4. \A p \in SlotsOf(new) : /\ p \in DOMAIN pages => ~pages[p].live
                              /\ more[p].active_refs = 1 /\ more[p].prefix_refs = 0
  BY <1>2 DEF SlotsOf, Taken
<1>5. Takes(pages, tabs, s, new, more, Tabs(after))
  BY <1>0, <1>1, <1>3, <1>4 DEF Takes, Taken
<1>6. Refs(more, Tabs(after), keeps)
  BY <1>5, TakesRefs DEF OwnedParts
<1>7. ASSUME NEW list, Resolves(pages, list) PROVE SlotsOf(list) \cap SlotsOf(new) = {}
  BY <1>4, <1>7 DEF Resolves, SlotsOf
<1>8. /\ \A t \in DOMAIN tabs : SlotsOf(tabs[t]) \cap SlotsOf(new) = {}
      /\ \A id \in DOMAIN keeps : SlotsOf(keeps[id]) \cap SlotsOf(new) = {}
  BY <1>7 DEF OwnedParts, Refs
<1>9. Exclusive(Tabs(after), keeps, News(after))
  <2>1. SlotsOf(ids) = SlotsOf(tabs[s]) \cup SlotsOf(new)
    BY <1>0, <1>1, SlotsJoined
  <2>2. Apart(News(sequences), new)
    BY <1>8 DEF Apart, Exclusive, OwnedParts
  <2>3. Exclusive(tabs, keeps, News(sequences))
    BY DEF OwnedParts
  <2> HIDE DEF ids, tabs, keeps
  <2> QED BY <1>0, <1>1, <1>8, <2>1, <2>2, <2>3, ExclusiveTakes
<1>10. Young(more)
  <2>1. \A p \in DOMAIN more : p \notin SlotsOf(new) => p \in DOMAIN pages /\ more[p] = pages[p]
    BY DEF Taken
  <2>2. \A p \in SlotsOf(new) : more[p].generation <= PageReuse
    BY <1>0, <1>2 DEF SlotsOf
  <2> QED BY <2>1, <2>2 DEF Young, OwnedParts
<1> QED BY <1>6, <1>9, <1>10 DEF OwnedParts

\* The page records after an increment of the prefix counts.
MorePrefix(pages, slots) ==
    [p \in DOMAIN pages |->
        IF p \in slots THEN [pages[p] EXCEPT !.prefix_refs = @ + 1] ELSE pages[p]]

\* after is the map of entries with one more, of which it lists the pages.
EntriesWith(prefixes, id, ids, after) ==
    /\ id \notin DOMAIN prefixes
    /\ DOMAIN after = DOMAIN prefixes \cup {id}
    /\ after[id].pages = ids
    /\ \A i \in DOMAIN prefixes : after[i].pages = prefixes[i].pages

\* A new entry keeps ownership exact.
LEMMA RetainsOwned ==
    ASSUME NEW pages, NEW sequences, NEW prefixes, NEW next \in Nat,
           OwnedParts(pages, sequences, prefixes, next), DOMAIN prefixes \subseteq Nat,
           \A p \in DOMAIN pages : pages[p] \in PageSlot,
           NEW ids, NEW after, EntriesWith(prefixes, next, ids, after),
           Resolves(pages, ids), Apart(News(sequences), ids)
    PROVE  OwnedParts(MorePrefix(pages, SlotsOf(ids)), sequences, after, next + 1)
<1> DEFINE keeps == Keeps(prefixes)
           more == Keeps(after)
           changed == MorePrefix(pages, SlotsOf(ids))
<1>1. ListsWith(keeps, next, ids, more) /\ next \notin DOMAIN keeps
  BY DEF Keeps, EntriesWith, ListsWith
<1>2. ASSUME NEW p \in DOMAIN pages
      PROVE  Becomes(pages[p], changed[p], pages[p].active_refs,
                     IF p \in SlotsOf(ids) THEN pages[p].prefix_refs + 1 ELSE pages[p].prefix_refs)
  BY DEF MorePrefix, Becomes, PageSlot
<1>3. Retains(pages, keeps, next, ids, changed, more)
  BY <1>1, <1>2 DEF Retains, MorePrefix
<1>4. Refs(changed, Tabs(sequences), more)
  BY <1>3, RetainsRefs DEF OwnedParts
<1>5. Exclusive(Tabs(sequences), more, News(sequences))
  BY <1>1, ExclusiveRetains DEF OwnedParts
<1>6. Young(changed)
  BY <1>2 DEF OwnedParts, Young, Becomes, MorePrefix
<1>7. Dated(after, next + 1)
  BY DEF OwnedParts, Dated, EntriesWith
<1> QED BY <1>4, <1>5, <1>6, <1>7 DEF OwnedParts

\* What finish makes of the page records: its sole pages go, its others lose a reference.
AfterFinish(pages, sole, others) ==
    [p \in DOMAIN pages |->
        IF p \in sole THEN VacantPage(pages[p].generation + 1)
        ELSE IF p \in others THEN [pages[p] EXCEPT !.active_refs = @ - 1] ELSE pages[p]]

\* The pages of a list that nobody else references.
SoleOf(pages, ids) ==
    {p \in SlotsOf(ids) : pages[p].active_refs = 1 /\ pages[p].prefix_refs = 0}

\* The end of a sequence keeps ownership exact.
LEMMA LeavesOwned ==
    ASSUME NEW pages, NEW sequences, NEW prefixes, NEW next,
           OwnedParts(pages, sequences, prefixes, next),
           \A p \in DOMAIN pages : pages[p] \in PageSlot,
           NEW s \in LiveIn(sequences), NEW ids, Table(sequences[s]) = ids, NEW after,
           DOMAIN after = DOMAIN sequences, ~after[s].live,
           \A t \in DOMAIN sequences : t # s => after[t] = sequences[t]
    PROVE  OwnedParts(AfterFinish(pages, SoleOf(pages, ids), SlotsOf(ids) \ SoleOf(pages, ids)),
                      after, prefixes, next)
<1> DEFINE tabs == Tabs(sequences)
           left == Tabs(after)
           changed == AfterFinish(pages, SoleOf(pages, ids), SlotsOf(ids) \ SoleOf(pages, ids))
<1>1. /\ ListsWithout(tabs, {s}, left) /\ ListsWithout(News(sequences), {s}, News(after))
      /\ s \in DOMAIN tabs /\ tabs[s] = ids
  BY TabsWithout DEF Tabs
<1>2. ASSUME NEW p \in DOMAIN pages
      PROVE  IF p \in SlotsOf(ids) THEN LeftPage(pages[p], changed[p])
             ELSE Becomes(pages[p], changed[p], pages[p].active_refs, pages[p].prefix_refs)
  <2>1. CASE p \in SoleOf(pages, ids)
    <3>1. p \in SlotsOf(ids) /\ pages[p].active_refs = 1 /\ pages[p].prefix_refs = 0
      BY <2>1 DEF SoleOf
    <3>2. ~changed[p].live
      BY <2>1 DEF AfterFinish, VacantPage
    <3> QED BY <3>1, <3>2 DEF LeftPage
  <2>2. CASE p \in SlotsOf(ids) \ SoleOf(pages, ids)
    <3>1. changed[p] = [pages[p] EXCEPT !.active_refs = @ - 1]
      BY <2>2 DEF AfterFinish
    <3>2. pages[p].active_refs # 1 \/ pages[p].prefix_refs # 0
      BY <2>2 DEF SoleOf
    <3> QED BY <2>2, <3>1, <3>2 DEF LeftPage, PageSlot
  <2>3. CASE p \notin SlotsOf(ids)
    <3>1. changed[p] = pages[p]
      BY <2>3 DEF AfterFinish, SoleOf
    <3> QED BY <2>3, <3>1 DEF Becomes
  <2> QED BY <2>1, <2>2, <2>3
<1>3. Leaves(pages, tabs, s, changed, left)
  BY <1>1, <1>2 DEF Leaves, AfterFinish
<1>4. Refs(changed, left, Keeps(prefixes))
  BY <1>3, LeavesRefs DEF OwnedParts
<1>5. Exclusive(left, Keeps(prefixes), News(after))
  BY <1>1, ExclusiveLeaves DEF OwnedParts
<1>6. Young(changed)
  <2>1. DOMAIN changed = DOMAIN pages
    BY DEF AfterFinish
  <2>2. \A p \in DOMAIN pages : changed[p].live =>
          pages[p].live /\ changed[p].generation = pages[p].generation
    BY <1>2 DEF LeftPage, Becomes
  <2> HIDE DEF changed
  <2> QED BY <2>1, <2>2 DEF OwnedParts, Young
<1> QED BY <1>4, <1>5, <1>6 DEF OwnedParts

\* A page keeps its handle and its counts.
SameCounts(old, new) ==
    /\ new.live = old.live /\ new.generation = old.generation
    /\ new.active_refs = old.active_refs /\ new.prefix_refs = old.prefix_refs

\* A sequence that ends its pending append gives the rest of its pages back.
LEMMA ReleasesOwned ==
    ASSUME NEW pages, NEW sequences, NEW prefixes, NEW next,
           OwnedParts(pages, sequences, prefixes, next),
           NEW s \in LiveIn(sequences), NEW after, SequencesWith(sequences, s, after),
           NEW kept \in Seq(PageId), NEW released \in Seq(PageId),
           Table(sequences[s]) = kept \o released,
           Table(after[s]) = kept, after[s].pending.new_pages = <<>>,
           SlotsOf(released) \subseteq SlotsOf(sequences[s].pending.new_pages),
           NEW changed, DOMAIN changed = DOMAIN pages,
           \A p \in DOMAIN pages : IF p \in SlotsOf(released) THEN ~changed[p].live
                                   ELSE SameCounts(pages[p], changed[p])
    PROVE  OwnedParts(changed, after, prefixes, next)
<1> DEFINE tabs == Tabs(sequences)
           more == Tabs(after)
           gone == SlotsOf(released)
<1>1. /\ ListsWith(tabs, s, kept, more) /\ ListsWith(News(sequences), s, <<>>, News(after))
      /\ s \in DOMAIN tabs /\ tabs[s] = kept \o released
      /\ s \in DOMAIN News(sequences)
      /\ News(sequences)[s] = sequences[s].pending.new_pages
  <2>1. /\ ListsWith(tabs, s, Table(after[s]), more)
        /\ ListsWith(News(sequences), s, after[s].pending.new_pages, News(after))
    BY TabsWith
  <2> QED BY <2>1 DEF Tabs, News
<1>2. Resolves(pages, kept \o released)
  BY <1>1 DEF OwnedParts, Refs
<1>3. Resolves(pages, kept) /\ Resolves(pages, released) /\ SlotsOf(kept) \cap gone = {}
  BY <1>2, JoinedResolves
<1>4. SlotsOf(tabs[s]) = SlotsOf(kept) \cup gone
  BY <1>1, SlotsJoined
<1>5. ASSUME NEW p \in gone PROVE pages[p].active_refs = 1 /\ pages[p].prefix_refs = 0
  <2>1. p \in DOMAIN pages /\ pages[p].live
    BY <1>3 DEF Resolves, SlotsOf
  <2>2. Counted(pages[p], tabs, Keeps(prefixes), p)
    BY <2>1 DEF OwnedParts, Refs
  <2>3. Users(tabs, p) = {s}
    BY <1>1, <1>4 DEF Users, OwnedParts, Exclusive
  <2>4. Users(Keeps(prefixes), p) = {}
    BY <1>1 DEF Users, OwnedParts, Exclusive
  <2> QED BY <2>2, <2>3, <2>4, FS_Singleton, FS_EmptySet DEF Counted
<1>6. \A p \in gone : p \in DOMAIN pages
  BY <1>3 DEF Resolves, SlotsOf
<1>7. Releases(pages, tabs, s, kept, gone, changed, more)
  BY <1>1, <1>3, <1>4, <1>5, <1>6 DEF Releases, SameCounts, Becomes
<1>8. Refs(changed, more, Keeps(prefixes))
  BY <1>7, ReleasesRefs DEF OwnedParts
<1>9. Exclusive(more, Keeps(prefixes), News(after))
  <2>1. Exclusive(tabs, Keeps(prefixes), News(sequences)) /\ SlotsOf(kept) \subseteq SlotsOf(tabs[s])
    BY <1>4 DEF OwnedParts
  <2> QED BY <1>1, <2>1, NoSlots, ExclusiveReleases
<1>10. Young(changed)
  BY DEF OwnedParts, Young, SameCounts
<1> QED BY <1>8, <1>9, <1>10 DEF OwnedParts

----------------------------------------------------------------------------
(* What the helpers do to the page records and to the lists. *)

\* Page records of a sound manager are typed.
LEMMA PagesTyped ==
    ASSUME NEW c, Sound(c)
    PROVE  \A p \in DOMAIN c.pages : c.pages[p] \in PageSlot
BY SeqParts DEF Sound, PagesOK

\* increment_active_ref for each of some slots.
LEMMA SharedShape ==
    ASSUME NEW c, Sound(c), NEW slots
    PROVE  LET x == IncrementActiveRefs(c, slots)
           IN  /\ SameRest(x, c) /\ x.free_page_slots = c.free_page_slots
               /\ x.pages = MoreActive(c.pages, slots)
BY DEF Sound, Fields, SameRest, IncrementActiveRefs, MoreActive

\* The record insert_sequence writes.
NewRecord(c, pages, position, reserved, request) ==
    [generation |-> NextSequenceGeneration(c), live |-> TRUE, pages |-> pages,
     position |-> position, max_position |-> request.max_position,
     reserved_pages |-> reserved,
     private_state_bytes |-> request.private_state_bytes,
     page_table_bytes |-> request.page_table_bytes, pending |-> NoPending]

\* insert_sequence writes one record, in a slot that was not in use.
LEMMA InsertSequenceShape ==
    ASSUME NEW c, Sound(c), NEW pages \in Seq(PageId), NEW position, NEW reserved, NEW request
    PROVE  LET r == RefreshStats(InsertSequence(c, pages, position, reserved, request))
               s == NextSequenceSlot(c)
           IN  /\ r.pages = c.pages /\ r.prefixes = c.prefixes
               /\ r.next_prefix_id = c.next_prefix_id /\ r.lru = c.lru /\ r.tree = c.tree
               /\ r.clock = c.clock /\ r.deferred_pages = c.deferred_pages
               /\ s \notin LiveIn(c.sequences) /\ SequencesWith(c.sequences, s, r.sequences)
               /\ r.sequences[s] = NewRecord(c, pages, position, reserved, request)
               /\ Table(r.sequences[s]) = pages
               /\ r.sequences[s].pending.new_pages = <<>>
<1> DEFINE y == InsertSequence(c, pages, position, reserved, request)
           r == RefreshStats(y)
           s == NextSequenceSlot(c)
           record == NewRecord(c, pages, position, reserved, request)
<1>1. /\ DOMAIN y = Fields
      /\ y.pages = c.pages /\ y.prefixes = c.prefixes
      /\ y.next_prefix_id = c.next_prefix_id /\ y.lru = c.lru /\ y.tree = c.tree
      /\ y.clock = c.clock /\ y.deferred_pages = c.deferred_pages
      /\ y.sequences = [t \in DOMAIN c.sequences \cup {s} |->
                          IF t = s THEN record ELSE c.sequences[t]]
  BY DEF Sound, Fields, InsertSequence, NewRecord
<1> HIDE DEF y
<1>2. /\ r.pages = y.pages /\ r.prefixes = y.prefixes
      /\ r.next_prefix_id = y.next_prefix_id /\ r.lru = y.lru /\ r.tree = y.tree
      /\ r.clock = y.clock /\ r.deferred_pages = y.deferred_pages /\ r.sequences = y.sequences
  BY <1>1, RefreshRest DEF SameRest
<1> HIDE DEF r
<1>3. s \notin LiveIn(c.sequences)
  <2>1. SequencesOK(c.sequences, c.free_sequence_slots)
    BY DEF Sound
  <2>2. DOMAIN c.sequences = 1..Len(c.sequences) /\ Len(c.sequences) \in Nat
    BY <2>1, SequencesParts
  <2>3. CASE c.free_sequence_slots = <<>>
    <3>1. s = Len(c.sequences) + 1
      BY <2>1, <2>3, NextSlotParts
    <3> QED BY <2>2, <3>1 DEF LiveIn
  <2>4. CASE c.free_sequence_slots # <<>>
    <3>1. /\ s = c.free_sequence_slots[Len(c.free_sequence_slots)]
          /\ Len(c.free_sequence_slots) > 0
      BY <2>1, <2>4, NextSlotParts
    <3>2. /\ Len(c.free_sequence_slots) \in Nat
          /\ \A i \in 1..Len(c.free_sequence_slots) : ~c.sequences[c.free_sequence_slots[i]].live
      BY <2>1, SequencesParts
    <3>3. ~c.sequences[s].live
      BY <3>1, <3>2
    <3> QED BY <3>3 DEF LiveIn
  <2> QED BY <2>3, <2>4
<1>4. /\ record.live /\ record.pages = pages /\ record.pending = NoPending
      /\ record.pending.new_pages = <<>>
  BY DEF NewRecord, NoPending
<1>5. Table(record) = pages
  BY <1>4, TableIs
<1> HIDE DEF record, s
<1>6. r.sequences[s] = record /\ SequencesWith(c.sequences, s, r.sequences)
  BY <1>1, <1>2, <1>4 DEF SequencesWith
<1> QED BY <1>1, <1>2, <1>3, <1>4, <1>5, <1>6 DEF r, record, s, y

\* The handles of the pages that insert_page would insert next.
FreshIds(c, n) == [i \in 1..n |-> FreshPageId(c, i)]

\* insert_page for each of some physical pages takes slots that were not in use.
LEMMA InsertTaken ==
    ASSUME NEW c, Sound(c), NEW physical \in Seq(PhysicalPages), NEW valid
    PROVE  LET x == InsertPages(c, physical, valid)
           IN  /\ SameRest(x, c)
               /\ Taken(c.pages, FreshIds(c, Len(physical)), physical, valid, x.pages)
<1> DEFINE x == InsertPages(c, physical, valid)
           n == Len(physical)
           free == Len(c.free_page_slots)
           grown == Len(c.pages) + Monus(n, free)
           fresh == {FreshSlot(c, i) : i \in 1..n}
           new == FreshIds(c, n)
<1>1. DOMAIN c = Fields /\ PagesOK(c.pages, c.free_page_slots)
  BY DEF Sound
<1>2. n \in Nat /\ DOMAIN new = 1..n
  BY DEF FreshIds
<1>3. /\ grown \in Nat /\ Len(c.pages) <= grown
      /\ \A i \in 1..n : FreshSlot(c, i) \in 1..grown
      /\ \A i, j \in 1..n : FreshSlot(c, i) = FreshSlot(c, j) => i = j
      /\ \A p \in (1..grown) \ fresh : p \in 1..Len(c.pages)
  BY <1>1, <1>2, FreshSlots
<1>4. /\ SameRest(x, c)
      /\ x.pages = [s \in 1..grown |->
                    IF s \in fresh
                    THEN PrivatePage(FreshGeneration(c, s),
                                     physical[CHOOSE i \in 1..n : FreshSlot(c, i) = s], valid)
                    ELSE c.pages[s]]
  BY <1>1 DEF InsertPages, Fields, SameRest
<1>5. /\ Len(c.pages) \in Nat /\ DOMAIN c.pages = 1..Len(c.pages) /\ free \in Nat
      /\ \A i \in 1..free : ~c.pages[c.free_page_slots[i]].live
  BY <1>1, FreeListParts DEF PagesOK
<1>6. ASSUME NEW i \in 1..n, FreshSlot(c, i) \in DOMAIN c.pages
      PROVE  ~c.pages[FreshSlot(c, i)].live
  <2>1. CASE i <= free
    <3>1. FreshSlot(c, i) = c.free_page_slots[free + 1 - i] /\ free + 1 - i \in 1..free
      BY <1>2, <1>5, <2>1 DEF FreshSlot
    <3> QED BY <1>5, <3>1
  <2>2. CASE i > free
    <3>1. PICK a, f : a = Len(c.pages) /\ f = free
      OBVIOUS
    <3>2. ~(i <= f) /\ a \in Nat /\ f \in Nat /\ i \in Nat
      BY <1>2, <1>5, <2>2, <3>1
    <3>3. FreshSlot(c, i) = a + i - f
      BY <3>1, <3>2, Zenon DEF FreshSlot
    <3>4. a + i - f \notin 1..a
      BY <3>2
    <3> QED BY <1>5, <1>6, <3>1, <3>3, <3>4
  <2> QED BY <1>2, <1>5, <2>1, <2>2
<1> HIDE DEF x, grown
<1>7. \A i \in 1..n : /\ new[i] = FreshPageId(c, i) /\ new[i].slot = FreshSlot(c, i)
                      /\ new[i].generation = FreshGeneration(c, FreshSlot(c, i))
  BY DEF FreshIds, FreshPageId
<1> HIDE DEF new
<1>8. fresh = SlotsOf(new)
  BY <1>2, <1>7 DEF SlotsOf
<1>9. DOMAIN x.pages = DOMAIN c.pages \cup SlotsOf(new)
  BY <1>3, <1>4, <1>5, <1>8
<1>10. ASSUME NEW i \in DOMAIN new
       PROVE  x.pages[new[i].slot] = PrivatePage(new[i].generation, physical[i], valid)
  <2>1. i \in 1..n /\ new[i].slot = FreshSlot(c, i) /\ FreshSlot(c, i) \in fresh
    BY <1>2, <1>7
  <2>2. (CHOOSE j \in 1..n : FreshSlot(c, j) = FreshSlot(c, i)) = i
    BY <1>3, <2>1
  <2>3. x.pages[FreshSlot(c, i)] =
          PrivatePage(FreshGeneration(c, FreshSlot(c, i)),
                      physical[CHOOSE j \in 1..n : FreshSlot(c, j) = FreshSlot(c, i)], valid)
    BY <1>3, <1>4, <2>1
  <2> QED BY <1>7, <2>1, <2>2, <2>3
<1>11. \A i, j \in DOMAIN new : new[i].slot = new[j].slot => i = j
  BY <1>2, <1>3, <1>7
<1>12. \A i \in DOMAIN new : new[i].slot \in DOMAIN c.pages => ~c.pages[new[i].slot].live
  BY <1>2, <1>6, <1>7
<1>13. \A p \in DOMAIN x.pages \ SlotsOf(new) : p \in DOMAIN c.pages /\ x.pages[p] = c.pages[p]
  BY <1>3, <1>4, <1>5, <1>8
<1>14. Taken(c.pages, new, physical, valid, x.pages)
  BY <1>9, <1>10, <1>11, <1>12, <1>13 DEF Taken
<1> QED BY <1>4, <1>14 DEF x, new

\* tick changes no entry's pages.
LEMMA TickLists ==
    ASSUME NEW c, DOMAIN c = Fields, \A id \in DOMAIN c.prefixes : c.prefixes[id] \in PrefixEntry
    PROVE  /\ DOMAIN Tick(c).prefixes = DOMAIN c.prefixes
           /\ \A id \in DOMAIN c.prefixes : Tick(c).prefixes[id].pages = c.prefixes[id].pages
<1>1. CASE c.clock # MaxClock
  <2>1. Tick(c).prefixes = c.prefixes
    BY <1>1 DEF Tick, Fields
  <2> QED BY <2>1
<1>2. CASE c.clock = MaxClock
  <2>1. Tick(c).prefixes =
          [id \in DOMAIN c.prefixes |-> [c.prefixes[id] EXCEPT !.last_used = LruRank(c, id)]]
    BY <1>2 DEF Tick, Fields
  <2> QED BY <2>1 DEF PrefixEntry
<1> QED BY <1>1, <1>2

\* A touched entry keeps its pages.
LEMMA TouchLists ==
    ASSUME NEW c, Sound(c), NEW id \in DOMAIN c.prefixes
    PROVE  LET r == Touch(c, id)
           IN  /\ r.pages = c.pages /\ r.sequences = c.sequences
               /\ r.next_prefix_id = c.next_prefix_id
               /\ DOMAIN r.prefixes = DOMAIN c.prefixes
               /\ \A i \in DOMAIN c.prefixes : r.prefixes[i].pages = c.prefixes[i].pages
<1> DEFINE t == Tick(c)
           r == Touch(c, id)
<1>1. DOMAIN c = Fields /\ \A i \in DOMAIN c.prefixes : c.prefixes[i] \in PrefixEntry
  BY DEF Sound, PrefixesOK
<1>2. /\ DOMAIN t = Fields /\ t.pages = c.pages /\ t.sequences = c.sequences
      /\ t.next_prefix_id = c.next_prefix_id
  BY <1>1, TickFields
<1>3. /\ DOMAIN t.prefixes = DOMAIN c.prefixes
      /\ \A i \in DOMAIN c.prefixes : t.prefixes[i].pages = c.prefixes[i].pages
  BY <1>1, TickLists
<1>4. \A i \in DOMAIN t.prefixes : t.prefixes[i] \in PrefixEntry
  BY TickPrefixes DEF Sound, PrefixesOK
<1>5. r = [t EXCEPT !.prefixes[id].last_used = t.clock,
                    !.lru = (@ \ {Stamp(t, id)}) \cup {<<t.clock, id>>}]
  BY DEF Touch
<1> HIDE DEF t, r
<1>6. /\ r.pages = t.pages /\ r.sequences = t.sequences
      /\ r.next_prefix_id = t.next_prefix_id
      /\ r.prefixes = [t.prefixes EXCEPT ![id] = [t.prefixes[id] EXCEPT !.last_used = t.clock]]
  BY <1>2, <1>5 DEF Fields
<1>7. \A i \in DOMAIN c.prefixes : r.prefixes[i].pages = t.prefixes[i].pages
  BY <1>3, <1>4, <1>6 DEF PrefixEntry
<1> QED BY <1>2, <1>3, <1>6, <1>7 DEF r

\* A new entry names the pages of its sequence, and each has one more prefix reference.
LEMMA InsertEntryShape ==
    ASSUME NEW c, Sound(c), NEW s, NEW key, NEW bytes
    PROVE  LET r == InsertEntry(c, s, key, bytes)
               ids == c.sequences[s].pages
           IN  /\ r.pages = MorePrefix(c.pages, SlotsOf(ids)) /\ r.sequences = c.sequences
               /\ r.next_prefix_id = c.next_prefix_id + 1
               /\ c.next_prefix_id \notin DOMAIN c.prefixes =>
                    EntriesWith(c.prefixes, c.next_prefix_id, ids, r.prefixes)
<1> DEFINE id == c.next_prefix_id
           ids == c.sequences[s].pages
           counted == IncrementPrefixRefs(c, SlotsOf(ids))
           u == [counted EXCEPT
                  !.next_prefix_id = id + 1,
                  !.tree = [k \in DOMAIN @ \cup {key} |-> IF k = key THEN id ELSE @[k]]]
           t == Tick(u)
           entry == [key |-> key, pages |-> ids, position |-> c.sequences[s].position,
                     snapshot_bytes |-> bytes, last_used |-> t.clock]
           v == [t EXCEPT
                  !.prefixes = [i \in DOMAIN @ \cup {id} |-> IF i = id THEN entry ELSE @[i]],
                  !.lru = @ \cup {<<t.clock, id>>},
                  !.stats.retained_snapshot_bytes = @ + bytes]
           r == InsertEntry(c, s, key, bytes)
<1>1. DOMAIN c = Fields /\ \A i \in DOMAIN c.prefixes : c.prefixes[i] \in PrefixEntry
  BY DEF Sound, PrefixesOK
<1>2. SameRest(counted, c) /\ counted.pages = MorePrefix(c.pages, SlotsOf(ids))
  BY <1>1 DEF Fields, SameRest, IncrementPrefixRefs, MorePrefix
<1>3. r = RefreshStats(v)
  BY DEF InsertEntry
<1> HIDE DEF counted, r
<1>4. /\ DOMAIN u = Fields /\ u.pages = MorePrefix(c.pages, SlotsOf(ids))
      /\ u.sequences = c.sequences /\ u.prefixes = c.prefixes /\ u.next_prefix_id = id + 1
  BY <1>2 DEF Fields, SameRest
<1> HIDE DEF u
<1>5. /\ DOMAIN t = Fields /\ t.pages = u.pages /\ t.sequences = u.sequences
      /\ t.next_prefix_id = u.next_prefix_id
  BY <1>4, TickFields
<1>6. /\ DOMAIN t.prefixes = DOMAIN c.prefixes
      /\ \A i \in DOMAIN c.prefixes : t.prefixes[i].pages = c.prefixes[i].pages
  BY <1>1, <1>4, TickLists
<1> HIDE DEF t
<1>7. entry.pages = ids
  OBVIOUS
<1> HIDE DEF entry
<1>8. /\ DOMAIN v = Fields /\ v.pages = t.pages /\ v.sequences = t.sequences
      /\ v.next_prefix_id = t.next_prefix_id
      /\ v.prefixes = [i \in DOMAIN t.prefixes \cup {id} |-> IF i = id THEN entry ELSE t.prefixes[i]]
  BY <1>5 DEF Fields
<1> HIDE DEF v
<1>9. /\ r.pages = v.pages /\ r.sequences = v.sequences
      /\ r.next_prefix_id = v.next_prefix_id /\ r.prefixes = v.prefixes
  BY <1>3, <1>8, RefreshRest DEF SameRest
<1>10. id \notin DOMAIN c.prefixes => EntriesWith(c.prefixes, id, ids, r.prefixes)
  BY <1>6, <1>7, <1>8, <1>9 DEF EntriesWith
<1> QED BY <1>4, <1>5, <1>8, <1>9, <1>10 DEF r

\* What remove_page makes of the page records.
WithoutPages(pages, slots) ==
    [p \in DOMAIN pages |-> IF p \in slots THEN VacantPage(pages[p].generation + 1) ELSE pages[p]]

\* The slots of a list, as a sequence and as a set.
LEMMA SlotsRange == ASSUME NEW ids PROVE Range(Slots(ids)) = SlotsOf(ids)
BY DEF Range, Slots, SlotsOf

\* The end of commit_append and of abort_append.
LEMMA ReleasedShape ==
    ASSUME NEW c, Sound(c), NEW s \in LiveIn(c.sequences), NEW released
    PROVE  LET r == Released(c, s, released)
           IN  /\ r.pages = WithoutPages(c.pages, SlotsOf(released))
               /\ r.prefixes = c.prefixes /\ r.next_prefix_id = c.next_prefix_id
               /\ SequencesWith(c.sequences, s, r.sequences)
               /\ r.sequences[s].pages = c.sequences[s].pages
               /\ r.sequences[s].position = c.sequences[s].position
               /\ r.sequences[s].pending = NoPending
               /\ r.sequences[s].generation = c.sequences[s].generation
<1> DEFINE m == RemovePages(c, Slots(released))
           x == [m EXCEPT
                  !.sequences[s].reserved_pages = @ + Len(released),
                  !.sequences[s].pending = NoPending,
                  !.stats.reserved_pages = @ + Len(released)]
           r == Released(c, s, released)
<1>1. DOMAIN c = Fields /\ c.sequences[s] \in SequenceSlot /\ s \in DOMAIN c.sequences
  BY SequenceParts DEF Sound, LiveIn
<1>2. /\ DOMAIN m = Fields /\ m.pages = WithoutPages(c.pages, SlotsOf(released))
      /\ m.sequences = c.sequences /\ m.prefixes = c.prefixes
      /\ m.next_prefix_id = c.next_prefix_id
  BY <1>1, SlotsRange DEF Fields, RemovePages, WithoutPages
<1>3. r = RefreshStats(x)
  BY DEF Released
<1> HIDE DEF m, r
<1>4. /\ DOMAIN x = Fields /\ x.pages = m.pages /\ x.prefixes = m.prefixes
      /\ x.next_prefix_id = m.next_prefix_id
      /\ x.sequences = [c.sequences EXCEPT ![s] =
           [c.sequences[s] EXCEPT !.reserved_pages = @ + Len(released), !.pending = NoPending]]
  BY <1>1, <1>2 DEF Fields, SequenceSlot
<1> HIDE DEF x
<1>5. /\ r.pages = x.pages /\ r.prefixes = x.prefixes
      /\ r.next_prefix_id = x.next_prefix_id /\ r.sequences = x.sequences
  BY <1>3, <1>4, RefreshRest DEF SameRest
<1>6. r.sequences[s] =
        [c.sequences[s] EXCEPT !.reserved_pages = @ + Len(released), !.pending = NoPending]
  BY <1>1, <1>4, <1>5
<1>7. /\ r.sequences[s].pages = c.sequences[s].pages /\ r.sequences[s].live = c.sequences[s].live
      /\ r.sequences[s].position = c.sequences[s].position
      /\ r.sequences[s].pending = NoPending
      /\ r.sequences[s].generation = c.sequences[s].generation
  BY <1>1, <1>6 DEF SequenceSlot
<1>8. SequencesWith(c.sequences, s, r.sequences)
  BY <1>1, <1>4, <1>5, <1>7 DEF SequencesWith, LiveIn
<1> QED BY <1>2, <1>4, <1>5, <1>7, <1>8 DEF r

\* The end of finish.
LEMMA FinishShape ==
    ASSUME NEW c, Sound(c), NEW s \in LiveIn(c.sequences), NEW S, NEW slots, Range(slots) = S,
           NEW others, others \cap S = {}, NEW later, NEW r,
           r = RefreshStats(RemoveSequence(
                 DecrementActiveRefs(RetirePages(c, slots, later), others), s))
    PROVE  /\ r.pages = AfterFinish(c.pages, S, others)
           /\ r.prefixes = c.prefixes /\ r.next_prefix_id = c.next_prefix_id
           /\ DOMAIN r.sequences = DOMAIN c.sequences /\ ~r.sequences[s].live
           /\ r.sequences[s].generation = c.sequences[s].generation + 1
           /\ \A t \in DOMAIN c.sequences : t # s => r.sequences[t] = c.sequences[t]
           /\ r.deferred_pages = c.deferred_pages + later
<1> DEFINE m == RetirePages(c, slots, later)
           d == DecrementActiveRefs(m, others)
           x == RemoveSequence(d, s)
<1>1. DOMAIN c = Fields /\ c.stats \in Stats /\ s \in DOMAIN c.sequences
  BY DEF Sound, LiveIn
<1>2. /\ DOMAIN m = Fields /\ m.pages = WithoutPages(c.pages, S)
      /\ m.sequences = c.sequences /\ m.prefixes = c.prefixes
      /\ m.next_prefix_id = c.next_prefix_id /\ m.deferred_pages = c.deferred_pages + later
  BY <1>1 DEF Fields, RetirePages, RemovePages, WithoutPages
<1> HIDE DEF m
<1>3. /\ DOMAIN d = Fields
      /\ d.pages = [p \in DOMAIN m.pages |->
           IF p \in others THEN [m.pages[p] EXCEPT !.active_refs = @ - 1] ELSE m.pages[p]]
      /\ d.sequences = m.sequences /\ d.prefixes = m.prefixes
      /\ d.next_prefix_id = m.next_prefix_id /\ d.deferred_pages = m.deferred_pages
  BY <1>2 DEF Fields, DecrementActiveRefs
<1> HIDE DEF d
<1>4. /\ DOMAIN x = Fields /\ x.pages = d.pages /\ x.prefixes = d.prefixes
      /\ x.next_prefix_id = d.next_prefix_id /\ x.deferred_pages = d.deferred_pages
      /\ x.sequences = [d.sequences EXCEPT ![s] = VacantSequence(d.sequences[s].generation + 1)]
  BY <1>3 DEF Fields, RemoveSequence
<1>5. r = RefreshStats(x)
  BY DEF m, d
<1> HIDE DEF x
<1>10. /\ r.pages = x.pages /\ r.prefixes = x.prefixes
       /\ r.next_prefix_id = x.next_prefix_id /\ r.sequences = x.sequences
       /\ r.deferred_pages = x.deferred_pages
  BY <1>4, <1>5, RefreshRest DEF SameRest
<1>6. d.pages = AfterFinish(c.pages, S, others)
  BY <1>2, <1>3 DEF AfterFinish, WithoutPages
<1>7. r.sequences = [c.sequences EXCEPT ![s] = VacantSequence(c.sequences[s].generation + 1)]
  BY <1>2, <1>3, <1>4, <1>10
<1>8. r.sequences[s] = VacantSequence(c.sequences[s].generation + 1)
  BY <1>1, <1>7
<1>9. ~r.sequences[s].live /\ r.sequences[s].generation = c.sequences[s].generation + 1
  BY <1>8 DEF VacantSequence
<1> QED BY <1>2, <1>3, <1>4, <1>6, <1>7, <1>9, <1>10

\* The committed segments change only how far pages are valid.
LEMMA MarkedCounts ==
    ASSUME NEW c, Sound(c), NEW q, NEW table, NEW rows
    PROVE  LET m == MarkCommitted(c, q, table, rows)
           IN  /\ SameRest(m, c) /\ m.free_page_slots = c.free_page_slots
               /\ DOMAIN m.pages = DOMAIN c.pages
               /\ \A p \in DOMAIN c.pages : /\ SameCounts(c.pages[p], m.pages[p])
                                            /\ m.pages[p].physical = c.pages[p].physical
<1> DEFINE m == MarkCommitted(c, q, table, rows)
<1>1. DOMAIN c = Fields /\ \A p \in DOMAIN c.pages : c.pages[p] \in PageSlot
  BY PagesTyped DEF Sound
<1>2. SameRest(m, c) /\ m.free_page_slots = c.free_page_slots
  BY <1>1 DEF Fields, SameRest, MarkCommitted
<1>3. /\ DOMAIN m.pages = DOMAIN c.pages
      /\ \A p \in DOMAIN c.pages :
           \/ m.pages[p] = c.pages[p]
           \/ \E v, w : m.pages[p] = [c.pages[p] EXCEPT !.valid_tokens = v, !.sealed = w]
  BY <1>1 DEF Fields, MarkCommitted
<1> HIDE DEF m
<1>4. \A p \in DOMAIN c.pages : /\ SameCounts(c.pages[p], m.pages[p])
                                /\ m.pages[p].physical = c.pages[p].physical
  BY <1>1, <1>3 DEF SameCounts, PageSlot
<1> QED BY <1>2, <1>3, <1>4 DEF m

----------------------------------------------------------------------------
(* Every operation keeps ownership exact. *)

\* What leaves the pages, the sequences and the lists of the entries alone.
LEMMA SameOwned ==
    ASSUME NEW c, Owned(c), NEW r, r.pages = c.pages, r.sequences = c.sequences,
           r.next_prefix_id = c.next_prefix_id, DOMAIN r.prefixes = DOMAIN c.prefixes,
           \A id \in DOMAIN c.prefixes : r.prefixes[id].pages = c.prefixes[id].pages
    PROVE  Owned(r)
<1>1. Keeps(r.prefixes) = Keeps(c.prefixes)
  BY DEF Keeps
<1>2. Dated(r.prefixes, r.next_prefix_id)
  BY DEF Owned, OwnedParts, Dated
<1> QED BY <1>1, <1>2 DEF Owned, OwnedParts

\* A poll.
LEMMA PolledOwned ==
    ASSUME IInv, Owned(cache), NEW polled
    PROVE  Owned(Reclaimed(polled))
<1> DEFINE x == [cache EXCEPT !.deferred_pages = @ - Cardinality(polled)]
           r == Reclaimed(polled)
<1>1. /\ DOMAIN x = Fields /\ x.pages = cache.pages /\ x.sequences = cache.sequences
      /\ x.prefixes = cache.prefixes /\ x.next_prefix_id = cache.next_prefix_id
  BY DEF IInv, Sound, Fields
<1>2. r = RefreshStats(x)
  BY DEF Reclaimed
<1> HIDE DEF x
<1>3. /\ r.pages = cache.pages /\ r.sequences = cache.sequences
      /\ r.prefixes = cache.prefixes /\ r.next_prefix_id = cache.next_prefix_id
  BY <1>1, <1>2, RefreshRest DEF SameRest
<1> HIDE DEF r
<1>4. Owned(r)
  BY <1>3, SameOwned
<1> QED BY <1>4 DEF r

\* lookup_prefix, and retain_prefix of what is retained already.
LEMMA TouchOwned ==
    ASSUME IInv, Owned(cache), NEW id \in DOMAIN cache.prefixes
    PROVE  Owned(Touch(cache, id))
<1>1. PICK r : r = Touch(cache, id)
  OBVIOUS
<1>2. Sound(cache)
  BY DEF IInv
<1>3. /\ r.pages = cache.pages /\ r.sequences = cache.sequences
      /\ r.next_prefix_id = cache.next_prefix_id
      /\ DOMAIN r.prefixes = DOMAIN cache.prefixes
      /\ \A i \in DOMAIN cache.prefixes : r.prefixes[i].pages = cache.prefixes[i].pages
  BY <1>1, <1>2, TouchLists
<1> QED BY <1>1, <1>3, SameOwned

\* The plan of an eviction leaves the protected entry out.
LEMMA RunsSpare ==
    ASSUME NEW c, NEW protected, NEW ids \in EvictionRuns(c, protected)
    PROVE  ids \cap protected = {}
BY DEF EvictionRuns

\* e is what commit_evictions may make of c when it evicts ids.
EvictedTo(c, ids, e) ==
    \E slots \in SetToSeqs(RetireSlots(c, ids)) :
    \E later \in Deferrable({c.pages[s].physical : s \in Range(slots)}) :
      e = CommitEvictions(c, ids, slots, Cardinality(later))

\* commit_evictions takes the sound manager c to e.
Eviction(c, ids, e) ==
    /\ Sound(c) /\ Owned(c)
    /\ ids \subseteq DOMAIN c.prefixes
    /\ CanEvict(c, ids)
    /\ EvictedTo(c, ids, e)

\* What an eviction leaves: it is sound and owned, and the spared entries are as they were.
Evicted(c, ids, e) ==
    /\ Sound(e) /\ Owned(e)
    /\ \E n \in Nat : EvictShape(c, ids, n, e)
    /\ e.sequences = c.sequences /\ e.free_sequence_slots = c.free_sequence_slots
    /\ e.next_prefix_id = c.next_prefix_id
    /\ e.prefixes = [id \in DOMAIN c.prefixes \ ids |-> c.prefixes[id]]

\* An eviction as part of an operation.
LEMMA EvictedOwned == ASSUME NEW c, NEW ids, NEW e, Eviction(c, ids, e) PROVE Evicted(c, ids, e)
<1>0. /\ Sound(c) /\ Owned(c) /\ ids \subseteq DOMAIN c.prefixes /\ CanEvict(c, ids)
      /\ EvictedTo(c, ids, e)
  BY DEF Eviction
<1>1. PICK slots \in SetToSeqs(RetireSlots(c, ids)) :
        \E later \in Deferrable({c.pages[s].physical : s \in Range(slots)}) :
          e = CommitEvictions(c, ids, slots, Cardinality(later))
  BY <1>0 DEF EvictedTo
<1>2. PICK later \in Deferrable({c.pages[s].physical : s \in Range(slots)}) :
        e = CommitEvictions(c, ids, slots, Cardinality(later))
  BY <1>1
<1>3. Sound(e) /\ Cardinality(later) \in Nat
  BY <1>0, <1>2, EvictedParts
<1>4. EvictShape(c, ids, Cardinality(later), e)
  BY <1>0, <1>2, <1>3, EvictShaped
<1>5. Owned(e)
  BY <1>0, <1>4, EvictOwned
<1> QED BY <1>3, <1>4, <1>5 DEF EvictShape, Evicted

\* evict_prefix.
LEMMA EvictPrefixOwned ==
    ASSUME IInv, Owned(cache), NEW id \in DOMAIN cache.prefixes, EvictPrefix(id)
    PROVE  Owned(cache')
<1>1. EvictedTo(cache, {id}, cache')
  BY DEF EvictPrefix, EvictedTo
<1>2. Eviction(cache, {id}, cache')
  BY <1>1 DEF IInv, EvictPrefix, Eviction
<1> QED BY <1>2, EvictedOwned DEF Evicted

\* A sequence that shares pages of a list that is owned already.
LEMMA NewSharer ==
    ASSUME NEW e, Sound(e), Owned(e), NEW ids \in Seq(PageId), CanShare(e, SlotsOf(ids)),
           Resolves(e.pages, ids), Apart(News(e.sequences), ids),
           NEW position, NEW reserved, NEW request
    PROVE  LET x == IncrementActiveRefs(e, SlotsOf(ids))
               r == RefreshStats(InsertSequence(x, ids, position, reserved, request))
           IN  /\ Sound(x) /\ SameRest(x, e) /\ x.free_page_slots = e.free_page_slots
               /\ x.pages = MoreActive(e.pages, SlotsOf(ids))
               /\ Owned(r) /\ r.pages = x.pages
<1> DEFINE S == SlotsOf(ids)
           x == IncrementActiveRefs(e, S)
           r == RefreshStats(InsertSequence(x, ids, position, reserved, request))
           slot == NextSequenceSlot(x)
<1>1. S \in SUBSET DOMAIN e.pages
  BY DEF Resolves, SlotsOf
<1>2. Sound(x)
  BY <1>1, SharedTaken
<1>3. SameRest(x, e) /\ x.free_page_slots = e.free_page_slots /\ x.pages = MoreActive(e.pages, S)
  BY SharedShape
<1> HIDE DEF x
<1>4. /\ r.pages = x.pages /\ r.prefixes = x.prefixes /\ r.next_prefix_id = x.next_prefix_id
      /\ slot \notin LiveIn(x.sequences) /\ SequencesWith(x.sequences, slot, r.sequences)
      /\ Table(r.sequences[slot]) = ids
      /\ r.sequences[slot].pending.new_pages = <<>>
  BY <1>2, InsertSequenceShape
<1> HIDE DEF r, slot
<1>5. /\ slot \notin LiveIn(e.sequences) /\ SequencesWith(e.sequences, slot, r.sequences)
      /\ r.prefixes = e.prefixes /\ r.next_prefix_id = e.next_prefix_id
  BY <1>3, <1>4 DEF SameRest
<1>6. \A p \in DOMAIN e.pages : e.pages[p] \in PageSlot
  BY PagesTyped
<1>7. OwnedParts(MoreActive(e.pages, S), r.sequences, e.prefixes, e.next_prefix_id)
  BY <1>4, <1>5, <1>6, SharesOwned DEF Owned
<1>8. Owned(r)
  BY <1>3, <1>4, <1>5, <1>7 DEF Owned
<1> QED BY <1>2, <1>3, <1>4, <1>8 DEF r, x

\* The pages admit shares still resolve after its evictions, which spare their entry.
LEMMA SharedOwned ==
    ASSUME NEW c, Sound(c), NEW prefix, prefix = {} \/ (\E id : prefix = {id}),
           prefix \subseteq DOMAIN c.prefixes, NEW ids, ids \cap prefix = {},
           NEW e, Owned(e), e.prefixes = [id \in DOMAIN c.prefixes \ ids |-> c.prefixes[id]]
    PROVE  /\ Resolves(e.pages, SharedPages(c, prefix))
           /\ Apart(News(e.sequences), SharedPages(c, prefix))
<1>1. CASE prefix = {}
  <2>1. SharedPages(c, prefix) = <<>>
    BY <1>1 DEF SharedPages
  <2> QED BY <2>1, NoSlots DEF Resolves, Apart
<1>2. CASE prefix # {}
  <2>1. PICK id : prefix = {id}
    BY <1>2
  <2>2. SharedPages(c, prefix) = c.prefixes[id].pages
    BY <2>1 DEF SharedPages
  <2>3. id \in DOMAIN e.prefixes /\ e.prefixes[id] = c.prefixes[id]
    BY <2>1
  <2> QED BY <2>2, <2>3, RetainedApart
<1> QED BY <1>1, <1>2

\* A match of the runtime is an entry or nothing.
LEMMA MatchIs == ASSUME NEW prefix \in Matches PROVE prefix = {} \/ (\E id : prefix = {id})
BY DEF Matches

\* admit.
LEMMA AdmitOwned ==
    ASSUME IInv, Owned(cache), NEW polled \in SUBSET InPool("deferred"), NEW prefix \in Matches,
           NEW request, Admit(polled, prefix, request)
    PROVE  Owned(cache')
<1> DEFINE c == Reclaimed(polled)
           shared == SharedPages(c, prefix)
           demand == AdmitDemand(c, prefix, request)
<1>1. /\ cache.deferred_pages - Cardinality(polled) \in Nat
      /\ prefix \subseteq DOMAIN c.prefixes
  BY DEF Admit, Admissible
<1>2. Sound(c) /\ Owned(c)
  BY <1>1, PolledParts, PolledOwned
<1>3. PICK ids \in EvictionRuns(c, prefix) : CanEvict(c, ids) /\ \E e :
        /\ EvictedTo(c, ids, e)
        /\ CanShare(e, SlotsOf(shared))
        /\ cache' = RefreshStats(InsertSequence(IncrementActiveRefs(e, SlotsOf(shared)),
                      shared, PrefixPosition(c, prefix), demand.pages, request))
  BY DEF Admit, EvictedTo
<1>4. PICK e : /\ EvictedTo(c, ids, e)
               /\ CanShare(e, SlotsOf(shared))
               /\ cache' = RefreshStats(InsertSequence(IncrementActiveRefs(e, SlotsOf(shared)),
                             shared, PrefixPosition(c, prefix), demand.pages, request))
  BY <1>3
<1>5. ids \subseteq DOMAIN c.prefixes /\ ids \cap prefix = {}
  BY <1>2, EvictionRunsParts, RunsSpare
<1> HIDE DEF c
<1>6. /\ Sound(e) /\ Owned(e)
      /\ e.prefixes = [id \in DOMAIN c.prefixes \ ids |-> c.prefixes[id]]
  <2>1. Eviction(c, ids, e)
    BY <1>2, <1>3, <1>4, <1>5 DEF Eviction
  <2>2. Evicted(c, ids, e)
    BY <2>1, EvictedOwned
  <2> QED BY <2>2 DEF Evicted
<1>7. Resolves(e.pages, shared) /\ Apart(News(e.sequences), shared) /\ shared \in Seq(PageId)
  <2>1. shared \in Seq(PageId)
    BY <1>1, <1>2, SharedParts
  <2>2. prefix = {} \/ (\E id : prefix = {id})
    BY MatchIs
  <2> QED BY <1>1, <1>2, <1>5, <1>6, <2>1, <2>2, SharedOwned
<1> HIDE DEF shared, demand
<1> QED BY <1>4, <1>6, <1>7, NewSharer

\* An entry for the pages of a live sequence.
LEMMA NewEntry ==
    ASSUME NEW e, Sound(e), Owned(e), NEW s \in LiveIn(e.sequences), NEW key, NEW n
    PROVE  Owned(InsertEntry(e, s, key, n))
<1> DEFINE list == e.sequences[s].pages
<1>1. /\ e.next_prefix_id \in Nat /\ DOMAIN e.prefixes \subseteq Nat
      /\ e.next_prefix_id \notin DOMAIN e.prefixes
  BY DEF Sound, PrefixesOK, Owned, OwnedParts, Dated
<1>2. Resolves(e.pages, list) /\ Apart(News(e.sequences), list)
  BY CommittedApart
<1>3. PICK r : r = InsertEntry(e, s, key, n)
  OBVIOUS
<1>4. /\ r.pages = MorePrefix(e.pages, SlotsOf(list)) /\ r.sequences = e.sequences
      /\ r.next_prefix_id = e.next_prefix_id + 1
      /\ EntriesWith(e.prefixes, e.next_prefix_id, list, r.prefixes)
  BY <1>1, <1>3, InsertEntryShape
<1>5. \A p \in DOMAIN e.pages : e.pages[p] \in PageSlot
  BY PagesTyped
<1> HIDE DEF list
<1>6. OwnedParts(MorePrefix(e.pages, SlotsOf(list)), e.sequences, r.prefixes, e.next_prefix_id + 1)
  BY <1>1, <1>2, <1>4, <1>5, RetainsOwned DEF Owned
<1> QED BY <1>3, <1>4, <1>6 DEF Owned

\* retain_prefix.
LEMMA RetainPrefixOwned ==
    ASSUME IInv, Owned(cache), NEW s \in LiveSequences, NEW n, NEW key, RetainPrefix(s, key, n)
    PROVE  Owned(cache')
<1>1. PICK ids \in EvictionRuns(cache, {}) : CanEvict(cache, ids) /\ \E e :
        EvictedTo(cache, ids, e) /\ cache' = InsertEntry(e, s, key, n)
  BY DEF RetainPrefix, EvictedTo
<1>2. PICK e : EvictedTo(cache, ids, e) /\ cache' = InsertEntry(e, s, key, n)
  BY <1>1
<1>3. Sound(cache) /\ ids \subseteq DOMAIN cache.prefixes /\ s \in LiveIn(cache.sequences)
  BY EvictionRunsParts DEF IInv, LiveSequences, LiveIn
<1>4. Sound(e) /\ Owned(e) /\ e.sequences = cache.sequences
  <2>1. Eviction(cache, ids, e)
    BY <1>1, <1>2, <1>3 DEF Eviction
  <2>2. Evicted(cache, ids, e)
    BY <2>1, EvictedOwned
  <2> QED BY <2>2 DEF Evicted
<1> QED BY <1>2, <1>3, <1>4, NewEntry

\* finish.
LEMMA FinishOwned ==
    ASSUME IInv, Owned(cache), NEW s \in LiveSequences, Finish(s)
    PROVE  Owned(cache')
<1> DEFINE q == cache.sequences[s]
           ids == q.pages
           sole == SoleSlots(q)
<1>1. PICK slots \in SetToSeqs(sole) :
        \E later \in Deferrable({cache.pages[p].physical : p \in sole}) :
          cache' = RefreshStats(RemoveSequence(
                  DecrementActiveRefs(RetirePages(cache, slots, Cardinality(later)),
                                      SlotsOf(ids) \ sole), s))
  BY DEF Finish
<1>2. PICK later :
        cache' = RefreshStats(RemoveSequence(
                  DecrementActiveRefs(RetirePages(cache, slots, Cardinality(later)),
                                      SlotsOf(ids) \ sole), s))
  BY <1>1
<1>3. /\ Sound(cache) /\ s \in LiveIn(cache.sequences) /\ q.pending = NoPending
  BY DEF IInv, LiveSequences, LiveIn, Finish, CanFinish
<1>4. sole = SoleOf(cache.pages, ids)
  BY DEF SoleSlots, SoleOf
<1>5. sole \in SUBSET DOMAIN cache.pages
  BY <1>3, CommittedApart DEF SoleSlots, Resolves, SlotsOf
<1>6. Range(slots) = sole
  <2>1. sole \in SUBSET Nat /\ IsFiniteSet(sole)
    BY <1>3, <1>5, ReclaimableBytesInt DEF Sound
  <2> HIDE DEF sole
  <2> QED BY <1>1, <2>1, SeqOfSet
<1>7. Table(q) = ids
  <2>1. ids \in Seq(PageId) /\ q.pending.new_pages = <<>>
    BY <1>3, ListsTyped DEF NoPending
  <2> QED BY <2>1, TableIs
<1> HIDE DEF sole
<1>8. PICK r : r = RefreshStats(RemoveSequence(
                  DecrementActiveRefs(RetirePages(cache, slots, Cardinality(later)),
                                      SlotsOf(ids) \ sole), s))
  OBVIOUS
<1>9. /\ r.pages = AfterFinish(cache.pages, sole, SlotsOf(ids) \ sole)
      /\ r.prefixes = cache.prefixes /\ r.next_prefix_id = cache.next_prefix_id
      /\ DOMAIN r.sequences = DOMAIN cache.sequences /\ ~r.sequences[s].live
      /\ \A t \in DOMAIN cache.sequences : t # s => r.sequences[t] = cache.sequences[t]
  <2>1. (SlotsOf(ids) \ sole) \cap sole = {}
    OBVIOUS
  <2> QED BY <1>3, <1>6, <1>8, <2>1, FinishShape
<1>10. \A p \in DOMAIN cache.pages : cache.pages[p] \in PageSlot
  BY <1>3, PagesTyped
<1> HIDE DEF ids
<1>11. OwnedParts(AfterFinish(cache.pages, SoleOf(cache.pages, ids),
                              SlotsOf(ids) \ SoleOf(cache.pages, ids)),
                  r.sequences, cache.prefixes, cache.next_prefix_id)
  BY <1>3, <1>7, <1>9, <1>10, LeavesOwned DEF Owned
<1> QED BY <1>2, <1>4, <1>8, <1>9, <1>11 DEF Owned

\* The update of reserve_append.
LEMMA ReservedShape ==
    ASSUME NEW c, Sound(c), NEW s \in LiveIn(c.sequences), NEW n, NEW rows, NEW new
    PROVE  LET r == RefreshStats(ReservedFor(c, s, n, rows, new))
           IN  /\ r.pages = c.pages /\ r.prefixes = c.prefixes
               /\ r.next_prefix_id = c.next_prefix_id
               /\ SequencesWith(c.sequences, s, r.sequences)
               /\ r.sequences[s].pages = c.sequences[s].pages
               /\ r.sequences[s].position = c.sequences[s].position
               /\ r.sequences[s].pending = [rows |-> rows, new_pages |-> new]
               /\ r.sequences[s].generation = c.sequences[s].generation
<1> DEFINE x == ReservedFor(c, s, n, rows, new)
           r == RefreshStats(x)
           pending == [rows |-> rows, new_pages |-> new]
<1>1. DOMAIN c = Fields /\ c.sequences[s] \in SequenceSlot /\ s \in DOMAIN c.sequences
  BY SequenceParts DEF Sound, LiveIn
<1> HIDE DEF pending
<1>2. /\ DOMAIN x = Fields /\ x.pages = c.pages /\ x.prefixes = c.prefixes
      /\ x.next_prefix_id = c.next_prefix_id
      /\ x.sequences = [c.sequences EXCEPT ![s] =
           [c.sequences[s] EXCEPT !.reserved_pages = @ - n, !.pending = pending]]
  BY <1>1 DEF Fields, SequenceSlot, ReservedFor, pending
<1> HIDE DEF x
<1>3. /\ r.pages = x.pages /\ r.prefixes = x.prefixes
      /\ r.next_prefix_id = x.next_prefix_id /\ r.sequences = x.sequences
  BY <1>2, RefreshRest DEF SameRest
<1> HIDE DEF r
<1>4. r.sequences[s] = [c.sequences[s] EXCEPT !.reserved_pages = @ - n, !.pending = pending]
  BY <1>1, <1>2, <1>3
<1>5. /\ r.sequences[s].pages = c.sequences[s].pages /\ r.sequences[s].live = c.sequences[s].live
      /\ r.sequences[s].position = c.sequences[s].position
      /\ r.sequences[s].pending = pending
      /\ r.sequences[s].generation = c.sequences[s].generation
  BY <1>1, <1>4 DEF SequenceSlot
<1>6. SequencesWith(c.sequences, s, r.sequences)
  BY <1>1, <1>2, <1>3, <1>5 DEF SequencesWith, LiveIn
<1> QED BY <1>2, <1>3, <1>5, <1>6 DEF r, x, pending

\* reserve_append, for n physical pages.
LEMMA NewReservation ==
    ASSUME NEW c, Sound(c), Owned(c), NEW s \in LiveIn(c.sequences),
           c.sequences[s].pending = NoPending, NEW n \in Nat, RoomForPages(c, n),
           NEW physical \in Seq(PhysicalPages), Len(physical) = n, NEW rows
    PROVE  LET x == InsertPages(c, physical, 0)
           IN  Owned(RefreshStats(ReservedFor(x, s, n, rows, FreshIds(c, n))))
<1> DEFINE x == InsertPages(c, physical, 0)
           new == FreshIds(c, n)
           r == RefreshStats(ReservedFor(x, s, n, rows, new))
<1>1. SameRest(x, c) /\ Taken(c.pages, new, physical, 0, x.pages)
  BY InsertTaken
<1>2. 0 \in 0..PageTokens
  BY ConfigAssumption
<1>3. Sound(x)
  BY <1>2, InsertPagesSound
<1>4. new \in Seq(PageId) /\ DOMAIN new = 1..n
  BY FreshPageIds DEF FreshIds
<1>5. \A i \in DOMAIN new : new[i].generation <= PageReuse
  BY <1>4 DEF FreshIds, RoomForPages
<1>6. c.sequences[s].pages \in Seq(PageId) /\ Table(c.sequences[s]) = c.sequences[s].pages
  BY ListsTyped, TableIs DEF NoPending
<1> HIDE DEF x, new
<1>7. x.sequences = c.sequences /\ s \in LiveIn(x.sequences)
  BY <1>1 DEF SameRest
<1>8. /\ r.pages = x.pages /\ r.prefixes = x.prefixes
      /\ r.next_prefix_id = x.next_prefix_id
      /\ SequencesWith(x.sequences, s, r.sequences)
      /\ r.sequences[s].pages = x.sequences[s].pages
      /\ r.sequences[s].position = x.sequences[s].position
      /\ r.sequences[s].pending = [rows |-> rows, new_pages |-> new]
  BY <1>3, <1>7, ReservedShape
<1> HIDE DEF r
<1>9. /\ r.pages = x.pages /\ r.prefixes = c.prefixes
      /\ r.next_prefix_id = c.next_prefix_id /\ SequencesWith(c.sequences, s, r.sequences)
      /\ r.sequences[s].pending.new_pages = new
      /\ Table(r.sequences[s]) = Table(c.sequences[s]) \o new
  BY <1>1, <1>6, <1>7, <1>8 DEF SameRest, Table
<1>10. SlotsOf(r.sequences[s].pending.new_pages) \subseteq SlotsOf(new)
  BY <1>9
<1>11. OwnedParts(c.pages, c.sequences, c.prefixes, c.next_prefix_id)
  BY DEF Owned
<1>12. OwnedParts(x.pages, r.sequences, c.prefixes, c.next_prefix_id)
  <2>1. Extended(c.sequences, s, new, r.sequences)
    BY <1>4, <1>5, <1>6, <1>9, <1>10 DEF Extended
  <2> QED BY <1>1, <1>11, <2>1, TakesOwned
<1>13. Owned(r)
  BY <1>9, <1>12 DEF Owned
<1> QED BY <1>13 DEF r, x, new

\* reserve_append.
LEMMA ReserveAppendOwned ==
    ASSUME IInv, Owned(cache), NEW s \in LiveSequences, NEW rows, ReserveAppend(s, rows)
    PROVE  Owned(cache')
<1> DEFINE n == NewPageCount(cache.sequences[s], rows)
           new == [i \in 1..n |-> FreshPageId(cache, i)]
<1>1. CanReserve(s, rows)
  BY SMTT(40) DEF ReserveAppend
<1>2. PICK physical \in Injection(1..n, InPool("free")) :
        cache' = RefreshStats([InsertPages(cache, physical, 0) EXCEPT
             !.sequences[s].reserved_pages = @ - n,
             !.sequences[s].pending = [rows |-> rows, new_pages |-> new],
             !.stats.reserved_pages = @ - n])
  BY ZenonT(60) DEF ReserveAppend
<1>3. /\ n \in Nat /\ RoomForPages(cache, n) /\ cache.sequences[s].pending = NoPending
      /\ Sound(cache) /\ s \in LiveIn(cache.sequences)
  BY <1>1 DEF CanReserve, IInv, LiveSequences, LiveIn
<1>4. cache' = RefreshStats(ReservedFor(InsertPages(cache, physical, 0), s, n, rows, new))
  BY <1>2 DEF ReservedFor
<1>5. new = FreshIds(cache, n)
  BY DEF FreshIds
<1> HIDE DEF n, new
<1>6. physical \in Seq(PhysicalPages) /\ Len(physical) = n
  BY <1>3, AllocatedPages
<1>7. Owned(RefreshStats(ReservedFor(InsertPages(cache, physical, 0), s, n, rows, FreshIds(cache, n))))
  BY <1>3, <1>6, NewReservation
<1> QED BY <1>4, <1>5, <1>7

\* The handles insert_page hands out do not depend on the counts of other pages.
LEMMA FreshKept ==
    ASSUME NEW c, Sound(c), NEW slots, NEW x, x.pages = MoreActive(c.pages, slots),
           x.free_page_slots = c.free_page_slots, NEW n
    PROVE  FreshIds(x, n) = FreshIds(c, n)
<1>1. \A p \in DOMAIN c.pages : c.pages[p] \in PageSlot
  BY PagesTyped
<1>2. DOMAIN x.pages = DOMAIN c.pages
  BY DEF MoreActive
<1>3. \A p \in DOMAIN c.pages : x.pages[p].generation = c.pages[p].generation
  BY <1>1 DEF MoreActive, PageSlot
<1>4. Len(x.pages) = Len(c.pages)
  <2>1. c.pages \in Seq(PageSlot)
    BY DEF Sound, PagesOK
  <2>2. Len(c.pages) \in Nat /\ DOMAIN c.pages = 1..Len(c.pages)
    BY <2>1
  <2>3. x.pages \in [1..Len(c.pages) -> {x.pages[p] : p \in 1..Len(c.pages)}]
    BY <1>2, <2>2 DEF MoreActive
  <2> QED BY <2>2, <2>3, SeqBuilt
<1>5. \A i : FreshSlot(x, i) = FreshSlot(c, i)
  BY <1>4, Zenon DEF FreshSlot
<1>6. \A p : FreshGeneration(x, p) = FreshGeneration(c, p)
  BY <1>2, <1>3 DEF FreshGeneration
<1>7. \A i : FreshPageId(x, i) = FreshPageId(c, i)
  BY <1>5, <1>6, Zenon DEF FreshPageId
<1> QED BY <1>7 DEF FreshIds

\* branch: a sequence that shares some pages and has copies of others.
LEMMA NewBranch ==
    ASSUME NEW e, Sound(e), Owned(e), NEW ids \in Seq(PageId), CanShare(e, SlotsOf(ids)),
           Resolves(e.pages, ids), Apart(News(e.sequences), ids),
           NEW copied \in Seq(PhysicalPages), RoomForPages(e, Len(copied)),
           NEW valid \in 0..PageTokens, NEW position, NEW reserved, NEW request
    PROVE  LET y == IncrementActiveRefs(e, SlotsOf(ids))
               x == InsertPages(y, copied, valid)
           IN  Owned(RefreshStats(InsertSequence(x, ids \o FreshIds(e, Len(copied)),
                                                 position, reserved, request)))
<1> DEFINE y == IncrementActiveRefs(e, SlotsOf(ids))
           x == InsertPages(y, copied, valid)
           n == Len(copied)
           new == FreshIds(e, n)
           mid == RefreshStats(InsertSequence(y, ids, position, reserved, request))
           slot == NextSequenceSlot(y)
<1>1. /\ Sound(y) /\ SameRest(y, e) /\ y.free_page_slots = e.free_page_slots
      /\ y.pages = MoreActive(e.pages, SlotsOf(ids))
      /\ Owned(mid) /\ mid.pages = y.pages
  BY NewSharer
<1> HIDE DEF y
<1>2. /\ mid.prefixes = y.prefixes /\ mid.next_prefix_id = y.next_prefix_id
      /\ SequencesWith(y.sequences, slot, mid.sequences)
      /\ Table(mid.sequences[slot]) = ids
      /\ mid.sequences[slot].pending.new_pages = <<>>
  BY <1>1, InsertSequenceShape
<1> HIDE DEF mid
<1>3. n \in Nat
  OBVIOUS
<1>4. FreshIds(y, n) = new
  <2> HIDE DEF n
  <2> QED BY <1>1, FreshKept, Zenon
<1>5. SameRest(x, y) /\ Taken(y.pages, new, copied, valid, x.pages)
  <2>1. SameRest(x, y) /\ Taken(y.pages, FreshIds(y, n), copied, valid, x.pages)
    BY <1>1, InsertTaken
  <2> HIDE DEF new, x
  <2> QED BY <1>4, <2>1
<1>6. Sound(x)
  BY <1>1, InsertPagesSound
<1> HIDE DEF x
<1>7. new \in Seq(PageId) /\ DOMAIN new = 1..n /\ \A i \in DOMAIN new : new[i].generation <= PageReuse
  <2>1. new \in Seq(PageId) /\ DOMAIN new = 1..n
    BY <1>3, FreshPageIds DEF FreshIds
  <2>2. \A i \in DOMAIN new : new[i].generation <= PageReuse
    BY <2>1 DEF FreshIds, RoomForPages
  <2> QED BY <2>1, <2>2
<1> HIDE DEF new, n
<1>8. PICK table \in Seq(PageId) : table = ids \o new
  <2>1. ids \o new \in Seq(PageId)
    BY <1>7, SlotsJoined
  <2> QED BY <2>1
<1> DEFINE r == RefreshStats(InsertSequence(x, table, position, reserved, request))
<1>9. /\ r.pages = x.pages /\ r.prefixes = x.prefixes /\ r.next_prefix_id = x.next_prefix_id
      /\ SequencesWith(x.sequences, NextSequenceSlot(x), r.sequences)
      /\ Table(r.sequences[NextSequenceSlot(x)]) = table
      /\ r.sequences[NextSequenceSlot(x)].pending.new_pages = <<>>
  BY <1>6, InsertSequenceShape
<1> HIDE DEF r
<1>10. NextSequenceSlot(x) = slot /\ x.sequences = y.sequences
       /\ x.prefixes = y.prefixes /\ x.next_prefix_id = y.next_prefix_id
  BY <1>5 DEF SameRest, NextSequenceSlot
<1> HIDE DEF slot
<1>11. SequencesWith(mid.sequences, slot, r.sequences) /\ slot \in LiveIn(mid.sequences)
  BY <1>2, <1>9, <1>10 DEF SequencesWith, LiveIn
<1>12. Extended(mid.sequences, slot, new, r.sequences)
  <2>1. /\ Table(mid.sequences[slot]) = ids /\ Table(r.sequences[slot]) = ids \o new
        /\ SlotsOf(r.sequences[slot].pending.new_pages) = {}
    BY <1>2, <1>8, <1>9, <1>10, NoSlots
  <2> QED BY <1>7, <1>11, <2>1 DEF Extended
<1>13. OwnedParts(mid.pages, mid.sequences, mid.prefixes, mid.next_prefix_id)
  BY <1>1 DEF Owned
<1>14. Taken(mid.pages, new, copied, valid, x.pages)
  BY <1>1, <1>5
<1>15. OwnedParts(x.pages, r.sequences, mid.prefixes, mid.next_prefix_id)
  BY <1>12, <1>13, <1>14, TakesOwned
<1>16. Owned(r)
  BY <1>2, <1>9, <1>10, <1>15 DEF Owned
<1> QED BY <1>8, <1>16 DEF r, x, y, new, n

\* branch.
LEMMA BranchOwned ==
    ASSUME IInv, Owned(cache), NEW s \in LiveSequences, NEW request \in Requests,
           Branch(s, request)
    PROVE  Owned(cache')
<1> DEFINE q == cache.sequences[s]
           shared == CompletePages(q)
           copies == CopiedPages(q)
           demand == BranchDemand(q, request)
           reserved == demand.pages - copies
           partial == q.position % PageTokens
           Sharing(e, copied) ==
             /\ RoomForPages(e, copies)
             /\ CanShare(e, SlotsOf(shared))
             /\ cache' = RefreshStats(InsertSequence(
                  InsertPages(IncrementActiveRefs(e, SlotsOf(shared)), copied, partial),
                  shared \o [i \in 1..copies |-> FreshPageId(e, i)], q.position, reserved, request))
<1>1. CanBranchFrom(s, request)
  BY DEF Branch
<1>2. PICK ids \in EvictionRuns(cache, {}) : CanEvict(cache, ids) /\
        \E copied \in Injection(1..copies, InPool("free")) :
        \E e : EvictedTo(cache, ids, e) /\ Sharing(e, copied)
  BY ZenonT(90) DEF Branch, EvictedTo
<1>3. /\ Sound(cache) /\ ids \subseteq DOMAIN cache.prefixes /\ s \in LiveIn(cache.sequences)
      /\ q.pages \in Seq(PageId)
  BY EvictionRunsParts, SequenceParts DEF IInv, LiveSequences, LiveIn
<1>4. /\ shared \in Seq(PageId) /\ q.position \in Nat /\ copies \in Nat
      /\ partial \in 0..PageTokens
  BY <1>1, BranchParts
<1>5. \A i \in DOMAIN shared : i \in DOMAIN q.pages /\ shared[i] = q.pages[i]
  <2>1. PICK k : k = q.position \div PageTokens
    OBVIOUS
  <2>2. k \in Nat /\ k <= Len(q.pages)
    <3>1. k \in Nat
      BY <1>4, <2>1, DivNat
    <3>2. k + copies <= Len(q.pages)
      BY <1>1, <2>1 DEF CanBranchFrom
    <3> HIDE DEF copies, q
    <3>3. Len(q.pages) \in Nat /\ copies \in Nat
      BY <1>3, <1>4
    <3> QED BY <3>1, <3>2, <3>3
  <2>3. shared = SubSeq(q.pages, 1, k)
    BY <2>1 DEF CompletePages
  <2> HIDE DEF q, shared
  <2> QED BY <1>3, <2>2, <2>3
<1> HIDE DEF Sharing
<1>6. PICK copied \in Injection(1..copies, InPool("free")) :
        \E e : EvictedTo(cache, ids, e) /\ Sharing(e, copied)
  BY <1>2
<1>7. PICK e : EvictedTo(cache, ids, e) /\ Sharing(e, copied)
  BY <1>6
<1>8. Sound(e) /\ Owned(e) /\ e.sequences = cache.sequences
  <2>1. Eviction(cache, ids, e)
    BY <1>2, <1>3, <1>7 DEF Eviction
  <2>2. Evicted(cache, ids, e)
    BY <2>1, EvictedOwned
  <2> QED BY <2>2 DEF Evicted
<1>9. Resolves(e.pages, q.pages) /\ Apart(News(e.sequences), q.pages)
  BY <1>3, <1>8, CommittedApart
<1> HIDE DEF q, copies, partial, reserved
<1>10. Resolves(e.pages, shared) /\ Apart(News(e.sequences), shared)
  <2> HIDE DEF shared
  <2>1. Resolves(e.pages, shared) /\ SlotsOf(shared) \subseteq SlotsOf(q.pages)
    BY <1>5, <1>9, ResolvesPart
  <2> QED BY <1>9, <2>1 DEF Apart
<1>11. copied \in Seq(PhysicalPages) /\ Len(copied) = copies
  BY <1>4, AllocatedPages
<1> HIDE DEF shared
<1>12. /\ RoomForPages(e, Len(copied)) /\ CanShare(e, SlotsOf(shared))
       /\ cache' = RefreshStats(InsertSequence(
                  InsertPages(IncrementActiveRefs(e, SlotsOf(shared)), copied, partial),
                  shared \o FreshIds(e, Len(copied)), q.position, reserved, request))
  BY <1>7, <1>11 DEF Sharing, FreshIds
<1>13. Owned(RefreshStats(InsertSequence(
                  InsertPages(IncrementActiveRefs(e, SlotsOf(shared)), copied, partial),
                  shared \o FreshIds(e, Len(copied)), q.position, reserved, request)))
  BY <1>4, <1>8, <1>10, <1>11, <1>12, NewBranch
<1> QED BY <1>12, <1>13

\* The pages of a pending append, cut in two.
LEMMA CutPages ==
    ASSUME NEW pages \in Seq(PageId), NEW new \in Seq(PageId), NEW k \in 0..Len(new)
    PROVE  LET kept == SubSeq(new, 1, k)
               released == SubSeq(new, k + 1, Len(new))
           IN  /\ kept \in Seq(PageId) /\ released \in Seq(PageId)
               /\ pages \o kept \in Seq(PageId)
               /\ pages \o new = (pages \o kept) \o released
               /\ SlotsOf(released) \subseteq SlotsOf(new)
<1> DEFINE kept == SubSeq(new, 1, k)
           released == SubSeq(new, k + 1, Len(new))
<1>1. Len(pages) \in Nat /\ Len(new) \in Nat /\ k \in Nat
  OBVIOUS
<1>2. /\ kept \in Seq(PageId) /\ Len(kept) = k /\ DOMAIN kept = 1..k
      /\ \A i \in 1..k : kept[i] = new[i]
  BY <1>1
<1>3. /\ released \in Seq(PageId) /\ Len(released) = Len(new) - k
      /\ DOMAIN released = 1..(Len(new) - k)
      /\ \A i \in 1..(Len(new) - k) : released[i] = new[k + i]
  BY <1>1
<1> HIDE DEF kept, released
<1>4. pages \o kept \in Seq(PageId)
  BY <1>2, SlotsJoined
<1>5. pages \o new = (pages \o kept) \o released
  <2>1. PICK front \in Seq(PageId) : front = pages \o kept
    BY <1>4
  <2>2. /\ Len(front) = Len(pages) + k
        /\ \A i \in 1..Len(pages) : front[i] = pages[i]
        /\ \A i \in 1..k : front[Len(pages) + i] = new[i]
    <3>1. /\ Len(front) = Len(pages) + Len(kept)
          /\ \A i \in 1..Len(pages) : front[i] = pages[i]
          /\ \A i \in 1..Len(kept) : front[Len(pages) + i] = kept[i]
      <4>1. kept \in Seq(PageId)
        BY <1>2
      <4> QED BY <2>1, <4>1
    <3> QED BY <1>2, <3>1
  <2>3. PICK a \in Seq(PageId) : a = pages \o new
    BY SlotsJoined
  <2>4. PICK b \in Seq(PageId) : b = front \o released
    BY <1>3, SlotsJoined
  <2>5. /\ Len(a) = Len(pages) + Len(new)
        /\ \A i \in 1..Len(pages) : a[i] = pages[i]
        /\ \A i \in 1..Len(new) : a[Len(pages) + i] = new[i]
    BY <1>1, <2>3
  <2>6. /\ Len(b) = Len(pages) + Len(new)
        /\ \A i \in 1..(Len(pages) + k) : b[i] = front[i]
        /\ \A i \in 1..(Len(new) - k) : b[Len(pages) + k + i] = released[i]
    <3>1. /\ Len(b) = Len(front) + Len(released)
          /\ \A i \in 1..Len(front) : b[i] = front[i]
          /\ \A i \in 1..Len(released) : b[Len(front) + i] = released[i]
      <4>1. released \in Seq(PageId)
        BY <1>3
      <4> QED BY <2>4, <4>1
    <3>2. /\ Len(b) = (Len(pages) + k) + (Len(new) - k)
          /\ \A i \in 1..(Len(pages) + k) : b[i] = front[i]
          /\ \A i \in 1..(Len(new) - k) : b[(Len(pages) + k) + i] = released[i]
      BY <1>3, <2>2, <3>1
    <3>3. (Len(pages) + k) + (Len(new) - k) = Len(pages) + Len(new)
      BY <1>1
    <3> QED BY <3>2, <3>3
  <2>7. ASSUME NEW i \in 1..Len(a) PROVE a[i] = b[i]
    <3>1. CASE i <= Len(pages)
      BY <1>1, <2>2, <2>5, <2>6, <3>1
    <3>2. CASE i > Len(pages) /\ i <= Len(pages) + k
      <4>1. PICK j \in 1..k : i = Len(pages) + j
        <5>1. i - Len(pages) \in 1..k /\ i = Len(pages) + (i - Len(pages))
          BY <1>1, <3>2
        <5> QED BY <5>1
      <4> QED BY <1>1, <2>2, <2>5, <2>6, <4>1
    <3>3. CASE i > Len(pages) + k
      <4>1. PICK j \in 1..(Len(new) - k) : i = Len(pages) + k + j
        <5>1. /\ i - (Len(pages) + k) \in 1..(Len(new) - k)
              /\ i = Len(pages) + k + (i - (Len(pages) + k))
          BY <1>1, <2>5, <3>3
        <5> QED BY <5>1
      <4>2. b[i] = new[k + j]
        BY <1>1, <1>3, <2>6, <4>1
      <4>3. k + j \in 1..Len(new) /\ Len(pages) + (k + j) = i
        BY <1>1, <4>1
      <4> QED BY <2>5, <4>2, <4>3
    <3> QED BY <1>1, <2>5, <3>1, <3>2, <3>3
  <2>8. Len(a) = Len(b)
    BY <2>5, <2>6
  <2>9. a = b
    BY <2>7, <2>8
  <2> QED BY <2>1, <2>3, <2>4, <2>9
<1>6. SlotsOf(released) \subseteq SlotsOf(new)
  <2>1. ASSUME NEW i \in DOMAIN released
        PROVE  k + i \in DOMAIN new /\ released[i] = new[k + i]
    BY <1>1, <1>3
  <2> QED BY <2>1, Zenon DEF SlotsOf
<1> QED BY <1>2, <1>3, <1>4, <1>5, <1>6 DEF kept, released

\* What commit_append has done to the manager before it gives pages back: page counts and
\* entries are the same, and the table of s is `kept'.
Committed(c, s, kept, x) ==
    /\ x.prefixes = c.prefixes /\ x.next_prefix_id = c.next_prefix_id
    /\ DOMAIN x.pages = DOMAIN c.pages
    /\ \A p \in DOMAIN c.pages : SameCounts(c.pages[p], x.pages[p])
    /\ SequencesWith(c.sequences, s, x.sequences)
    /\ x.sequences[s].pages = kept

\* The table of s is `kept' and the pages `released' of its pending append.
SplitTable(q, kept, released) ==
    /\ kept \in Seq(PageId) /\ released \in Seq(PageId)
    /\ Table(q) = kept \o released
    /\ SlotsOf(released) \subseteq SlotsOf(q.pending.new_pages)

\* The end of commit_append and of abort_append.
LEMMA EndedAppend ==
    ASSUME NEW c, Owned(c), NEW s \in LiveIn(c.sequences), NEW x, Sound(x),
           NEW kept, NEW released,
           Committed(c, s, kept, x), SplitTable(c.sequences[s], kept, released)
    PROVE  Owned(Released(x, s, released))
<1>1. PICK r : r = Released(x, s, released)
  OBVIOUS
<1>2. s \in LiveIn(x.sequences)
  BY DEF Committed, SequencesWith, LiveIn
<1>3. /\ r.pages = WithoutPages(x.pages, SlotsOf(released))
      /\ r.prefixes = x.prefixes /\ r.next_prefix_id = x.next_prefix_id
      /\ SequencesWith(x.sequences, s, r.sequences)
      /\ r.sequences[s].pages = x.sequences[s].pages
      /\ r.sequences[s].position = x.sequences[s].position
      /\ r.sequences[s].pending = NoPending
  BY <1>1, <1>2, ReleasedShape
<1>4. SequencesWith(c.sequences, s, r.sequences)
  BY <1>3 DEF Committed, SequencesWith
<1>5. r.sequences[s].pages = kept /\ r.sequences[s].pending.new_pages = <<>>
  BY <1>3 DEF Committed, NoPending
<1>6. Table(r.sequences[s]) = kept
  BY <1>5, TableIs DEF SplitTable
<1>7. DOMAIN r.pages = DOMAIN c.pages
  BY <1>3 DEF WithoutPages, Committed
<1>8. \A p \in DOMAIN c.pages : IF p \in SlotsOf(released) THEN ~r.pages[p].live
                                ELSE SameCounts(c.pages[p], r.pages[p])
  <2>1. \A p \in DOMAIN c.pages :
          r.pages[p] = IF p \in SlotsOf(released) THEN VacantPage(x.pages[p].generation + 1)
                       ELSE x.pages[p]
    BY <1>3 DEF WithoutPages, Committed
  <2>2. \A g : ~VacantPage(g).live
    BY DEF VacantPage
  <2> QED BY <2>1, <2>2 DEF Committed
<1>9. OwnedParts(c.pages, c.sequences, c.prefixes, c.next_prefix_id)
  BY DEF Owned
<1>10. /\ kept \in Seq(PageId) /\ released \in Seq(PageId)
       /\ Table(c.sequences[s]) = kept \o released
       /\ SlotsOf(released) \subseteq SlotsOf(c.sequences[s].pending.new_pages)
  BY DEF SplitTable
<1>11. OwnedParts(r.pages, r.sequences, c.prefixes, c.next_prefix_id)
  BY <1>4, <1>5, <1>6, <1>7, <1>8, <1>9, <1>10, ReleasesOwned
<1> QED BY <1>1, <1>3, <1>11 DEF Owned, Committed

\* abort_append.
LEMMA AbortAppendOwned ==
    ASSUME IInv, Owned(cache), NEW s \in LiveSequences, AbortAppend(s)
    PROVE  Owned(cache')
<1> DEFINE q == cache.sequences[s]
           released == q.pending.new_pages
<1>1. Sound(cache) /\ s \in LiveIn(cache.sequences)
  BY DEF IInv, LiveSequences, LiveIn
<1>2. cache' = Released(cache, s, released)
  BY DEF AbortAppend
<1>3. q.pages \in Seq(PageId) /\ released \in Seq(PageId)
  BY <1>1, ListsTyped
<1>4. SplitTable(q, q.pages, released)
  BY <1>3 DEF SplitTable, Table
<1>5. Committed(cache, s, q.pages, cache)
  BY <1>1 DEF Committed, SequencesWith, LiveIn, SameCounts
<1>6. Owned(Released(cache, s, released))
  <2> HIDE DEF released
  <2> QED BY <1>1, <1>4, <1>5, EndedAppend
<1> QED BY <1>2, <1>6

\* A manager record in which commit_append has set a sequence's table and position.
WithTable(c, s, table, rows) ==
    [c EXCEPT !.sequences[s].pages = table, !.sequences[s].position = @ + rows]

\* commit_append sets the table and the position of one sequence.
LEMMA CommittedShape ==
    ASSUME NEW c, Sound(c), NEW s \in LiveIn(c.sequences), NEW table, NEW rows, NEW x,
           x = WithTable(c, s, table, rows)
    PROVE  /\ x.pages = c.pages /\ x.prefixes = c.prefixes
           /\ x.next_prefix_id = c.next_prefix_id
           /\ SequencesWith(c.sequences, s, x.sequences)
           /\ x.sequences[s].pages = table
           /\ x.sequences[s].position = c.sequences[s].position + rows
           /\ x.sequences[s].generation = c.sequences[s].generation
<1> DEFINE b == [c.sequences[s] EXCEPT !.pages = table, !.position = @ + rows]
<1>1. DOMAIN c = Fields /\ c.sequences[s] \in SequenceSlot /\ s \in DOMAIN c.sequences
      /\ c.sequences[s].live
  BY SequenceParts DEF Sound, LiveIn
<1>2. /\ x.pages = c.pages /\ x.prefixes = c.prefixes /\ x.next_prefix_id = c.next_prefix_id
      /\ x.sequences = [c.sequences EXCEPT ![s] = b]
  BY <1>1 DEF Fields, SequenceSlot, WithTable
<1>3. /\ b.pages = table /\ b.live = c.sequences[s].live
      /\ b.position = c.sequences[s].position + rows
      /\ b.generation = c.sequences[s].generation
  BY <1>1 DEF SequenceSlot
<1> HIDE DEF b
<1>4. /\ SequencesWith(c.sequences, s, x.sequences) /\ x.sequences[s].pages = table
      /\ x.sequences[s].position = c.sequences[s].position + rows
      /\ x.sequences[s].generation = c.sequences[s].generation
  BY <1>1, <1>2, <1>3 DEF SequencesWith
<1> QED BY <1>2, <1>4

\* commit_append.
LEMMA CommitAppendOwned ==
    ASSUME IInv, Owned(cache), NEW s \in LiveSequences, NEW rows \in Rows, CommitAppend(s, rows)
    PROVE  Owned(cache')
<1> DEFINE q == cache.sequences[s]
           new == q.pending.new_pages
           n == NewPageCount(q, rows)
           table == q.pages \o KeptPages(q, rows)
           released == ReleasedPages(q, rows)
           m == MarkCommitted(cache, q, table, rows)
           x == WithTable(m, s, table, rows)
<1>1. Sound(cache) /\ Ledger(cache) /\ s \in LiveIn(cache.sequences)
  BY DEF IInv, LiveSequences, LiveIn
<1>2. /\ PendingAppend(s) /\ n \in 0..Len(new) /\ cache' = Released(x, s, released)
  BY DEF CommitAppend, WithTable
<1>3. /\ q.position \in Nat /\ rows \in Nat /\ table \in Seq(PageId)
      /\ released \in Seq(PageId) /\ Present(cache, released)
  BY <1>2, CommitParts
<1>4. SplitTable(q, table, released)
  <2>1. q.pages \in Seq(PageId) /\ new \in Seq(PageId)
    BY <1>1, ListsTyped
  <2>2. KeptPages(q, rows) = SubSeq(new, 1, n) /\ released = SubSeq(new, n + 1, Len(new))
    BY DEF KeptPages, ReleasedPages
  <2>3. Table(q) = q.pages \o new
    BY DEF Table
  <2> HIDE DEF q, new, n
  <2>4. /\ q.pages \o new = (q.pages \o SubSeq(new, 1, n)) \o SubSeq(new, n + 1, Len(new))
        /\ SlotsOf(SubSeq(new, n + 1, Len(new))) \subseteq SlotsOf(new)
    BY <1>2, <2>1, CutPages
  <2>5. Table(q) = table \o released /\ SlotsOf(released) \subseteq SlotsOf(new)
    BY <2>2, <2>3, <2>4
  <2> HIDE DEF table, released
  <2> QED BY <1>3, <2>5 DEF SplitTable, new
<1> HIDE DEF q, table, released, new, n
<1>5. Sound(m) /\ Ledger(m) /\ SameRest(m, cache) /\ Present(m, released)
  BY <1>1, <1>3, MarkedLedger
<1>6. /\ DOMAIN m.pages = DOMAIN cache.pages
      /\ \A p \in DOMAIN cache.pages : /\ SameCounts(cache.pages[p], m.pages[p])
                                       /\ m.pages[p].physical = cache.pages[p].physical
  BY <1>1, MarkedCounts
<1> HIDE DEF m
<1>7. /\ m.sequences = cache.sequences /\ m.prefixes = cache.prefixes
      /\ m.next_prefix_id = cache.next_prefix_id
      /\ s \in LiveIn(m.sequences) /\ s \in DOMAIN m.sequences
  BY <1>1, <1>5 DEF SameRest, LiveIn
<1>8. Sound(x)
  BY <1>3, <1>5, <1>7, CommittedSound DEF WithTable
<1>record. x = WithTable(m, s, table, rows)
  OBVIOUS
<1> HIDE DEF x
<1>9. /\ x.pages = m.pages /\ x.prefixes = m.prefixes
      /\ x.next_prefix_id = m.next_prefix_id
      /\ SequencesWith(m.sequences, s, x.sequences)
      /\ x.sequences[s].pages = table
      /\ x.sequences[s].position = m.sequences[s].position + rows
      /\ x.sequences[s].generation = m.sequences[s].generation
  BY <1>5, <1>7, <1>record, CommittedShape
<1>10. Committed(cache, s, table, x)
  BY <1>6, <1>7, <1>9 DEF Committed
<1>11. Owned(Released(x, s, released))
  BY <1>1, <1>4, <1>8, <1>10, EndedAppend DEF q
<1> QED BY <1>2, <1>11

\* While no slot is used to its last generation, no page that resolves is exhausted.
LEMMA NoneExhausted ==
    ASSUME PageReuse < MaxGeneration, Owned(cache), NEW ids, Resolves(cache.pages, ids)
    PROVE  Exhausted(ids) = {}
<1>1. Young(cache.pages)
  BY DEF Owned, OwnedParts
<1>2. ASSUME NEW i \in DOMAIN ids, cache.pages[ids[i].slot].generation = MaxGeneration
      PROVE  FALSE
  <2>1. MaxGeneration <= PageReuse
    BY <1>1, <1>2 DEF Resolves, Young
  <2> QED BY <2>1, ConfigAssumption, InputAssumption
<1> QED BY <1>2 DEF Exhausted

\* commit_append and abort_append do not stop half way while no slot is used to its last
\* generation.
LEMMA NeverStops ==
    ASSUME PageReuse < MaxGeneration, IInv, Owned(cache), NEW s \in LiveSequences
    PROVE  /\ ~AbortAppendExhausted(s)
           /\ \A rows \in Rows : ~CommitAppendExhausted(s, rows)
<1> DEFINE q == cache.sequences[s]
           new == q.pending.new_pages
<1>1. Sound(cache) /\ s \in LiveIn(cache.sequences)
  BY DEF IInv, LiveSequences, LiveIn
<1>2. q.pages \in Seq(PageId) /\ new \in Seq(PageId)
  BY <1>1, ListsTyped
<1>3. Resolves(cache.pages, q.pages \o new)
  BY <1>1 DEF Owned, OwnedParts, Refs, Tabs, Table
<1>4. Resolves(cache.pages, new)
  <2> HIDE DEF q, new
  <2> QED BY <1>2, <1>3, JoinedResolves
<1>5. ~AbortAppendExhausted(s)
  <2>1. Exhausted(new) = {}
    <3> HIDE DEF new
    <3> QED BY <1>4, NoneExhausted
  <2> QED BY <2>1 DEF AbortAppendExhausted
<1>6. ASSUME NEW rows \in Rows, CommitAppendExhausted(s, rows) PROVE FALSE
  <2> DEFINE n == NewPageCount(q, rows)
             released == SubSeq(new, n + 1, Len(new))
  <2>1. n \in 0..Len(new) /\ Exhausted(released) # {}
    BY <1>6 DEF CommitAppendExhausted, ReleasedPages
  <2> HIDE DEF q, new, n
  <2>2. /\ q.pages \o new = (q.pages \o SubSeq(new, 1, n)) \o released
        /\ released \in Seq(PageId) /\ q.pages \o SubSeq(new, 1, n) \in Seq(PageId)
    BY <1>2, <2>1, CutPages
  <2> HIDE DEF released
  <2>3. PICK front \in Seq(PageId) : front = q.pages \o SubSeq(new, 1, n)
    BY <2>2
  <2>4. Resolves(cache.pages, front \o released)
    BY <1>3, <2>2, <2>3
  <2>5. Resolves(cache.pages, released)
    BY <2>2, <2>4, JoinedResolves
  <2> QED BY <2>1, <2>5, NoneExhausted
<1> QED BY <1>5, <1>6

\* A manager starts empty.
LEMMA InitEmpty ==
    ASSUME Init
    PROVE  /\ cache.pages = <<>> /\ cache.sequences = <<>> /\ cache.prefixes = <<>>
           /\ cache.deferred_pages = 0
<1> DEFINE e == [pages |-> <<>>, free_page_slots |-> <<>>,
                 sequences |-> <<>>, free_sequence_slots |-> <<>>,
                 prefixes |-> <<>>, lru |-> {}, tree |-> <<>>,
                 next_prefix_id |-> 0, clock |-> 0, deferred_pages |-> 0,
                 stats |-> EmptyStats]
<1>1. cache = RefreshStats(e)
  BY DEF Init, EmptyCache
<1>2. /\ DOMAIN e = Fields /\ e.pages = <<>> /\ e.sequences = <<>> /\ e.prefixes = <<>>
      /\ e.deferred_pages = 0
  BY DEF Fields
<1> HIDE DEF e
<1> QED BY <1>1, <1>2, RefreshRest DEF SameRest

\* A new manager has no pages, sequences and entries.
LEMMA InitOwned == Init => Owned(cache)
<1> SUFFICES ASSUME Init PROVE Owned(cache)
  OBVIOUS
<1>3. cache.pages = <<>> /\ cache.sequences = <<>> /\ cache.prefixes = <<>>
  BY InitEmpty
<1>4. LiveIn(cache.sequences) = {} /\ DOMAIN cache.prefixes = {} /\ DOMAIN cache.pages = {}
  BY <1>3 DEF LiveIn
<1>5. DOMAIN Tabs(cache.sequences) = {} /\ DOMAIN News(cache.sequences) = {}
      /\ DOMAIN Keeps(cache.prefixes) = {}
  BY <1>4 DEF Tabs, News, Keeps
<1>6. Refs(cache.pages, Tabs(cache.sequences), Keeps(cache.prefixes))
  BY <1>4, <1>5, FS_EmptySet DEF Refs
<1>7. Exclusive(Tabs(cache.sequences), Keeps(cache.prefixes), News(cache.sequences))
  BY <1>5 DEF Exclusive
<1> QED BY <1>4, <1>6, <1>7 DEF Owned, OwnedParts, Dated, Young

\* Every step keeps ownership exact.
LEMMA NextOwned ==
    ASSUME PageReuse < MaxGeneration, IInv, Owned(cache), [Next]_vars
    PROVE  Owned(cache')
<1>1. CASE UNCHANGED vars
  BY <1>1 DEF vars, Owned
<1>2. ASSUME NEW polled \in SUBSET InPool("deferred"), ReclaimDeferred(polled)
      PROVE  Owned(cache')
  BY <1>2, PolledOwned DEF ReclaimDeferred
<1>3. ASSUME NEW polled \in SUBSET InPool("deferred"), NEW prefix \in Matches,
             NEW request \in Requests, Admit(polled, prefix, request)
      PROVE  Owned(cache')
  BY <1>3, AdmitOwned
<1>4. ASSUME NEW polled \in SUBSET InPool("deferred"), NEW prefix \in Matches,
             NEW request \in Requests, NEW outcome \in {"would_block", "refused", "backend"},
             AdmitDeclined(polled, prefix, request, outcome)
      PROVE  Owned(cache')
  BY <1>4, PolledOwned DEF AdmitDeclined
<1>5. ASSUME NEW s \in LiveSequences, NEW rows \in Rows, ReserveAppend(s, rows)
      PROVE  Owned(cache')
  BY <1>5, ReserveAppendOwned
<1>6. ASSUME NEW s \in LiveSequences, NEW rows \in Rows, CommitAppend(s, rows)
      PROVE  Owned(cache')
  BY <1>6, CommitAppendOwned
<1>7. ASSUME NEW s \in LiveSequences, NEW rows \in Rows, CommitAppendExhausted(s, rows)
      PROVE  Owned(cache')
  BY <1>7, NeverStops
<1>8. ASSUME NEW s \in LiveSequences, AbortAppend(s) PROVE Owned(cache')
  BY <1>8, AbortAppendOwned
<1>9. ASSUME NEW s \in LiveSequences, AbortAppendExhausted(s) PROVE Owned(cache')
  BY <1>9, NeverStops
<1>10. ASSUME NEW prompt, NEW tail, LookupPrefix(prompt, tail) PROVE Owned(cache')
  BY <1>10, TouchOwned DEF LookupPrefix
<1>11. ASSUME NEW s \in LiveSequences, NEW key \in KeysFor(s), RetainDuplicate(s, key)
       PROVE  Owned(cache')
  BY <1>11, TouchOwned DEF RetainDuplicate
<1>12. ASSUME NEW s \in LiveSequences, NEW n \in SnapshotSizes, NEW key \in KeysFor(s),
              RetainPrefix(s, key, n)
       PROVE  Owned(cache')
  BY <1>12, RetainPrefixOwned
<1>13. ASSUME NEW id \in DOMAIN cache.prefixes, EvictPrefix(id) PROVE Owned(cache')
  BY <1>13, EvictPrefixOwned
<1>14. ASSUME NEW s \in LiveSequences, NEW request \in Requests, Branch(s, request)
       PROVE  Owned(cache')
  BY <1>14, BranchOwned
<1>15. ASSUME NEW s \in LiveSequences, Finish(s) PROVE Owned(cache')
  BY <1>15, FinishOwned
<1>16. CASE \/ PollFails
            \/ \E s \in LiveSequences : FinalizeFails(s)
            \/ \E s \in LiveSequences, n \in SnapshotSizes, outcome \in {"refused", "backend"} :
                 \E key \in KeysFor(s) : RetainDeclined(s, key, n, outcome)
            \/ \E s \in LiveSequences, request \in Requests : BranchWouldBlock(s, request)
            \/ RetireFails
  <2>1. UNCHANGED cache
    BY <1>16 DEF PollFails, FinalizeFails, RetainDeclined, BranchWouldBlock, RetireFails,
                 Unchanged
  <2> QED BY <2>1 DEF Owned
<1>17. CASE \/ \E s \in LiveSequences, rows \in Rows : ReserveAppendFails(s, rows)
            \/ \E s \in LiveSequences, request \in Requests : BranchFails(s, request)
            \/ \E s \in LiveSequences, request \in Requests : BranchEvictionFails(s, request)
  <2>1. UNCHANGED cache
    BY <1>17 DEF ReserveAppendFails, BranchFails, BranchEvictionFails
  <2> QED BY <2>1 DEF Owned
<1>18. CASE Next
  BY <1>2, <1>3, <1>4, <1>5, <1>6, <1>7, <1>8, <1>9, <1>10, <1>11, <1>12, <1>13, <1>14, <1>15,
     <1>16, <1>17, <1>18 DEF Next
<1> QED BY <1>1, <1>18

\* Exact ownership is what the property says of it.
LEMMA OwnedReferences ==
    ASSUME IInv, Owned(cache)
    PROVE  ReferencesExact
<1> DEFINE tabs == Tabs(cache.sequences)
           keeps == Keeps(cache.prefixes)
<1>1. Sound(cache) /\ Refs(cache.pages, tabs, keeps)
  BY DEF IInv, Owned, OwnedParts
<1>2. LiveSequences = DOMAIN tabs /\ DOMAIN keeps = DOMAIN cache.prefixes
  BY DEF LiveSequences, Tabs, Keeps, LiveIn
<1>3. \A s \in LiveSequences : /\ tabs[s] = Table(cache.sequences[s]) /\ tabs[s] \in Seq(PageId)
                               /\ Resolves(cache.pages, tabs[s])
  <2>1. LiveSequences = LiveIn(cache.sequences)
    BY DEF LiveSequences, LiveIn
  <2> QED BY <1>1, <1>2, <2>1, ListsTyped DEF Refs, Tabs
<1>4. \A id \in DOMAIN cache.prefixes :
        /\ keeps[id] = cache.prefixes[id].pages /\ keeps[id] \in Seq(PageId)
        /\ Resolves(cache.pages, keeps[id])
  BY <1>1, <1>2, ListsTyped DEF Refs, Keeps
<1>5. \A ids : Resolves(cache.pages, ids) => AllLive(cache, ids)
  BY DEF Resolves, AllLive, LivePage
<1>6. ASSUME NEW p \in LivePageSlots
      PROVE  LET page  == PageIdAt(cache, p)
                 users == {s \in LiveSequences : page \in Range(Table(cache.sequences[s]))}
                 kept == {id \in DOMAIN cache.prefixes : page \in Range(cache.prefixes[id].pages)}
             IN  /\ cache.pages[p].active_refs = Cardinality(users)
                 /\ cache.pages[p].prefix_refs = Cardinality(kept)
                 /\ users # {} \/ kept # {}
  <2> DEFINE page  == PageIdAt(cache, p)
             users == {s \in LiveSequences : page \in Range(Table(cache.sequences[s]))}
             kept == {id \in DOMAIN cache.prefixes : page \in Range(cache.prefixes[id].pages)}
  <2>1. \A s \in LiveSequences : page \in Range(tabs[s]) <=> p \in SlotsOf(tabs[s])
    BY <1>3, HandleListed
  <2>2. \A id \in DOMAIN cache.prefixes : page \in Range(keeps[id]) <=> p \in SlotsOf(keeps[id])
    BY <1>4, HandleListed
  <2> HIDE DEF tabs, keeps, page
  <2>3. users = Users(tabs, p)
    BY <1>2, <1>3, <2>1 DEF Users
  <2>4. kept = Users(keeps, p)
    BY <1>2, <1>4, <2>2 DEF Users
  <2>5. Counted(cache.pages[p], tabs, keeps, p)
    BY <1>1, <1>6 DEF Refs, LivePageSlots
  <2>6. /\ Cardinality(Users(tabs, p)) = 0 <=> Users(tabs, p) = {}
        /\ Cardinality(Users(keeps, p)) = 0 <=> Users(keeps, p) = {}
    BY <1>1, UsersFinite DEF Refs
  <2> HIDE DEF users, kept
  <2>7. /\ cache.pages[p].active_refs = Cardinality(users)
        /\ cache.pages[p].prefix_refs = Cardinality(kept)
        /\ users # {} \/ kept # {}
    BY <2>3, <2>4, <2>5, <2>6 DEF Counted
  <2> QED BY <2>7 DEF users, kept, page
<1>7. \A s \in LiveSequences : AllLive(cache, Table(cache.sequences[s]))
  BY <1>3, <1>5
<1>8. \A id \in DOMAIN cache.prefixes : AllLive(cache, cache.prefixes[id].pages)
  BY <1>4, <1>5
<1> QED BY <1>6, <1>7, <1>8 DEF ReferencesExact

----------------------------------------------------------------------------
(* The theorems. *)

\* Ownership is exact in every state, for every configuration in which no page slot is
\* used to its last generation.
THEOREM OwnershipInvariant ==
    ASSUME PageReuse < MaxGeneration
    PROVE  Spec => [](IInv /\ Owned(cache))
<1>1. Init => IInv /\ Owned(cache)
  BY InitIInv, InitOwned
<1>2. (IInv /\ Owned(cache)) /\ [Next]_vars => (IInv /\ Owned(cache))'
  <2> SUFFICES ASSUME IInv, Owned(cache), [Next]_vars PROVE (IInv /\ Owned(cache))'
    OBVIOUS
  <2>1. IInv'
    BY NextIInv
  <2>2. Owned(cache')
    BY NextOwned
  <2>3. Owned(cache)'
    BY <2>2 DEF Owned
  <2> QED BY <2>1, <2>3
<1> QED BY <1>1, <1>2, PTL DEF Spec

\* For every configuration in which no page slot is used to its last generation, every
\* handle that a live sequence, a pending append or a retained entry holds resolves, the
\* two counts of a page are the numbers of those that list it, and no live page is
\* without an owner: a page is never retired while someone reads it nor kept for nobody,
\* over any mixture of admissions, appends, branches, retentions, evictions and the
\* failures of the backend (increment_active_ref, increment_prefix_ref,
\* decrement_active_ref, plan_evictions, commit_evictions, finish).
THEOREM ReferencesCorrect ==
    ASSUME PageReuse < MaxGeneration
    PROVE  Spec => []ReferencesExact
<1>1. IInv /\ Owned(cache) => ReferencesExact
  BY OwnedReferences
<1> QED BY <1>1, OwnershipInvariant, PTL

----------------------------------------------------------------------------
(* Arenas and their updates. *)

\* The slot advances its generation, or the page stays on its storage.
PageKept(old, new) ==
    /\ new.generation >= old.generation
    /\ old.live /\ new.generation = old.generation =>
         new.live /\ new.physical = old.physical

\* The same of all pages.
Evolves(pages, after) ==
    \A p \in DOMAIN pages : p \in DOMAIN after /\ PageKept(pages[p], after[p])

\* A list goes on where another one ends.
Continues(ids, after) == \A i \in DOMAIN ids : i \in DOMAIN after /\ after[i] = ids[i]

\* The slot advances its generation, or the sequence stays and goes on.
SequenceKept(old, new) ==
    /\ new.generation >= old.generation
    /\ old.live /\ new.generation = old.generation =>
         /\ new.live
         /\ new.position >= old.position
         /\ Continues(old.pages, new.pages)

\* The same of all sequences.
Follows(sequences, after) ==
    \A s \in DOMAIN sequences : s \in DOMAIN after /\ SequenceKept(sequences[s], after[s])

\* Both of a manager record and a later one.
Keeping(c, d) == Evolves(c.pages, d.pages) /\ Follows(c.sequences, d.sequences)

\* Every arena keeps what it has.
LEMMA PagesSame ==
    ASSUME NEW c, Sound(c)
    PROVE  Evolves(c.pages, c.pages)
<1>1. \A p \in DOMAIN c.pages : c.pages[p].generation \in Nat
  BY PagesTyped DEF PageSlot
<1> QED BY <1>1 DEF Evolves, PageKept

\* The same of the sequences.
LEMMA SequencesSame ==
    ASSUME NEW c, Sound(c)
    PROVE  Follows(c.sequences, c.sequences)
<1>1. \A s \in DOMAIN c.sequences : c.sequences[s] \in SequenceSlot
  BY SequencesParts DEF Sound
<1>2. \A s \in DOMAIN c.sequences : /\ c.sequences[s].generation \in Nat
                                    /\ c.sequences[s].position \in Nat
  BY <1>1 DEF SequenceSlot
<1> QED BY <1>2 DEF Follows, SequenceKept, Continues

\* What a page is through one update and another it is through both.
LEMMA EvolvesOn ==
    ASSUME NEW a, NEW b, NEW c, Evolves(a, b), Evolves(b, c),
           \A p \in DOMAIN a : a[p].generation \in Nat,
           \A p \in DOMAIN b : b[p].generation \in Nat,
           \A p \in DOMAIN c : c[p].generation \in Nat
    PROVE  Evolves(a, c)
<1> SUFFICES ASSUME NEW p \in DOMAIN a PROVE p \in DOMAIN c /\ PageKept(a[p], c[p])
  BY DEF Evolves
<1>1. /\ p \in DOMAIN b /\ p \in DOMAIN c
      /\ PageKept(a[p], b[p]) /\ PageKept(b[p], c[p])
  BY DEF Evolves
<1>2. a[p].generation \in Nat /\ b[p].generation \in Nat /\ c[p].generation \in Nat
  BY <1>1
<1> QED BY <1>1, <1>2 DEF PageKept

\* An update of the counts of some pages.
LEMMA MoreActiveEvolves ==
    ASSUME NEW c, Sound(c), NEW slots
    PROVE  Evolves(c.pages, MoreActive(c.pages, slots))
<1>1. \A p \in DOMAIN c.pages : c.pages[p] \in PageSlot
  BY PagesTyped
<1> QED BY <1>1 DEF Evolves, PageKept, MoreActive, PageSlot

\* The same of the other count.
LEMMA MorePrefixEvolves ==
    ASSUME NEW c, Sound(c), NEW slots
    PROVE  Evolves(c.pages, MorePrefix(c.pages, slots))
<1>1. \A p \in DOMAIN c.pages : c.pages[p] \in PageSlot
  BY PagesTyped
<1> QED BY <1>1 DEF Evolves, PageKept, MorePrefix, PageSlot

\* remove_page.
LEMMA WithoutEvolves ==
    ASSUME NEW c, Sound(c), NEW slots
    PROVE  Evolves(c.pages, WithoutPages(c.pages, slots))
<1>1. \A p \in DOMAIN c.pages : c.pages[p] \in PageSlot
  BY PagesTyped
<1> QED BY <1>1 DEF Evolves, PageKept, WithoutPages, VacantPage, PageSlot

\* finish.
LEMMA FinishEvolves ==
    ASSUME NEW c, Sound(c), NEW sole, NEW others
    PROVE  Evolves(c.pages, AfterFinish(c.pages, sole, others))
<1>1. \A p \in DOMAIN c.pages : c.pages[p] \in PageSlot
  BY PagesTyped
<1> QED BY <1>1 DEF Evolves, PageKept, AfterFinish, VacantPage, PageSlot

\* commit_evictions.
LEMMA EvictionEvolves ==
    ASSUME NEW c, Sound(c), NEW ids, NEW later, NEW e, EvictShape(c, ids, later, e)
    PROVE  Evolves(c.pages, e.pages)
<1>1. \A p \in DOMAIN c.pages : c.pages[p] \in PageSlot
  BY PagesTyped
<1>2. \A p \in DOMAIN c.pages : PageKept(c.pages[p], AfterEviction(c, ids, p))
  BY <1>1 DEF PageKept, AfterEviction, VacantPage, PageSlot
<1> QED BY <1>2 DEF Evolves, EvictShape

\* insert_page: a slot that is taken again keeps its generation.
LEMMA TakenEvolves ==
    ASSUME NEW c, Sound(c), NEW n, NEW physical, NEW valid, NEW more,
           Taken(c.pages, FreshIds(c, n), physical, valid, more)
    PROVE  Evolves(c.pages, more)
<1> DEFINE new == FreshIds(c, n)
<1>1. \A p \in DOMAIN c.pages : c.pages[p].generation \in Nat
  BY PagesTyped DEF PageSlot
<1>2. \A i \in DOMAIN new : new[i].slot \in DOMAIN c.pages =>
                              new[i].generation = c.pages[new[i].slot].generation
  BY DEF FreshIds, FreshPageId, FreshGeneration
<1> HIDE DEF new
<1> SUFFICES ASSUME NEW p \in DOMAIN c.pages PROVE p \in DOMAIN more /\ PageKept(c.pages[p], more[p])
  BY DEF Evolves
<1>3. Taken(c.pages, new, physical, valid, more)
  BY DEF new
<1>4. CASE p \in SlotsOf(new)
  <2>1. PICK i \in DOMAIN new : new[i].slot = p
    BY <1>4 DEF SlotsOf
  <2>2. /\ more[p] = PrivatePage(new[i].generation, physical[i], valid)
        /\ ~c.pages[p].live /\ p \in DOMAIN more
    BY <1>3, <1>4, <2>1 DEF Taken
  <2>3. more[p].generation = c.pages[p].generation
    BY <1>2, <2>1, <2>2 DEF PrivatePage
  <2> QED BY <1>1, <2>2, <2>3 DEF PageKept
<1>5. CASE p \notin SlotsOf(new)
  <2>1. p \in DOMAIN more /\ more[p] = c.pages[p]
    BY <1>3, <1>5 DEF Taken
  <2> QED BY <1>1, <2>1 DEF PageKept
<1> QED BY <1>4, <1>5

\* The generations of a sound record are numbers.
LEMMA Generations ==
    ASSUME NEW c, Sound(c)
    PROVE  /\ \A p \in DOMAIN c.pages : c.pages[p].generation \in Nat
           /\ \A s \in DOMAIN c.sequences : /\ c.sequences[s].generation \in Nat
                                            /\ c.sequences[s].position \in Nat
<1>1. \A p \in DOMAIN c.pages : c.pages[p].generation \in Nat
  BY PagesTyped DEF PageSlot
<1>2. \A s \in DOMAIN c.sequences : c.sequences[s] \in SequenceSlot
  BY SequenceParts
<1> QED BY <1>1, <1>2 DEF SequenceSlot

\* A chain of updates of sound records.
LEMMA EvolvesChain ==
    ASSUME NEW a, Sound(a), NEW b, Sound(b), NEW c, Sound(c),
           Evolves(a.pages, b.pages), Evolves(b.pages, c.pages)
    PROVE  Evolves(a.pages, c.pages)
<1>1. /\ \A p \in DOMAIN a.pages : a.pages[p].generation \in Nat
      /\ \A p \in DOMAIN b.pages : b.pages[p].generation \in Nat
      /\ \A p \in DOMAIN c.pages : c.pages[p].generation \in Nat
  BY Generations
<1> QED BY <1>1, EvolvesOn

\* A record written in the arena of sequences.
LEMMA RecordFollows ==
    ASSUME NEW c, Sound(c), NEW s, NEW after, SequencesWith(c.sequences, s, after),
           s \in DOMAIN c.sequences => SequenceKept(c.sequences[s], after[s])
    PROVE  Follows(c.sequences, after)
<1>1. Follows(c.sequences, c.sequences)
  BY SequencesSame
<1> SUFFICES ASSUME NEW t \in DOMAIN c.sequences
             PROVE  t \in DOMAIN after /\ SequenceKept(c.sequences[t], after[t])
  BY DEF Follows
<1>2. t \in DOMAIN after
  BY DEF SequencesWith
<1>3. CASE t = s
  BY <1>2, <1>3
<1>4. CASE t # s
  BY <1>1, <1>2, <1>4 DEF SequencesWith, Follows
<1> QED BY <1>3, <1>4

\* insert_sequence gives a slot that is taken again the generation it was left with.
LEMMA InsertFollows ==
    ASSUME NEW c, Sound(c), NEW pages \in Seq(PageId), NEW position, NEW reserved, NEW request,
           NEW r, r = RefreshStats(InsertSequence(c, pages, position, reserved, request))
    PROVE  Follows(c.sequences, r.sequences) /\ r.pages = c.pages
<1> DEFINE s == NextSequenceSlot(c)
           record == NewRecord(c, pages, position, reserved, request)
<1>1. /\ r.pages = c.pages
      /\ s \notin LiveIn(c.sequences) /\ SequencesWith(c.sequences, s, r.sequences)
      /\ r.sequences[s] = record
  BY InsertSequenceShape
<1>2. record.generation = NextSequenceGeneration(c)
  BY DEF NewRecord
<1>3. ASSUME s \in DOMAIN c.sequences PROVE SequenceKept(c.sequences[s], r.sequences[s])
  <2>1. SequencesOK(c.sequences, c.free_sequence_slots)
    BY DEF Sound
  <2>2. DOMAIN c.sequences = 1..Len(c.sequences) /\ Len(c.sequences) \in Nat
    BY <2>1, SequencesParts
  <2>3. c.free_sequence_slots # <<>>
    BY <1>3, <2>1, <2>2, NextSlotParts
  <2>4. NextSequenceGeneration(c) = c.sequences[s].generation
    BY <2>3 DEF NextSequenceGeneration
  <2>5. c.sequences[s].generation \in Nat /\ ~c.sequences[s].live
    BY <1>1, <1>3, Generations DEF LiveIn
  <2> HIDE DEF s, record
  <2> QED BY <1>1, <1>2, <2>4, <2>5 DEF SequenceKept
<1> HIDE DEF s, record
<1> QED BY <1>1, <1>3, RecordFollows

----------------------------------------------------------------------------
(* Every operation keeps what handles name. *)

\* What leaves both arenas alone.
LEMMA SameKeeping ==
    ASSUME NEW c, Sound(c), NEW r, r.pages = c.pages, r.sequences = c.sequences
    PROVE  Keeping(c, r)
BY PagesSame, SequencesSame DEF Keeping

\* An eviction as part of an operation.
LEMMA EvictionKeeping ==
    ASSUME NEW c, Sound(c), NEW ids, ids \subseteq DOMAIN c.prefixes, CanEvict(c, ids),
           NEW e, EvictedTo(c, ids, e)
    PROVE  /\ Sound(e) /\ Evolves(c.pages, e.pages) /\ e.sequences = c.sequences
           /\ DOMAIN e.pages = DOMAIN c.pages
<1>1. PICK slots \in SetToSeqs(RetireSlots(c, ids)) :
        \E later \in Deferrable({c.pages[s].physical : s \in Range(slots)}) :
          e = CommitEvictions(c, ids, slots, Cardinality(later))
  BY DEF EvictedTo
<1>2. PICK later \in Deferrable({c.pages[s].physical : s \in Range(slots)}) :
        e = CommitEvictions(c, ids, slots, Cardinality(later))
  BY <1>1
<1>3. Sound(e) /\ Cardinality(later) \in Nat /\ e.sequences = c.sequences
      /\ DOMAIN e.pages = DOMAIN c.pages
  BY <1>2, EvictedParts
<1>4. EvictShape(c, ids, Cardinality(later), e)
  BY <1>2, <1>3, EvictShaped
<1> QED BY <1>3, <1>4, EvictionEvolves

\* A poll leaves both arenas alone.
LEMMA PolledSame ==
    ASSUME IInv, NEW polled
    PROVE  /\ Reclaimed(polled).pages = cache.pages
           /\ Reclaimed(polled).sequences = cache.sequences
<1> DEFINE x == [cache EXCEPT !.deferred_pages = @ - Cardinality(polled)]
           r == Reclaimed(polled)
<1>1. DOMAIN x = Fields /\ x.pages = cache.pages /\ x.sequences = cache.sequences
  BY DEF IInv, Sound, Fields
<1>2. r = RefreshStats(x)
  BY DEF Reclaimed
<1> HIDE DEF x
<1>3. r.pages = cache.pages /\ r.sequences = cache.sequences
  BY <1>1, <1>2, RefreshRest DEF SameRest
<1> QED BY <1>3

\* reclaim_deferred, and an admission that only polls.
LEMMA PolledKeeping ==
    ASSUME IInv, NEW polled
    PROVE  Keeping(cache, Reclaimed(polled))
<1>1. Sound(cache)
  BY DEF IInv
<1> QED BY <1>1, PolledSame, SameKeeping

\* lookup_prefix, and retain_prefix of what is retained already.
LEMMA TouchKeeping ==
    ASSUME IInv, NEW id \in DOMAIN cache.prefixes
    PROVE  Keeping(cache, Touch(cache, id))
<1>1. Sound(cache)
  BY DEF IInv
<1>2. Touch(cache, id).pages = cache.pages /\ Touch(cache, id).sequences = cache.sequences
  BY <1>1, TouchLists
<1> QED BY <1>1, <1>2, SameKeeping

\* evict_prefix.
LEMMA EvictPrefixKeeping ==
    ASSUME IInv, NEW id \in DOMAIN cache.prefixes, EvictPrefix(id)
    PROVE  Keeping(cache, cache')
<1>1. Sound(cache) /\ CanEvict(cache, {id}) /\ EvictedTo(cache, {id}, cache')
  BY DEF IInv, EvictPrefix, EvictedTo
<1>2. Evolves(cache.pages, cache'.pages) /\ cache'.sequences = cache.sequences
  BY <1>1, EvictionKeeping
<1> QED BY <1>1, <1>2, SequencesSame DEF Keeping

\* A sequence that shares pages.
LEMMA SharerKeeping ==
    ASSUME NEW e, Sound(e), NEW ids \in Seq(PageId), SlotsOf(ids) \subseteq DOMAIN e.pages,
           CanShare(e, SlotsOf(ids)), NEW position, NEW reserved, NEW request, NEW r,
           r = RefreshStats(InsertSequence(IncrementActiveRefs(e, SlotsOf(ids)), ids,
                                           position, reserved, request))
    PROVE  Keeping(e, r)
<1> DEFINE x == IncrementActiveRefs(e, SlotsOf(ids))
<1>1. Sound(x)
  BY SharedTaken
<1>2. x.sequences = e.sequences /\ x.pages = MoreActive(e.pages, SlotsOf(ids))
  BY SharedShape DEF SameRest
<1>3. Evolves(e.pages, x.pages)
  BY <1>2, MoreActiveEvolves
<1>4. r = RefreshStats(InsertSequence(x, ids, position, reserved, request))
  OBVIOUS
<1> HIDE DEF x
<1>5. Follows(x.sequences, r.sequences) /\ r.pages = x.pages
  BY <1>1, <1>4, InsertFollows
<1> QED BY <1>2, <1>3, <1>5 DEF Keeping

\* admit.
LEMMA AdmitKeeping ==
    ASSUME IInv, NEW polled \in SUBSET InPool("deferred"), NEW prefix, NEW request,
           Admit(polled, prefix, request), Sound(cache')
    PROVE  Keeping(cache, cache')
<1> DEFINE c == Reclaimed(polled)
           shared == SharedPages(c, prefix)
           demand == AdmitDemand(c, prefix, request)
<1>1. /\ cache.deferred_pages - Cardinality(polled) \in Nat
      /\ prefix \subseteq DOMAIN c.prefixes /\ AllLive(c, shared)
  BY DEF Admit, Admissible
<1>2. Sound(c) /\ c.pages = cache.pages /\ c.sequences = cache.sequences
  BY <1>1, PolledParts, PolledSame
<1>3. PICK ids \in EvictionRuns(c, prefix) : CanEvict(c, ids) /\ \E e :
        /\ EvictedTo(c, ids, e)
        /\ CanShare(e, SlotsOf(shared))
        /\ cache' = RefreshStats(InsertSequence(IncrementActiveRefs(e, SlotsOf(shared)),
                      shared, PrefixPosition(c, prefix), demand.pages, request))
  BY DEF Admit, EvictedTo
<1>4. PICK e : /\ EvictedTo(c, ids, e)
               /\ CanShare(e, SlotsOf(shared))
               /\ cache' = RefreshStats(InsertSequence(IncrementActiveRefs(e, SlotsOf(shared)),
                             shared, PrefixPosition(c, prefix), demand.pages, request))
  BY <1>3
<1>5. ids \subseteq DOMAIN c.prefixes /\ shared \in Seq(PageId)
  BY <1>1, <1>2, EvictionRunsParts, SharedParts
<1>6. SlotsOf(shared) \subseteq DOMAIN c.pages
  BY <1>1 DEF AllLive, LivePage, SlotsOf
<1> HIDE DEF c, shared, demand
<1>7. /\ Sound(e) /\ Evolves(c.pages, e.pages) /\ e.sequences = c.sequences
      /\ DOMAIN e.pages = DOMAIN c.pages
  BY <1>2, <1>3, <1>4, <1>5, EvictionKeeping
<1>8. Keeping(e, cache')
  BY <1>4, <1>5, <1>6, <1>7, SharerKeeping
<1>9. Evolves(c.pages, cache'.pages)
  BY <1>2, <1>7, <1>8, EvolvesChain DEF Keeping
<1> QED BY <1>2, <1>7, <1>8, <1>9 DEF Keeping

\* retain_prefix.
LEMMA RetainPrefixKeeping ==
    ASSUME IInv, NEW s \in LiveSequences, NEW n, NEW key, RetainPrefix(s, key, n), Sound(cache')
    PROVE  Keeping(cache, cache')
<1>1. PICK ids \in EvictionRuns(cache, {}) : CanEvict(cache, ids) /\ \E e :
        EvictedTo(cache, ids, e) /\ cache' = InsertEntry(e, s, key, n)
  BY DEF RetainPrefix, EvictedTo
<1>2. PICK e : EvictedTo(cache, ids, e) /\ cache' = InsertEntry(e, s, key, n)
  BY <1>1
<1>3. Sound(cache) /\ ids \subseteq DOMAIN cache.prefixes
  BY EvictionRunsParts DEF IInv
<1>4. Sound(e) /\ Evolves(cache.pages, e.pages) /\ e.sequences = cache.sequences
  BY <1>1, <1>2, <1>3, EvictionKeeping
<1>5. /\ cache'.pages = MorePrefix(e.pages, SlotsOf(e.sequences[s].pages))
      /\ cache'.sequences = e.sequences
  BY <1>2, <1>4, InsertEntryShape
<1>6. Evolves(e.pages, cache'.pages)
  BY <1>4, <1>5, MorePrefixEvolves
<1>7. Evolves(cache.pages, cache'.pages)
  BY <1>3, <1>4, <1>6, EvolvesChain
<1> QED BY <1>3, <1>4, <1>5, <1>7, SequencesSame DEF Keeping

\* finish.
LEMMA FinishKeeping ==
    ASSUME IInv, NEW s \in LiveSequences, Finish(s)
    PROVE  Keeping(cache, cache')
<1> DEFINE q == cache.sequences[s]
           ids == q.pages
           sole == SoleSlots(q)
<1>1. PICK slots \in SetToSeqs(sole) :
        \E later \in Deferrable({cache.pages[p].physical : p \in sole}) :
          cache' = RefreshStats(RemoveSequence(
                  DecrementActiveRefs(RetirePages(cache, slots, Cardinality(later)),
                                      SlotsOf(ids) \ sole), s))
  BY DEF Finish
<1>2. PICK later :
        cache' = RefreshStats(RemoveSequence(
                  DecrementActiveRefs(RetirePages(cache, slots, Cardinality(later)),
                                      SlotsOf(ids) \ sole), s))
  BY <1>1
<1>3. /\ Sound(cache) /\ s \in LiveIn(cache.sequences) /\ AllLive(cache, ids)
  BY DEF IInv, LiveSequences, LiveIn, Finish, CanFinish
<1>4. sole \in SUBSET DOMAIN cache.pages
  BY <1>3 DEF SoleSlots, AllLive, LivePage, SlotsOf
<1>5. Range(slots) = sole
  <2>1. sole \in SUBSET Nat /\ IsFiniteSet(sole)
    BY <1>3, <1>4, ReclaimableBytesInt DEF Sound
  <2> HIDE DEF sole
  <2> QED BY <1>1, <2>1, SeqOfSet
<1> HIDE DEF sole
<1>6. PICK r : r = RefreshStats(RemoveSequence(
                  DecrementActiveRefs(RetirePages(cache, slots, Cardinality(later)),
                                      SlotsOf(ids) \ sole), s))
  OBVIOUS
<1>7. /\ r.pages = AfterFinish(cache.pages, sole, SlotsOf(ids) \ sole)
      /\ r.prefixes = cache.prefixes /\ r.next_prefix_id = cache.next_prefix_id
      /\ DOMAIN r.sequences = DOMAIN cache.sequences /\ ~r.sequences[s].live
      /\ r.sequences[s].generation = cache.sequences[s].generation + 1
      /\ \A t \in DOMAIN cache.sequences : t # s => r.sequences[t] = cache.sequences[t]
  <2>1. PICK others, count : others = SlotsOf(ids) \ sole /\ count = Cardinality(later)
    OBVIOUS
  <2>2. others \cap sole = {} /\ r = RefreshStats(RemoveSequence(
                  DecrementActiveRefs(RetirePages(cache, slots, count), others), s))
    BY <1>6, <2>1
  <2> HIDE DEF ids
  <2> QED BY <1>3, <1>5, <2>1, <2>2, FinishShape
<1>8. Evolves(cache.pages, r.pages)
  BY <1>3, <1>7, FinishEvolves
<1>9. Follows(cache.sequences, r.sequences)
  <2>1. Follows(cache.sequences, cache.sequences) /\ s \in DOMAIN cache.sequences
        /\ cache.sequences[s].generation \in Nat
    BY <1>3, SequencesSame, Generations DEF LiveIn
  <2>2. SequenceKept(cache.sequences[s], r.sequences[s])
    BY <1>7, <2>1 DEF SequenceKept
  <2> QED BY <1>7, <2>1, <2>2 DEF Follows
<1> QED BY <1>2, <1>6, <1>8, <1>9 DEF Keeping

\* A sequence whose pages, position and generation stay.
LEMMA SameRecordKept ==
    ASSUME NEW c, Sound(c), NEW s \in LiveIn(c.sequences), NEW after,
           SequencesWith(c.sequences, s, after),
           after[s].pages = c.sequences[s].pages, after[s].position = c.sequences[s].position,
           after[s].generation = c.sequences[s].generation
    PROVE  Follows(c.sequences, after)
<1>1. s \in DOMAIN c.sequences
  BY DEF LiveIn
<1>2. SequenceKept(c.sequences[s], after[s])
  BY <1>1, Generations DEF SequenceKept, Continues, SequencesWith
<1> QED BY <1>2, RecordFollows

\* reserve_append.
LEMMA ReserveAppendKeeping ==
    ASSUME IInv, NEW s \in LiveSequences, NEW rows, ReserveAppend(s, rows)
    PROVE  Keeping(cache, cache')
<1> DEFINE n == NewPageCount(cache.sequences[s], rows)
           new == [i \in 1..n |-> FreshPageId(cache, i)]
<1>1. CanReserve(s, rows)
  BY SMTT(40) DEF ReserveAppend
<1>2. PICK physical \in Injection(1..n, InPool("free")) :
        cache' = RefreshStats([InsertPages(cache, physical, 0) EXCEPT
             !.sequences[s].reserved_pages = @ - n,
             !.sequences[s].pending = [rows |-> rows, new_pages |-> new],
             !.stats.reserved_pages = @ - n])
  BY ZenonT(60) DEF ReserveAppend
<1>3. n \in Nat /\ Sound(cache) /\ s \in LiveIn(cache.sequences)
  BY <1>1 DEF CanReserve, IInv, LiveSequences, LiveIn
<1>4. cache' = RefreshStats(ReservedFor(InsertPages(cache, physical, 0), s, n, rows, new))
  BY <1>2 DEF ReservedFor
<1> HIDE DEF n, new
<1>5. physical \in Seq(PhysicalPages)
  BY <1>3, AllocatedPages
<1>6. PICK x : x = InsertPages(cache, physical, 0)
  OBVIOUS
<1>7. SameRest(x, cache) /\ Taken(cache.pages, FreshIds(cache, Len(physical)), physical, 0, x.pages)
  BY <1>3, <1>5, <1>6, InsertTaken
<1>8. Sound(x)
  <2>1. 0 \in 0..PageTokens
    BY ConfigAssumption
  <2> QED BY <1>3, <1>5, <1>6, <2>1, InsertPagesSound
<1>9. x.sequences = cache.sequences /\ s \in LiveIn(x.sequences)
  BY <1>3, <1>7 DEF SameRest
<1> DEFINE r == RefreshStats(ReservedFor(x, s, n, rows, new))
<1>10. cache' = r
  BY <1>4, <1>6
<1>11. /\ r.pages = x.pages /\ r.prefixes = x.prefixes
       /\ r.next_prefix_id = x.next_prefix_id
       /\ SequencesWith(x.sequences, s, r.sequences)
       /\ r.sequences[s].pages = x.sequences[s].pages
       /\ r.sequences[s].position = x.sequences[s].position
       /\ r.sequences[s].pending = [rows |-> rows, new_pages |-> new]
       /\ r.sequences[s].generation = x.sequences[s].generation
  BY <1>8, <1>9, ReservedShape
<1> HIDE DEF r
<1>12. Follows(cache.sequences, r.sequences)
  BY <1>8, <1>9, <1>11, SameRecordKept
<1>13. Evolves(cache.pages, r.pages)
  BY <1>3, <1>7, <1>11, TakenEvolves
<1> QED BY <1>10, <1>12, <1>13 DEF Keeping

\* The end of commit_append and of abort_append.
LEMMA ReleasedKeeping ==
    ASSUME NEW x, Sound(x), NEW s \in LiveIn(x.sequences), NEW released, NEW r,
           r = Released(x, s, released)
    PROVE  Keeping(x, r)
<1>1. /\ r.pages = WithoutPages(x.pages, SlotsOf(released))
      /\ r.prefixes = x.prefixes /\ r.next_prefix_id = x.next_prefix_id
      /\ SequencesWith(x.sequences, s, r.sequences)
      /\ r.sequences[s].pages = x.sequences[s].pages
      /\ r.sequences[s].position = x.sequences[s].position
      /\ r.sequences[s].pending = NoPending
      /\ r.sequences[s].generation = x.sequences[s].generation
  BY ReleasedShape
<1>2. Evolves(x.pages, r.pages)
  BY <1>1, WithoutEvolves
<1>3. Follows(x.sequences, r.sequences)
  BY <1>1, SameRecordKept
<1> QED BY <1>2, <1>3 DEF Keeping

\* abort_append.
LEMMA AbortAppendKeeping ==
    ASSUME IInv, NEW s \in LiveSequences, AbortAppend(s)
    PROVE  Keeping(cache, cache')
<1>1. Sound(cache) /\ s \in LiveIn(cache.sequences)
  BY DEF IInv, LiveSequences, LiveIn
<1>2. PICK released : cache' = Released(cache, s, released)
  BY DEF AbortAppend
<1> QED BY <1>1, <1>2, ReleasedKeeping

\* A table that is extended continues the one before.
LEMMA JoinedContinues ==
    ASSUME NEW ids \in Seq(PageId), NEW more \in Seq(PageId)
    PROVE  Continues(ids, ids \o more)
<1>1. Len(ids) \in Nat /\ Len(more) \in Nat
  OBVIOUS
<1>2. DOMAIN (ids \o more) = 1..(Len(ids) + Len(more)) /\ DOMAIN ids = 1..Len(ids)
  <2>1. ids \o more \in Seq(PageId) /\ Len(ids \o more) = Len(ids) + Len(more)
    OBVIOUS
  <2> QED BY <2>1
<1>3. \A i \in 1..Len(ids) : (ids \o more)[i] = ids[i]
  OBVIOUS
<1> QED BY <1>1, <1>2, <1>3 DEF Continues

\* commit_append.
LEMMA CommitAppendKeeping ==
    ASSUME IInv, NEW s \in LiveSequences, NEW rows \in Rows, CommitAppend(s, rows), Sound(cache')
    PROVE  Keeping(cache, cache')
<1> DEFINE q == cache.sequences[s]
           new == q.pending.new_pages
           n == NewPageCount(q, rows)
           table == q.pages \o KeptPages(q, rows)
           released == ReleasedPages(q, rows)
           m == MarkCommitted(cache, q, table, rows)
           x == WithTable(m, s, table, rows)
<1>1. /\ Sound(cache) /\ Ledger(cache) /\ s \in LiveIn(cache.sequences)
      /\ s \in DOMAIN cache.sequences
  BY DEF IInv, LiveSequences, LiveIn
<1>2. PendingAppend(s) /\ n \in 0..Len(new) /\ cache' = Released(x, s, released)
  BY DEF CommitAppend, WithTable
<1>3. /\ q.position \in Nat /\ rows \in Nat /\ table \in Seq(PageId)
      /\ Present(cache, released)
  BY <1>2, CommitParts
<1>4. Continues(q.pages, table)
  <2>1. q.pages \in Seq(PageId) /\ new \in Seq(PageId)
    BY <1>1, ListsTyped
  <2>2. KeptPages(q, rows) = SubSeq(new, 1, n)
    BY DEF KeptPages
  <2> HIDE DEF q, new, n
  <2>3. SubSeq(new, 1, n) \in Seq(PageId)
    BY <1>2, <2>1, CutPages
  <2> QED BY <2>1, <2>2, <2>3, JoinedContinues
<1> HIDE DEF q, table, released, new, n
<1>5. Sound(m) /\ Ledger(m) /\ SameRest(m, cache) /\ Present(m, released)
  BY <1>1, <1>3, MarkedLedger
<1>6. /\ DOMAIN m.pages = DOMAIN cache.pages
      /\ \A p \in DOMAIN cache.pages : /\ SameCounts(cache.pages[p], m.pages[p])
                                       /\ m.pages[p].physical = cache.pages[p].physical
  BY <1>1, MarkedCounts
<1> HIDE DEF m
<1>7. Evolves(cache.pages, m.pages)
  BY <1>1, <1>6, Generations DEF Evolves, PageKept, SameCounts
<1>8. /\ m.sequences = cache.sequences /\ s \in LiveIn(m.sequences) /\ s \in DOMAIN m.sequences
  BY <1>1, <1>5 DEF SameRest
<1>9. Sound(x)
  BY <1>3, <1>5, <1>8, CommittedSound DEF WithTable
<1>record. x = WithTable(m, s, table, rows)
  OBVIOUS
<1> HIDE DEF x
<1>10. /\ x.pages = m.pages /\ x.prefixes = m.prefixes
       /\ x.next_prefix_id = m.next_prefix_id
       /\ SequencesWith(m.sequences, s, x.sequences)
       /\ x.sequences[s].pages = table
       /\ x.sequences[s].position = m.sequences[s].position + rows
       /\ x.sequences[s].generation = m.sequences[s].generation
  BY <1>5, <1>8, <1>record, CommittedShape
<1>11. PICK r : r = cache'
  OBVIOUS
<1>12. s \in LiveIn(x.sequences) /\ r = Released(x, s, released)
  BY <1>2, <1>10, <1>11 DEF LiveIn, SequencesWith
<1>13. /\ r.pages = WithoutPages(x.pages, SlotsOf(released))
       /\ r.prefixes = x.prefixes /\ r.next_prefix_id = x.next_prefix_id
       /\ SequencesWith(x.sequences, s, r.sequences)
       /\ r.sequences[s].pages = x.sequences[s].pages
       /\ r.sequences[s].position = x.sequences[s].position
       /\ r.sequences[s].pending = NoPending
       /\ r.sequences[s].generation = x.sequences[s].generation
  BY <1>9, <1>12, ReleasedShape
<1>14. Evolves(cache.pages, r.pages)
  <2>1. Evolves(m.pages, r.pages)
    BY <1>5, <1>10, <1>13, WithoutEvolves
  <2> QED BY <1>1, <1>5, <1>7, <1>11, <2>1, EvolvesChain
<1>15. Follows(cache.sequences, r.sequences)
  <2>1. SequencesWith(cache.sequences, s, r.sequences)
    BY <1>8, <1>10, <1>13 DEF SequencesWith
  <2>2. /\ r.sequences[s].generation = q.generation /\ q.generation \in Nat
        /\ r.sequences[s].position = q.position + rows
        /\ r.sequences[s].pages = table /\ r.sequences[s].live
    BY <1>1, <1>8, <1>10, <1>13, Generations DEF q, SequencesWith
  <2>3. SequenceKept(q, r.sequences[s])
    BY <1>3, <1>4, <2>2 DEF SequenceKept
  <2> QED BY <1>1, <2>1, <2>3, RecordFollows DEF q
<1> QED BY <1>11, <1>14, <1>15 DEF Keeping

\* branch: a sequence that shares some pages and has copies of others.
LEMMA BranchedKeeping ==
    ASSUME NEW e, Sound(e), NEW ids \in Seq(PageId), SlotsOf(ids) \subseteq DOMAIN e.pages,
           CanShare(e, SlotsOf(ids)), NEW copied \in Seq(PhysicalPages),
           NEW valid \in 0..PageTokens, NEW table \in Seq(PageId),
           NEW position, NEW reserved, NEW request, NEW r, Sound(r),
           r = RefreshStats(InsertSequence(
                 InsertPages(IncrementActiveRefs(e, SlotsOf(ids)), copied, valid),
                 table, position, reserved, request))
    PROVE  Keeping(e, r)
<1>1. PICK y : y = IncrementActiveRefs(e, SlotsOf(ids))
  OBVIOUS
<1>2. PICK x : x = InsertPages(y, copied, valid)
  OBVIOUS
<1>3. Sound(y)
  BY <1>1, SharedTaken
<1>4. y.sequences = e.sequences /\ y.pages = MoreActive(e.pages, SlotsOf(ids))
  BY <1>1, SharedShape DEF SameRest
<1>5. Evolves(e.pages, y.pages)
  BY <1>4, MoreActiveEvolves
<1>6. SameRest(x, y) /\ Taken(y.pages, FreshIds(y, Len(copied)), copied, valid, x.pages)
  BY <1>2, <1>3, InsertTaken
<1>7. Sound(x)
  BY <1>2, <1>3, InsertPagesSound
<1>8. Evolves(y.pages, x.pages) /\ x.sequences = y.sequences
  BY <1>3, <1>6, TakenEvolves DEF SameRest
<1>9. r = RefreshStats(InsertSequence(x, table, position, reserved, request))
  BY <1>1, <1>2
<1>10. Follows(x.sequences, r.sequences) /\ r.pages = x.pages
  BY <1>7, <1>9, InsertFollows
<1>11. Evolves(e.pages, x.pages)
  BY <1>3, <1>5, <1>7, <1>8, EvolvesChain
<1> QED BY <1>4, <1>8, <1>10, <1>11 DEF Keeping

\* branch.
LEMMA BranchKeeping ==
    ASSUME IInv, NEW s \in LiveSequences, NEW request \in Requests,
           Branch(s, request), Sound(cache')
    PROVE  Keeping(cache, cache')
<1> DEFINE q == cache.sequences[s]
           shared == CompletePages(q)
           copies == CopiedPages(q)
           demand == BranchDemand(q, request)
           reserved == demand.pages - copies
           partial == q.position % PageTokens
           Sharing(e, copied) ==
             /\ CanShare(e, SlotsOf(shared))
             /\ cache' = RefreshStats(InsertSequence(
                  InsertPages(IncrementActiveRefs(e, SlotsOf(shared)), copied, partial),
                  shared \o [i \in 1..copies |-> FreshPageId(e, i)], q.position, reserved, request))
<1>1. CanBranchFrom(s, request)
  BY DEF Branch
<1>2. PICK ids \in EvictionRuns(cache, {}) : CanEvict(cache, ids) /\
        \E copied \in Injection(1..copies, InPool("free")) :
        \E e : EvictedTo(cache, ids, e) /\ Sharing(e, copied)
  BY ZenonT(90) DEF Branch, EvictedTo
<1>3. Sound(cache) /\ ids \subseteq DOMAIN cache.prefixes
  BY EvictionRunsParts DEF IInv
<1>4. /\ shared \in Seq(PageId) /\ AllLive(cache, shared) /\ copies \in Nat
      /\ partial \in 0..PageTokens
  BY <1>1, BranchParts
<1>5. SlotsOf(shared) \subseteq DOMAIN cache.pages
  BY <1>4 DEF AllLive, LivePage, SlotsOf
<1> HIDE DEF Sharing
<1>6. PICK copied \in Injection(1..copies, InPool("free")) :
        \E e : EvictedTo(cache, ids, e) /\ Sharing(e, copied)
  BY <1>2
<1>7. PICK e : EvictedTo(cache, ids, e) /\ Sharing(e, copied)
  BY <1>6
<1>8. /\ Sound(e) /\ Evolves(cache.pages, e.pages) /\ e.sequences = cache.sequences
      /\ DOMAIN e.pages = DOMAIN cache.pages
  BY <1>2, <1>3, <1>7, EvictionKeeping
<1> HIDE DEF q, copies, partial, reserved, shared
<1>9. copied \in Seq(PhysicalPages)
  BY <1>4, AllocatedPages
<1>10. PICK table \in Seq(PageId) : table = shared \o [i \in 1..copies |-> FreshPageId(e, i)]
  <2>1. PICK tail \in Seq(PageId) : tail = [i \in 1..copies |-> FreshPageId(e, i)]
    BY <1>4, <1>8, FreshPageIds
  <2>2. shared \o tail \in Seq(PageId)
    BY <1>4, SlotsJoined
  <2> QED BY <2>1, <2>2
<1>11. /\ CanShare(e, SlotsOf(shared))
       /\ cache' = RefreshStats(InsertSequence(
                  InsertPages(IncrementActiveRefs(e, SlotsOf(shared)), copied, partial),
                  table, q.position, reserved, request))
  BY <1>7, <1>10 DEF Sharing
<1>12. Keeping(e, cache')
  BY <1>4, <1>5, <1>8, <1>9, <1>11, BranchedKeeping
<1>13. Evolves(cache.pages, cache'.pages)
  BY <1>3, <1>8, <1>12, EvolvesChain DEF Keeping
<1> QED BY <1>8, <1>12, <1>13 DEF Keeping

----------------------------------------------------------------------------
(* A removal that stops half way. *)

\* No generation goes back, and a slot that is vacated takes the next one.
Outlives(pages, after) ==
    \A p \in DOMAIN pages :
      /\ p \in DOMAIN after
      /\ after[p].generation >= pages[p].generation
      /\ pages[p].live /\ ~after[p].live => after[p].generation > pages[p].generation

\* A page that is kept outlives the step.
LEMMA KeptOutlives ==
    ASSUME NEW a, Sound(a), NEW b, Sound(b), Evolves(a.pages, b.pages)
    PROVE  Outlives(a.pages, b.pages)
<1>1. \A p \in DOMAIN a.pages : a.pages[p].generation \in Nat
  BY Generations
<1>2. \A p \in DOMAIN b.pages : b.pages[p].generation \in Nat
  BY Generations
<1> QED BY <1>1, <1>2 DEF Evolves, PageKept, Outlives

\* A removal that stops at an exhausted slot: the slot loses its storage, not its handle.
LEMMA StopOutlives ==
    ASSUME NEW c, Sound(c), NEW s \in LiveIn(c.sequences), NEW released, NEW r,
           r = StopAtExhausted(c, s, released)
    PROVE  Outlives(c.pages, r.pages) /\ Follows(c.sequences, r.sequences)
<1>1. PICK slots, slot :
        r = [RemovePages(c, slots) EXCEPT !.pages[slot].physical = None,
                                          !.sequences[s].pending = NoPending]
  BY DEF StopAtExhausted
<1>2. PICK m : m = RemovePages(c, slots)
  OBVIOUS
<1>3. /\ DOMAIN c = Fields /\ s \in DOMAIN c.sequences
      /\ c.sequences[s] \in SequenceSlot /\ c.sequences[s].live
  BY SequenceParts DEF Sound, LiveIn
<1>4. /\ DOMAIN m = Fields /\ m.sequences = c.sequences
      /\ m.pages = WithoutPages(c.pages, Range(slots))
  BY <1>2, <1>3 DEF RemovePages, Fields, WithoutPages
<1> DEFINE record == [c.sequences[s] EXCEPT !.pending = NoPending]
<1>5. /\ r.pages = [m.pages EXCEPT ![slot].physical = None]
      /\ r.sequences = [c.sequences EXCEPT ![s] = record]
  BY <1>1, <1>2, <1>4 DEF Fields
<1>6. /\ record.live /\ record.pages = c.sequences[s].pages
      /\ record.position = c.sequences[s].position
      /\ record.generation = c.sequences[s].generation
  BY <1>3 DEF SequenceSlot
<1> HIDE DEF record
<1>7. Follows(c.sequences, r.sequences)
  <2>1. SequencesWith(c.sequences, s, r.sequences) /\ r.sequences[s] = record
    BY <1>3, <1>5, <1>6 DEF SequencesWith
  <2> QED BY <1>6, <2>1, SameRecordKept
<1>8. \A p \in DOMAIN c.pages : c.pages[p] \in PageSlot
  BY PagesTyped
<1>9. \A p \in DOMAIN c.pages : /\ p \in DOMAIN m.pages /\ m.pages[p] \in PageSlot
                                /\ PageKept(c.pages[p], m.pages[p])
  BY <1>4, <1>8, ConfigAssumption DEF WithoutPages, VacantPage, PageSlot, PageKept
<1>10. \A p \in DOMAIN c.pages : /\ p \in DOMAIN r.pages
                                 /\ r.pages[p].live = m.pages[p].live
                                 /\ r.pages[p].generation = m.pages[p].generation
  BY <1>5, <1>9 DEF PageSlot
<1>11. \A p \in DOMAIN c.pages : c.pages[p].generation \in Nat /\ m.pages[p].generation \in Nat
  BY <1>8, <1>9 DEF PageSlot
<1>12. Outlives(c.pages, r.pages)
  BY <1>9, <1>10, <1>11 DEF Outlives, PageKept
<1> QED BY <1>7, <1>12

\* abort_append that stops at an exhausted slot.
LEMMA AbortStopOutlives ==
    ASSUME IInv, NEW s \in LiveSequences, AbortAppendExhausted(s)
    PROVE  Outlives(cache.pages, cache'.pages) /\ Follows(cache.sequences, cache'.sequences)
<1>1. Sound(cache) /\ s \in LiveIn(cache.sequences)
  BY DEF IInv, LiveSequences, LiveIn
<1>2. PICK released : cache' = StopAtExhausted(cache, s, released)
  BY DEF AbortAppendExhausted
<1> QED BY <1>1, <1>2, StopOutlives

\* commit_append that stops at an exhausted slot.
LEMMA CommitStopOutlives ==
    ASSUME IInv, NEW s \in LiveSequences, NEW rows \in Rows, CommitAppendExhausted(s, rows),
           Sound(cache')
    PROVE  Outlives(cache.pages, cache'.pages) /\ Follows(cache.sequences, cache'.sequences)
<1> DEFINE q == cache.sequences[s]
           table == q.pages \o KeptPages(q, rows)
           released == ReleasedPages(q, rows)
           m == MarkCommitted(cache, q, table, rows)
<1>1. Sound(cache) /\ Ledger(cache) /\ s \in LiveIn(cache.sequences)
  BY DEF IInv, LiveSequences, LiveIn
<1>2. /\ PendingAppend(s) /\ NewPageCount(q, rows) \in 0..Len(q.pending.new_pages)
      /\ cache' = StopAtExhausted(m, s, released)
  BY DEF CommitAppendExhausted
<1>3. q.position \in Nat /\ rows \in Nat /\ Present(cache, released)
  BY <1>2, CommitParts
<1> HIDE DEF q, table, released
<1>4. Sound(m) /\ SameRest(m, cache)
  BY <1>1, <1>3, MarkedLedger
<1>5. /\ DOMAIN m.pages = DOMAIN cache.pages
      /\ \A p \in DOMAIN cache.pages : /\ SameCounts(cache.pages[p], m.pages[p])
                                       /\ m.pages[p].physical = cache.pages[p].physical
  BY <1>1, MarkedCounts
<1> HIDE DEF m
<1>6. m.sequences = cache.sequences /\ s \in LiveIn(m.sequences)
  BY <1>1, <1>4 DEF SameRest, LiveIn
<1>7. PICK r : r = cache'
  OBVIOUS
<1>8. Outlives(m.pages, r.pages) /\ Follows(m.sequences, r.sequences)
  BY <1>2, <1>4, <1>6, <1>7, StopOutlives
<1>9. Outlives(cache.pages, r.pages)
  BY <1>5, <1>8 DEF Outlives, SameCounts
<1> QED BY <1>6, <1>7, <1>8, <1>9

----------------------------------------------------------------------------
(* Every step. *)

\* Every step keeps what the handles name, except a removal that stops half way.
LEMMA NextKeeping ==
    ASSUME IInv, IInv', [Next]_vars
    PROVE  \/ Keeping(cache, cache')
           \/ \E s \in LiveSequences : AbortAppendExhausted(s)
           \/ \E s \in LiveSequences, rows \in Rows : CommitAppendExhausted(s, rows)
<1>0. Sound(cache) /\ Sound(cache')
  BY DEF IInv, Sound
<1>1. ASSUME UNCHANGED cache PROVE Keeping(cache, cache')
  BY <1>0, <1>1, SameKeeping
<1>2. ASSUME NEW polled \in SUBSET InPool("deferred"), ReclaimDeferred(polled)
      PROVE  Keeping(cache, cache')
  BY <1>2, PolledKeeping DEF ReclaimDeferred
<1>3. ASSUME NEW polled \in SUBSET InPool("deferred"), NEW prefix \in Matches,
             NEW request \in Requests, Admit(polled, prefix, request)
      PROVE  Keeping(cache, cache')
  BY <1>0, <1>3, AdmitKeeping
<1>4. ASSUME NEW polled \in SUBSET InPool("deferred"), NEW prefix \in Matches,
             NEW request \in Requests, NEW outcome \in {"would_block", "refused", "backend"},
             AdmitDeclined(polled, prefix, request, outcome)
      PROVE  Keeping(cache, cache')
  BY <1>4, PolledKeeping DEF AdmitDeclined
<1>5. ASSUME NEW s \in LiveSequences, NEW rows \in Rows, ReserveAppend(s, rows)
      PROVE  Keeping(cache, cache')
  BY <1>5, ReserveAppendKeeping
<1>6. ASSUME NEW s \in LiveSequences, NEW rows \in Rows, CommitAppend(s, rows)
      PROVE  Keeping(cache, cache')
  BY <1>0, <1>6, CommitAppendKeeping
<1>7. ASSUME NEW s \in LiveSequences, AbortAppend(s) PROVE Keeping(cache, cache')
  BY <1>7, AbortAppendKeeping
<1>8. ASSUME NEW prompt, NEW tail, LookupPrefix(prompt, tail) PROVE Keeping(cache, cache')
  BY <1>0, <1>1, <1>8, TouchKeeping DEF LookupPrefix
<1>9. ASSUME NEW s \in LiveSequences, NEW key \in KeysFor(s), RetainDuplicate(s, key)
      PROVE  Keeping(cache, cache')
  BY <1>9, TouchKeeping DEF RetainDuplicate
<1>10. ASSUME NEW s \in LiveSequences, NEW n \in SnapshotSizes, NEW key \in KeysFor(s),
              RetainPrefix(s, key, n)
       PROVE  Keeping(cache, cache')
  BY <1>0, <1>10, RetainPrefixKeeping
<1>11. ASSUME NEW id \in DOMAIN cache.prefixes, EvictPrefix(id) PROVE Keeping(cache, cache')
  BY <1>11, EvictPrefixKeeping
<1>12. ASSUME NEW s \in LiveSequences, NEW request \in Requests, Branch(s, request)
       PROVE  Keeping(cache, cache')
  BY <1>0, <1>12, BranchKeeping
<1>13. ASSUME NEW s \in LiveSequences, Finish(s) PROVE Keeping(cache, cache')
  BY <1>13, FinishKeeping
<1>14. CASE \/ PollFails
            \/ \E s \in LiveSequences : FinalizeFails(s)
            \/ \E s \in LiveSequences, n \in SnapshotSizes, outcome \in {"refused", "backend"} :
                 \E key \in KeysFor(s) : RetainDeclined(s, key, n, outcome)
            \/ \E s \in LiveSequences, request \in Requests : BranchWouldBlock(s, request)
            \/ RetireFails
  <2>1. UNCHANGED cache
    BY <1>14 DEF PollFails, FinalizeFails, RetainDeclined, BranchWouldBlock, RetireFails,
                 Unchanged
  <2> QED BY <1>1, <2>1
<1>15. CASE \/ \E s \in LiveSequences, rows \in Rows : ReserveAppendFails(s, rows)
            \/ \E s \in LiveSequences, request \in Requests : BranchFails(s, request)
            \/ \E s \in LiveSequences, request \in Requests : BranchEvictionFails(s, request)
  <2>1. UNCHANGED cache
    BY <1>15 DEF ReserveAppendFails, BranchFails, BranchEvictionFails
  <2> QED BY <1>1, <2>1
<1>16. CASE UNCHANGED vars
  BY <1>1, <1>16 DEF vars
<1>17. CASE Next
  BY <1>2, <1>3, <1>4, <1>5, <1>6, <1>7, <1>8, <1>9, <1>10, <1>11, <1>12, <1>13, <1>14, <1>15,
     <1>17 DEF Next
<1> QED BY <1>16, <1>17

\* No step revives a handle.
LEMMA NextOutlives ==
    ASSUME IInv, IInv', [Next]_vars
    PROVE  Outlives(cache.pages, cache'.pages) /\ Follows(cache.sequences, cache'.sequences)
<1>1. Sound(cache) /\ Sound(cache')
  BY DEF IInv, Sound
<1>2. CASE Keeping(cache, cache')
  BY <1>1, <1>2, KeptOutlives DEF Keeping
<1>3. ASSUME NEW s \in LiveSequences, AbortAppendExhausted(s)
      PROVE  Outlives(cache.pages, cache'.pages) /\ Follows(cache.sequences, cache'.sequences)
  BY <1>3, AbortStopOutlives
<1>4. ASSUME NEW s \in LiveSequences, NEW rows \in Rows, CommitAppendExhausted(s, rows)
      PROVE  Outlives(cache.pages, cache'.pages) /\ Follows(cache.sequences, cache'.sequences)
  BY <1>1, <1>4, CommitStopOutlives
<1> QED BY <1>2, <1>3, <1>4, NextKeeping

\* What a prefix of a sequence of storage is.
LEMMA StoragePrefix ==
    ASSUME NEW S, NEW a \in Seq(S), NEW b \in Seq(S), Continues(a, b)
    PROVE  IsPrefix(a, b)
<1>1. DOMAIN a = 1..Len(a) /\ DOMAIN b = 1..Len(b) /\ Len(a) \in Nat /\ Len(b) \in Nat
  OBVIOUS
<1>2. Len(a) <= Len(b)
  <2>1. CASE Len(a) = 0
    BY <1>1, <2>1
  <2>2. CASE Len(a) # 0
    <3>1. Len(a) \in DOMAIN a
      BY <1>1, <2>2
    <3>2. Len(a) \in DOMAIN b
      BY <3>1 DEF Continues
    <3> QED BY <1>1, <3>2
  <2> QED BY <2>1, <2>2
<1>3. \A i \in 1..Len(a) : b[i] = a[i]
  BY <1>1 DEF Continues
<1> DEFINE x == SubSeq(a, 1, Len(a))
           y == SubSeq(b, 1, Len(a))
<1>4. /\ x \in Seq(S) /\ Len(x) = Len(a) /\ \A i \in 1..Len(a) : x[i] = a[i]
  BY <1>1
<1>5. /\ y \in Seq(S) /\ Len(y) = Len(a) /\ \A i \in 1..Len(a) : y[i] = b[i]
  BY <1>1, <1>2
<1>6. x = y
  <2> HIDE DEF x, y
  <2>1. \A i \in 1..Len(a) : x[i] = y[i]
    BY <1>3, <1>4, <1>5
  <2> QED BY <1>4, <1>5, <2>1
<1> QED BY <1>2, <1>6 DEF IsPrefix

\* While ownership is exact, a sequence's table resolves.
LEMMA TableLive ==
    ASSUME NEW c, Sound(c), Owned(c), NEW s \in LiveIn(c.sequences)
    PROVE  /\ c.sequences[s].pages \in Seq(PageId)
           /\ AllLive(c, c.sequences[s].pages)
           /\ PhysicalRefs(c, c.sequences[s].pages) \in Seq(PhysicalPages \cup {None})
<1> DEFINE ids == c.sequences[s].pages
           new == c.sequences[s].pending.new_pages
<1>1. ids \in Seq(PageId) /\ new \in Seq(PageId)
  BY ListsTyped
<1>2. Resolves(c.pages, ids \o new)
  BY DEF Owned, OwnedParts, Refs, Tabs, Table
<1> HIDE DEF ids, new
<1>3. Continues(ids, ids \o new)
  BY <1>1, JoinedContinues
<1>4. AllLive(c, ids)
  BY <1>2, <1>3 DEF Continues, Resolves, AllLive, LivePage
<1>5. PhysicalRefs(c, ids) \in Seq(PhysicalPages \cup {None})
  BY <1>1, <1>4, LivePages
<1> QED BY <1>1, <1>4, <1>5 DEF ids

\* A table that goes on goes on in the same storage.
LEMMA StorageKept ==
    ASSUME NEW c, NEW d, Evolves(c.pages, d.pages), NEW ids, NEW more,
           Continues(ids, more), AllLive(c, ids), AllLive(d, more)
    PROVE  Continues(PhysicalRefs(c, ids), PhysicalRefs(d, more))
<1> SUFFICES ASSUME NEW i \in DOMAIN ids
             PROVE  i \in DOMAIN more /\
                    c.pages[ids[i].slot].physical = d.pages[more[i].slot].physical
  BY DEF Continues, PhysicalRefs
<1>1. i \in DOMAIN more /\ more[i] = ids[i]
  BY DEF Continues
<1>2. /\ ids[i].slot \in DOMAIN c.pages /\ c.pages[ids[i].slot].live
      /\ c.pages[ids[i].slot].generation = ids[i].generation
      /\ d.pages[ids[i].slot].generation = ids[i].generation
  BY <1>1 DEF AllLive, LivePage
<1> QED BY <1>1, <1>2 DEF Evolves, PageKept

\* A step that keeps what the handles name keeps every sequence's history.
LEMMA KeepingHistory ==
    ASSUME NEW c, Sound(c), Owned(c), NEW d, Sound(d), Owned(d), Keeping(c, d),
           NEW s \in LiveIn(c.sequences), d.sequences[s].live,
           d.sequences[s].generation = c.sequences[s].generation
    PROVE  /\ d.sequences[s].position >= c.sequences[s].position
           /\ IsPrefix(PhysicalRefs(c, c.sequences[s].pages),
                       PhysicalRefs(d, d.sequences[s].pages))
<1> DEFINE ids == c.sequences[s].pages
           more == d.sequences[s].pages
<1>1. s \in DOMAIN c.sequences /\ c.sequences[s].live
  BY DEF LiveIn
<1>2. /\ s \in DOMAIN d.sequences /\ d.sequences[s].position >= c.sequences[s].position
      /\ Continues(ids, more)
  BY <1>1 DEF Keeping, Follows, SequenceKept
<1>3. s \in LiveIn(d.sequences)
  BY <1>2 DEF LiveIn
<1>4. AllLive(c, ids) /\ PhysicalRefs(c, ids) \in Seq(PhysicalPages \cup {None})
  BY TableLive
<1>5. AllLive(d, more) /\ PhysicalRefs(d, more) \in Seq(PhysicalPages \cup {None})
  BY <1>3, TableLive
<1> HIDE DEF ids, more
<1>6. Continues(PhysicalRefs(c, ids), PhysicalRefs(d, more))
  BY <1>2, <1>4, <1>5, StorageKept DEF Keeping
<1>7. IsPrefix(PhysicalRefs(c, ids), PhysicalRefs(d, more))
  BY <1>4, <1>5, <1>6, StoragePrefix
<1> QED BY <1>2, <1>7 DEF ids, more

----------------------------------------------------------------------------
(* The theorems. *)

\* For every configuration, a handle that stopped resolving never resolves again: no step
\* of any operation, the ones that fail and the ones that stop at an exhausted slot
\* included, takes a generation back, and a slot is never vacated under the generation it
\* was used with (remove_page, remove_sequence, insert_page, insert_sequence).
THEOREM HandlesCorrect == Spec => HandlesNeverRevive
<1>1. IInv /\ IInv' /\ [Next]_vars =>
        [/\ \A p \in DOMAIN cache.pages :
              LET old == cache.pages[p]
                  new == cache'.pages[p]
              IN  /\ new.generation >= old.generation
                  /\ old.live /\ ~new.live => new.generation > old.generation
         /\ \A s \in DOMAIN cache.sequences :
              LET old == cache.sequences[s]
                  new == cache'.sequences[s]
              IN  /\ new.generation >= old.generation
                  /\ old.live /\ ~new.live => new.generation > old.generation]_vars
  <2> SUFFICES ASSUME IInv, IInv', [Next]_vars
               PROVE  /\ \A p \in DOMAIN cache.pages :
                           /\ cache'.pages[p].generation >= cache.pages[p].generation
                           /\ cache.pages[p].live /\ ~cache'.pages[p].live =>
                                cache'.pages[p].generation > cache.pages[p].generation
                      /\ \A s \in DOMAIN cache.sequences :
                           /\ cache'.sequences[s].generation >= cache.sequences[s].generation
                           /\ cache.sequences[s].live /\ ~cache'.sequences[s].live =>
                                cache'.sequences[s].generation > cache.sequences[s].generation
    OBVIOUS
  <2>1. Outlives(cache.pages, cache'.pages) /\ Follows(cache.sequences, cache'.sequences)
    BY NextOutlives
  <2>2. Sound(cache) /\ Sound(cache')
    BY DEF IInv, Sound
  <2>3. \A s \in DOMAIN cache.sequences : cache.sequences[s].generation \in Nat
    BY <2>2, Generations
  <2>4. \A s \in DOMAIN cache'.sequences : cache'.sequences[s].generation \in Nat
    BY <2>2, Generations
  <2> QED BY <2>1, <2>3, <2>4 DEF Outlives, Follows, SequenceKept
<1>2. IInv /\ [Next]_vars => IInv'
  BY NextIInv
<1> QED BY <1>1, <1>2, InductiveInvariant, PTL DEF Spec, HandlesNeverRevive

\* For every configuration in which no page slot is used to its last generation, a live
\* sequence's table only grows at its end, in the storage it is in, and its position never
\* goes back: no admission, eviction, branch, append or finish of another sequence, and no
\* failure of the backend, disturbs it (reserve_append, commit_append, abort_append,
\* plan_evictions, commit_evictions).
THEOREM HistoryCorrect ==
    ASSUME PageReuse < MaxGeneration
    PROVE  Spec => HistoryStable
<1>1. (IInv /\ Owned(cache)) /\ (IInv /\ Owned(cache))' /\ [Next]_vars =>
        [\A s \in LiveSequences :
           LET old == cache.sequences[s]
               new == cache'.sequences[s]
           IN  new.live /\ new.generation = old.generation =>
                 /\ new.position >= old.position
                 /\ IsPrefix(PhysicalRefs(cache, old.pages), PhysicalRefs(cache', new.pages))]_vars
  <2> SUFFICES ASSUME IInv, Owned(cache), IInv', Owned(cache)', [Next]_vars,
                      NEW s \in LiveSequences, cache'.sequences[s].live,
                      cache'.sequences[s].generation = cache.sequences[s].generation
               PROVE  /\ cache'.sequences[s].position >= cache.sequences[s].position
                      /\ IsPrefix(PhysicalRefs(cache, cache.sequences[s].pages),
                                  PhysicalRefs(cache', cache'.sequences[s].pages))
    BY DEF PhysicalRefs
  <2>1. /\ Sound(cache) /\ Sound(cache') /\ s \in LiveIn(cache.sequences)
    BY DEF IInv, Sound, LiveSequences, LiveIn
  <2>2. Owned(cache')
    BY DEF Owned
  <2>3. Keeping(cache, cache')
    BY NextKeeping, NeverStops
  <2>4. PICK d : d = cache'
    OBVIOUS
  <2> QED BY <2>1, <2>2, <2>3, <2>4, KeepingHistory
<1> QED BY <1>1, OwnershipInvariant, PTL DEF Spec, HistoryStable

====
