# seqcache: a verification project in TLA+

seqcache is a Rust library that manages the key/value cache of a language-model
runtime: a pool of fixed-size pages, the page tables of the sequences that are being
generated, and prefixes kept for reuse. It is single-owner (every call takes `&mut
self`) and stores nothing itself: page storage belongs to a backend behind a trait.
What is hard about it is therefore not threads but long sequences of calls, calls that
fail half way, several limits met at once, and storage that is given back late.

## Inventory

| Component | State | Operations | Interacts with |
|---|---|---|---|
| Manager state and helpers (`src/src/manager.rs`) | page and sequence arenas with generations and LIFO free lists, reference counts, retained entries, LRU set and clock, statistics | insert/remove slots, count references, plan and commit evictions, tick, refresh statistics | called by every operation |
| Manager operations (`src/src/manager.rs`) | the same | `admit`, `reserve_append`, `commit_append`, `abort_append`, `lookup_prefix`, `retain_prefix`, `evict_prefix`, `branch`, `finish`, `reclaim_deferred`; batches of appends | calls the backend inside each operation; called by the runtime |
| Page backend (`src/src/backend.rs`, a trait) | physical pages, a page table per context, pages waiting for a fence | allocate, roll back, copy a tail, prepare/commit/abort an append, publish a table, retire, poll | any call may fail; retirement may be deferred |
| Prefix index (`src/src/index.rs`) | interned, reference-counted token blocks; a radix tree from block ids to entries | lookup, exact match, prepare/commit/roll back a key, remove | called by lookup, retain and eviction |
| Append batches (`src/src/manager.rs`) | nonces, pending appends, the batches a runtime holds | `reserve_append_batch`, `commit_append_batch`, `abort_append_batch` | the single append calls, one item at a time |
| CPU, CUDA and wgpu backends (`src/examples/*.rs`) | page slots and their rows, page tables, a CUDA stream, a wgpu queue | the trait's operations; the model's writes; reads through a table | driven by the manager; the GPU works behind the host |
| Errors, metrics, crate docs (`error.rs`, `metrics.rs`, `lib.rs`) | counters | none that others read | promises quoted by the properties |
| Conformance tests, benches | a fake backend | drivers | public interface |

Hard behaviours and what makes the system correct in each:

* *Ownership.* A page is shared by sequences and entries; it must be retired exactly
  when the last of them goes, over admit, branch, retain, evict and finish in any order.
* *Error paths.* Each backend call can fail after earlier ones succeeded. An error must
  leave ownership, accounting and the backend's pages as they were.
* *Deferred retirement.* A retired page leaves the arena but not the storage. It must be
  charged until it is polled, or an admitted sequence meets an empty pool.
* *Capacity.* Managed bytes, pages, snapshot bytes and entries are bounded by a plan
  made before the changes; promises to admitted sequences count.
* *Incremental accounting.* Statistics are kept by increments and by subtracting free
  lists; they drive admission, so a drift becomes overcommitment.
* *Limits of numbers.* Generations, nonces and ids run out, the LRU clock is renumbered.
* *Capabilities.* Reservations can be cloned and replayed; a batch call that fails in the
  middle must hand back exactly what is still pending.
* *Contents.* Sharing, copy on branch and recycling must never show a reader another
  sequence's tokens, with a device that executes writes and copies later than the host
  issued them.

`PROJECT.json` lists these hazards at their lines with the properties that cover them.

## Modules

`CacheState` holds the manager's fields as one record and its private helpers as
operators from record to record, as the helpers take `&mut self`. `SequenceCache`
declares the state of the system and has one action per operation and per way it ends:

| Variable | Code |
|---|---|
| `cache` | the fields of `struct SequenceCache` (without config, backend, metrics and the append nonce) |
| `pool` | for each physical page, whether the pool, the manager or a fence owns it |
| `tables` | the page table last published to the context of each sequence slot |
| `result` | the kind of value the last call returned |

`SequenceCacheProofs`, `OwnershipProofs`, `StorageProofs`, `RecencyProofs` and `ValidityProofs`
hold its theorems. The other modules:

| Module | Models | Composition |
|---|---|---|
| `TokenStore` | abstract: sequences of tokens, drafts, retained prefixes; no pages | implemented by `ContentCache` and by each example backend |
| `ContentCache` | the manager with the rows of the pages, as a runtime sees it | EXTENDS `SequenceCache`, uses `PageRows`; implements `TokenStore` |
| `PageRows` | writing, copying and reading rows through a page table | used by `ContentCache` and `BackendDriver` |
| `BackendDriver` | the manager's side of each backend call, and the slot pool the example backends share | extended by the next three |
| `CpuKvBackend` | `cpu_paged_kv.rs` | instance in `ExampleBackends` |
| `CudaPageBackend` | `cuda_paged_state.rs`: tables in two device copies, kernels on a stream | instance in `ExampleBackends` |
| `WgpuPageBackend` | `wgpu_paged_state.rs`: one queue, one parameter buffer | instance in `ExampleBackends` |
| `ExampleBackends` | a cache over any one of the three | instantiates them; implements `TokenStore` |
| `PrefixMap` | abstract: a map from token prefixes to entries with longest match | implemented by `PrefixIndex` |
| `PrefixIndex` | `index.rs` and the calls of `retain_prefix` around it | implements `PrefixMap`, which is the index `SequenceCache` uses |
| `Subsequences` | the part of a sequence that a predicate keeps, in order | used by `AppendBatch` |
| `AppendBatch` | reservations, nonces, transactions and the batch calls | stands beside `SequenceCache`, which has the page accounting of the same appends |

`ContentProofs`, `PrefixIndexProofs` and `AppendBatchProofs` hold the theorems of these modules
and the lemmas they rest on. `Subsequences` takes the place of the library's
`SelectSeq`, whose recursive definition the provers cannot use.

`MCSequenceCache`, `MCContentCache`, `MCPrefixIndex`, `MCAppendBatch` and
`MCExampleBackends` give the constants values for TLC. An operator whose comment
starts with *Mutant* is a wrong variant of the definition after it; no specification uses
it, and substituting it must break a property.

How the model relates to the code:

* A call is one step, since nothing can run in between. `admit` polls first and keeps
  that poll whatever happens later, so its refusals still change the deferred pages.
* The errors that undo backend work are actions of their own (`ReserveAppendFails`,
  `FinalizeFails`, `BranchFails`, `BranchEvictionFails`, `RetireFails`, `RetainDeclined`,
  `AdmitDeclined`, and `CommitAppendExhausted`/`AbortAppendExhausted` for a removal that
  stops at a slot without generations left). A call refused before it touched anything is
  a stuttering step.
* Checked subtractions of the code are guards in the model.
* Arena slots count from 1; an `Option` slot is a record with a `live` flag. Several
  `insert_page` or `remove_page` calls in a row are one operator with the slots in order.
* `commit_evictions` collects pages from a `HashMap`; the model retires them in any order.
* The backend follows its contract: an allocation takes any free page, a retirement
  defers any subset of the pages (none if `retirement_is_immediate`), a poll returns any
  subset of the deferred ones, and each operation named in `Faults` may fail. `commit_append`
  and `abort_append` publish the table they are given and free the pages released.
* A prefix key is a sequence of blocks; in `SequenceCache` the index is a map from keys to
  entries and its interning is abstracted to the number of distinct blocks. `PrefixIndex`
  has the interning and is shown to be such a map.
* The runtime drops the context of a finished sequence, and of one that was not admitted,
  so those tables are forgotten.

How the other modules relate to it:

* `PrefixIndex`: `index` holds the four fields of `PrefixIndex`, `prefixes` the blocks of
  each entry. `retain_prefix` is a call in progress with a step for every block it interns
  and every entry it evicts, so that each of its returns happens. Any entry may be evicted
  at any time: which ones is `SequenceCache`'s subject.
* `AppendBatch`: a batch call is in progress with a step per item. `issued` keeps every
  reservation ever returned, because clones can be replayed; `batches` the batches the
  runtime holds, which cannot be cloned. A page is named by the append that inserted it.
  A transaction is `open`, `committed`, `aborted`, or `dropped` when the publication fails.
* `ContentCache` adds to `SequenceCache` the rows of the physical pages and the tokens
  written for a pending append. Rows are lost when a page leaves the manager, so a reader
  of a released page would notice. A sequence is retained under the tokens in its pages.
  Calls that decline and change nothing a runtime reads, failing finalisations and
  exhausted generations are left to `SequenceCache`.
* The backend modules have no admission control, so that a pool can run out. A page table
  entry is a page slot instead of an address. Validation failures that need a stale page
  cannot happen while `PoolExact` holds and appear as guards.
* CUDA: a launch appends a kernel to the stream, `RunKernel` runs the first one with the
  table it finds in device memory; `synchronize` is the guard that the stream is empty. A
  failed transfer may have been done. A call that waits is one step, taken when the wait is
  over: the host does nothing meanwhile. The driver's own copies are taken to be complete
  when they return.
* wgpu: each `write_buffer`, dispatch and tail copy is a command; `Execute...` runs the
  first. The two copies through the scratch page are one command, since they are one
  submission and nothing else uses that page.
  `copy_partial_page` is two steps, because its second wait can fail with the copy queued.
  A wait that fails before anything was done is a stuttering step. A finish of a sequence
  that shares all its pages retires nothing and does not wait.

Not modelled: metrics (nothing reads them), the messages of errors, `validate_config`
(its result is `ConfigAssumption`), the arithmetic limits of `usize`, the attention
arithmetic and key/value vectors of the CPU example, device and pipeline setup, the driver
bindings and the readback of the GPU examples, tests and benchmarks (drivers of the public
interface). Counters that only overflow after 2^64 steps are bounded by exploration bounds
(below) except where a run is about their end.

## Runs

Most runs use `PageTokens = 2`, so that a page can be empty, partial and full. `retention` uses
1, so that a sequence of two tokens can be retained at two lengths. `PageBytes` is 3,
with smaller tables and snapshots, so that byte and page limits bind at different points.

| Run | Setting | Shows |
|---|---|---|
| `sharing` | 3 pages, 2 sequences, 2 keys and entries, branches, every fault but retirement; sequence slots are not reused | ownership, sequences, accounting, physical pages, published tables; failures change nothing; sealed pages and histories are stable |
| `retention` | 3 pages of one token, 3 entries of one or two pages, two snapshot sizes, a slot for one sequence used twice, `MaxClock` 4, no faults | entries, index and LRU set agree when entries share pages; coldest first, but never the match of an admission; order survives renumbering |
| `deferred` | deferred retirement, 2 pages, 2 sequences, 2 keys but room for one entry, slots reused once, no faults | charging of deferred pages, promises backed by the pool, no error under pressure, stale handles stay stale |
| `exhaustion` | `MaxGeneration` 1, 3 pages, 2 sequences, 2 keys and room for one snapshot, branches, failing retirements | limits, free lists and tables when slots cannot be reused |
| `retry` | immediate retirement, fairness | an idle cache serves a runtime that retries |
| `contents` | 4 pages and 2 sequences, each used twice, 2 entries one after the other, 2 tokens, branches, failing publications and retirements | sequences and entries read back their tokens; entries hold the tokens of their keys |
| `index` | 2 blocks, prefixes of up to 2, 3 entry ids, 3 block ids, counts up to 4 | block counts, no dangling blocks, queries answered as by a map |
| `batch` | 2 sequences of 2 generations, 3 nonces, batches of 2, positions up to 3, every fault | what a failed batch gives back, clones, transactions, segments |
| `backends` | 2 sequences, 2 tokens, positions up to 3; 3 CPU pages, 2 GPU pages, 2 appends in flight, every driver fault | slots, reads before the commit, device tables, device work and contents of each backend |
| `branch_leak`, `branch_pressure`, `starvation` | one disagreement each | see Findings |

Bounds. `PageReuse`, `SequenceReuse`, `MaxSequences` and `PrefixIdBound` only cut
exploration: generations in use, sequence slots, and entries ever created. One reuse of a
slot is enough for a stale handle to meet a new owner; two sequences and one entry are the
fewest that share a page three ways. `MaxGeneration` and `MaxClock` stand for
`u32::MAX` and `u64::MAX`. Physical pages and blocks are symmetric: nothing orders them.
Tokens and sequences are symmetric too. `retry` and `starvation` use no
symmetry because they check liveness.

Which cases are reached. In `retention` entries are evicted because of bytes alone and because of
snapshots alone; some evictions pass over a colder entry that is protected and stop before a
hotter one; one page is given up by two entries in one call; and an entry loses one of its
pages while another entry keeps the other. Pages alone press in `retry`, the number of entries
in `deferred` and `contents`, snapshots in `exhaustion`, whose bytes and pages also reach their
limits. That the limit on entries, which `exhaustion` does not reach, is respected is shown by
`CapacityCorrect`. In `contents` a branch copies a tail and evicts an entry whose pages
are freed. In `deferred` the plan counts no page as freed, so pages shared by evicted entries play
no part. Entries in the runs other than `retention` have one page; the general case of their
properties is proved (below), but for `AccountingExact`.

Two tokens distinguish a row from a stale or foreign one. Two sequences of up to two pages
have aligned and unaligned tails and appends that cross a page; two GPU pages force every
release to be followed by a reuse; two kernels, or two dispatches with their parameters,
are in flight at once. Two blocks in prefixes of two repeat, share and extend each other.
Three nonces let a clone of a finalised append meet a new append of the same sequence
while another sequence's append is in the same batch.

Deadlock is checked where the system can always go on: polling nothing, finishing and
admitting are possible. It is not checked in `index` and `batch`, where entry ids and
nonces run out by construction.

Fairness (`FairSpec`, liveness runs only). `RetriesAdmission` is weak fairness of
admission without a match, with its enabling condition written out: the documentation of
`WouldBlock` tells the caller to retry. `WF(ReclaimAll)` is the poll that `admit` makes
itself. Nothing is assumed of commits, finishes or evictions.

## Findings

* `branch_leak`: `branch` copies the tail and publishes the table before it evicts. If
  the eviction fails the copied page is not rolled back.
* `branch_pressure`: for the same reason `branch` needs a free page before the eviction that
  was to provide it, and reports a backend error where pressure should be `WouldBlock`.
* `starvation`: for a deferred backend the plan never counts freed pages, so an idle
  cache whose pages all belong to evictable prefixes declines a request for ever.

Three more departures are actions or outcomes of the model, without a run of their own:

* `branch` peeks the id of the copied page before its evictions push other slots on the
  free list, so its `debug_assert_eq!` may fail (result `"assert"` of `Branch`). `contents`
  reaches this: in a build without assertions the new sequence still reads the right tokens.
* A commit or abort that must remove a page at its last generation returns `IdExhausted`
  after it changed ownership (`CommitAppendExhausted`, `AbortAppendExhausted`);
  `exhaustion` checks what still holds then.
* `retain_prefix` returns without `rollback_key` when no entry id is left
  (`RetainIdExhausted`); `index` checks that counts are exact until then, and that
  afterwards blocks are only kept too long: nothing dangles and no query changes.

The passing runs avoid these: `sharing` has branches without retirement failures,
`exhaustion` checks what still holds after them.

## Proofs

The theorems hold for every value of the constants that satisfies the named assumptions
of the modules: `ConfigAssumption` (what `validate_config` accepts, a pool at least as large
as the capacity it reports, and a clock with room for the entries) and `InputAssumption` of
`SequenceCache` and its like in the other modules (types of what callers supply).

### `SequenceCacheProofs`: types, free lists, capacity

* `TypeCorrect`: `Spec => []TypeOK`;
* `FreeListsCorrect`: `Spec => []FreeListsExact`;
* `CapacityCorrect`: `Spec => []CapacityRespected`.

They are one induction. None of the three is inductive alone: the limits are about page
counts, a count is slots minus free slots, and that is right only if a free list never
names a slot twice; a commit or an abort pushes the slots of a pending append, so these
must be distinct; and capacity after an admission follows from the plan only if the
statistics the plan read are tied to the arenas. `IInv` is the conjunction:

* `Sound(cache)`: types, exact free lists, distinct slots in every pending append, an LRU
  set that names only existing entries;
* `Ledger(cache)`: the pages in the arenas are at most the recorded resident ones, the
  recorded total is the sum of its recorded parts, and the four limits hold. It is an
  inequality because a removal that stops half way leaves the statistics unrefreshed;
* types of the pool, the tables and the result, and a table for every sequence slot.

The lemmas go upward from the arenas (`RemoveArena`, `InsertArena`, `InsertSequenceArena`,
`RemoveSequenceArena`), through the helpers (`RetireSound`, `EvictSound`, `Refreshed`) and
the capacity argument (`LedgerKept`, `LedgerGrown`, `AdmittedSound`) to one lemma per
action, joined by `NextIInv`.

### `OwnershipProofs`: reference counts and handles

* `ReferencesCorrect`: `Spec => []ReferencesExact`, if `PageReuse < MaxGeneration`.

The hypothesis says that no slot is used up to its last generation. It cannot be dropped:
a commit or an abort that has to remove a page at the last generation stops half way and
does leave a live page that nobody lists (see Findings). Every behaviour in which no slot
gets that far satisfies it for some `PageReuse`, so the theorem speaks of all of them.

The invariant is `IInv` with `Owned(cache)`:

* `Refs`: all lists of handles resolve, without repetition, and both counts of a live page
  are the cardinalities of the sets of its owners, which are not both empty;
* `Exclusive`: pages of a pending append are listed by that sequence only. This is why a
  commit or an abort may remove them without looking at their counts;
* `Dated`: entry ids are below the next one, so that a retention adds an entry and never
  replaces one, which would lose references;
* `Young`: live pages have generations up to `PageReuse`.

The argument is first made for plain functions, from owners to page lists and from slots
to page records: operations change them in six ways (`Evicts`, `Shares`, `Retains`, `Leaves`,
`Takes`, `Releases`), and each keeps the counts equal to the cardinalities. The records
written by the helpers are then shown to have these shapes, and every action is one of
them or two in a row (an admission with evictions, a branch that shares and then takes).

The last part of the module is about what a step may never do:

* `HandlesCorrect`: `Spec => HandlesNeverRevive`;
* `HistoryCorrect`: `Spec => HistoryStable`, if `PageReuse < MaxGeneration`.

`Keeping(c, d)` says of two manager records that a slot advances its generation or, if it is
in use, stays in use with the same storage (pages), or with the same handles first and a
position not before the old one (sequences). It is transitive over the intermediate records
of an operation, every update of the arenas has it, and so has every action except the two
that stop at an exhausted slot (`NextKeeping`), where the weaker `Outlives` holds: the page
loses its storage and keeps its handle. `HandlesCorrect` needs no more than `IInv`.
`HistoryCorrect` also needs `Owned` before and after the step: a table's handles resolve in
both states, so the generations of its pages are the same and `Keeping` gives the same
storage; and by `NeverStops` the two exceptions do not occur.

### `StorageProofs`: the pool and the published tables

* `TablesCorrect`: `Spec => []PublishedTablesExact`, and `ReadsCorrect`:
  `Spec => []TablesReadHeldPages`, if `PageReuse < MaxGeneration`;
* `PhysicalPagesCorrect`: `Spec => []PhysicalPagesExact`, `ReservationsCorrect`:
  `Spec => []ReservationsBacked`, and `PressureCorrect`: `Spec => []PressureIsNeverAnError`,
  if also `~CanBranch`;
* `DerivedStatsCorrect`: `Spec => []Booked(cache)`, if `PageReuse < MaxGeneration`: the
  statistics that `refresh_stats` derives are exact in every state;
* `FailureCorrect`: `Spec => FailureAtomic`, under both hypotheses.

The second hypothesis says that the runtime does not branch. It cannot be dropped. A branch
whose evictions fail loses the page it copied (run `branch_leak`), which breaks the first
and leaves one page less for the second; a branch may itself find the pool empty (run
`branch_pressure`), which breaks the third; and that branch is a failed call that changed the
pool, which breaks the last. That `PhysicalPagesExact` holds with
branches as long as no `retire_pages` fails is checked by `sharing`, not proved: it needs
that every planned eviction can be carried out, which rests on the sums of
`AccountingExact`.

The invariant `Stored` adds to ownership that every page in use is on storage of its own that
is handed out (`Placed`) and that every published table is the one its sequence's handles
give (`Shown`). An operation changes the pages in two ways, `Leaving` (with their storage,
which goes back or waits for a fence) and `Taken` (on storage that was not handed out); `branch`
takes before the evictions give back, and `CopyFirst` shows that the order does not matter to
`Placed`. The tables of sequences that an operation does not touch stay right because their
handles resolve before and after it, and `Keeping` then gives the same storage.

`Accounted` is the converse of `Placed` (what is handed out is in use) with the number of
pages behind a fence. `FreeCount` turns it into arithmetic: the pool has at least its size
less `Occupied`, so `Ledger` and `PageCapacity <= Cardinality(PhysicalPages)` leave a free page
for each reserved one; then `reserve_append`, which asks for no more than is reserved, cannot
find the pool empty. `FailureCorrect` goes through the actions that return an error: without
branches these are the ones refused before anything changed, the ones that undo their backend
calls, and the two that stop at an exhausted slot, which the first hypothesis excludes.
`FailureAtomic` compares the whole manager, `Ownership`: only the pages behind a fence, what is
charged for them and the free pages derived from that are left out, because `admit` polls before
it may fail and keeps the poll. That a poll changes nothing else is not a matter of course: it
ends in `refresh_stats`, which would also repair a statistic that was stale before. It changes
nothing because nothing was stale, which is `Booked`; and this holds because every step
either refreshes last, touches an entry, or leaves the manager alone (`NextRefreshes`).

### `RecencyProofs`: the LRU order and the tree of keys

* `LruCorrect`: `Spec => []LruExact`;
* `RecencyCorrect`: `Spec => RecencyOrderStable`;
* `EvictsColdestCorrect`: `Spec => EvictsColdestFirst`.

They hold without a hypothesis on generations or branches: eviction works on the entries and
their stamps, and no page count enters. `EntriesInvariant` is the induction. Its invariant
`Ordered` has two parts: `Ranked`, every entry has a stamp of its own that is not past the clock
and the LRU set has exactly those pairs, and `Indexed`, the tree of keys and the entries name
each other. The steps come down to four (`IndexStep`): the entries stay, one is touched, a
planned run of entries is forgotten, or a run is forgotten and one entry is added with the
newest stamp. That a planned run is the coldest possible one
(`NextColdest`) is a fact about the plan's loop, which takes a prefix of the order that `Ranked` makes
total. That it leaves the match of an admission alone (`NextMatched`) is one about who becomes live:
a sequence does so only by an admission or a branch, and after an admission the matched entry is
among those that stayed, with the pages the sequence shares. A branch protects no entry, so
the second half of the property is about runtimes that do not branch.

### `ValidityProofs`: pages, positions and sealing

* `SequencesCorrect`: `Spec => []SequencesValid`;
* `PrefixesCorrect`: `Spec => []PrefixesValid`;
* `SealedCorrect`: `Spec => SealedImmutable`; all three if `PageReuse < MaxGeneration`.

`ValidityInvariant` shows the invariant `Valid`, which TLC checked on the runs `sharing` and
`branch_pressure` before the proof:

* `Sealing`: the record says that a page is sealed just when its rows are full;
* `Lonely`: a page that is not full is listed by one sequence only and by no entry, so an
  append into the tail is seen by nobody else;
* `RecordOK` and `FilledTo`: a sequence has the pages its position needs, each filled up to what
  the position says, and the pages of its pending append are empty;
* `EntryOK`: an entry is not empty and covers whole pages, all of them full.

None of the three properties is inductive without `Lonely`: the commit of one sequence fills a
page, and what the others know of their pages survives only because that page is not theirs.
The argument is made once for all operations (`ChangeValid`): an operation changes the record of
at most one sequence, and every page it does not own keeps its rows. `SealedImmutable` follows
from `Grows`, by which the number of rows of a page in use never gets smaller.

### `ContentProofs`: what readers find

* `EntriesCorrect`: `ContentSpec => []EntriesHoldTheirKeys`;
* `StoreImplemented`: `ContentSpec => RefinesStore`, the refinement of `TokenStore`.

`ContentAssumption` has `PageReuse < MaxGeneration` among the constants' assumptions, so the
results on the manager apply. Branches are included, and reservations and branches that fail in a
backend call. The other failures leave who owns which page, the tables and the pages handed out
as they are (`FailureAtomic`); they are not steps of `ContentCache`. `ContentInvariant` is the induction. Its
invariant is `Managed`, which is `IInv`, `Stored`, `Valid` and `Ordered` from the modules above, with
`Readable`:

* `Covered`: the table of a sequence reaches to the end of its pending append;
* `HasTokens`: every row below the position holds a token, not a blank (this is why the key of a
  retention is one that callers may name, `KeyNamed`);
* `Drafted`: what was written for a pending append is in the rows behind the position;
* `EntriesHoldTheirKeys`.

TLC checked on `contents` that every step keeps the conjunction before it was proved. Three facts
carry it. A step that writes nothing leaves the rows of every page alone that stays handed out
(`Steady`), and a handle that resolves before and after it names the same storage
(`HandleStays`): so whoever keeps his handles reads the same (`SequenceStays`, `EntryStays`). The copy of a branch goes to storage that was handed out to
nobody (`CopySteady`). A write goes to rows behind the position, and those are in pages that are
not full (`SpanOpen`); by `Lonely` and `Placed` such a page is in no other table and in no entry
(`SpanOwn`), and two tokens never share a row (`CellUnique`). Each action is then one step of the
store (`CommitServes`, `BranchServes`, ..., `WriteServes`), a reservation is none, and `ContentStep`
joins them.

### `AppendBatchProofs`: reservations and batches

* `TypeCorrect`, `ReservationsStayPendingCorrect`, `NoReservationLostCorrect`,
  `TransactionsCorrect`, `SegmentsCorrect`: the five invariants of the run `batch`;
* `BatchErrorCorrect`: the action property `BatchErrorExact`.

`IInv` has two parts. `MachineInv` is about the manager and the backend: the pending append
of a live sequence is exactly the one issued reservation of its nonce that is not
finalised, nonces are below the next one, the transaction of a nonce is open just while it
is pending, and the published table is the committed pages with those of the open
transaction. `HeldInv` is about the runtime and the call in progress: items are distinct,
what a loop has done and has to do partition its batch in order, and every issued
reservation that is not finalised is in exactly one batch or in the call. The second part
needs the first, since a call decides by validation what it gives back; the error of a
failed call is then the items still pending, `Filtered` from the batch, and that this
keeps their order is what the lemmas on `Subsequences` at its start are for.

### `PrefixIndexProofs`: the interning index

* `TypeCorrect`, `NoDanglingBlocksCorrect`, `BlocksExactCorrect`: the invariants of `index`;
* `RefinementCorrect`: `Spec => PrefixMap!Spec` under the mapping of the run.

`IInv` says that block ids and token blocks are inverse of each other (`Interned`), ids and
counts are within their limits (`Limits`), every entry has exactly one key in the tree and
its ids name the entry's blocks (`EntriesOK`, `Named`), a retention in progress has interned
a prefix of its key (`CallOK`), and the count of a block is at least the number of places
that hold it, and equal to it until entry ids run out (`CountsOK`). For the refinement,
`TokensOf` maps a key of ids to its blocks; under `Interned` this is one to one, so exact and
longest matches over ids are those over blocks. Interning, counting and rolling back leave
the mapped tree alone and are stuttering steps.

### Only model-checked

Liveness under fairness (`IdleCacheAdmits`), which the prover does not handle.
What sums over entries and sequences compute (`AccountingExact`), which would need induction
over data. The invariants of the example backends and their refinement of `TokenStore`: see the
plan.

## Plan

1. *Done:* `CacheState`, `SequenceCache`, their runs and first proofs.
2. *Done:* `PrefixIndex` with the refinement of `PrefixMap`, `AppendBatch`, `ContentCache`
   and the three example backends with the refinements of `TokenStore`.
3. *Done:* the proofs of `AppendBatch`, of `PrefixIndex` with its refinement, and of
   `ReferencesExact`, `HandlesNeverRevive`, `HistoryStable` and the properties of the pool and
   the tables.
4. *Done:* the proofs of the LRU order, of `SequencesValid`, `PrefixesValid` and
   `SealedImmutable`, of `FailureAtomic`, and of `EntriesHoldTheirKeys` with the refinement of
   `TokenStore` by `ContentCache`.
5. Proofs about the example backends: `PoolExact` and `DeviceWorkConfined` first.
