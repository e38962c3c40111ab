# Neuro-Paging: TLA+ verification project

Neuro-Paging keeps an agent's memories in a three-level hierarchy modelled on
an operating system's pager: a small FIFO working set in RAM (L1), a hot vector
cache on disk (L2) and an archive (L3). This directory holds TLA+ modules
translated from its Python source, TLC configurations that check them on small
instances, and TLAPS proofs about them. Line references are to the sources as
they are in this repository.

## 1. Inventory

| Part | State it keeps | Operations | Talks to |
| --- | --- | --- | --- |
| `memory/l1_working.py` | `_buf` (OrderedDict), `_bytes_used`, a lock | insert, remove, touch, clear, reads | nobody: evictions are return values |
| `memory/l2_metadata.py` | SQLite table `memories`, a lock per connection | insert, upsert, touch, delete, lookups, find_cold | used by L2, L3, read directly by the pruner |
| `memory/l2_cache.py` | HNSW index in RAM, `hnsw.bin`, `_max_elements`, `_next_label`, an RLock | insert, remove, touch, query, save, close, open | index and table, one call at a time |
| `memory/l3_archive.py` | the same, in a directory of its own | the same | the same |
| `memory/manager.py` | the three tiers, no lock | insert, query, get, promote, demote, forget, close | every tier, the embedder, the scorer |
| `daemons/pruner.py` | statistics, scheduler, a lock | start, stop, tick_once | L2's table, `manager.demote` |
| `routing/scorer.py` | per-query cache (text, context, embedding) | set_query, score | embedder |
| `embed/bge_runtime.py` | session, tokenizer, a lock; cached model files | embed, embed_query, lazy load | onnxruntime, Hugging Face hub |
| `npaged-core/kernel.cpp` | none | batched cosine similarity, threaded | nobody |
| `pipeline/agent.py` | none of its own | remember, recall, respond | manager |
| `ui/`, `bench/`, `eval/` | none | presentation, measurement | manager |

What is hard, and where:

* **Two stores behind one tier.** L2 and L3 change the index and the table one
  call at a time; readers take no lock, calls raise, processes die in between,
  and only the table is durable at once. Correct means: rows and live vectors
  agree between operations, a query never confuses two memories, the byte
  budget holds, and what is evicted reaches the caller.
* **Physical versus logical capacity.** A deleted vector keeps its slot, so the
  index must grow under a tier that stays small.
* **Cascades without a lock.** An insert into L1 can evict into L2, which
  evicts into L3; promote and demote take a memory out before they put it
  back. Between any two tier calls other threads run, and every put can raise.
  Correct means: no memory is lost, in two tiers, or back from the dead.
* **Byte accounting.** L1 keeps a running total that must equal what it holds
  through updates, evictions in a loop, removals and clears.
* **Caches and lazy initialisation shared by threads** in the scorer and the
  embedder. Every step of loading a model and every embedding can raise, under
  a lock or between the publication of a cache's key and of its value. Correct
  means: the model is loaded once, nobody uses it half loaded, nobody waits for
  ever, and a query is ranked by its own embedding, computed once.
* **Opening and closing.** A migration whose statements commit one by one, two
  processes that open the same database, two tiers that are saved one after the
  other into files written in place. Correct means: a schema is whole or not
  taken for one, and what was closed properly is found again.
* **Threads that write one array** in the native kernel. Correct means: every
  row is written, by one thread, before the array is handed out.
* **A background job** whose ticks act on what they read a while ago, beside
  manual ticks and agents. Correct means: it loses and doubles nothing, gets
  every cold memory in the end, and `stop()` really stops it.

`PROJECT.json` lists every component, also the ones left out, and every hazard
with its line and the properties that cover it.

## 2. Modules

| Module | Models | Lines of code it translates |
| --- | --- | --- |
| `ByteBudget` | charges, budgets, "pop the oldest until it fits" | size estimates of the tiers |
| `L1Working` | `L1WorkingContext`, its eviction loop step by step | l1_working.py:77-242 |
| `L1Atomic` | abstract L1: every operation one step | the same, seen from outside the lock |
| `HnswIndex` | hnswlib's index as a value (external, 0.8.0) | what l2/l3 call |
| `MetadataTable` | the `memories` table as a value, one operator per transaction | l2_metadata.py:232-371 |
| `VectorTier` | the dual-store tier shared by L2 and L3 | l2_cache.py:113-500 |
| `L2Cache`, `L3Archive` | the two instances of it | l2_cache.py, l3_archive.py:103-409 |
| `MemoryStore` | abstract manager: one set of memories | manager.py's API |
| `MemoryManager` | the manager, its callers and the three tiers | manager.py:203-501 |
| `Pruner` | the pruner's ticks, start and stop, over `MemoryManager` | pruner.py:104-212 |
| `SchemaMigration` | opening metadata databases, by any number of connections | l2_metadata.py:81-163, 374-376 |
| `ManagerLifecycle` | opening, closing and crashing of the whole hierarchy, over `SchemaMigration` | manager.py:146-206, the tiers' `__init__`, `save`, `close` |
| `EmbedderInit` | lazy loading of the model by the threads of a process | bge_runtime.py:64-233 |
| `ScoredRecall` | recalls with the scorer's shared cache, over `EmbedderInit` | scorer.py:85-242, manager.py:357-414, agent.py:147-206 |
| `KernelPartition` | the parallel similarity kernel | kernel.cpp:48-142 |
| `MC*` | constants for TLC | |
| `ByteBudgetProofs`, `L1WorkingProofs`, `VectorTierProofs`, `ManagerProofs`, `PrunerProofs`, `LifecycleProofs`, `RecallProofs`, `KernelPartitionProofs` | theorems and the lemmas they rest on | |

### ByteBudget

A memory is an id. What it is charged (utf-8 text, reference and overhead in
L1; text and 1536 bytes in L2 and L3) is a positive number of *byte units*, at
most `MaxSize`. `Bytes(size, S)` is the sum over a set, written as the
cardinality of the set of byte cells the memories occupy: no recursion, so the
same definition is checked by TLC and reasoned about by TLAPS.

### L1Working, L1Atomic

`order` is the key order of `_buf`, `size` the charge of the version held,
`bytesUsed` the field `_bytes_used`. `insert()` holds the lock throughout but
its eviction loop is modelled iteration by iteration (`InsertStart`,
`EvictOldest`, `InsertFinish`), because the running total must be right in each
of them; `incoming` is the memory that the lock holder makes room for. The
code's `ValueError` for oversized memories is the guard `Accepts`. Lifetime
counters are left out.

`L1Atomic` is what the manager relies on: an insert takes away the shortest
prefix that makes room. `AtomicInsert` is the refinement: while the lock is
held, the mapping shows the state the insert found (`before`), and the loop's
last step is the atomic insert.

### HnswIndex, MetadataTable, VectorTier

A vector is abstracted to the memory whose embedding it is, so that "the vector
under label l is not this row's" can be said. `HnswIndex` gives each call its
effect and, as a `Can...` guard, the condition under which it raises:
`mark_deleted` of a label that is absent or already a tombstone, `add_items`
beyond the slots, `resize_index` below the slots in use, `knn_query` for more
labels than are live. `load_index` with too small a size falls back on the
saved one. `MetadataTable` has the rows in the order of `last_touch`.

`VectorTier` has one action per change of one store. `writer` is the operation
that holds the RLock (its program counter names the next store call), `reader`
a `query()` beside it, which takes no lock: count the rows, search, look labels
up one at a time. A call on the index raises when its `Can...` guard is false, as
an alternative of the action; a call on the metadata may raise whenever SQLite
pleases: `MetadataFails` stands for the next one of the operation that holds the
lock, whichever it is, up to `MaxFaults` times. Either way `Raise` drops the
operation, and with it the list of memories it had already evicted (history
variable `lost`), and what the other store has done stays done. A metadata call
that raises before the operation has changed anything, or in `touch()` or the row
count of `query()`, changes nothing and is not a step; a row lookup that raises ends
the query (`QueryRaises`). `table` is durable, `index` is not; `image` is `hnsw.bin`.
`Crash` may happen between any two steps.

A row keeps what its text is charged, in `table.size`: `Lengths` gives each memory
the charges of the texts that an `insert()` may bring for it, so an update can
shorten or lengthen the text. It evicts nothing in either case (`UpdateRow`), which
the history variable `lengthened` remembers until an insert next runs to its end.

`AdoptsCapacity` separates the tiers: L2's `__init__` adopts the size of a grown
index and its growth starts from the slots in use; L3's does neither.
`L3Archive` also over-fetches (`Overfetch = 4`) and stops at `K` hits.

Left out: row contents other than the text's size, counters, embedding
dimensions (checked before anything changes).

### MemoryManager, MemoryStore

One action is one call on one tier, which is atomic there; between two of them
any other thread may run. A thread carries the list `todo` of puts it still
owes: storing a memory prepends a put one tier below for each memory that the
tier evicted, which is exactly the order of the nested loops in `insert()`,
`promote()` and `_cascade_to_l3()`. `Embed` (`_with_tier` and `embed()`) is a
step of its own before each put into L2 or L3, since it stamps `last_touch`.
`PutRaises` is the exception of `embed()` or of the tier's `insert()`, before
anything is stored. Out of the first put of `insert()` a `ValueError` does not
reach the caller: the handler meant for memories too large for L1 stores the memory
in L2, whatever the tier asked for (`InTry`, `Reroute`; `at` remembers that tier
until then). A tier's `insert()` that raises after it has stored
the memory is the subject of `VectorTier` only. `promote`, `demote` and `forget` search and remove tier by tier.
`query` has its four reads (L3 is read twice in the code), deduplication by
first occurrence, any `k` winners, and one touch per hit in the tier it was
read from.

The tiers inside it are the abstract ones: L1 is `L1Atomic`'s insert, L2 and L3
evict the coldest until the budget holds, which is what `VectorTier` does
between two locks. `max_elements` is left out because the index grows.
One charge per memory is used for the three tiers.

`MemoryStore` is what a caller may think the manager is: a set of memories that
are inserted once, forgotten, or lost for good (off the bottom, or by an
exception that reached the caller). The refinement mapping
counts a memory as stored when it is in a tier *or in the hands of a thread
that is about to put it back*.

### Pruner

Extends `MemoryManager`: its `Threads` are now agents and *tickers* (the worker
of the scheduler, and whoever calls `tick_once()` directly). A tick reads the
cold rows of L2 once (`batch`), then calls `demote()` on each, and these calls
take the manager's steps. Time is the set `cold` of rows past the threshold:
the row untouched longest becomes cold (`GrowCold`), storing or touching it
makes it warm. `stop()` holds the lock while it waits for the tick in flight
(`stopping`), and `max_instances=1` is that the worker is one thread. Skipped
and empty ticks change only statistics, and a demotion that raises only counts
as an error, so none of that is a step.

### SchemaMigration, ManagerLifecycle

`SchemaMigration` has one step per statement of `_migrate`: the connection is in
autocommit mode and `executescript` opens no transaction, so each statement is
committed alone, and `L2Metadata`'s lock is one per connection. `schema[db]`
counts how often each of them has taken effect; `CREATE` of an object that
exists is refused and the exception leaves `__init__`.

`ManagerLifecycle` has the two tiers' connections and one of another process
("the pruner daemon could open its own", l2_metadata.py:84). `__init__` opens L2
(metadata, then index), then L3; `close()` saves and closes L2, then L3. A save
is two steps, since hnswlib truncates the file and fills it. What `VectorTier`
does in many steps is one here (`Put`, `Remove`): the subject is what is found
when the directory is opened again. `CloseRaises` may leave either tier closed
or its file torn, and `close()` may be called again. `intact` is history: no
crash so far outside `__init__`.

### EmbedderInit, ScoredRecall

`EmbedderInit` has the steps of `_ensure_loaded`: the check without the lock,
the lock and the second check, the two files that exist or are copied (each copy
two steps), the session, the tokenizer, its configuration. Each may raise, the
last three with whole files too and always with torn ones, and the `with`
statement releases the lock. `files` outlives the process.

`ScoredRecall` runs recalls on top: up to three embeddings by `query()` (L2, L3
and L3 again, whose exceptions are swallowed), then for each candidate
`score()`: compare the cache's key, publish text, publish context, embed, store
the embedding, embed the memory, read the query embedding again. Exceptions
there leave `recall()`. An embedding is the text it is of. `seen` is history,
kept while no other recall overlaps: embeddings of the query by the scorer, and
whether a candidate was ranked by another embedding than the query's.

### KernelPartition

The calling thread computes thread count and chunk and launches threads over
slices; each writes its rows one at a time, while the launch is still going on;
the caller joins them. `std::thread` may throw: with threads running, the
vector's destructor terminates the process, otherwise the exception reaches the
caller. Dot products are left out; who writes which row is in `wrote`.

## 3. Runs

`tlc -config X.cfg M`; all with deadlock checking on.

| Run | Module | States | What it shows |
| --- | --- | --- | --- |
| `MCL1Working` | MCL1Working | 2 thousand | exact total, strict budget, nothing dropped, FIFO order, refinement of `L1Atomic` |
| `MCL2Cache` | MCL2Cache | 1.8 million | until a crash: truthful lock-free queries, rows and vectors agree but for one row per metadata call that raised, and the budget holds until one raises or an update lengthens a text; also after it: victims are returned, slots for fresh vectors, unique labels |
| `MCL3Archive` | MCL3Archive | 3 million | agreement, budget and truthful over-fetching queries of L3, without crashes |
| `MCSequential` | MCMemoryManager | 1.2 million | one caller, exceptions anywhere: the hierarchy is one store (`StoreSpec`; that nothing vanishes follows from it), memories are where the last move or insert was to put them, operations return |
| `MCConcurrent` | MCMemoryManager | 3.6 million | two callers: budgets hold, nothing vanishes, a query returns no memory twice that moves between its reads or that both callers have left in two tiers |
| `MCPruner` | MCPruner | 135 thousand | two tickers and an agent: no memory doubled, `stop()` waits and returns, cold memories leave L2 |
| `MCLifecycle` | MCLifecycle | 92 thousand | no half schema passes for a whole one, migrations are applied once, a closed hierarchy is found again |
| `MCKernel` | MCKernel | 6.6 thousand | disjoint writes, complete results |
| `MCRecall` | MCRecall | 351 thousand | the model is loaded once and never used half loaded; a recall that runs alone is ranked by its own query, embedded once; recalls end |

Runs that end in a counterexample show where the code does not do what it, or
its documentation, says. Each checks one property.

| Run | Property | The statement it refutes |
| --- | --- | --- |
| `MCL2UpdateFull` | `UpdateKeepsMemory` | l2_cache.py:16: a failure rolls the metadata back; the update path deletes the row |
| `MCForgetRace` | `ForgetIsFinal` | manager.py:17: hard delete |
| `MCPromoteOversized` | `ExceptionsLoseNothing` | l1_working.py:20: oversized memories are routed to L2/L3 |

The properties of the passing runs are stated so that they hold of the code,
and their conditions come from what the code does not do:

* `DualStoreInSync` is claimed until the first crash, and allows one orphan, a row
  without a live vector, for each metadata call that raised. "All mutations are
  metadata-first, then HNSW so a metadata failure leaves HNSW untouched"
  (l2_cache.py:16-17) is not what the update path (301, then 305), both evictions
  (408, then 410; 452, then 454) and `remove()` (485, then 487) do: they tombstone
  the vector first, and when `upsert` or `delete` raises, the row stays and no query
  finds it. There is never a vector without its own row (`StrayVectors`).
* `WithinBudget` is claimed until a crash or a metadata call that raises, because an
  orphan that becomes the coldest row makes `mark_deleted` raise at every insert that
  has to evict, after the new row is stored: the tier is no longer bounded until that
  row is removed by hand. It is not claimed either between an update that lengthens a
  text and the next insert that runs to its end: "If both succeed and we exceed
  capacity, the eviction step inside the same lock removes the coldest entries"
  (l2_cache.py:286-288) is not true of the update path, which returns `[]` before it
  (l2_cache.py:313; l3_archive.py:285 likewise).
* `EvictedIsReturned` names the two ways in which victims already deleted are not
  returned: a metadata call of the same insert raises, or the eviction goes on to a
  coldest row that has no vector. The pre-eviction at the row ceiling
  (l2_cache.py:400-410) comes with the growth of a full index, so it happens
  only after a reopening that follows a crash, which the run covers.
* "The cache class enforces invariant: every memory in HNSW has a metadata row,
  and vice versa" (l2_cache.py:15) does not survive a crash either: rows are
  committed at once, the index reaches `hnsw.bin` in `save()`, and `__init__`
  does not reconcile them.
* "Reopen-safe" (l3_archive.py:16) fails for an archive that has grown: it is
  reopened with the requested `max_elements` and grows from that, below the
  slots in use; `resize_index` refuses and inserts fail. architecture.md:205-208
  describes the remedy, which only L2 has. `MCL3Archive` reopens such archives: the
  inserts that fail leave agreement and budget as they were.
* A tick demotes a memory that a query touched, or that was promoted, after the
  tick read its candidates (pruner.py:199-201): pruner.py:99 "demotes cold L2
  memories" is a statement about the moment of reading, and no property says
  more.
* The budget is in the sizes the code charges. l2_metadata.py:337 calls them
  utf-8 bytes, but `LENGTH(text)` counts characters.
* No property bounds the live rows by `max_elements`: l2_cache.py:36 calls it
  an absolute upper bound, but growth raises it before it is compared.
* `LabelIsFresh` is about the labels of rows. A reopened tier resumes from the
  largest label of a row and can reuse one whose tombstone is still in the
  index, which `add_items` revives; the run covers it. Whether a query that runs
  across such a reuse is truthful is not explored.
* `QueryTruthful` is claimed until the first crash. It says that what a query
  returns is right, not that it returns something: one that counts the rows between
  an insert's row and its vector asks for a label too many, the `RuntimeError` is
  caught, and the answer is [].
* `SingleResidence` is checked with one caller and, in `MCPruner`, with callers
  that only insert and demote. When two moves of one memory interleave and one
  is a promotion, both store what they read: the memory stays in two tiers.
* `MigratedOnce` exempts databases whose migration was interrupted, and
  `ReopenFindsAll` says nothing of one that cannot be opened. A crash, or a
  second opener, between `CREATE TABLE memories` and the version row makes every
  later open raise, since the `CREATE`s have no `IF NOT EXISTS` (docstring,
  l2_metadata.py:111: "Create tables if not present"). An `hnsw.bin` torn by a
  crash makes every later open raise as well: it is not written to a
  temporary name first. `ReopenFindsAll` assumes `intact` for these reasons and
  for the crash divergence above.
* `OwnQueryScored` and `EmbedsQueryOnce` are claimed for a recall that no other
  one overlaps and that does not find its own key with another's embedding.
  Both cases happen although score() promises to be "correct even when used
  directly" (scorer.py:216): two threads that interleave in `set_query()` mix
  text, context and embedding of two queries and rank by the wrong one; and a
  query whose embedding raised and that is asked again finds the key it
  published before the exception, so it is ranked by an earlier query's
  embedding, or by none, without an error. scorer.py:27 says the caller embeds
  "via set_query()"; the manager never calls it.
* `AssertionHolds` is about `None`. A thread that comes while the tokenizer is
  published but not yet configured (`raw`) uses it without truncation.
* The recency factor at the half-life is 1/e (scorer.py:197), not the 0.5 that
  scorer.py:186 says, and T = 5 is not the hardware_concurrency that
  kernel.cpp:96 says. Both are values the modules abstract from.
* `NothingVanishes` exempts what an exception left in no tier (`dropped`): a
  victim whose `embed()` raises is lost, and so is the rest of its cascade.
* `PlacedWhereMeant` takes the tier a memory is meant for from what `insert()` has
  decided. "Oversized for L1 — route directly to L2" (manager.py:312) is the comment
  of a handler that catches every `ValueError` of the put into any tier: one that the
  embedder raises in `insert(tier=Tier.L3)` stores the memory in L2, and `insert()`
  returns its id as if it were where it was asked for (`Reroute`).

## 4. Bounds, and why they are enough

* **Memories**: three in the tiers (a victim, one that stays, one that comes),
  one larger than the others so that an eviction loop takes several turns and
  an oversized memory exists. Two with two threads, so that they cross.
* **L1**: capacity 3, charges 1 to 4: every update changes the charge, one
  insert evicts up to all others, 4 is refused.
* **Vector tiers**: opened with one slot and `Headroom = 1` (16 in the code), so
  tombstones fill the index and it grows, twice within the labels 0 to `MaxLabel` = 2
  (more in the runs that need a longer trace); an archive outgrows the size it is
  reopened with. `MaxLabel` bounds the labels ever given: guard of `InsertStart` and
  `UpdateStart`. Texts have one unit or, for one memory, one or two (`Lengths`), with
  a capacity of two: that memory's update fits alone, exceeds the budget beside
  another, and makes the eviction loop take several turns. `MaxFaults` = 1 bounds the
  metadata calls that raise, at whichever call, and `MaxCrashes` = 1 crashes, before or
  after it; the theorems have neither bound. `Save` is explored only while a crash can
  follow, since otherwise `Close` overwrites its file. `MCL2Cache` uses the symmetry
  of the two memories of one unit; its action property is about steps, which the
  permutation respects.
* **Queries**: `K = 1`, one at a time, since queries do not write: a hit is
  resolved while its label changes hands. They are explored before a crash only.
* **Manager**: capacities of one or two units, so that a put cascades to the
  bottom. `MCConcurrent` uses symmetry under permutations of the threads and of
  the two equal memories, and its queries read all the tiers (`DeepQueries`; in
  `MCSequential` they may stop earlier); it checks invariants only.
* **Pruner**: two equal memories, L1 holds one, batches of one, so that the
  second cold memory has to wait for another tick. The agent only inserts and
  demotes (`AgentOps`).
* **Lifecycle**: two memories, two tiers with a database each, one other process
  on L2's; `MaxCrashes` = 2 bounds crashes and exceptions of `close()`, so that
  one can follow the other. Openings and closings are not bounded.
* **Kernel**: 0 to 11 rows, up to 5 threads (`MaxThreads`), threshold 2 for 8192
  and 3 for the automatic 5: rows below, at and above the threshold, fewer than
  the threads, and dividing them or not, with thread counts for which the last
  threads get no slice at all. The proofs have no such bounds.
* **Recall**: two threads, of which one changes the text between recalls and the
  other the context, up to `MaxCandidates` = 2 (a second candidate must reuse the
  cache). Exceptions and process deaths are not bounded; embeddings of the
  query are counted to two.

## 5. Fairness

`MemoryManager`, `Pruner` and `ScoredRecall` have liveness. `OperationsReturn` is under weak
fairness of each thread's `Step`: a thread in an operation always has a next
tier call and Python's threads are scheduled by the operating system; no
fairness is assumed of starting an operation, and none between threads waiting
for a tier's lock, since a tier call is one step. It is checked with one thread.

`Pruner` adds weak fairness of the steps of a tick and of `stop()`'s return
(what it waits for comes to an end), and strong fairness of the scheduled tick:
the scheduler fires every interval while it runs, and the device is idle and
charged again and again at some of these times, or no tick would ever pass the
power gate. Candidates may come and go between ticks, hence strong. Nobody has
to start or stop the pruner, and time does not have to pass.

`RecallReturns` is under weak fairness of each thread's steps and strong
fairness of its taking the embedder's lock. Python's `threading.Lock` is not
first come first served, but its waiters are woken when it is released, and a
thread that finds it free again and again gets it; with weak fairness alone TLC
shows a thread starved by another one whose loads keep failing. No fairness is
assumed of starting a recall, of a load succeeding, or of the process dying.

## 6. Proofs

`L1WorkingProofs` proves, for every finite set of ids, every `MaxSize` and
every `Capacity` (assumptions `BudgetAssumption`, `L1Assumption`), of every
behaviour of `L1Working!Spec`:

* `L1TypeCorrect`: `[]TypeOK`;
* `L1BytesExact`: `[]BytesExact`, the running total never drifts;
* `L1WithinBudget`: `[]WithinBudget`, the budget is strict;
* `L1NeverDrops`: `[]NeverSilentlyDrops`.

None of them is inductive. The step that matters is the end of the loop when
the buffer is empty: the new memory fits because the running total is then 0,
which needs `BytesExact` *and* `KeysAreHeld` (the order lists exactly the
memories charged for, once each), and because `Accepts` refused anything larger
than the capacity, which must be remembered while the loop runs
(`IncomingFits`). `L1Inv` is the conjunction; one lemma per action shows that
it is preserved, `L1Invariant` concludes. `NeverSilentlyDrops` needs in
addition that the list of victims starts empty (`DropInv`).

`ByteBudgetProofs` has the lemmas they rest on: the sum of charges is a natural
number, adding a memory adds its charge (through a bijection between the cells
of a memory and `1..charge`), only the charges of members count, and what
deleting and appending a key do to an order without repetitions.

`KernelPartitionProofs` proves, for every set of row counts, every thread count
and every threshold (`KernelAssumption`), of every behaviour of
`KernelPartition!Spec`:

* `KernelRaceFree`: `[]RaceFree`, no row is written by two threads;
* `KernelResultComplete`: `[]ResultComplete`, the array is handed out with exactly
  its rows written.

The invariant (`KernelInvariant`) is that the rows thread `t` has written are
those between `Start(t)` and its cursor, and that the cursor stays within the
slice. Race freedom follows because slices are ordered (`StartsOrdered`: a later
thread starts where an earlier one has ended). Completeness needs that the
slices cover all rows (`CeilChunkCovers`: w * ceil(n / w) >= n, so every row has
its chunk, `RowHasChunk`), and that the launch loop may stop at the first
empty slice because all later ones are empty too. These are non-linear facts,
proved once as lemmas about products and quotients.

`RecallProofs` proves, for every number of threads, queries, contexts and
candidates (`EmbedderAssumption`, `RecallAssumption`), of every behaviour of
`ScoredRecall!Spec`:

* `RecallAssertionHolds`: `[]AssertionHolds`, and `RecallSessionCreatedOnce`:
  `SessionCreatedOnce`;
* `RecallScoresOwnQuery`: `[]OwnQueryScored`, and `RecallEmbedsQueryOnce`:
  `[]EmbedsQueryOnce`.

The first two follow from `EmbedderInvariant`: whoever is between the second
check and the release holds the lock, no tokenizer is published while it still
loads, and the session is there before the tokenizer. The other two need
`RecallInvariant`: an undisturbed recall is the only active one (`OthersIdle`),
and at each of its steps the scorer's cache is known (`Progress`). Before the
first candidate the cache may hold anything but this query with another
embedding; it is in `score()` that either the comparison fails, and the three
assignments follow, or it succeeds, and the cache is the recall's own. One lemma
(`RecallAdvances`) brings every step of a recall into the form "thread `t` moves to
this position, with this cache and history", and `AdvancePreserves` is proved
once for that form.

`LifecycleProofs` proves, for any number of connections, any rows and any
number of crashes (`SchemaAssumption`, `LifecycleAssumption`), of every
behaviour of `ManagerLifecycle!Spec`, which opens its databases by
`SchemaMigration`'s steps:

* `VersionedDatabasesAreComplete`: `[]VersionedIsComplete`, and
  `MigrationHappensOnce`: `[]MigratedOnce`;
* `ReopeningFindsAll`: `[]ReopenFindsAll`.

The invariant says what each connection that runs the script has behind it
(`ScriptBehind`: the statements before its position took effect), that nobody
who has read "no version" can be past the insert of the version, and what a
crashed script leaves half-way is alone on its database (`AloneHalfway`).

`ManagerProofs` proves, for any threads, memories, charges and capacities
(`ManagerAssumption`), of every behaviour of `MemoryManager!Spec`:

* `ManagerTyped`: `[]TypeOK`;
* `BudgetsHold`: `[]TierBudgets`, between any two tier calls of any threads;
* `MemoriesAreAccountedFor`: `[]NothingVanishes`, whatever raises;
* `HitsAreDistinct`: `[]NoDuplicateHits`, whatever moves the candidates between
  the reads.

`ManagerInv` adds to these what the local variables of a thread mean at each of
its positions (`Sensible`): a thread that puts has something to put, a put to
L1 is the only one left, what a rerouted insert stores again is its own memory and
all it has in hand, candidates of a query are distinct once ranked; and
what the tiers are (`DataOK`). Two lemmas carry most of the weight:
`L1Evictions` and `VictimsFacts` say that popping the oldest leaves a set that
fits and that every victim becomes a put to the next tier (`LeftToDo`), and
`NothingVanishesStep` reduces accounting to what one thread had in hand before
and after the step.

With a single caller (`SoleCaller`, a hypothesis of the theorems, because the
runs with several callers refute the conclusions) it proves in addition

* `MemoriesHaveOneTier`: `[]SingleResidence`, and `ForgottenIsGone`:
  `[]ForgetIsFinal`;
* `ManagerImplementsStore`: `StoreSpec`, the refinement of `MemoryStore`;
* `NewcomersStay`: `PlacedWhereMeant`, an insert, promote or demote that returns
  has left its memory in the tier it was meant for, whatever it evicted: that
  asked for, or L2 if a `ValueError` rerouted the insert.

`SoleInv` says that every memory is in exactly one place, a tier or the hands
of the caller (`OneHome`), and that what was forgotten or given up is in
none (`GoneForGood`). `StoreStep` is what every step does to the set of stored
memories; `StoreStepIsNext` shows that this is a step of the abstract store.

`NewcomersStay` has a second hypothesis, `FitsBelow`: no memory is larger than all
of L2 or of L3. The code accepts such a memory and lets it evict everything, itself
included (`l2_cache.py:431`, a hazard). With several callers the property would
fail too: another thread may stamp its own memory, or move this one, between the
stamp and the put. Its invariant is `Placing`. Before its own put a memory is all
that the caller has in hand, and once stamped it is the last of its tier's
`touched` order (`AboutToPlace`); after it the memory is in its tier and only puts
to lower tiers are left (`HasPlaced`). The step between them is
`NewcomerStays`: victims are taken from the front of that order and `PopCount`
stops at the first count that fits (`PopCountProperties`), while the newcomer alone
would fit, so the loop ends before it.

`PrunerProofs` proves `PrunerIsACaller`: the pruner takes no step that the
manager's specification does not allow, so that the four theorems for any
threads hold beside it. Of the pruner itself it proves `PrunerTyped`
(`[]PrunerTypeOK`: cold memories are rows of L2, batches are bounded) and
`StopWaitsForTick` (`[]StopWaits`), with `PrunerInv`. And it proves

* `TicksKeepResidence`: `[]SingleResidence` beside any number of tickers, for
  one agent (`LoneAgent`) that inserts, demotes, forgets and queries but does
  not promote (`NeverPromotes`).

Both hypotheses are needed: `manager.py` takes a memory out of its tier and puts
it into the next in two calls, so two threads that move it in opposite
directions, or two that both demote it out of L1, can leave it in two tiers.
Several ticks may demote the same memory at the same time, though, and the agent
may meanwhile demote or forget it. The invariant, `SinkInv`, is that memories
only come down. Those that a thread may still store above L3 (`Above`; an insert's own
memory is among them whatever the tier asked for, since it may be rerouted) are
in neither L2 nor L3, and L2 and L3 have none in common (`Layered`). What a tick
has chosen is not above L2 any more (`TicksBelow`), whatever has happened to it
since, so a tick only ever stores in L3. And what any thread is to store in L3
(`Sinking`) is neither above L2 nor in it (`Descending`): two threads may store
the same memory there, which is one row. `SinkFrame` says once what a
step must establish of its own thread so that the others keep theirs.

`VectorTierProofs` proves, for any memories, labels, charges of texts, capacities
and numbers of crashes and of metadata calls that raise (`TierAssumption`), of L2's
specification and of L3's:

* `TierTyped`, `LabelsAreFresh` (`[]LabelIsFresh`) and, until a crash,
  `QueriesAreTruthful` (`[]QueryTruthful`);
* `StoresStayInSync` (`[]DualStoreInSync`): until a crash no vector is stray, and at
  most as many rows are orphans as metadata calls have raised;
* `TierStaysWithinBudget` (`[]WithinBudget`), with texts of any length: until a
  crash or a metadata call that raises, the budget holds whenever no update has
  lengthened a text since the last insert that ran to its end;
* for a tier that adopts its capacity, `InsertsHaveSlots` (`[]FreshInsertHasSlot`)
  and `EvictionsAreReturned`: `EvictedIsReturned`, and nothing is lost at all while
  there is no crash and no metadata call raises. The hypothesis is what tells L2
  from L3: L3 resizes below the slots in use and inserts raise.

`TierInv` says of every step of the writer between which two stores it is.
`Synced` is agreement outside the one row that is `Pending`, up to the `Orphaned`
rows, of which `MetadataFails` adds one at most: the pending one. `Paying` bounds
bytes and live vectors at each step of the eviction loops, as long as nothing has
raised; its clauses on bytes also need that no text was lengthened. `Roomy` counts
slots; `Truthful` says that the label of a vector a query has found is, as long as a
row carries it, that memory's, because labels are never handed out again
(`LabelsBelow`). Without orphans every call of the writer on the index is found to
succeed; with them, an eviction can only be refused at an orphan, which is the
second alternative of `EvictedIsReturned`.

`L1WorkingProofs` ends with what L1 promises its callers: `L1OrderIsHonest`
(`OrderHonest`), and `L1ImplementsAtomic` (`AtomicInsert`), the refinement of
`L1Atomic`. The invariant of the latter, `Popping`, says that the loop has taken a
prefix of the order the insert found, and that no shorter prefix would have
made room; `PopCountIs` characterises the abstract definition by just that.

What stays with TLC:

* liveness under fairness (`ColdLeavesL2`, `StopReturns`, `OperationsReturn`,
  `RecallReturns`), which the prover does not do;
* every disagreement (the runs that expect a violation).

## 7. Assumptions

* A transaction of `L2Metadata` and a call on the HNSW index are atomic (their
  own locks; the interpreter's).
* `last_touch` stamps are taken in the order of the steps that take them: two
  stamps never tie and the clock does not go back.
* hnswlib behaves as its 0.8.0 source does where the code calls it. A search
  that can find enough live labels finds them.
* A crash loses what is in memory; committed rows and a completely written
  `hnsw.bin` survive. `VectorTier` writes that file in one step; a crash or an
  exception in the middle of writing it is `ManagerLifecycle`'s subject.
* hnswlib's `save_index` reports its errors, or has none. (0.8.0 does not test
  its output stream: a full disk would go unnoticed.)
* onnxruntime and tokenizers refuse a torn file; hnswlib's `load_index` too.
* One attribute assignment in Python is atomic; so is the comparison of the
  cache's two keys in `score()`, and the check of session and tokenizer, which
  are only ever set.

## 8. Not modelled, and why

* Values of embeddings and scores, pooling and normalisation, the NEON lanes of
  the dot product: floating point. Any ranking is allowed.
* Prompt formatting, row conversions, statistics, the dashboard: nothing reads
  them back. The agent's `remember`, `get_stats` and `close` are the manager's.
* Benchmarks and evaluation scripts measure the other parts.
* A metadata call that raises in `ManagerLifecycle`: the rows it would leave without
  a vector are `VectorTier`'s subject, and `ReopenFindsAll` is about the others.
* Several managers on one data directory, and several processes that fill one
  model cache: the code has nothing against either, and no statement about it.
* What becomes of L1 when the manager is closed: it is dropped, by design.
* `update_tier` of the metadata has no caller.

## 9. Plan

What is left:

1. Refinement of the manager's abstract L2 and L3 by `VectorTier`.
