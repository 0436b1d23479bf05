# Verification of flecs

TLA+ models of the core of flecs, an entity component system in C: the entity
index and its ranges, the archetype storage, component references, the command
queues, cleanup on delete, iterators and their memory, the schedule of a
pipeline and its threads, and the threads of the HTTP server. TLC checks the
models on small instances; TLAPS proves theorems about the entity index, the
storage, references, the stack of iterators, the worker threads and the HTTP
server for every instance.

Run a check with `tlc -config <Run>.cfg <Module>`, the proofs with
`tlapm <Module>Proofs.tla`. `PROJECT.json` lists the runs, the source lines
behind each definition, and the hazards with the properties that are about them.

## The system

A *world* holds *entities*, which have *components*. Applications create and
delete entities, add, remove and set components, and register *systems* and
*observers*, callbacks that run each frame and on changes.

| Component | State | Operations | Correct if |
|---|---|---|---|
| Entity index (`storage/entity_index.c`) | dense array of handles, a record per id, `alive_count`, `max_id` | new, new n, ensure, make alive, set version, remove | array and records agree; a deleted handle stays dead; ids are recycled before fresh ones are used |
| Entity ranges (`addons/entity_ranges.c`) | ranges with their own counter and recycled ids, the active one | create, activate, new, ensure, remove | an id is kept in one place and handed out once, within the active range |
| Tables (`storage/table.c`), entity operations (`entity.c`) | a table per set of components: entities and columns; record = table and row | append, move, swap-remove, swap, merge, bulk append, delete all | every record names its row; values follow their entity; nobody else changes |
| Component references (`ref.c`) | cached address and two version counters | init, update, get; every operation that moves a component | a fetched reference is what `ecs_get` returns |
| On-delete cleanup (`on_delete.c`) | marked ids and tables, action per mark | mark, clear, delete | ends; honours the policies; leaves no reference to what it deleted |
| Command queues (`commands.c`) and stages (`stage.c`) | per stage: `defer` counter, two queues, entries per entity, `cmd_flushing` | defer begin/end/suspend/resume, enqueue, flush, batch, merge | a flush has the effect of the calls in order; it ends; it is not re-entered |
| Worker threads (`addons/pipeline/worker.c`) | threads, mutex, two condition variables, counters, quit flag | start, wait, run, sync, quit, join, reconfigure | every stage runs an operation once; the main thread is alone otherwise; no lost wakeup |
| Pipeline (`addons/pipeline/pipeline.c`) | list of operations and systems, current operation, `Empty` tags | build, next system, run, startup systems, progress | every system runs once and in order, after a merge of what it reads |
| Iterators (`iter.c`), systems (`addons/system/system.c`) | chained iterators, offset, limit, shares | next of query, page and worker, fini | exactly the entities asked for; the shares of workers are a partition; resources are released once |
| Stack allocator (`datastructures/stack_allocator.c`) | pages, cursors | alloc, get cursor, restore cursor | memory of an open iterator is its own; nothing is left in the end |
| HTTP server (`addons/http/http.c`) | connections, request and reply queues, reply cache, two threads | start, accept, receive, dequeue, send, purge, stop | replies reach their client; a thread uses its own descriptors; a stop returns |
| Observers (`observer.c`, `observable.c`), component actions | observers per event and id | register, emit, propagate, forward | each match is notified once |
| Component index, table cache, table graph | component records, table lists, edges | register, find, delete table | every table is listed under exactly its ids; no edge to a deleted table |
| Query cache, change detection | matched tables, groups, dirty counters | match, unmatch, iterate, is changed | matches are the tables that match; no change is missed |
| Timers | tick sources, rates | progress | a tick per period |
| Sparse set, maps, vectors, block allocators, names | containers | | |
| Query compiler and engine | instructions, backtracking state | | |
| Script, reflection, JSON, REST, stats, metrics, alerts, C++ layer | | | on top of the public API |

How they interact. An operation on a world that is deferred becomes a command of
the calling stage's queue (`flecs_defer_*`); otherwise it changes the index and
the tables, with stage 0 deferred while it does, so that what observers do in
the middle of it is enqueued and flushed at its end. A delete first cleans up
what refers to the entity, then takes its row and its id. A frame runs the
operations of the pipeline, which are batches of systems: the world becomes
readonly, the workers are woken and each runs the systems on its own stage, with
its share of the results, and at the end of the operation the main thread merges
the stages one after the other, which flushes their queues into the storage and
may change the schedule itself. Iterators take their memory from the stack of
their stage. The HTTP server hands requests to the main thread, which answers
them between frames.

What is hard here: the interleavings of the main thread with workers and with the
threads of the HTTP server around locks, condition variables and unprotected
flags; callbacks in the middle of operations that can change anything; batching,
which reorders commands; handles, references and schedules that outlive what they
were made for; and long sequences of operations on structures that keep two or
three copies of the same fact (dense array and records, rows and records, queue
and entries, a version counter for a move).

## Modules

`EntityHandles` (abstract) and **`EntityIndex`**: the dense array with its
records, one action per operation of the world on it. `Ensure`, `Remove`,
`MakeAlive`, `NewId` and `NewIds` are operators from an index to an index, so
that `EntityStorage` and `EntityRanges` use the same definitions. Pages are left
out: a page is allocated zeroed, and a zeroed record is one that does not exist.
`dead` is a history variable. `max_id` wraps as a `uint32_t`, generations wrap at
`GenCount`.

**`EntityRanges`** composes the index with its ranges: `OnEnsure` and `OnDelete`
are the two places where the index calls the addon, `EcsRangeSet` saves the
recycled ids of the range that was active and loads those of the new one.
`EcsNew` checks the end of the active range, as `flecs_new_id` does, and
`EcsBulkNew` does not; the history `overran` says that ids were issued behind it,
which is the last step that the run follows (`BeforeOverrun`).

`EcsStore` (abstract) and **`EntityStorage`**: tables identified by their type,
rows, records, and the index. Every operation that moves a row is an action;
`SwapRows` is the step that sorting a table consists of, `EcsRemoveAll` merges
tables, `EcsDeleteWith` clears them in any order of the component's table cache
(`TableByTable`). It instantiates `EntityIndex`.

**`References`**: entities, tables with their versions, and references. The
actions are the operations on tables that move, free or reallocate a component;
the ones that call back are split at the call, and `RefGet` is possible there if
the application does that (`Applications`). Table ids and allocations are reused,
slots of `world->table_version` are shared by tables, `table->version` wraps at
`VersionLimit`, which stands for 2^16; the run keeps it above what `MaxChanges`
increments can reach (finding 5 is about what happens otherwise).

**`OnDelete`**: one step per component record and table that marking visits and
per table that clearing empties, with an explicit stack for the recursion of
`flecs_component_mark_for_delete` and for the nested `ecs_delete` of a policy.
`Merge` runs what observers enqueued in the middle. The policies are read a second
time, as a closure over the store before the call, to compare with.

**`Commands`**: queues, entries and `flecs_defer_end`. The storage is the one of
`EcsStore`. A flush is a sequence of steps (`FlushBegin`; per command
`BatchCommit`, `BatchValues` and `ExecCmd`; `FlushEnd`), because the code calls
observers between them, and because ending deferring on stage 0 there flushes
stage 0 (`InnerEnd`), in the middle of the flush of another stage. `React` is
what an observer may enqueue at such a point. `began` remembers, for each stage
that is flushed, the storage and the calls when its flush began, and the calls of
flushes that interrupted it since, to compare with. `Takes` keeps observers from
removing the component that a set of the same flush is about to write, for which
`flecs_set_id_move` aborts the program.

`ForkJoin` (abstract) and **`WorkerSync`**: the main thread in
`flecs_run_pipeline` and in `ecs_set_threads`, and the workers. One step per
section under the mutex, two for a wait, and separate steps for what is done
without the mutex (the quit flag). The operations of the pipeline are chosen
anew at each update.

**`PipelineSchedule`** (`MCPipelineSchedule` has the systems): the other half of
the pipeline. `Build` is `flecs_pipeline_build` as a fold over the systems of the
query, with the write state of the terms; a run takes one step per operation, in
which the merge may enable, disable, match and empty systems, and goes on where
`flecs_pipeline_update` says.

`Arena` (abstract) and **`IterStack`**: pages with their stack pointers and the
list of cursors. An iterator takes a cursor, allocates, allocates more while it is
advanced (`IterCalloc`), and is finished in any order.

**`IterChain`** (`MCIterChain` has the chains): a call of next goes down the links
of a chain and up again, one step per link; `NextWorker` is the next stage with the
same query. The reference is the list of entities that offset, limit and share
stand for.

**`HttpServer`**: the server thread from `accept` to the handing over of a request,
the sender thread, and the application in `ecs_http_server_dequeue`, `start` and
`stop`. A section under the lock is a step; descriptors are a resource of the
operating system, which hands out the lowest free one, also to the application
(`AppOpen`), at any time. The main thread purges a connection whatever the server
thread does with it (`Expired`). The history `raced` says where the server thread was
when its connection was purged, or when the number of its listening socket was given
away; `misused` which uses of a descriptor or of memory were of somebody else's. The
cache holds one GET: an entry that has expired is as good as none, since it is
neither found nor kept by the next answer.

Definitions named "Faulty variant" are plausible mistakes in the definition
that follows them. Replacing the one by the other has to violate a property;
`PROJECT.json` says which. No specification uses them.

## Runs

| Run | Bounds | Distinct states |
|---|---|---|
| `EntityIndex` | 3 ids, 3 generations | 9 157 |
| `EntityRanges` | 3 ids, 3 generations, any set of ranges that do not overlap, up to the first overrun | 225 615 |
| `EntityStorage` | 3 ids, 2 generations, one component and one tag, 2 values | 24 595 |
| `References` | 1 reference, 2 ids (symmetric), 2 generations, 3 tables that share 2 slots, 5 increments per slot | 1 309 191 |
| `OnDelete` | 3 entities, a tag, 2 relationships, a target, Delete and Panic, 3 additions | 553 338 |
| `Commands` | 1 stage, 2 ids (symmetric), 2 versions, one component and one tag, 3 calls | 1.17 million |
| `CommandsStaged` | 2 stages, 1 id, 1 component, 3 calls, nested deferring | 72 360 |
| `WorkerSync` | 0 to 3 workers or task threads, 2 operations | 29 354 |
| `PipelineSchedule` | 24 pipelines of three systems, 121 of two | 363 019 |
| `IterStack` | 3 iterators (symmetric), pages of 3 units, 4 pages, blocks below and above a page | 85 795 |
| `IterChain` | 3 results of up to 4 entities, 3 workers, chains of up to 2 iterators | 529 907 |
| `HttpServer` | 2 clients, descriptors 0 to 3, a ring of 2, one retry of each kind, one start | 501 854 |

All properties of all runs hold. The other configurations are counterexamples to
what a comment, an assertion or a document says of the code ("Findings"). `MaxId`, `MaxGen`, `MaxDefer`, `MaxIssued`,
`MaxOps`, `MaxAdds`, `MaxChanges`, `MaxPages`, `MaxInit`, `MaxLate`, `MaxResults`,
`MaxCount`, `MaxFd` and `MaxStarts` are the bounds; `issued` counts calls of
applications and observers together. `OnDelete`, `References` and `IterChain` stop
where a bound is used up (or, in `OnDelete`, at a panic; in `IterChain`, when the
last worker is done), so that deadlock is not checked there.

Why the bounds are enough for the interesting cases. Three ids make a swap in the
index that involves neither the first nor the last entry, and a bulk creation that
recycles one id and creates another; three generations make a handle that is
neither current nor the previous one; three ids make a range before, an active one
and one behind. Three entities with one component and one tag have four tables and
swap-remove, merge and sort with bystanders. Two of three tables share a slot of
`table_version`; five increments are a move, a deletion of the table, its
recreation and a move back. A policy can reach an entity on two ways and in a
cycle. Three commands make a list of an entity with a first, a middle and a last
one, or a delete and recycling in between; both queues of a stage are used because
observers enqueue during the flush. Three workers distinguish the first, a
middle and the last to arrive; two operations make a worker that is late for the
second; any number of frames and reconfigurations is explored. Three systems make
an operation before, at and behind the change that a merge makes, and pairs of
systems meet every combination of write and read of an id, a wildcard and a
source. Three iterators can be finished in six orders, with blocks that leave a
gap at the end of a page and one that fits in none. Four entities over three
workers have a remainder; offsets and limits end in, at and behind a result. Two
clients with three descriptors besides the application's use one descriptor twice,
and one of them can be purged while the other's request is in the ring. The run of
`HttpServer` has one start and no requests emulated while the server runs (`Emulates`),
which keeps liveness within minutes; its invariants also hold with `MaxStarts = 2` and
`Emulates = TRUE` (3 249 810 states), and are proved for all values.

### What the properties say

Each module has one invariant that joins the type with the structural facts every
operation relies on; its conjuncts are definitions of their own.

* `IndexCoherent`, `DeletedStaysDead`, `ImplementsHandles`: the index keeps each
  id in one place, never revives a deleted handle, and each operation changes
  the ids it is about and no others.
* `RangesInv` (`OnePlace`, `FreshIsFresh`, `DeletedStaysDead`), `IssuedInRange`: the
  same across switches of the active range. What `ecs_new` creates is within it; what
  `ecs_bulk_new` creates leaves it only behind its end, when no dead and no fresh id of
  the range is left. That it does leave it is finding 4: nothing in `ecs_bulk_new` looks
  at the end. From there on the counters of ranges mean nothing, so that `RangesInv` is
  about what comes before.
* `StorageInv` (`RecordsMatchRows`), `ImplementsStore`: an entity is alive exactly if
  it has a row, the record names it, and values follow the entity through moves,
  swap-removes, sorting and merges.
* `StoreInv`, `RefGetExact`: a fetched reference is what `ecs_get` returns, whatever
  happened to tables, rows, memory and ids since, and in the `on_move` hook and in the
  middle of a `delete_with` too.
* `CleanupInv` (`NoDangling`), `CallHonoursPolicies`, `CleanupEnds`: a cleanup deletes
  the closure of the policies, the rest loses exactly the ids that refer to it, and
  it ends.
* `QueueInv` (`FlushedQueueIsClosed`, `EntriesMatchQueue`): no command is added to a
  queue that is being iterated; entries never describe another version or an old queue.
* `SameAsSequential`, `LastWriteWins`: liveness and components after a flush are
  those of the same calls made one by one, with the calls of a flush that interrupted
  it (of stage 0, in the middle of a batch or a delete of stage 1: `CommandsStaged`) in
  between and in their order; a component that was set has the value
  set last. A component removed and added again in one queue keeps its value
  (batching cancels the pair, as a comment in `flecs_defer_remove` says), so the
  values of those are not compared.
* `FlushesEnd`: a flush or merge ends and leaves no commands behind.
* `SyncInv` (`SyncAssertions`, `SignalReachesAll`, `PrimitivesLive`),
  `MainHasWorldAlone`, `CommandsMerged`, `ImplementsForkJoin`: what the main thread and
  the workers rely on.
* `CallsReturn`: no call of `ecs_progress`, `ecs_run_pipeline` or
  `ecs_set_threads` hangs.
* `ScheduleInv`, `SyncBeforeRead`, `RanAsDeclared`, `RunsOnce`, `RunEnds`: a schedule has
  a merge between a write and a read of the same, runs a system as its flags say, and,
  rebuilt in the middle, goes on without a system left out or run twice.
* `StackInv`, `NothingLeft`, `OwnMemory`: memory of open iterators is not handed out
  again, in whatever order others are finished, and is all given back in the end.
* `ResultsExact`, `EachOnce`, `ChainInv`, `NextReturns`: a chain yields the entities
  that its offsets, limits and shares stand for; workers process each entity once; the
  query is finished once; a call returns.
* `ServerInv`, `OwnDescriptors`, `RightReply`, `ServerSettles`: a client gets the reply
  to its own request, connections end and a stop returns. The code does not keep a
  purge from closing the socket that the server thread is using, nor the number of the
  listening socket from being given away during a stop, and these are steps of the
  model. `OwnDescriptors` says what each of them can lead to: without the first
  nobody receives from a descriptor of somebody else, without the second nobody accepts
  on one or closes one, and with both nobody sends to one or touches a removed
  connection. The exception is a purge between `is_alive` and what the thread does
  without the lock (`"reply"` in `raced`); there a reply to a preflight goes to
  descriptor 0 and `http_enqueue_request` reads zeroed memory, and the three safety
  properties say nothing of what follows. `ServerSettles` holds there too.

### Fairness

`WorkerSync` assumes weak fairness of the main thread inside a call and of each
worker: the operating system runs a thread that can run, systems return, and no
thread is starved of the mutex (the main thread spins on it in
`flecs_wait_for_workers`). The application need not call anything. `Commands`
assumes weak fairness of the steps of a flush and that observers enqueue finitely
many commands (`MaxIssued`): two observers that trigger each other for ever do keep
a flush from ending in flecs too. `OnDelete`, `PipelineSchedule` and `IterChain` are
sequential: weak fairness of the steps of a call that has begun says that it is
executed. `HttpServer` assumes strong fairness of its two threads: neither is starved
of `srv->lock`, which the main thread takes in every frame (weak fairness would allow
that). Of the main thread it assumes weak fairness: `ecs_http_server_dequeue` is called
every frame, as the REST system does, and the server thread keeps the lock only to
answer from the cache, once for a client.

## Proofs

A component's theorems are in a module of their own. They hold for every value of
the constants that the named assumptions of the modules allow; where a theorem has
a further hypothesis it is in its `ASSUME` and below. TLC has checked each
inductive invariant on the small instances too.

| Module | Theorems | Property |
|---|---|---|
| `EntityIndexProofs` | `TypeCorrect`, `Coherence`, `NoResurrection`, `Refinement` | `TypeOK`, `IndexCoherent`, `DeletedStaysDead`, `ImplementsHandles` |
| `EntityRangesProofs` | `RangesCorrect`, `IssuedIdsInRange`, `NewIdsUnused`, `LoadedIdsAreDead` | `RangesInv`, `IssuedInRange`, `NewIdUnused`, `LoadedAreDead` |
| `EntityStorageProofs` | `StorageCorrect`, `StoreRefined` | `StorageInv`, `ImplementsStore` |
| `ReferencesProofs` | `StoreCorrect`, `RefGetCorrect` | `StoreInv`, `RefGetExact` |
| `WorkerSyncProofs` | `SyncCorrect`, `WorldAlone`, `AllMerged`, `ForkJoinRefined` | `SyncInv`, `MainHasWorldAlone`, `CommandsMerged`, `ImplementsForkJoin` |
| `IterStackProofs` | `StackCorrect`, `StackEmptied`, `ArenaRefined` | `StackInv`, `NothingLeft`, `OwnMemory` |
| `HttpServerProofs` | `ServerCorrect`, `DescriptorsOwned`, `RepliesRight` | `ServerInv`, `OwnDescriptors`, `RightReply` |

**Entity index**, for every `MaxId > 0` and `GenCount > 0`.

1. `EnsureEffect`, `RemoveEffect`, `MakeAliveEffect` and `NewIdsEffect` say of each
   operation on a good index that the result is good, what became of the ids it is
   about, and that it says of every other id what it said before (`SameAt`),
   although entries of others were moved. `NewIdIsNewIds` reduces creating
   one entity to creating n.
2. The inductive invariant `IInv` is the type, `IndexCoherent` and `DeadBehind`: the
   entry of an id is ahead of every deleted handle of that id. `DeletedStaysDead`
   is not inductive: it does not exclude that a dead id is stored with a
   generation that was deleted before, and the next creation would revive it.
3. `StepRefines` maps each step, from the same lemmas, to a step of `EntityHandles`.
4. `Sound` is a good index without the bound by `max_id`, which an index with ranges
   does not have. `NewIdsSound` is proved for these indexes; `EnsureSound`,
   `RemoveSound` and `MakeAliveSound` follow from the effects above, since these
   operations do the same to an index with its `max_id` raised to `MaxId`.

**Entity ranges**, for every `MaxId > 0` and `GenCount > 0`, any ranges that do not
overlap and any switches between them, and under `Careless = {}`: the application does
neither of what findings 2 and 3 are about, as in the run. `ecs_bulk_new` is as it is in
the code, without a check; the theorems are about behaviours up to its first overrun,
that step included in `IssuedIdsInRange`.

1. The operations on the index are those of `EntityIndex` (`SameOperations`), so that
   their effects are the lemmas about sound indexes; `RemoveNotAliveEffect` and
   `ReloadEffect` add the two that only ranges have, taking an id out of the dense
   array and exchanging its dead part.
2. `RangesInv` is not inductive. It does not say where the dead entries of the index
   belong, so that a switch could save an id in a range that does not have it; nor that
   the ids of a recycled list are behind the counter of their range, so that they could
   be issued as fresh ones while they wait to be recycled. The inductive invariant
   (`Good`) says that ranges are disjoint; that what is dead in the index is of the active
   range (`ActiveOk`); that a list holds ids of its range that the index does not have and
   its counter has passed (`RecycledOk`); that counters are ahead of the ids in use
   (`CountersOk`); and why each deleted handle stays dead: the index or a list has a later
   version, or its id belongs to no range and has left the index (`Behind`).
3. There is a lemma for each way in which a step can change index and ranges together:
   `CreateKeeps`, `ReviveKeeps`, `DeleteHere`, `DeleteThere`, `SwitchKeeps`, `LayKeeps`
   and `FirstKeeps`. What a range has to recycle is in its list or, if it is active, in
   the index; `SwitchKeeps` argues from this (`Held`), which no switch changes.
4. What is invariant is `SafeInv`: `IInv` until an overrun. `BulkNewInv` is the bulk
   creation that ends within the range; `BulkLeaves` the step that does not, of which it
   shows that every id outside of the range is behind its end and that the index has no
   dead id left that it could have used instead.
5. `NewIdsUnused` and `LoadedIdsAreDead` are two assertions of the code, which the
   configurations of findings 2 and 3 violate.

**Storage**, for any ids, components and values. The operations of the index enter
only through what they do to the set of alive handles (`Living`), which follows from
the effects above. The operations on tables are lemmas about a store and the set of
handles it holds: `Linked` says that every row of a table but those of one entity in
transit is that of its record, and each lemma also gives what an observer sees
(`View`), so that the invariant `SInv` and the refinement of `EcsStore` come from one
pass over the actions. Bulk creation appends a sequence of rows and `delete_with`
clears a sequence of tables: the models define these by recursive functions, and
the lemmas about them argue from a least counterexample, since the induction rules of
the library cannot be used.

**References**, for any number of tables, slots, entities and references.

1. `StoreIInv` strengthens `StoreInv` to the middle of operations: which entity has a
   row that its record does not name yet (`NewAt`), and whose record names none any more
   (`Out`). `StoreCorrect` follows, without a hypothesis.
2. `RefInv` says of each reference that its counters are not ahead of its table's
   (`Behind`); that if the slot's counter is the same then so are the id and the
   version of the table (`Current`); and that if these are, and the operation under way
   has made its increments (`Settled`), the entity is where it was (`Good`).
   `RefGetExact` alone is not inductive: it says nothing of a reference that is about
   to become current.
3. `RefsKept` reduces preservation to tables: a step leaves a table as it is, increments
   both counters, changes it before the increments of the operation, or creates it where
   none was. `CountInv` is why the counters grow: a version is at most one ahead of its
   slot, and the slot has room for the increments that are due.
4. `RefGetCorrect` assumes `NoWrap`: `MaxChanges`, the bound on the increments of one
   slot, is below `FastLimit` and, by two, below `VersionLimit`. A history with more
   increments is the one of finding 5.

**Worker threads**, for any number of workers and operations. The counters under the
mutex are the sizes of two sets of workers (`CountersInv`), and where each worker can be
follows from where the main thread is (`PlacesInv`). A counter that equals the number of
workers then means that the set is all of them (`AllRunning`, `AllDone`), which is what
the main thread relies on when it signals or goes on. The assertions of `worker.c` are
not inductive alone, because they do not tie the counters to workers.

**HTTP server**, for any number of clients, requests, descriptors, slots of the queue,
retries and restarts, with purges, opened descriptors and emulated requests at any time.
The inductive invariant says who is responsible for the socket of a client: the server
thread between accept and the connection or when it gives up (`HoldInv`), a connection
(`ConnInv`), a slot of the ring or the sender (`RingInv`); whoever it is has the client's
descriptor, and nobody else. While the server thread works on a request its connection
is either the one it made (`Alive`) or has been removed (`Purged`): then its id is
not present, since only this thread adds connections, and its descriptor may be
anybody's. `OwnInv` ties each use of a descriptor of somebody else to the entry of
`raced` that allows it. `SafeInv` is this invariant until a purge falls in the gap after
`is_alive`. `OwnDescriptors` alone is not inductive: it says of a use that it was right,
not that the next one will be.

**Iterator stack**, for any number of iterators, pages, sizes and alignments, and under
`LateAnywhere = FALSE`: an iterator allocates while it is advanced only if it is the
innermost one, as in the run (finding 21 is about the others). Places on the stack are
ordered by page and stack pointer. The inductive invariant says that the cursors are in
this order and below the top, the first at the bottom (`Ordered`); that each unfinished
iterator has one active cursor (`Owned`); that its memory is below the top and below
every cursor after its own (`Kept`); and that the debug counters are the numbers of
unfinished iterators and of their large allocations (`Counts`). `StackInv` is not
inductive: with memory below the top only, a restore that moves the top to an earlier
cursor could free it. `FirstDropped` stops at an active cursor, so what is dropped comes
after all cursors of unfinished iterators.

Only model-checked. For good: the liveness properties (`CallsReturn`, `FlushesEnd`,
`CleanupEnds`, `RunEnds`, `NextReturns`, `ServerSettles`), which are out of the prover's
reach. For now:
`OnDelete`, `Commands`, `PipelineSchedule` and `IterChain`, whose properties compare a
result with a reference computed by recursion over data (a closure, the calls of a queue
one by one, the systems of a pipeline, the links of a chain).

## Findings

Where the code does something else than a document, a comment or an assertion of it
says. Cases 4, 26 and 27 are behaviours of the passing runs, whose properties say
what holds in spite of them (case 4 is the last step that is followed); the others
are excluded from the passing runs by a constant. Most cases have a configuration in which TLC finds
the counterexample, named with the property that it violates.

Entity index and ranges

1. `EntityIndexOverflow` (`NoIdOverflow`): the assertion against id overflow cannot
   fire, because `max_id` is a `uint32_t`.
2. `EntityRangesRevived` (`LoadedAreDead`): an id that is made alive explicitly while
   it is in the recycled list of an inactive range stays in that list; when the range
   becomes active again the assertion in `flecs_entity_index_set_range` fails.
3. With `Careless = {"cover"}` in `EntityRanges.cfg` (`NewIdUnused`): a range that covers ids in use starts its
   counter at its minimum and issues them again, against the assertion in
   `flecs_entity_index_new_id`.
4. `EntityRangesBulk` (`EndRespected`): `ecs_bulk_new` does not check the end of the
   active range, which only `flecs_new_id` does. `addons/entity_ranges.h:58`: "When the
   active range is out of available ids, operations that create new entity ids will
   assert."

References

5. `ReferencesWrap` (`RefGetAlways`): `table->version` has 16 bits; a reference that is
   not fetched while it wraps takes a stale address for a good one.
6. `ReferencesSparse`: a component with `DontFragment` can be removed or added again
   without a change of the table, and no version says so.
7. With `Applications = {{"idle", "merged"}}`, `{{"idle", "on_add"}}` or
   `{{"idle", "on_remove"}}` (`RefGetAlways`): a reference fetched in a callback of a
   merge, in `on_add` or in `on_remove` caches the version that the operation has already
   incremented, with an address that it has yet to change.
   With `Applications = {{"idle", "set_version"}}`: after `ecs_set_version` a reference to
   the old version is still fetched from its cache.

Cleanup

8. `OnDeleteExplicit` (`CallHonoursPolicies`): a table whose entities are to be deleted
   because of one marked id and that has another one with an explicit `Remove` loses that
   id if its record comes first, and its entities survive (`on_delete.c:554`).
9. `OnDeletePhases` (`DeleteHonoursPolicies`): a delete cleans up an entity as an id, as
   a relationship and as a target one after the other; what the first removes, the
   policies of the later ones do not see.
10. `OnDeleteReadded` (`NoReferenceLeft`): an observer that adds the id again during the
    cleanup leaves a reference to a deleted entity. `docs/ComponentTraits.md:131`: "Any
    cleanup policy provides this guarantee".
11. `PanicHonoured` with `Actions = {"Delete", "Panic"}` and two pairs with one target:
    the action of a table is that of its last matching pair, so that another one can
    override a `Panic`.

Command queues and workers

12. `CommandsNested` (`TargetsPresent`): a flush of stage 0 in the middle of a batch of
    another stage can delete the batch's entity; the code asserts that it is in a table,
    and the program ends there. `CommandsStaged` has no such delete (`NestedReactions`).
13. `CommandsBatched` (`SameAsSequential`): batching moves commands of an entity ahead of
    an earlier `delete_with` or `remove_all`.
14. `WorkerSyncSpurious` (`SignalledOnlyWhenSynced`): `flecs_wait_for_sync` waits once, not
    in a loop. A worker woken without a signal would likewise run an operation early.
15. `WorkerSyncReconfigured` (`MultiThreadedIsConfigured`): after going back to one thread,
    `worker_cond` still has its old value and multi-threaded systems run in
    multi-threaded mode.

Pipeline

16. `PipelineDisabled` (`RunsOnce`): where a rebuilt schedule goes on is found from the
    systems that ran in the frame; if all of them are disabled by the merge there is none,
    and the position stays where it was in the old schedule.
17. `PipelineRerun` (`RunsOnce`): in a second run of a pipeline in a frame all systems have
    run, and a rebuild skips to the end.
18. `PipelineCross` (`SyncBeforeRead`): a write of `(R, *)` and a read of `(*, T)` overlap,
    but neither matches the other, and there is no merge between them.
19. `PipelineOwn` (`AssertionsHold`): a system that writes and then reads the same without a
    source is given a second merge; the build asserts that there is none.
20. `PipelineEmptied` (`NonEmptyIsActive`): after `EcsAperiodicEmptyQueries` a query with an
    empty table has the tag `Empty`, and keeps it when the table gets an entity.

Iterators

21. `IterStack` with `LateAnywhere = TRUE` in its configuration (`MemoryKept`): an iterator that allocates while it is advanced, after
    another one was created, gets memory that goes when that one is finished.
22. `IterChainOffset` (`ResultsExact`): a page with an offset on results that do not start at
    the first row of their table sets the offset instead of adding to it.
23. `IterChainEmpty` (`FinishedOnce`): a page without offset and limit ends at an empty
    table without finishing the iterator below.
24. `IterChainBatches` (`EachOnce`): a page of a batch without a table that leaves a worker
    nothing ends the iteration of that worker.
25. `IterChain` with `TermlessThreads = TRUE` in its configuration (`EachOnce`): a
    multi-threaded system without terms runs on every stage.

HTTP server

26. `HttpServerPurge` (`PurgedNotUsed`): a connection that is purged while the server thread
    is about to receive leaves it with a descriptor that may belong to somebody else; if
    the purge falls behind `is_alive`, with a removed connection. "Connection has been
    purged by main thread" (`http.c:756`).
27. `HttpServer` with `ClosedByOwner` as its invariant: a stop closes the listening socket,
    and so does the server thread when it ends; a descriptor opened in between is closed.
28. `HttpServer` with `Emulates = TRUE` and `CachedEntryKept` as its invariant: a request
    emulated by the application replaces an entry of the cache that the server thread is
    sending.

### Divergences

Known to differ from the calls made in order, and kept out of the passing runs by
their constants: `remove_all` or `delete_with` mixed with commands of entities
(finding 13; with `remove_all` a set value is lost); `ensure` of an existing
component in a world with several stages, whose direct write is overwritten by an
earlier enqueued set; writes while deferring is suspended and the queue is not
empty (`mixed`). An emplace followed by a remove keeps the component; emplace is
not modelled. A system without entities still takes part in the analysis of merges,
so that it can add one that is not needed.

## Not modelled

`PROJECT.json` lists every component and the reason. Large parts of the repository are
not of this kind: `distr/` is the same source concatenated into one file, the C++
layer, the script language, reflection, JSON and statistics are sequential layers on
top of the public API, and the query compiler and engine are a compiler and an
interpreter whose correctness is about a relational semantics of its own.

In the modelled parts: component traits, hooks that replace values, cleanup of
invalid ids, sparse and non-fragmenting components except in `References`,
toggles, names, prefab overrides; the command kinds clone, path, bulk new, enable,
event and emplace; unmanaged stages and `flecs_suspend_readonly`; prefab tables and the
fast path for hierarchies in cleanup; parsing of requests and the REST endpoints; tick
sources of systems. An error return of `ecs_progress` in the middle of a frame and
`ecs_set_stage_count` between thread configurations are not modelled.

## Plan

In this order; each step has a module, runs and, where it says so, theorems.

1. Proofs: `Commands` (`QueueInv`).
2. `TableGraph` with the component index and table cache: edges and listings when
   tables are created and deleted.
3. `Observers`: one notification per event and match, with propagation.
4. `QueryCache`: matches and groups as tables come and go; change detection.
5. `SparseSet`, timers, more command kinds (emplace, clone, bulk new) in `Commands`,
   in that order.
