# Verification of the Usagi executives

TLA+ models of the parts of this repository that carry logic of their own, TLC
runs over small instances of them, and TLAPS proofs of the theorems that matter
most. Paths are relative to `src/`; `X` stands for
`Engine/TestUsagiExecutive`.

Most of the repository is tests of the Usagi engine, whose sources are not
here. What is here, complete and with its own documents, is a prototype of the
engine's *executive*: it compiles systems into a dependency graph from the
component masks they declare, runs them on threads, and keeps their entities in
a database that changes under them. It exists twice, as the *simple* and the
*pipelined* executive. Those, and a list scheduler, are the subject.

## 1. Inventory

### 1.1 Simple executive: frame loop and thread dispatch

`X/Simple/Executive.hpp`, `execute_frame` and `dispatch_tasks`.

- **State.** Per node `in_degree`, `dependents`, `executed`, `failed`,
  `aborted_due_to_dependency`; inside `dispatch_tasks` a ready queue, a count of
  completed tasks, one mutex and one condition variable; the re-entry counter.
- **Operations.** A frame is a loop of passes: reset, pre-pass, graph, dispatch;
  if a payload queued spawns they are committed and another pass runs, at most
  `MAX_RE_ENTRIES` times. In a pass each thread takes a node, looks at its flags
  *without* the mutex, runs the payload, and commits under the mutex: marks the
  node, poisons direct dependents of a dead node, decrements counters, pushes
  what became free with one `notify_one` each, and `notify_all` at the end.
- **Hard.** Lost wakeups, a node pushed early or twice, flags read outside the
  lock, payloads that throw after they queued spawns, the boundary of the
  re-entry limit.
- **Correct when** systems joined by an edge never overlap, none runs twice or
  downstream of a dead one, exactly the downstream is spared, and the call
  returns.

### 1.2 Simple executive: pre-pass, task graph and database

`X/Simple/Executive.hpp` (registration, `execute_jit_pre_pass`,
`build_topological_graph`) and `X/Simple/EntityDatabase.hpp`.

- **State.** Each system's declared masks and flags; its `jit_write_mask`; the
  entity records, the next id, the spawn partitions.
- **Operations.** The pre-pass widens the write mask of a deleter to everything
  its candidates have (the *blast radius*). Two systems get an edge when a mask
  test finds a conflict, relaxed by `Previous` and `Atomic`. A payload queries,
  then adds, removes, destroys or spawns through `DatabaseAccess`, which checks
  each change against the declaration.
- **Hard.** The pre-pass looks once, before the pass; everything it saw can
  change during the pass. All spawns of all systems go to partition 0. Ids run
  out in the middle of a commit.
- **Correct when** a pass is equivalent to running its systems one by one, an
  entity under destruction is nobody else's business, overlaps are licensed,
  ids do not depend on scheduling, and no spawn is forgotten.

### 1.3 Pipelined executive: worker pool and frame submission

`X/Pipelined/Executive.hpp`, driven by `X/Pipelined/Orchestrator.hpp`.

- **State.** Per job the atomics `in_degree`, `next_partition`,
  `completed_workers`, `executed`, `failed`, `aborted_due_to_dependency` and a
  plain vector `dependents`; in the pool `active_jobs`, a mutex, a condition
  variable, `terminate`; the systems of this and the previous frame.
- **Operations.** Workers scan the active jobs and claim chunks of partitions
  (*span stealing*); the one that completes a job resolves its dependents and
  erases it. The main thread registers a frame, binds it to itself and to the
  frame before while workers run, dispatches what is free, and waits by spinning
  (`step_single_frame`) or goes on (`step_pipelined`).
- **Hard.** The main thread edits a graph that workers are consuming; three
  counters decide, without a lock, who is last; completion, dispatch and
  shutdown race.
- **Correct when** no job is dispatched twice, `executed` means all spans are
  over, edges and poison are obeyed, nobody sleeps on work, waits return.

### 1.4 Pipelined executive: collision rule and transitive closure

`X/Pipelined/Executive.hpp:213-250` and `:304-317`.

- **State.** None of its own: it reads the masks two systems declare and the
  layered database.
- **Operations.** The closure gives a deleter the components of whatever it may
  condemn, and of the edges under that, and of the edges under those. The
  collision rule then decides, pair by pair, who waits for whom.
- **Hard.** The search has no visited set; it looks at the top layer only; and
  what it reads went through patches, rebuilds and slots used again.
- **Correct when** the search ends, and what a deleting system changes at once
  is in its mask.

### 1.5 Layered database

`X/Pipelined/EntityDatabase.hpp` and the reboot in
`X/Pipelined/Orchestrator.hpp`.

- **State.** A stack of layers of pages; in each the entities' masks, payloads
  of *tombstones*, *redirects* (patches) and *edges*, and queues; in the
  aggregator a shadow index (aliases to root, root to newest alias, chains,
  shadowed entities) and queues of tombstones and patches.
- **Operations.** Only the top layer may be written. A change to an entity of a
  lower layer is queued and becomes, at the commit, a patch in the top layer or
  a tombstone. `push_layer` freezes the top; `mount_readonly_layer` slides a
  layer under it; a reboot dumps the top layer, clears and re-imports it and
  rebuilds all indices from what the layers hold.
- **Hard.** Long sequences of legal calls: patches of patches over several
  layers, edges under any alias of their source, deletions of what is itself a
  patch, and a rebuild after any of that.
- **Correct when** the stack looks like one flat store, frozen layers stay as
  they are, filters hide nothing, relations survive patches, and a rebuild
  changes nothing.

### 1.6 Greedy list scheduler

`TestScheduling/main.cpp`: task durations, subtask counts and processor counts
to start times.

- **State.** A heap of subtasks; per task the number of placed subtasks, the
  number of predecessors not yet placed, a ready time and a finish time; per
  processor the end of its last subtask; the makespan.
- **Operations.** One loop: pop the subtask of the highest priority, give it to
  the processor that is idle first, and, with the last subtask of a task, tell
  the task's successors.
- **Hard.** Sequential, but the priorities are a random permutation and the test
  looks at nothing: the order in which tasks complete is arbitrary.
- **Correct when** nothing begins before its predecessors end, no processor runs
  two subtasks at a time, nothing is forgotten, and no idle time is wasted.

### 1.7 The test suites

`X/Simple/*Tests*.cpp` and `X/Pipelined/*Tests.cpp`: systems and scenarios of
the authors, each with expectations. A gtest run sees one schedule; here the
suites of the simple executive run under every schedule (`frame_tests`), and
those of the layered database are scripts beside a free client
(`layered_store`). They are also the evidence that the models are the programs
the authors meant.

### 1.8 How they interact

`execute_frame` runs 1.2's pre-pass and graph, then 1.1's pool over that graph,
then commits 1.2's spawns; the only things shared by payloads are the database,
the spawn partitions and the flags. `submit_frame` (1.3) calls the collision
rule (1.4), which reads the layered database (1.5); workers of 1.3 call payloads
that write to 1.5; the orchestrator commits 1.5's queues between frames and
reboots it.

### 1.9 Left aside

The tests of the task executor, heap manager, asset streaming, core library,
allocators, sampling, windowing, graphics, images, JSON, module configuration,
key-value storage and header compilation, the constraint-graph test and the ECS
application are clients of engine or third-party classes that are not in this
repository: a model of them would be a model of calls into code that is not
here. `PROJECT.json` lists each with its reason.

## 2. Modules

| Module | Models | State and actions |
|---|---|---|
| `DagRun` | abstract: what the passes of a frame promise | `NewFrame`, `Open`, `OpenFirst`, `Start`, `Finish`, `Fail`, `Skip`, `Close` over an edge relation |
| `TaskDispatch` | 1.1 | a program counter per worker; each critical section on `mtx` is one action (`Take`, `Sleep`, `Leave`, `Commit`), the unlocked reads (`CheckFlags`) and the payload are others; `cv.wait` is a wait set, `notify_one` wakes any sleeper, sleepers may wake by themselves |
| `ConflictGraph` | masks, blast radius, `build_topological_graph` | operators |
| `SimpleFrame` | 1.2, and the frame loop over it | host calls (`RegisterSystem`, `CreateEntity`, ...), passes (`BeginFrame`, `ReEnter`, `IdsExhausted`, `EndPass`), payloads in small steps |
| `WorkerPool` | 1.3 | a program counter for the main thread and each worker; an atomic operation or a critical section per action |
| `ShadowIndex` | `TransientShadowIndex` | operators on a record of the four maps |
| `LayeredDatabase` | 1.5 | one action per call; a commit takes a step per element, a rebuild is a fold over the patches in the order of the scan |
| `JitClosure` | 1.4 | operators over `LayeredDatabase`: what a deleter's closure reads, and which pairs collide |
| `FlatStore` | abstract: the illusion of a single store | `Appear`, `WriteNow`, `WriteLater`, `Settle`, `Recover` |
| `SimpleTests` | the systems and `TEST_F`s of the seven suites of the simple executive | data: declarations, small programs, expectations |
| `TestHarness` | the run of a `TEST_F`, over `SimpleFrame` | an action per instruction of a payload (`Query`, `Change`, `Spawn`, `Load`, `Store`, `FetchAdd`, ...), the logs, the guards of the fuzzer |
| `LayeredTests` | the 25 `TEST_F`s of the four layered suites | scripts of calls and looks; `TestStep` makes the next call |
| `ListScheduler` | 1.6 | `ScheduleTop`, one round of the loop |
| `TaskDispatch_proofs`, `SimpleFrame_proofs`, `WorkerPool_proofs`, `LayeredDatabase_proofs`, `JitClosure_proofs`, `ListScheduler_proofs` | theorems about the module they are named for | section 6 |
| `SerialFrame_proofs` | theorems that what a pass of `SimpleFrame` leaves does not depend on the schedule | section 6 |
| `FlatStore_proofs` | theorems that `LayeredDatabase` implements `FlatStore`, survives a rebuild and keeps its edges | section 6 |
| `MC_*` | values of the constants for TLC | |

Two compositions tie them together. `TaskDispatch`, which has the threads, and
`SimpleFrame`, which has the database, both implement `DagRun` (checked and
proved): a system may start when everything before it is over and none of it
dead. `SimpleFrame` leaves the threads out: a payload of it starts under the
guard of `DagRun`'s `Start` and not of a worker. And `LayeredDatabase` implements `FlatStore` (checked and proved) under the mapping from the stack to
each root's dynamic mask and the queues to the writes still to settle.
`JitClosure` and `LayeredTests` extend `LayeredDatabase`, `TestHarness` extends
`SimpleFrame`: what they check is checked in the states those modules reach.

### Correspondence worth knowing

- **`TaskDispatch`.** `Freed` and `Poisons` are the two tests of the commit
  (lines 398-421, and `abort_immediate_dependents`); `Woken` is what the notifications of one commit wake
  together. `execute_frame`'s exits by exception are phases of their own
  (`exhausted`, `overrun`, `deadlock`).
- **`SimpleFrame`.** A payload has the shape of the systems in the test suites:
  one query, then entity by entity a structural change and a spawn. Each record
  the query visits, each change and each half of a `push_back` (`ReserveSlot`,
  `PushSpawn`) is a step, so payloads without an edge interleave there. Two
  unsynchronised `push_back`s may lose an element.
- **`WorkerPool`.** `Job`s are numbered over all frames. Partitions are counted
  in chunks. The scan under the mutex is one step; a job passed over cannot
  become eligible meanwhile. `Collision` says which pairs may collide;
  `submit_frame` binds any subset of those its loops visit.
- **`SimpleTests`, `TestHarness`.** A mock's `update` is a program of the
  instructions its payload makes; a loop over the entities found is unfolded
  when the query answers. One datum per entity is kept where a test looks at
  data. `Many` stands for the 50 to 10,000 copies of a system some tests
  register. `order` of a test holds its expectations on who executes before whom,
  `unordered` those the code does nothing for: there are two, both on the ghost
  system, and `SuitesPass` leaves them out (`ghost_order`). That the ghost's
  reader executes before the writer, which the test implies and the graph does
  see to, stays in. `PartitionedAvalanche` pushes to the spawn
  partitions from threads of its own, with no executive, and its check of the
  ids cannot fail; it is left out. In `DeepCascadingDependency`
  every two of the three systems have an edge, so that it does not exercise the
  transitive poison it is named for, and the same goes for the chain of
  `DeepLinearDependency`; `task_dispatch` has the chain without the shortcuts.
- **`LayeredDatabase`.** A coordinate is `<<layer, partition, k>>`, the k-th slot
  taken in a partition; `PageOf` gives its page, `PageSize` slots each, and a
  page has its bloom filter. A reboot starts the next page, as the import does.
  The free client makes all writes. With `Sparing`, as in `layered_store`, it
  leaves out those that would only repeat a situation (a second edge beside the
  first, a queue or an edge in a third layer); without it, in the violation runs,
  it does not, and the proofs are for both. The bounds are named in the module.
- **`LayeredTests`.** A handle a test obtains from a query is written as the
  coordinate it expects, and the look checks the query.
  `InvalidEntityDestruction` leaves out the destruction of `INVALID_ENTITY`,
  whose tombstone is never committed.
- **`ListScheduler`.** The top of the heap is any member of the queue: the
  priorities are random, and whatever is popped comes first in some
  permutation. Ties between idle processors are broken either way.

Operators named for a fault (`DispatchableEarly`, `RedirectUncompressed`,
`WriteToHandle`, ...) are variants of the definition that follows them. They
are used nowhere in the specification: substituting one of them must break the
property that speaks of it.

### What is abstracted

- Payload data, names, logging, timing. Vector reallocation: of the races on
  vectors (`pending_spawns`, `dependents`, the queues of the aggregator) only
  lost or short-sighted outcomes appear, never heap corruption.
- `dispatch_tasks_single_threaded` (nothing calls it).
- The bits of page keys and lanes, and edges' targets.
- The checks of the layered `DatabaseAccess`.
- Concurrent callers of the aggregator: it is modelled for one at a time.
- Between `WorkerPool` and `JitClosure`: which pairs collide is a constant of
  the first, any relation, so that what is checked of the pool holds for the
  rule of the second; they are not one state machine.

## 3. Runs

Passing runs:

| Run | Shows | Instance | Why it is enough |
|---|---|---|---|
| `task_dispatch` | single dispatch, exact poison, no lost wakeup, the call ends, refinement of `DagRun` | all 8 forward graphs on 3 systems, 2 threads, 1 re-entry, every payload may throw or spawn | chain, fork, join and triangle all occur; two threads give every pairwise race; the proofs lift the safety part to any size |
| `frame_structure` | serial equivalence, no reach to condemned entities, licensed overlap, the firewall, refinement of `DagRun` | up to 3 systems from four mixes (`Deleting`, `Adding`, `Flagging`, `SelfSpawning`), 2 entities and ids, one queued spawn, 3 components | a conflict needs two systems, a mediated one three; `Mixes` bounds which types meet so that each mix can be exhaustive |
| `frame_tests` | the suites of the simple executive under every schedule; no two payloads the fuzzer draws touch one chunk at once; staging order, quiet return | 26 tests, the fuzzer with every draw of 4 systems over two databases, and two freely chosen spawning systems, ids up to 3, 3 pending, 1 re-entry | each test as written but for two expectations (`ghost_order`), counts scaled to two; with the free host ids run out, the limit is overrun, and payloads crash between spawns |
| `pool_frame` | spans, `executed`, edges, poison, wakeups, quiet frames | 1 frame of up to 3 systems, 2 workers, 2 spans, any collisions, any throws, shutdown | a worker that comes late, one that claims beyond the end, and one that scans while another resolves |
| `pool_live` | frames complete, `stop` returns | 1 worker, 2 pipelined frames of 2 | the configuration in which the code does complete (see `pool_hang`) |
| `layered_store` | index consistency, filters, immutable foundation, relations, the closure, rebuild, refinement of `FlatStore`, the layered suites | free client: 3 layers, 4 slots in all, pages of 2, 2 queued writes, one edge; the 25 tests with pages of 2, and 3 for 50 and 100 | base, patch and patch of patch plus an edge or a marker; two queued writes of one entity; a reboot in the middle of a page; the tests go up to 5 layers and 2 full pages; the proofs lift the invariants to any size |
| `list_scheduler` | precedence, processors, nothing left, makespan | the instance of the test: 7 tasks with a fork and a join, 2 subtasks each, 3 processors, every order of priorities | tasks of different branches interleave after the fork; the maximum over several predecessors' finish times is not stressed by this graph, other graphs are covered by the proofs |

Violations, each a disagreement between the code and what the repository says
of it (`findings` in `PROJECT.json` quotes both):

| Run | Property | What happens |
|---|---|---|
| `ghost_order` | `OrderAsWritten` | A system that queries everything and declares the deletion of a component nobody has gets an empty blast radius, hence no edge. Its test expects it between the reader and the writer of another component; the run executes it after both. |
| `pool_hang` | `FrameCompletes` | `completed_workers` must reach the number of threads, but only a claim at or beyond the last span counts and a fully claimed job is not offered again: with two threads the wait can spin for ever. |
| `pool_double` | `DispatchedOnce` | The dispatch loop pushes everything with `in_degree` 0, also a dependent a worker has just freed and pushed. |
| `layered_reboot` | `RebootReconstructs` | A patch destroyed in the layer it was written in leaves no marker: after a rebuild the entity it replaced is back. |
| `edge_severed` | `RelationsUnbroken` | A component is added to an edge of a lower layer. The patch shadows the edge's coordinate, `get_outbound_edges` filters it, and the patch is registered nowhere: the relation is lost, though nobody destroyed the edge. |

The faults that `pool_double`, `layered_reboot`, `edge_severed` and `ghost_order`
show are in the code, so some properties of passing runs are conditional on their absence (`SpanRunsOnce`,
`RunsAfterItsPredecessors`, `PoisonStops`, `FlushedOnReturn` on
`DispatchedOnce`; `RebuildKeepsTheRest` on entities whose patch was not erased
in place). In `MetOnce` the exception `Unforked` excludes entities with two
patches of one alias in one commit, for which an iteration does meet the older
patch too; `UntouchedEdgesFound` excludes edges that were themselves destroyed or
changed from a higher layer, and edges whose source was destroyed in the edge's
own layer; `SuitesPass` excludes the two expectations that `ghost_order` breaks; `CascadeForeseen` speaks of destructions that happen at once,
in the top layer, and not of those that wait for the commit.
`SerialEquivalence` speaks of *plain* passes: no flags, no adding beside
destroying, and no query for what the system has not declared (section 6).

Deadlock is checked in the runs of the simple executive, where the host can
always call again, and of the test harness, where a finished test stutters. It
is off for the pool and the list scheduler, which stop, and for the layered
database, whose bounds run out.

### Fairness

`TaskDispatch`: weak fairness for each worker's own step and for the caller's
steps between the beginning and the end of a frame, since the operating system
schedules every thread and the caller joins them all. Nothing is promised about
a new call of `execute_frame` or a spurious wakeup, so no property depends on
those. `WorkerPool`: weak fairness for steps that need no lock, strong fairness
for those that need the mutex, since it is free again and again and a thread
that asks for it repeatedly does get it. Calls of the host and spurious wakeups
are not promised. The safety runs use no fairness.

## 4. What else was seen

These came up while modelling. They are not among the runs, because they are
known to the theorems as the condition they need, repeat a violation above, or
lie outside what is modelled. The first two can be repeated with the
configurations of that name, on `MC_SimpleFrame`.

- *Stale blast radius* (`X/Simple/Executive.hpp:239`,
  `stale_blast_radius.cfg`). The blast radius is what candidates had *before* the
  pass. An adder that runs first gives the condemned entity another component,
  and a reader of that component then runs beside its destruction, against
  `X/Docs/Execution.md:45`: TLC breaks `EscalationComplete`. This is why
  `CondemnedExclusive` excludes adders.
- *Spawn order* (`X/Simple/Executive.hpp:161`, `spawn_order.cfg`). Two unordered
  systems push to partition 0: ids depend on the schedule and a spawn can be
  overwritten, against `X/Simple/EntityDatabase.hpp:312`: TLC breaks
  `DeterministicStaging`. This is why `StagesInOrder` asks for ordered spawners.
- `DatabaseAccess::query_entities` (`X/Simple/EntityDatabase.hpp:473`) takes any
  mask. A system that looks for components it has not declared has no edge to
  the systems that change them, and what it finds depends on the schedule;
  `SerialEquivalence` leaves such systems out.
- `Discard` is declared and never consulted by the graph
  (`X/Simple/Executive.hpp:290`).
- `X/Docs/Execution.md:39` lets the candidates of a deleter have any of the
  components it deletes; the pre-pass asks for all of them.
- `Atomic` and `Previous` are tested on one side in
  `X/Pipelined/Executive.hpp:313-315`, on both in the simple executive.
- A job that fails before its last chunk is claimed is passed over by every scan
  and never completes (`:119`). So is an aborted one: poison stops at the first
  dependent, and what depends on that neither runs nor is aborted (`:135`).
- A frame is compared with the one before it only (`:340`): `step_pipelined`
  does not order a system behind one of two frames ago that still runs.
- A system bound to one of the previous frame that has already resolved its
  dependents waits for ever (`:347`). `pool_live` therefore leaves those frames
  out of `FrameCompletes`.
- A system bound to two of the previous frame may run before one of them is
  done: `bind_dependency` adds the dependent (`:320`) before it counts the edge
  (`:321`), so that a worker resolving the second, not yet counted edge brings
  `in_degree` from one to zero. With two frames, two workers and one span TLC
  breaks `RunsAfterItsPredecessors` so, in 25 steps, and with it `PoisonStops`
  and `FlushedOnReturn`. `pool_frame` and the
  theorems about edges are therefore about one frame, whose edges are all bound
  before any of it runs.
- `stop()` notifies without the mutex (`:175`): a worker between its predicate
  and its sleep misses it. `StopReturns` says what remains true.
- `step_pipelined` commits spawns while an older frame may run; `FlushedOnReturn`
  speaks of `step_single_frame`.
- The guard of `mount_readonly_layer` asks for an entity with all 64 components
  (`X/Pipelined/EntityDatabase.hpp:858`) and so never fires: a layer can be
  mounted under one in use, whose entities are renumbered while the indices are
  not. The constant `LateMounts` admits it; the runs keep to what the comment
  demands.
- Two changes to one frozen entity in one commit both start from the old mask
  (`:1051`), and tombstones are committed before patches (`:1090`): of two patches
  the later one wins, and a destruction never does, also when it was called last.
  `FlatStore` promises no more: a deferred write carries its outcome, takes any
  place among those that wait, and the last to settle stays.
- A destroyed edge of the top layer is still returned by `get_outbound_edges`
  (`:624`), also after a rebuild.
- What a layer has queued when another is pushed on it is never committed
  (`:882`); a reboot drops the layer's queues and keeps the aggregator's
  (`:792`).
- A write through a coordinate of a page that a reboot did not bring back is a
  null dereference (`:718`). A write to `INVALID_ENTITY` queues a tombstone whose
  commit shifts by 65535 (`:344`); `CoreTests.cpp:198` queues one and never
  commits it.
- The key of a page keeps 16 bits of its number (`:322`): from the 65536th page of
  a partition on, keys run into those of the next partition.

## 5. Assumptions

`TaskDispatch`: at least one system and one worker, `MAX_RE_ENTRIES` a natural
number, and every graph a pass may run is forward (an edge leads to a later
system), as `build_topological_graph` makes them. `SimpleFrame`: a catalog of
well-typed systems, mixes drawn from it, well-typed initial masks. Bounds are
naturals; nothing is assumed of their size. `ListScheduler`: at least one
processor and one subtask per task, and a graph whose edges lead to later tasks
(`ListAssumption`): any acyclic graph, numbered in a topological order. Four
theorems about `WorkerPool` are for one frame (`MaxFrames = 1`), those about
`LayeredDatabase` and `JitClosure` for `LateMounts = FALSE`, and say so. The
models of the suites assume that the bits of one suite's components are
distinct and below 64 (`BitsDistinct`, `LayeredBitsDistinct`), as a mask needs
to be a set. `WorkerPool` and `LayeredDatabase`
assume only that their constants are of the right kind. TLC evaluates all of
them in the passing runs.

## 6. Proofs

`TaskDispatch_proofs`, for every number of systems, every non-empty finite set
of threads and every forward graph:

- `TypeCorrect`; `InductiveInvariant`: `Spec => []IInv`. None of the safety
  properties is inductive. What makes them so is that the counters are exact
  (`CountersExact`: `in_degree` counts uncommitted predecessors,
  `tasks_completed` the commits), that only nodes with nothing left to wait for
  are queued or held (`ReadyIsReady`), that commits are closed downwards and
  have poisoned their dependents (`CommitsClosed`), and that what a thread holds
  in its hands still agrees with the flags (`ResultsCurrent`). Forward edges
  give the argument that no pass deadlocks: the least uncommitted node always
  has in-degree 0.
- From it `Serialization`, `SingleDispatch`, `PoisonFirst`,
  `EveryNodeCommitted`, and the action properties `StableFlags` and
  `NoCollateralAbort`.
- `NotificationsSuffice`: the notification discipline loses no wakeup. It is
  inductive together with `IInv`: as long as somebody sleeps, each queued node
  has an awake worker on its way.
- `Refinement`: every step of the pool is a step of `DagRun` or stutters.

`SimpleFrame_proofs`, for every catalog, database and bound:

- `FrameTypeCorrect`; `FrameInvariant`: the graph is the one computed from the
  database the pass found, payloads exist only after all they depend on, and a
  queued spawn is flagged.
- `Licensed`: from these, two running systems with a written component in common
  have a flag that says so. An unlicensed conflict would be an edge, and the
  later one would not have started.
- `ReturnsQuietly`: a normal return leaves no spawn.
- `CondemnedOutOfReach`: if no system adds components, escalation is complete.
  The strengthening `BlastInv` says that a pass then only takes away
  (`OnlyShrinks`) and that whatever a query hit, the pre-pass had seen
  (`HitsForeseen`). It also excludes deleters that
  look for less than they declare. Section 4 and `ghost_order` show that neither
  condition can be left out.

`WorkerPool_proofs`, for every pool, number of spans and collision relation:

- `PoolInvariant`: as long as a job is handed out once, every span claimed is
  with exactly one thread or has been run (`ClaimsOf`), nobody counts while a
  span is unclaimed and nobody counts twice (`FinishingOf`), a claim overshoots
  by at most one per thread (`ClaimsBounded`), and a job not handed out is as
  `register_system` left it (`Untouched`).
- From it `PoolTypeCorrect`, `SpansRunOnce` and `DoneWhenExecuted`, and
  `NoSleeperOverWork`, which needs no restriction to single dispatch: whatever
  is pushed, nobody sleeps over it.
- `FrameInvariant`, for one frame of any size: as long as nothing is dispatched
  twice, `in_degree`, with the edge just bound and not yet counted
  (`Uncounted`), is the number of edges nobody has resolved (`EdgesCounted`);
  one thread goes over the edges of a node, once (`IteratesOnce`); who is handed
  out has no such edge left (`FreeToRun`); and an edge resolved by a failed or
  aborted node has poisoned its dependent (`Poisoned`).
- From it `EdgesObeyed`, `PoisonObeyed` and `ReturnsFlushed`. TLC breaks all three
  with two frames (section 4).

`ListScheduler_proofs`, for every acyclic task graph, any number of subtasks and
processors, any execution time and every order of priorities:

- `Feasible`: nothing begins before its predecessors end, and no processor is
  given two subtasks for the same time. Neither is inductive. The strengthening
  `IInv` says that the two counters of a task count what was placed
  (`Counted`), that the queue is exactly the frontier of what may be placed, and
  that nothing was placed early (`Frontier`), and that finish, ready and idle
  times are late enough for everything placed (`Times`).
- `NothingLeftBehind`: an empty queue means that all is placed. If a task were
  left, the least such task would have all its predecessors placed, so its
  missing subtask would be in the queue.
- `MakespanHolds`: every round adds at most the time of its subtask. This needs
  `Bounded`: no ready time and no idle time is beyond the makespan.
- `TypeCorrect`, with `on_scheduled`'s own assertion.

`LayeredDatabase_proofs`, for any number of layers, entities, components and
queued writes, and any calls of the free client, as long as it mounts no layer
under one in use (`LateMounts = FALSE`), sparing or not. The client of `Next` spawns in partition
0 and mounts layers of at most one entity:

- `StackInvariant`: slots, filters, payloads, edges, queues and the shadow index
  stay consistent with each other. None of the properties is inductive; each
  speaks of what a commit or a rebuild makes of queues or payloads written long
  before. So the invariant says that every entity lies below the next slot of
  its partition (`Typed`), that a filter has taken in all its page holds
  (`Filtered`), that payloads speak of entities and a patch lies above what it
  replaces (`Written`), that an edge is registered unless its source was
  destroyed beside it (`Registered`), that a patch is queued only for an entity
  below the top layer (`Queueing`), and that the index agrees with the redirect
  payloads: a chain meets no alias twice, and each of its patches replaces a
  shadowed alias before it (`Indexed`).
- A rebuild replays the patches one by one, a recursion over a finite set.
  `Rebuilt` shows that it ends in a well-formed index: a set of patches that is
  minimal among those whose replay does not (`Minimal`) cannot be, because the
  patch replayed last is in no chain yet. That is where the scan from the bottom
  layer up is needed.
- From the invariant `StackTyped`, `PathsStayCompressed`, `StackMeetsOnce`,
  `FiltersHideNothing`, and `FoundationStays`, about every step. `StackMeetsOnce` needs that without forks a patch replaces the alias
  right before it in its chain (`Successors`).

`FlatStore_proofs`, under the same conditions:

- `StaysRebuildable`: the index is one a rebuild can reach. `Rebuildable`
  ties what the calls made of it to what the layers hold: the active patches are
  in it and in the order of the scan, it shadows just what markers and its
  patches replace, and a tombstone waits for the newest alias of its entity.
- `RebuildFindsTheRest`: a rebuild, also in a reboot, finds every entity as it
  was unless a patch of it was erased in place. The index before and the index
  after put two aliases into one class for the same reason, a chain of patches
  between them; with every patch of a class still there, the last one in the
  order of the scan is the newest alias in both.
- `UntouchedEdgesStay`: an edge for which nothing was written in a higher layer is
  found from every alias of its source. The index shadows only what a marker or
  a patch was written for (`ShadowedIsOverlaid`, from `Rebuildable`), and an edge
  stays registered under the source it was written for. What was written for the
  edge itself, a patch included, loses it (`edge_severed`).
- `StackIsAFlatStore`: every step of the stack is a step of `FlatStore` or
  stutters. A deferred write is one of the sequence still to settle; a
  commit takes the first and touches no other root, because a new patch joins
  the class of the alias it replaces and no other.

`JitClosure_proofs`, under the same conditions:

- `EdgesRise` (`Rising`): an edge is created in a layer no lower than its source
  and, within a layer, in a later slot. From it `ClosureAlwaysEnds`: under
  an edge there are only edges that lie after it, so the search, which has no
  visited set, cannot come back.
- `ClosureIsComplete`: what the search finds is the least set that holds its roots
  and whatever hangs under what it holds. From it `CascadeIsForeseen`: a
  reader of anything such a deletion changes at once collides with the deleter.

`SimpleFrame_proofs` goes on with:

- `ChangesDeclared`, the firewall: an entity changes during a pass only as a
  running system has declared.
- `PoisonFollowsEdges`: a system is resolved after its predecessors, a dead one
  has marked its dependents by then (`ResolvedClosed`), and who runs is alive.
  It needs the other half of `IInv`: that payloads exist only after what they
  depend on (`OrderRespected`).
- `FrameRefinesDag`: every step of a frame is a step of `DagRun` or stutters. The
  marks of `SystemNode` are the dead, also between the passes of a frame, where
  no graph is open. That a graph computed from the records has forward edges
  only (`GraphIsForward`) makes it one of those `DagRun` is given.

`SerialFrame_proofs`, for every catalog, database, bound and schedule, crashes
included:

- `RunsSerially`: a plain pass is equivalent to running its systems one after the
  other in the order of registration. The invariant (`SerialInv`) gives every
  entity a *history*, the changes made to it so far rearranged in the order of
  registration, and says that the table is at the end of the histories
  (`InTurn`) and that each query has found what it would have found in the
  history at its turn (`FoundInTurn`); `Progress` keeps what a payload's own
  position says of it. A change made out of turn goes into the middle of a
  history. That changes nothing at the end, because the systems whose turn is
  later and that have already changed the entity have no edge from this one:
  such changes commute unless one adds what the other removes (`Commute`), and
  then the pass has an edge (`Independent`). And no query that has started notices:
  it asks only for what its system declared, which this one may not change
  (`Unnoticed`), and what is destroyed had, when the pass began, a mask the
  pre-pass put into the deleter's (`FateShrinks`, from `BlastInv`).
- *Plain* passes have no flag and no system that adds components beside one that
  destroys entities; and every system looks for components it has declared, at
  least one (`AsksForDeclared`). The proof asked for the last condition and TLC
  shows that it is needed: `DatabaseAccess::query_entities`
  (`X/Simple/EntityDatabase.hpp:473`) takes any mask, and a system that queries
  what it does not declare, or everything, has no edge to those that change it.

- `StagesInOrder`: where the graph orders any two systems that spawn, and each
  spawns entities of one kind (`SpawnersInOrder`), the queue of a pass is what
  they have staged in the order of registration: `DeterministicStaging` holds,
  crashes and skipped systems included. Section 4 shows that the condition is
  needed. The invariant (`StagedInv`) says this of every state of the pass, and
  that a `push_back` under way still finds the end of the partition where it left
  it. It rests on `PoisonFollowsEdges`: the systems that are over are closed
  downwards, so a spawner that is not over keeps every spawner behind it from
  starting (`LaterQuiet`). "Ordered" is transitive (`RunsBefore`), and stated
  without a closure: whatever contains the predecessors of its members and of
  the second system contains the first.
- `ScheduleDoesNotMatter`: a plain pass with ordered spawners in which nobody
  fails is a function (`Outcome`, `OutcomeSpawns`) of the database it found and
  of the systems; entities, queue and the ids that come of it are the same under
  every schedule. It joins the two invariants above to one that says that who is
  over and alive has run to its end (`RunToTheEnd`): then each serial run is a
  complete one, and a spawner has staged one entity for each it found.

Only model-checked: liveness (`FrameEnds`, `FrameCompletes`, `StopReturns`),
which is out of the prover's reach; and what the suites expect (`SuitesPass`,
`TestsPass`) and the fuzzer's guards watch (`NoDataRace`), statements about given
scripts and their data, which TLC runs exhaustively. `DeterministicStaging` does
not hold in general and is proved under the condition above; `frame_tests` checks
it without the condition where the suites and the free host spawn.

Proved and not run on their own: `NoRunOnPoison`, `NobodyLeftBehind`,
`OnlyDownstreamAborted` and `ConflictsSerialized`, because `task_dispatch` checks
the refinement of `DagRun`, which says them of running payloads; and
`ScheduleIndependent`, whose two halves are `SerialEquivalence` and
`DeterministicStaging` with the records and the counts of complete runs.

To repeat: `tlc -workers 2 -config X.cfg MC_M.tla` for a run, with the module
and configuration named in `PROJECT.json`; `tlapm M_proofs.tla` for a proof
module. The longest run takes two to three minutes.

## 7. Plan

Done: all modules of section 2 and the proofs of section 6. What would come
next:

1. `RunsAfterItsPredecessors` for several frames, under the condition that no
   edge comes from an earlier one.
2. Concurrent callers of the layered database, once its queues are protected:
   as they are, every outcome of the race on the vectors is possible.
3. A run of `LayeredDatabase` with `LateMounts` on, for what still holds.
