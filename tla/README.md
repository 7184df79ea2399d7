# cognee-rs: a TLA+ verification of how memory is built, rolled back and recovered

cognee-rs turns documents into a knowledge graph: `add` stores the documents,
`cognify` extracts entities and edges from them and writes them to a graph store,
a vector store and a relational ledger, `memify` derives more vectors from the
graph, `delete` takes things out again and `search` reads.  The stores are
independent databases without a common transaction.  What keeps them consistent
is a protocol in the code: ownership rows written before the artifacts they own,
a sweep that takes a failed run's artifacts out again, markers for what is done,
a trail of run rows, a claim that keeps runs of one dataset apart, and a recovery
at startup for what a crash left behind.  This project models that protocol,
model-checks it on small instances with TLC, and proves the results that matter
most with TLAPS for every value of the parameters.

## 1. The system

| component | state | operations | talks to |
|---|---|---|---|
| cognify run (`crates/cognify/src/tasks.rs`, `rollback.rs`, `failure.rs`) | the plan of one call: items to do, failed, unreached; what it extracted | qualify, claim, filter by marker, execute, settle, mark, append row, release | all stores |
| run sweeper (`crates/delete/src/sweep.rs`) | the scope and the exclusive slugs of one sweep | read affected items, exclusive nodes, edges and texts; delete from graph and vectors; delete rows; clear markers | ledger, graph, vectors, markers |
| startup recovery (`crates/delete/src/startup_recovery.rs`) | the orphan list | list, sweep each, retire rows, release claims | run repository, sweeper |
| ownership ledger (`crates/database/src/ops/graph_storage.rs`) | node rows and edge rows: dataset, item, slug, run | upsert on conflict, select and delete by run | relational store |
| run repository (`crates/database/src/pipelines/sea_orm_impl.rs`) | run rows, claim rows | log, latest row, orphans, reset; try_claim, release, release all | relational store |
| `pipeline-unblock` (`crates/cli`) | what the operator read | retire a stuck row, release a stuck claim | run repository |
| completion markers (`crates/database/src/ops/data.rs`) | a JSON column per data item | set, clear, read | relational store |
| task executor (`crates/core/src/pipeline.rs`) | task stages | run, cancel | run repository |
| run registry (`crates/core/src/pipeline_run_registry`) | a table of slots with an event channel each, an eviction queue | register inline or in the background, subscribe, retain, abort, shut down | run repository, clients |
| dataset creation (`crates/lib/src/api/datasets.rs`) | none of its own | look up, insert, grant | relational store |
| dataset locks (`crates/core/src/dataset_locks.rs`) | weak per-dataset mutexes | lock, hold several, prune | add, delete |
| delete service (`crates/delete/src/lib.rs`) | none of its own | delete item, dataset, user, memory only | all stores |
| ingestion (`crates/ingestion`) | dataset rows, grants, data rows, links, files | add: create and grant, deduplicate, link | dataset locks, relational store, files |
| sessions, search, adapters, bindings, CLI, telemetry | | | |

Calls run concurrently in one process (async tasks) and, for a shared database,
in several.  A call may fail at any statement, be dropped at any await, or die with
its process; the process restarts and recovers.  Everything hard in this code comes
from there: what was read before an await is stale after it, one store was written
and the next was not, rows are missing because the trail is written best effort.
`PROJECT.json` lists each such place as a hazard with the property that covers it.

What makes each part correct:

- **ledger and artifacts**: nothing is in the graph or the vector store that no row
  accounts for (`I1`), because only rows let a sweep or a delete find it again;
- **markers**: a marked item is skipped by every later incremental run, so it must be
  complete (`MarkerSound`);
- **sweep**: takes everything of the run that failed (`RolledBack`), and nothing
  that somebody else owns (`SweepSparesClaimed`);
- **trail**: a failed run is on record as failed (`FailedTeardownRecorded`), an
  incomplete one is no cache hit;
- **claim**: runs of a pair do not overlap (`Serial`, `Exclusive`), and a dead holder does
  not block the pair for ever (`NotRefusedForever`);
- **dataset locks**: two tasks are never inside one (`OneTaskInside`), a nested request
  does not undo the outer one (`HoldKeeps`), everybody who waits is served
  (`WaitersServed`), and the registry does not grow without need (`RegistryBounded`);
- **recovery**: ends (`RecoveryEnds`), and unblocks every dataset (`RecoveryUnblocks`);
- **datasets, items and deletes**: what is left after any mix of adds, runs and
  deletes is owned (`Owned`), linked items have their file (`LinkedHasFile`), marked ones
  their artifacts (`MarkerSound` of `DatasetLife`), whoever finds a dataset finds its grants
  (`AttachedGranted`), and what a delete reports as gone is gone (`DeletedGone`);
- **run registry**: it stays near its limit (`Bounded`), forgets only runs that are over
  (`EvictsOnlyOver`), refuses only for a reason (`RefusedOnlyWhenBusy`), tells subscribers
  how their run ended (`SubscribersServed`), and a shutdown leaves nothing going
  (`ShutdownStops`).

## 2. The modules

| module | what it is |
|---|---|
| `CognifyRun` | one call of `cognify()`, its sweep, the crash, startup recovery and `pipeline-unblock`, one action per statement that reaches a store |
| `MCCognifyRun` | small instances of it: documents, entities, an edge, caller arguments |
| `CognifyRunProofs` | types and the exclusive-run claim, proved |
| `OwnershipProofs` | `I1`, proved |
| `TrailProofs` | the run trail and startup recovery, proved |
| `SweepProofs` | what sweeps take and spare, and the markers, proved |
| `RunLease` | abstract: what the exclusive-run claim promises, a lease |
| `RunClaim` | the claim on one pair, one action per SQL statement; implements `RunLease` |
| `MCRunClaim` | an instance with three calls |
| `RunClaimProofs` | mutual exclusion and the refinement, proved |
| `DatasetLocks` | the registry of per-dataset locks: weak entries, pruning, `lock`, `hold`, nesting, cancellation |
| `MCDatasetLocks` | an instance with two tasks and three datasets |
| `DatasetLocksProofs` | exclusion, kept holds and the bound of the registry, proved |
| `DatasetLife` | concurrent `add`, `create`, `cognify` and deletes over datasets, items, files, markers, ledger and stores |
| `MCDatasetLife` | three calls on three datasets that share an item |
| `DatasetLifeProofs` | types, ownership, files, grants, markers and complete deletes, proved |
| `RunRegistry` | the in-process registry of runs, one action per lock section |
| `MCRunRegistry` | small registries |
| `RunRegistryProofs` | types, the bound of the table, eviction, refusals and shutdown, proved |

The modules meet in what they share.  `DatasetLife` uses of `DatasetLocks` what
`LocksExclude` proves, one call inside a dataset's lock, as its variable `lock`; it sees a run of
`CognifyRun` from outside, as the reads, rows, artifacts and markers in their order, and the
claim of `RunClaim` as the guard that keeps runs of one dataset apart.

### CognifyRun

State.  `ledger` is the set of ownership rows; `graph` and `vectors` the slugs the
stores hold; `markers` pairs of dataset and item; `runRow` and `latest` the last row of
each run and of each pair of dataset and pipeline; `claims` the claim table.  `pc`, `cfg`,
`plan`, `ending` and `sw` are the local variables of the calls and of startup.  A run
has the name of its call, since every execution draws a fresh run id.

A call goes through the steps in this order:

| steps (`pc`) | actions | code |
|---|---|---|
| qualify, claim, filter | `Qualify`, `Claim`, `Filter` | the gate of `cognify()`, `try_claim`, the marker filter |
| initiate, start | `LogInitiated`, `LogStarted` | the executor's run watcher |
| extract | `Extract`, `StageAbort` | classification, chunking, extraction beside summarisation; `FailurePolicy` |
| own1, graph1 | `OwnExtracted`, `WriteExtracted` | first persistence round: rows, then graph |
| own2, graph2, index | `OwnPoints`, `WritePoints`, `Index` | second round; `FailureReport::is_fatal` |
| rowOk, teardown, graph3 | `LogCompleted`, `Teardown`, `WriteDlt`, `TeardownFail` | COMPLETED row, then the DLT teardown |
| rowErr | `LogErrored`, `Fail` | ERRORED row; `decide_sweep` |
| sw... | `SweepAffected` to `SweepMarkers`, `SweepFail` | `RunSweeper` |
| mark, append, release | `Mark`, `Append`, `Release` | `on_run_completed`, `on_teardown_failed`, the release of the claim |

What is data is abstracted.  An artifact is a slug; what the LLM extracts from an item
is any member of `Yields`; what a pipeline always writes for it is `Points`.  Rows that
belong to no single item have the owner `NilItem`, as the nil UUID in the code.  Which
files a stage fails on, and which it does not reach after a FailFast abort, is any
choice `Losses` allows.  Whether failed chunks exceed the threshold depends on chunk
counts, so both outcomes are possible unless every file is outstanding.  A store call
that fails may have been applied in part; the rows of one round are one transaction.

`Faults` says which failures an instance has: a task fails (`fail`), a statement of a
sweep fails (`sweep`), a row of the trail is lost (`rows`), a marker write is lost
(`markers`), a release is lost (`claims`), a call is dropped (`drop`), an operator clears a
stuck pair (`unblock`).  `MaxCrashes` bounds the crashes.  In this module a claim can be
taken over when its holder is gone: no call is taken to run for a day, the value of
`CLAIM_STALE_AFTER`.  `RunClaim` drops that simplification.

### RunClaim and RunLease

`RunClaim` has the insert, the read of the holder, the delete of a stale claim by its id,
the second insert and the release as separate steps of any number of calls, with an
operator's read and release, startup's release of everything, deaths at any point, and a
clock.  `age[c]` counts up to `StaleAfter` and stays there, as nobody reads it beyond.
`OperatorRead` needs a dead holder: the command documents that the operator
has to make sure of it.

`RunLease` says what the users of the claim rely on.  The refinement mapping takes the row
for the holder and the calls past their insert for the running ones.

### DatasetLocks

`entry` is the map of weak entries, `ref[t][k]` says which mutex of a key a task has an Arc
of, `owner` who has locked it.  `Resolve` is `lock_arc`: it hands out the mutex of a live
entry and otherwise makes a new one, pruning first when the map is at its threshold.
The mutex itself is tokio's.  `Ask` is the start of `lock` and of `hold`, with the filter on
what the task holds; `frames` is the nesting of requests, from which the task-local
`HELD` set follows.  A task may be dropped wherever it awaits.

The callers are any tasks that keep two rules.  The first is the code's own: whoever
may ask again uses `hold`.  The second the code does not state: a nested request asks for
keys above those the task has.  All callers in the repository keep it, since none nests
requests; two that nest holds downwards deadlock.

### DatasetLife

State.  `datasets`, `granted`, `links`, `data`, `markers`, `files` and `ledger` are the tables and the
file store; `store` is graph and vector store in one; `isolated` says whether datasets have
stores of their own (`DeleteService::dataset_storage`) or share one.  `lock` is the dataset
lock, `call` the local variables of the calls, `overlaps` a history variable.

| steps (`pc`) | actions | code |
|---|---|---|
| resolve, insert, grant, get, attach | `AddResolve`, `AddInsert`, `AddGrant`, `AddGet`, `AddAttach` | `persist_data_with_acl_and_locks` |
| lookup, make, permit | `CreateLookup`, `CreateInsert`, `CreateGrant` | `create_authorized_dataset`, which takes no lock |
| read, own, write, mark, marked | `CogRead`, `CogOwn`, `CogWrite`, `MarkRead`, `MarkWrite` | `cognify()` seen from outside; the marker column read, then written back |
| resolve | `Resolve` | `lock_keys`, `resolve_targets` |
| clear, clearing | `ClearRead`, `ClearWrite` | phase 0, or the last phase of a memory-only delete |
| select, pick, wipe, unledger | `SelectDataset`, `SelectItem`, `Wipe`, `Unledger` | `cleanup_dataset`, `cleanup_data` |
| detach, drop, count, file, row | `Detach`, `DropDataset`, `Count`, `DeleteFile`, `DeleteData` | phase 2 |
| any | `Fail`, `Crash` | a statement fails; the process dies |

Grants outlive their dataset.  The permission tables are not the library's (`AclDb` in `traits/acl_db.rs:12`;
`migrator/m20260914_000001_baseline.rs:419` leaves them to the server), no delete revokes a grant, and a
dataset made anew under the same name has the same id.  `AttachedGranted` rests on that.  With an `AclDb`
that drops grants along with the dataset it could fail: an add resolves a dataset, the dataset is deleted,
another add inserts it anew and has not granted yet, and the first add attaches.

Every `add` stores its input under a path of its own, so `files` holds the items whose file is
where their row says: only an add that creates the row puts one there.  Foreign
keys are part of the statements: a link needs both rows, an ownership row its dataset, and
deletes cascade.  Some overlaps no lock of the code prevents: a run or a create and a delete
of its dataset, an add of an item a delete is after, an add to a dataset that is being deleted
(`late`), two writers of one item's marker column.
`overlaps` records them per dataset or item when they happen, and the properties excuse
what they touched and nothing else.  Each excuse is needed: TLC finds a counterexample
as soon as one of them is dropped, but for two that came out of the proofs and that the run's instance does
not reach: that of `DeletedGone` for a late add, which takes an add and two deletes of datasets that share
its item, and that of `MarkerSound` for an item made anew, which takes six calls (section 5).

### RunRegistry

`slots` is the table, `order` the eviction queue, which the code keeps under a lock of its
own; `caller`, `down` and `retention` are the threads in `register_*`, `shutdown` and
`run_retention`; `work`, `aborted` and `row` belong to the runs; `phase` is what a slot's channels
sent last.  A channel is named after who made it, the run's slot or the placeholder a
subscriber left, so that replacing it is visible.  A `try_read` may fail when the next lock section of
another thread takes the write lock (`WriterAbout`): the sections at `default_impl.rs:275` (eviction), 304
(`create_slot`), 342 (`finish_slot`, after inline work and not during it), 575 (the abort handle), 681
(a placeholder), 835 and 863 (abort, shutdown) and 229 (retention).  `ensure_capacity` then refuses a call
(`Refuse`) and `subscribe` returns an empty stream.  Retention has three lock sections, the list under
the read lock (`RetentionList`), the removal under the write lock (`RetentionRemove`) and the queue's own lock
(`RetentionPrune`); in between a caller may evict a listed slot, and a subscriber may leave a placeholder in its
place, which goes in turn.  `RetentionPrune` keeps the queue's other ids in their
order: it says at which places they stand, which is what the proofs count with.  An aborted task is dropped at one of its next awaits, and
the statement it was waiting for may be executed all the same.

## 3. The runs

| run | instance | checks |
|---|---|---|
| `cognify_tolerance` | two calls, strict, tolerant or non-incremental, on two documents that share two entities, one of which may bring the edge between them; tasks fail | `RolledBack`, `SweepSparesClaimed` |
| `cognify_crash` | two calls, one non-incremental, one crash; tasks, sweeps and marker writes fail | `I1`, `MarkerSound`, `RecoveryUnblocks` |
| `cognify_drop` | two temporal calls, one with scope Nothing, one crash; dropped calls, lost rows and releases, unblock | `I1`, `Serial` |
| `cognify_live` | two calls with DLT rows under the nil item, one crash, failing tasks and sweeps, fair | `TypeOK`, `FailedTeardownRecorded`, `CallsEnd`, `RecoveryEnds` |
| `run_claim` | three calls, window of two ticks, fair | `Exclusive`, `ImplementsLease`, `NotRefusedForever` |
| `dataset_locks` | two tasks, three datasets, pruning from two entries on, requests nested twice, fair | `OneTaskInside`, `HoldKeeps`, `RegistryBounded`, `WaitersServed` |
| `dataset_life` | three calls, three datasets, two items that share an entity, shared or separate stores, one fault | `TypeOK`, `Owned`, `LinkedHasFile`, `MarkerSound`, `AttachedGranted`, `DeletedGone` |
| `run_registry` | two threads, three runs, one of them in the background, a table of one place | `TypeOK`, `Bounded`, `ShutdownStops`, `EvictsOnlyOver`, `RefusedOnlyWhenBusy` |
| `run_registry_live` | one thread, an inline and a background run, one subscriber, lost rows, fair | `RefusedOnlyWhenBusy`, `SubscribersServed` |
| `cache_hit`, `retry_after_sweep`, `two_datasets` | section 5 | one violated property each |

**Bounds.**  Two calls are enough for one run to disturb what another wrote, claimed or
marked; a third is given where two must go first (`retry_after_sweep`: an owner of the
shared nodes, the failure, the retry).  Two items are what a tolerant run needs to keep one
and drop the other, and they share an entity so that exclusive and shared slugs both
occur.  One crash meets every step of a run, of a sweep and, since sweeps of recovery can
fail, leaves every partial state recovery can start from.  In `run_claim` three calls let
two compete for the claim of a third, and two ticks separate a fresh claim from one about to
become stale.  In `dataset_locks` a threshold below the number of keys makes the registry
prune live and dead entries together, and two tasks with three keys can wait on each
other.  Runs without liveness use the symmetry of the calls.  Deadlock is
checked: `Quiescent` is the stuttering of a model whose calls are all over.  The registry
alone may stop, after its shutdown.  In `dataset_life` three calls let a delete meet a run on its own
dataset and a second call on another dataset that holds the same item; a third
dataset does not exist yet, so that two adds, or an add and a create, make it together; of the memory-only
deletes it has that of an item (the proofs are about both); one fault is a delete cut
off anywhere and, as two calls are left, tried again.  In `run_registry` a table of one place
makes every second registration scan, evict or be refused, and two threads
can pass the capacity check together.

**Fairness.**  A call that is polled takes its next statement, and so does startup
(`WF` of `CallStep` and `StartupStep`, of `Statement` in `RunClaim`); every statement
returns, with a result or an error.  The clock advances.  Nothing is asked of
callers, crashes, operators or the length of a run.  `NotRefusedForever` therefore
assumes a caller that keeps asking and shows that it gets to run even if no holder
ever releases.  In `DatasetLocks` tokio's mutex is fair, so a waiter is not overtaken for ever
(`SF` of `Acquire`), and critical sections end (`SF` of leaving the outermost request).  In `RunRegistry`
the runtime polls tasks that can go on, work futures return, and a shutdown that began goes on
(`WF` of `CallerStep`, `RunStep` and `ShutdownStep`); nobody has to register, subscribe or shut down.

## 4. What is proved

TLAPS checks these for any sets of datasets, items, slugs and calls, any caller
arguments, any failures and any number of crashes.

| theorem | says |
|---|---|
| `CognifyRunProofs!TypeCorrect` | `Spec => []TypeOK` |
| `CognifyRunProofs!RunsAreSerial` | `Spec => []Serial` |
| `OwnershipProofs!NothingUnowned` | `OnePair => (Spec => []I1)` |
| `SweepProofs!FailedRunsRolledBack` | `Spec => []RolledBack` |
| `SweepProofs!SweepsSpareClaimed` | `OnePair => (Spec => SweepSparesClaimed)` |
| `SweepProofs!MarkersSound` | `OnePair`, `PointsClosed`, `NoLostRows`, `NoDrops` give `Spec => []MarkerSound` |
| `TrailProofs!TeardownFailuresRecorded` | `NoLostRows` gives `Spec => []FailedTeardownRecorded` |
| `TrailProofs!RecoveryLeavesRunnable` | `NoLostRows` and no lost release give `Spec => RecoveryUnblocks` |
| `RunClaimProofs!FreshRunsExclude` | `Spec => []Exclusive` |
| `RunClaimProofs!ClaimIsLease` | `Spec => ImplementsLease` |
| `DatasetLocksProofs!LocksExclude` | `Spec => []OneTaskInside` |
| `DatasetLocksProofs!HoldsKeepTheirKeys` | `Spec => []HoldKeeps` |
| `DatasetLocksProofs!RegistryStaysSmall` | `Spec => RegistryBounded` |
| `DatasetLifeProofs!TypeSafety` | `Spec => []TypeOK` |
| `DatasetLifeProofs!OwnedSafety` | `Spec => []Owned` |
| `DatasetLifeProofs!FilesSafety` | `Spec => []LinkedHasFile` |
| `DatasetLifeProofs!GrantSafety` | `Spec => []AttachedGranted` |
| `DatasetLifeProofs!MarkerSafety` | `Spec => []MarkerSound` |
| `DatasetLifeProofs!DeletesComplete` | `Spec => DeletedGone` |
| `RunRegistryProofs!RegistryTyped` | `Spec => []TypeOK` |
| `RunRegistryProofs!TableBounded` | `Spec => []Bounded` |
| `RunRegistryProofs!RefusalsJustified` | `Spec => RefusedOnlyWhenBusy` |
| `RunRegistryProofs!EvictionSafe` | `Spec => EvictsOnlyOver` |
| `RunRegistryProofs!ShutdownSafe` | `Spec => []ShutdownStops` |

Assumptions: `StoreAssumption`, `WorkAssumption` and `CallAssumption` of `CognifyRun` (slugs of
nodes, edges and texts are different, parameters have their types), `ClaimAssumption` of
`RunClaim` (a positive window), `LockAssumption` of `DatasetLocks` (finitely many keys with the
order of the naturals), `LifeAssumption` of `DatasetLife` (parameters have their types, adds and item
deletes name an item), and in `RunRegistry` `MaxRunsAssumption` (a table of at least one place),
`NoneAssumption`, `ResultsAssumption` and `SlotAssumption` (runs and clients have different names,
the parameters their types, and no slot is the mark for a missing one).  TLC evaluates them in every run.

Hypotheses of single theorems, beyond the assumptions.  None is for the prover's sake: with any of them
dropped TLC finds the property violated on a small instance.

- `OnePair`: all calls name one dataset and one pipeline.  Graph and vector store are shared by all
  datasets and the claim serializes only calls of one pair, so two sweeps of different pairs each find a
  node exclusive or shared on rows the other is about to change (`two_datasets`).
- `NoLostRows`: `"rows" \notin Faults`.  The trail is written best effort.  A lost ERRORED row leaves a failed
  teardown on record as complete; a lost COMPLETED row makes a finished and marked run an orphan, which
  startup sweeps; a lost reset leaves the pair blocked by its STARTED row.
- `"claims" \notin Faults` (recovery): the release of all claims at startup is best effort too.
- `NoDrops`: `"drop" \notin Faults`.  A dropped call leaves its row STARTED and its rows in the ledger.  A later
  call finds the same slugs there, keeps the first run's tag (`graph_storage.rs:82`) and marks the item; the
  next startup takes the dropped run for an orphan and sweeps what the marked item stands on.
- `PointsClosed`: what a pipeline always writes for an item has the endpoints of its edges with it, and a
  temporal pipeline indexes only nodes of it.  This is how the extractors build their points: chunk, document
  and summary nodes, and the edges between them.  A sweep that deletes a node takes its edges along, and the
  temporal pipeline indexes no edges.

- **Types.**  `TypeOK` is not inductive: a sweep reads `cfg[c].dataset` of a run startup
  found in the trail.  `TypeInv` adds that a run with a row, a place in the queue or a
  step has its arguments (`Configured`), and that startup and calls have their own steps
  (`Placed`).
- **Serial runs.**  `ExclusiveInv` adds that whoever runs or sweeps holds the claim of its
  pair, and that no call is active while startup recovers.  A claim changes hands only
  when it is free or its holder is finished, so two holders of one pair cannot both be
  between claim and release.
- **Ownership.**  `I1` needs to know, at every step that writes an artifact, that the rows
  are there (`OwnedFirst`), and at every step of a sweep that what it selected is
  exclusive or claimed outside the scope, and that what it deleted is gone before its
  rows go (`SweepExact`).  Both are kept because only one actor moves: this is where
  `Serial` and the hypothesis `OnePair` (all calls name one dataset and one pipeline)
  come in.  Without the hypothesis `I1` is false; see `two_datasets`.
- **Trail.**  `LinkInv` ties a pair's latest row to the last row of the run it names.  `RecordedInv` adds that a
  call that has not logged has no row, that one past its executor is no orphan, and that a failed
  teardown has its ERRORED row before the claim is released.  `RecoveryInv` adds that there is no orphan left
  when startup comes to the claims: the reset took them, and no call is active meanwhile.
- **Sweeps.**  `SweptInv` says that a call's sweep is for its own run and scope, that its edge rows are gone before
  its node rows and all of them before the markers, and that a call past a sweep without failure
  has none left: no later upsert gives a run rows, since on conflict it keeps the tag of the first run
  and a fresh row gets the tag of its own.  This needs no serialization, so `RolledBack` has no
  hypothesis.  `SparesInv` carries the exclusive slugs a sweep
  has read to the moment the stores are emptied: nobody adds a row in between.
- **Markers.**  `MarkedInv` says that every marked item is backed by runs past their own sweep that startup will
  not take for orphans (`Safe`), whose rows account for its points, and that these are in the stores
  (`Backed`).  A sweep is for a run that is not `Safe` (`OrphanInv`), and by `SparesInv` it deletes nothing
  that a row outside its selection claims.  `Written` carries what a run in flight has already put
  into the stores to the step that marks.
- **Claim.**  `ClaimInv` says that a row's id got past its insert, that what a call is about to
  take over is stale and stays so, that the claim an operator has read belongs to a dead
  call, and that a run holds the row until it is stale.  From it every step of the
  protocol is a step of the lease or a stutter.
- **Locks.**  `LockInv` says that whoever has an Arc of a mutex has the one the registry names
  (`Registered`), that a locked key is locked through it (`Mine`), and that the keys of the
  requests a task is inside of, is being granted and is dropping do not overlap.  Pruning
  keeps `Registered` because an Arc in use keeps its entry alive.
- **Datasets.**  `CallsOK` says that a call's step fits its request and that a delete, or an add
  that is about to grant, has its dataset's lock; `Watched` that an overlap is on record from
  the moment it begins.  On them rest three invariants.
  `OwnedInv`: an artifact is claimed by a row no delete is about to remove (`Claimed`,
  `Condemned`), a run about to write has its rows (`WriteOK`), and a delete about to wipe has
  selected every row there is, because nobody but a run, which would be an overlap, adds rows
  while it holds the lock (`DeleteOK`).
  `FilesInv`: a row without its file is one a delete is or was at (`Undone`), and an item about to
  be removed stays unlinked unless an add has met the delete.
  `GrantInv`: a dataset row without grants is behind the lock of the add that made it, or half
  made: its maker was cut off or is a create.  What is settled stays so, because a create that
  has a row to grant grants it or is cut off.
  `MarkInv`: but for overlaps an item is marked only for datasets it is linked to (`MarksLinked`) and then has its
  artifacts and their rows, unless a memory-only delete is at it (`MarksKept`), and each call's reading of a marker column
  is either still true or on record as an overlap.  It is stated for separate stores; in a shared one a
  delete takes what other datasets claim.
  `GoneInv`: an item without a link has no row and no file unless a call is still to remove them, was cut
  off, or met an add (`NoOrphans`, `FilesRowed`), and what a delete has left to do and has done is what
  it resolved (`TodoOK`, `GoneOK`).
- **Registry.**  `EvictInv`: while the registry is up, a slot that counts as finished belongs to a run
  that is over, and so do the one a thread has picked to evict and those retention has listed (`FinishedOver`);
  this rests on
  every thread having a run of its own that nobody has begun (`Own`).  `StopInv`: the background runs
  shutdown has to stop keep their slot and their handle until shutdown comes to them, since their
  slots never count as finished before (`Up`); those it has been at are told to stop and have
  their terminal row, or get it with the next statement (`Down`).  `TableInv` adds the types of the
  channels and the queue, of what retention has collected and shutdown has left.
  `CountInv` counts the registered slots that nobody is evicting together with the threads past the capacity
  check: the sum never exceeds `MaxRuns + |Callers| - 1`, since a check passes only below `MaxRuns` or with a
  victim of its own, and victims are pairwise different (`HeldInv`).  `Bounded` alone is not inductive: it
  forgets the threads that have passed the check and not inserted yet.
  `ChanInv`: a slot's channel is its run's own (`Senders`), an inline run whose end was announced there counts as
  finished (`Announced`), and a finished slot is on the eviction queue, or its thread is about to put it
  there, or somebody is evicting it (`Listed` of `HeldInv`); what retention has listed is registered by nobody
  again, and when it prunes, none of it is in the table (`Queued`).  Somebody who evicts is a writer, so a scan that
  reads the table and finds nothing to evict has seen every awaited run whose end was published.

Only model-checked: liveness (`CallsEnd`, `RecoveryEnds`, `NotRefusedForever`, `WaitersServed`,
`SubscribersServed`), which needs fairness and `ENABLED`, both out of the provers' reach.  Every invariant and
every action property of the passing runs is proved.  Each inductive invariant was first checked
by TLC, as an invariant of the instances of section 3.

## 5. Where code and comments disagree

- `cache_hit`: the executor's own COMPLETED row lists no outstanding file, and the row
  that does comes after the sweep and the markers.  A cached call in between, or any
  later one if that append is lost, is answered from the cache.  `rollback.rs` says that
  must never happen.
- `retry_after_sweep`: a sweep leaves an edge between nodes that survive.  The retry takes
  it for stored, does not index it and marks the item.  `failure.rs` says a retry
  converges.
- `two_datasets`: sweeps of two datasets spare a shared node for each other, and leave it
  without a row.  `I1` of the tests does not hold there.

Met while modelling, and not the subject of a run:

- A run that is killed between its ERRORED row and the end of its sweep is not an orphan, so
  nobody sweeps it.  What it leaves is owned (`I1` in `cognify_crash`).
- A recovery sweep that failed is counted, and its run is retired all the same
  (`startup_recovery.rs:148`), so no later recovery lists it; line 58 says a later recovery converges.
- A dropped call's run stays STARTED.  A later call that finds its rows marks the items, and the next startup
  sweeps the dropped run, rows of the marked items included.  Nothing marks them undone before the last
  step of that sweep, and a call that started earlier has skipped them.
- With lost trail rows recovery sweeps a run that was complete and marked, and its markers
  stand until the last step of that sweep (`MarkerSound` is checked without the fault `rows`).
- `add` whose grant fails leaves the dataset row, and the next add finds it and grants nothing.
  `dataset_locks.rs:15-19` says every create path drops the row again.
- `create_authorized_dataset` takes no lock, drops no row when its grant fails, and so lets an add
  attach to a dataset whose grants are not there, and makes a row anew that a delete in progress has
  dropped.  `dataset_locks.rs:35` says every writer of a dataset identity is serialized against every
  other.  `AttachedGranted` and `DeletedGone` excuse these cases.
- A delete cut off between an item's file and its row: the next add of the same content takes
  the row for stored, and links an item without a file.
- A delete that fails after detaching some items and is tried again resolves only what is
  still linked; the rows and files of the others stay.
- An item added to a dataset while a delete of that dataset is past its resolution
  (`ingestion/src/pipeline.rs:696`): the link goes with the dataset row, and the item's row and file stay for good.
- A run reads a Data row to mark it, the row is deleted and made anew by another add, and the
  write puts the marker of a dataset on a row that is not linked to it.  A delete of that dataset does not
  clear it, and when the item is added there again every run skips it.  `MarkerSound` excuses items that
  an add made while a delete was at them.
- A memory-only delete cut off before its markers leaves items that every later run skips.
- An item delete of an item another dataset holds leaves its ownership rows and artifacts in
  this dataset; in a shared store a dataset delete takes artifacts other datasets claim.
- A re-add of stored content leaves its own copy of the file, which no row names.  Paths carry
  only four random hex digits before the content's name, so copies may rarely coincide.
- Slots of background runs never get `finished_at`, so retention and eviction pass them by, and
  after `max_in_memory_runs` of them the registry refuses; `default_impl.rs:643` expects retention to
  clean them up.
- The table can hold more runs than `max_in_memory_runs`, which `types.rs:72` documents as "Max in-memory
  active+finished runs": `ensure_capacity` and `create_slot` are two lock sections, and threads that pass the check
  together all insert.  `Bounded` says by how much: one run per further registering thread.  Placeholders of
  subscribers are not limited at all.
- A registration is refused with `RegistryFull` although a finished run could be evicted when another thread
  has or awaits the write lock at the moment of the `try_read` (`default_impl.rs:260`), so also while retention is
  making room.  `RefusedOnlyWhenBusy` names exactly these sections.
- A shutdown may write ERRORED over the COMPLETED row of a run that ends while it is
  aborted, and a task told to stop while it writes STARTED may write it after the ERRORED row
  (`ShutdownStops` is about runs that had started before).
- After shutdown has begun it marks subscribers' placeholders finished; retention collects such an id, the run
  is registered under it, and the prune takes it off the eviction queue (`default_impl.rs:235`): the slot can no
  longer be evicted, and registrations are refused.  `RefusedOnlyWhenBusy` is therefore about a registry
  that is up.
- A client that subscribes after its run ended, or whose `try_write` lost a race, hears nothing.

## 6. What is not modelled, and the plan

Left out for good: the text of chunks, summaries and prompts, ontology matching and
scores (data); search and ranking (read-only); store and LLM adapters (external, present as
what their calls do); bindings, CLI output, telemetry, visualization.

Left out of `DatasetLife`: hard-mode orphan sweeps; the scopes by name, per user and store-wide, the first
two of which are the modelled ones after a lookup or in a loop; search history and
sessions; the run rows a delete resets or drops; the node-set refresh of a re-add; adds by dataset id;
edges that a node's deletion takes along, and the texts of edges (in `CognifyRun`); warnings for
stores that are not configured.  The reads of a delete's resolution are one step.
The `POST /v1/datasets` handler, which holds the dataset lock and drops the row again when its grants
fail, is only referred to (`ingestion/src/pipeline.rs:1524`, `core/src/dataset_locks.rs:26`,
`ingestion/tests/dataset_create_locking.rs:10`): it belongs to the HTTP server, which is not in this repository.  The
create that is modelled is the library's, `create_authorized_dataset`, which does neither.
Left out of `RunRegistry`: run ids registered again, `publish_already_completed`, `ScopedRunWatcher`'s
progress events, the status snapshot, receivers that lag.

Next, in this order:

1. **Proofs**: `I1`, `SweepSparesClaimed` and `MarkerSound` of `CognifyRun` for several pairs whose slugs are disjoint;
   that a run of `CognifyRun`, seen from outside, is the run of `DatasetLife`.
2. **Task executor** (`crates/core/src/pipeline.rs`): batches, retries, cancellation, the watcher's events.
3. **Sessions and the improve lock** (`crates/session`, `session_lifecycle.rs`).
4. **Hard-mode deletes**: the orphan sweep over the graph against runs in flight.
5. **Other API verbs**: `remember`, `forget`, `update` and `improve` as sequences of the modelled calls.
6. **Pacing**: the rate limiter and the retry policies of the LLM and embedding adapters.
