# A verification project for agent-graph

This directory holds TLA+ models of the agent-graph runtime and its MCP
server, TLC configurations that check them on small instances, and proofs that
TLAPS checks for every instance.  Every definition is translated from the
source under `src/`; `PROJECT.json` names the lines.

## 1. The system

| part | state it keeps | operations | interacts with |
|---|---|---|---|
| run registry (`agent-graph-mcp/src/run_manager.rs`) | records by run id, retention order, reserved slots, per-record status / cancel flag / events | allocate, insert (evict), admit, reserve, release, admit reserved, cancel, update, remove, get, events | called by tool handlers under the server's mutex and by worker threads without it |
| run server (`server.rs`) | the mutex around the registry, graph map, store handle | `graph_execute`, `graph_run_start`, `graph_run_wait`, `graph_run_cancel`, `graph_run_resume`, `graph_create`, approvals | registry, store, worker threads |
| worker of a run (`run_manager.rs`, `execute_with_store_options`) | one thread, one tokio runtime, an event collector, a wall-clock timer | compile, run the engine, publish the outcome, persist, mark | engine, registry, store |
| durable store (`store.rs`) | SQLite: graphs and versions, executions, events, terminal receipts, resume checkpoints, approvals, idempotency keys, witnesses | one transaction per operation | server handlers, workers, recovery |
| graph engine (`agent-graph/src/engine.rs`) | current superstep, iteration, cancel flag, branch tasks | superstep loop, node attempts with retry, parallel branches, interrupts | state, checkpoint store, event sinks |
| agent state (`state.rs`, `reducer.rs`) | map, reducers, history, version | set, update, remove, fork, transaction, merge | engine, nodes |
| checkpoint store (`checkpoint_store.rs`) | run status, attempts, snapshots, interrupts | create/complete/fail run, record/complete/fail attempt | engine |
| cancellation (`nodes.rs`, `run_manager.rs`) | flag and `Notify` per run | cancel, wait for either the provider or the notification | registry, provider calls |
| daemon (`bin/agent-graph-mcpd.rs`, `daemon.rs`, `owner_lock.rs`) | owner lock, generation, startup mode, one server per connection | start, accept, recover, stop | store |
| template promotion (`promotion.rs`, `operator_auth.rs`) | candidate states, outcomes, nonces | add outcome, promote | operator |
| proxy and transport (`proxy.rs`, `transport.rs`, `main.rs`) | framed connection | forward request, read answer | daemon |
| graph catalog (`server.rs`, `store.rs`) | a map of graphs per server; tables of graphs, versions, executions | create, overwrite, delete, resolve a version, restore at the start | server handlers, engine |
| idempotency (`server.rs`, `store.rs`) | a stored answer per key | look up, replay, save | every keyed tool |
| compilation and validation (`compiler.rs`, `spec.rs`, `templates.rs`, `builder.rs`) | none | JSON specification to graph; which graphs may be resumed | server, engine |
| join strategies (`agent-graph/src/join.rs`) | none | ten ways to make one value of several branches | nodes of a graph |
| events (`run_manager.rs`, `store.rs`) | a ring per record, a copy in SQLite | push, read a page from a cursor | collector of the engine, readers |
| evidence and witnesses (`evidence.rs`, `store.rs`) | rows of captured texts | capture, verify, bind claims to spans | worker at the end of a run |
| policy, file-system helpers, CLI, packaging | none or file modes | checks, parsing | everything |

What is hard in it, and what `hazards` in `PROJECT.json` lists line by line:

* **Two mutexes.**  Handlers exclude each other with the server's mutex around
  the registry; workers take only the registry's inner mutex.  Each registry
  method is atomic, a handler or a worker is a sequence of them, and every step
  of a worker may fall between two steps of a handler.
* **Slots counted in one critical section and used in another** (reservations
  of resumes against admissions of starts).
* **A registry that forgets.**  Terminal records are evicted by later
  allocations, also before their worker has persisted them.
* **Two writers of one row**: worker, waiting handlers and the synchronous
  handler all write a run's row in SQLite.
* **Durable one-shot checkpoints**, resumed by several handlers, connections
  and servers, with approvals that expire, and crashes between the steps.
* **Parallel branches** that are aborted, merged and reported while they run.
* **Notifications without memory** (`Notify::notify_waiters`): a cancel or a
  timeout reaches only who is waiting at that moment.
* **Several maps of one catalog**: each connection has its own graphs in memory,
  all share the tables, and a handler holds no lock over both.
* **Looked up before, saved after**: an idempotency key, a version, a reference.
* **Rules that approximate**: validation, eligibility for resume and the budget
  look at edges, a run follows routers, retries and Sends.

What makes each part correct: the registry never runs more than its slots and
never loses or duplicates a record; a run is executed by one worker, ends once,
and an accepted cancel is never reported as success; rows and durability claims
tell the truth; the server never wedges; a checkpoint is used once; a graph run
executes a node only in supersteps the edges justify, merges branches as its
reducers say and leaves no attempt behind; what a run reports is what its engine
left, and a favourable verdict is earned; a reader of events misses none without
being told; a key means one answer; what history refers to stays; a daemon is
the only owner of its data.

## 2. Plan

In order of importance; all of it but the last line is done.

1. `RunLifecycle` (abstract), `RunRegistry`, `RunServer`, `RunServerProofs`:
   section 3.
2. `SuperstepRun` (abstract), `GraphEngine`, `GraphEngineProofs`: the superstep
   loop, branches, retries, cancellation, interrupt points, with the checkpoint
   store's run and attempt records: section 4.
3. `OneShotTicket` (abstract), `DurableRuns`, `DurableRunsProofs`: several
   servers on one store, checkpoints, approvals, crash, restart and recovery:
   section 5.
4. `AgentState`, `AgentStateProofs`: the calls on a state, transactions, fork
   and merge: section 6.
5. `Values`, `GraphSpecs`, `JoinStrategies`, `Templates`, `GraphWalk`,
   `TemplateRuns`, `WalkSupersteps`, `GraphSpecsProofs`, `GraphWalkProofs`: validation,
   compilation, node types, joins, budgets, the built-in graphs: section 7.
6. `EventBuffer`, `Witnesses`, `RunExecution`, `RunInServer`, `RunExecutionProofs`:
   the worker of one run with its engine, timer, cancellation, events and evidence,
   and that it is a worker of `RunServer`: section 8.
7. `GraphCatalog`, `GraphCatalogProofs`: graphs, versions and idempotency keys
   of several servers: section 9.
8. Left: the proxy's link to the daemon, the other keyed tools, the library's
   `resume` of an interrupted graph.

Which module composes which: `RunServer` extends `RunRegistry`; `RunExecution`
is the inside of one worker of `RunServer`, which takes its result as given, and
`RunInServer` proves that it may;
`GraphWalk` is the run of one graph at the level of supersteps, `GraphEngine`
the inside of a superstep, `AgentState` what its branches do to values;
`DurableRuns` is what `RunServer` leaves in SQLite, seen over several processes.

## 3. The run server

### Modules

* `RunLifecycle` is what the registry promises, without mutexes, threads or
  storage: a run is accepted, occupies one of a bounded number of slots while
  it executes, ends once; a slot can be held ahead of the run.
* `RunRegistry` has one operator per method of `RunManager`.  A record is its
  `status` (`"absent"` when there is none), the queue `order` lists the records,
  `reserved` is `reserved_async_slots`, `cancelled` the set of raised flags.
* `RunServer` extends it with handlers (clients with a program counter, the run
  in `arg`, the status they last read in `seen`) and with one worker per run.
  `outer` is the holder of the server's mutex.  A handler that holds it across
  registry calls (`graph_execute`, `graph_run_start`, `launch_resumed`) is one
  action per registry or store call; a handler that locks per call
  (`graph_run_wait`, `graph_run_cancel`) needs `outer = Nobody` at each.
  `row` is the status in `executions`, `ckpt` the run's resume checkpoint,
  `claim` the record's `persistence_status` (volatile, pending, durable,
  failed).  `stranded` is a history variable: runs admitted by a launch that
  failed before the spawn.
* `MCRunServer` gives the instances their sets.

Abstractions.  Run ids are a set, each issued once (the counter).  A store call
succeeds or fails by the choice `Events` allows.  The engine is external to the
module: it returns a result or an error, or the worker ends with an `Err`
(compile error, oversized state).  Records carry no payload.  The checks of
`graph_run_resume` that compare digests and versions are abstracted to "the
checkpoint is available"; an approval that is pending or decided is not in this
module.  Idempotency keys are not in this module.

### Runs

| run | instance | shows |
|---|---|---|
| `server` | 2 runs, 2 clients, 1 record, 1 slot, every tool, every store call may fail | no slot is lost between a reservation and its use, no running record without an owner, a cancelled run never completes, durability claims are true, one worker per run; refinement of `RunLifecycle` through eviction |
| `server_liveness` | 2 runs, 2 clients, 1 record, 2 slots, synchronous calls whose deadline passes | an accepted cancel ends the run; as many slots are reserved as resumes hold one, so that each refusal gives back exactly one |

Bounds.  One slot is enough for every race between admission and reservation
(both ask for the last slot); one record against two runs forces an eviction and
a relisting; with two slots a resume can hold one and find no record to evict (the program
retains 100 records and runs 8 at a time: there it takes 100 live records); two
clients are one for each side of every pairwise race, and the
worker of each run is a third actor.  The number of calls is bounded by the run
ids, each issued once.  `CHECK_DEADLOCK FALSE`: when every id is issued and every
run has ended the server has nothing left to do.  Symmetry over runs and clients
is used only where no liveness property is checked.

Fairness.  `WF` for each handler that needs no further input and each worker
(operating-system threads are scheduled, the mutexes are held for finite
stretches); none for the arrival of calls; the engine is fair only for a
cancelled run, because a node may run for ever unless it observes the flag.

### Findings

* A launch whose status update fails returns after the run was admitted
  (`server.rs:1357`): the record says `running`, no worker exists, and the slot is
  never freed.  `stranded` has these runs; `RunningIsOwned` says that there are no
  others, and the refinement counts their slots as taken.
* `TerminalRowIsFinal` fails with deadlines: on its deadline `graph_execute`
  writes the status of its last poll over the row (`server.rs:842`), also when
  the worker has persisted the terminal projection in the meantime: a durable
  terminal row becomes `running` again.  Added to `server_liveness.cfg` TLC
  refutes it; added to `server.cfg`, which has no deadlines, it holds and is
  the theorem `TerminalRows`.
* `EvictedRunIsDurable`: a worker publishes its terminal status and reads the
  record back in two critical sections (`run_manager.rs:679`, `:737`); an
  allocation in between may evict it, and the terminal projection is never
  written.  Added to `server.cfg` as an INVARIANT, with an empty set of faults,
  TLC refutes it.

`MutexReleased` (the server's mutex is given back) holds in `server_liveness.cfg`;
it and `CapacityBound`, `RegistryConsistent`,
`PolledRunPresent` and `AllocationNeverRefused` are stated in the modules and are
in no run: without it no cancel would take effect, and the others follow from the
refinement or are theorems below.

`release_async_slot` saturates at zero, so that a slot that is released twice takes
the reservation of another resume: `ReservationsHeld` compares the counter with the
resumes that hold a slot, which is why it is checked with two slots and two clients.

### Proofs

`RunServerProofs` proves, for any finite sets of runs and clients, any bounds,
any subset of the tools and any faults: `TypeOK`, `CapacityBound`,
`ReservationsHeld`, `RegistryConsistent`, `RunningIsOwned`,
`CancelNeverCompletes`, `PolledRunPresent`, `ActivationNeverRefused`,
`OneWorkerPerRun`, and the refinement of `RunLifecycle`.  It assumes only
`RegistryAssumption` and `ServerAssumption` (finite sets, positive bounds,
`Nobody` is neither a client nor a run).

None of these is inductive by itself.  The slot count needs to know that a
worker that is about to set its record to `running` finds it running already;
that needs the handler that spawned it to have owned the run alone.  `IInv`
says who owns a run and why nobody else does: handlers in `FreshPC` by the
server's mutex and the id counter (`MutexInv`, `IssuedInv`), handlers in
`ResumedPC` by the compare-and-set on the checkpoint (`OwnInv`, `ApartInv`),
and an available checkpoint by the fact that no worker was ever started for it
(`CkptInv`).  `StatusInv` and `WorkerInv` give the status of an owned record.
The proof that every action keeps `IInv` has one step per action.  A second
lemma (`StepEffect`) reduces every action to one of nine effects on the
registry, and the slot count, the retention order and the refinement are proved
from the nine effects.  `IInv` was checked with TLC on the instances above
before it was proved.

`DurableClaims` (`DurableClaimIsTrue`) is proved for `"deadline" \notin Events`,
which is what the run `server` checks: with deadlines the row a synchronous call
writes last may be out of date, as `TerminalRowIsFinal` shows, and the claim with
it.  The claim, the row and the record are written by the worker, by every wait
and by a synchronous call, each in several critical sections, and the record may
be evicted between any two of them.  `ClaimInv` says of a run (`RunClaims`) that
before its worker has published nothing calls it terminal or durable, that
whoever persists or marks holds the status that the record has or had when it
was evicted, and of a client (`ReaderClaims`) that what it read and is about to
write is that status.  `Early` says what a
step does that is about a run whose worker has not published yet, or that only
evicts; `PersistClaims` and `WorkClaims` have one case for each other step.

`TerminalRows` (`TerminalRowIsFinal`, with the same hypothesis) says more: a
terminal row never changes.  `RowInv` says that one verdict is all that is known of
the end of a published run, in its record, in the worker's copy, in what every
client has read and in its row, also after the record was evicted.  A run that was
never started may have a terminal row too, when its checkpoint could not be saved;
`GivenUp` says that nobody is left who could write it.

Only model-checked: the liveness properties (TLAPS does not prove liveness under
fairness here).

## 4. The graph engine

### Modules

* `SuperstepRun` is what a graph run promises: supersteps that take effect as a
  whole or not at all, each the union of routes of the one before, and one
  verdict.
* `GraphEngine` is `GraphExecutor` with its tasks.  `phase` is where
  `execute_inner` is: `boundary` (top of the loop), `single`, `spawning`,
  `joining`, `draining`, `resolving` (the routers), `after` (interrupt points
  and the snapshot), `closing` (`execute` after `execute_inner`), `ended`.
  `task[n]` is where the attempt family of node `n` is
  (`execute_node_attempt_family`), `tries` and `fault` its retries and error.
  `state` is the set of writes `<<superstep, node>>` made to the run's own
  state; a branch's write goes to `forked` and reaches `state` in `Merge`.
  `run`, `attempt` and `snapshot` are the records of the checkpoint store.
* `MCGraphEngine` holds the graphs of the instances.

A node that panics alone in its superstep runs in the engine's own task: the
engine unwinds (`unwound`) and closes nothing.  In a branch the panic is a
`JoinError` and the superstep fails.

Abstractions.  A superstep is a set: spawn order is free, repeated entry names
are left out.  `iteration` and `step_number` move together and are one
variable, which makes the cycle check (`step_number > 2 * max_iter`)
unreachable.  A node writes one key, so a merge is the union of the forks; what
reducers make of values is in `AgentState`.  The payload of a `Send`
is dropped.  The legacy checkpointer, whose errors the engine ignores, is left
out.  A retry delay may be of any length.

### Runs

| run | instance | shows |
|---|---|---|
| `engine_branches` | 3 branches, window of 2, 2 attempts, 2 supersteps, perhaps one that names an unknown node; errors, interrupts, refused updates, panics, a cancel at any point; nodes may run for ever | branches are bounded and isolated; refinement of `SuperstepRun`; a cancel or a failing branch ends the run |
| `engine_store` | 4 nodes, 3 supersteps, single and parallel, an interrupt point before `d` and after `a`; every store call, a merge or a router may fail | the store's records agree with the run, no task outlives it, no store failure is reported as success |

Bounds.  Three branches against a window of two is the smallest case with a
refill, and with a live, a finished and an unspawned sibling when a branch
fails.  Two attempts have one retry.  Three supersteps have a superstep that
follows a parallel one which follows a single one.  A cancel is raised at most
once.  `CHECK_DEADLOCK FALSE`: a run that has ended takes no step.

Fairness.  `WF` of the engine's own steps, of each step of an attempt family
that ends by itself and of the dropping of an aborted task: the runtime polls
ready tasks.  A node's own execution is fair only once the cancel flag is up;
until then it may run for ever.

### Findings

* `NothingOutlivesRun` fails when a superstep names an unknown node: the `?`
  after `spawn_parallel_branch` (`engine.rs:460`, `:530`) leaves without the
  abort-and-drain of every other error path, whose comment promises that "no
  task can continue producing effects after the parent fails"
  (`engine.rs:478`).  Added as an INVARIANT to `engine_branches.cfg` TLC refutes
  it; `engine_store`, where every node exists, shows it.
* `FanInWaits` (in `MCGraphEngine`), in no run: the next superstep is the union
  of targets; nothing waits for predecessors in longer branches, as
  `ARCHITECTURE.md:69` says it does: the node where they meet runs early, and
  twice.  TLC refutes it on five nodes with `Entry <- Uneven`,
  `Routes <- UnevenRoutes` and no events.
* `InterruptIsRecorded`, in no run: `record_interrupt` is never called,
  `fail_run` is, so the store says `Failed` for an interrupted run
  (`ARCHITECTURE.md:94` says otherwise).  TLC refutes it in `engine_store.cfg`.
* `EachTrialEndsOnce`, in no run: the failing branch is still in
  `active_branches` when the parent reports every active branch as interrupted,
  so `NodeEnd` is emitted twice.  TLC refutes it in `engine_branches.cfg`.

### Proofs

`GraphEngineProofs` proves, for every finite graph, entry, bounds, interrupt
points, store and set of failures (`EngineAssumption`): `TypeOK`,
`ParallelismBounded`, `FailedSuperstepLeavesNoWrites`, `SnapshotIsWhole`,
`RetryFollowsFailure`, `CompletedRunIsClosed`, `StoreFailureIsReported` and the
refinement of `SuperstepRun`.  `NothingOutlivesRun` and `ClosedRunIsFrozen` are
proved with `Ghost = {}`: without that hypothesis the first is refuted, as above;
the second, `ParallelismBounded`, `RetryFollowsFailure` and
`CompletedRunIsClosed` are in no run.

The inductive invariant `IInv` has four layers, each used by the next.
`ShapeInv` says which tasks can be where in each phase (branches only in the
parallel phases and only nodes of the superstep, nothing started twice).
`EffectInv` says where writes are: a branch's only in its fork until the merge,
a joined node's in its fork, none in `state` beyond the current superstep.
`StoreInv` ties the attempt records to the families: earlier tries failed,
later tries absent, the current one as `task` says.  `VerdictInv` relates
result, record and store failures.  `StepEffect` reduces the steps to five
effects on the store and the layers above are proved from these.

Only model-checked: `CancelEndsRun` and `FailureEndsRun` (liveness).

## 5. Durable runs

### Modules

* `OneShotTicket` is what checkpoints promise, without servers, threads or
  crashes: a run starts at most once, a run that waits for a ticket starts only
  on it, a ticket is spent once, and a run that was decided about does not
  start.
* `DurableRuns` is one SQLite store and everything that writes its `executions`,
  `checkpoints` and `approval_requests`.  The daemon builds a server per
  connection (`serve_connection`), and every server recovers the store when it
  is built (`AgentGraphServer::new`); the daemon recovers it once more when it
  starts (`recover_owned_state`).  `server` is the set of connections that have
  a server.  A handler or a worker is a thread `<<server, run, stage>>`: a
  handler that saves a checkpoint (`creating`), a resume that passed its checks
  (`checked`) and then consumed the checkpoint (`launching`), a worker
  (`working`, `persisting`), a synchronous call that polls its run (`polling`) and
  saves what it read last (`SaveExecuted`), also when its deadline passed.  A connection may end while its threads go on.  A
  crash ends every thread and leaves `row`, `ckpt`, `status`, `subject` and
  `latest` (the newest approval of a run, which is the one a resume looks at).
  `direct` is chosen at the start: with it a process is one server and there is
  no daemon.
* `MCDurableRuns` gives the instances their events.

Abstractions.  Registry, slots, the server's mutex and waiting handlers are
`RunServer`'s subject and left out here: a start is one action (row and spawn),
because a crash or a recovery between the two has the same effect as one of
them after or before both.  Each store method is one transaction, as in the
code.  Run ids are issued once; two connections that start their n-th run in
the same millisecond would share one (see `hazards`).  Digests, HMACs and the
contract comparison of a resume hold; a decision's `allowed_decisions` admit
both.  An approval may expire or be decided at any time; nobody under `src/`
calls `decide_checkpoint_approval`, so `Decide` and `Expire` are steps of an
operator outside.  The status `accepted` is never written to a row.

### Runs

| run | instance | shows |
|---|---|---|
| `durable` | daemon or one process, 2 connections, 2 runs, 2 approvals, 2 audiences, every event | a run is executed once, decisions and expirations spend the checkpoint, a decided run never runs, no row shows a state nobody works on, a restart without a daemon marks lost runs as interrupted; refinement of `OneShotTicket` |
| `durable_restart` | daemon, 1 connection, crashes, expected violation | lost runs are not reported as interrupted |

Bounds.  Two connections are both sides of each race (resume against resume,
against a request, a decision or a recovery); two runs let a decision about one
meet the resume of the other; two approvals and two audiences give one
checkpoint two questions, and one audience two.  Crashes, disconnects and
restarts are not bounded.  When the terminal write of a worker fails, or a synchronous
call whose deadline passed writes the status it had read, the row is `running`
until a restart, which `NoFakeState` allows once the engine has ended; `RunServer` says
what the record then claims.  No liveness is stated and no fairness assumed.
Deadlock is checked: a process can always be started.

### Findings

* `durable_restart`: no row ever has an `owner_instance_id`, so the daemon sets
  every active row to `legacy_unverified` before the recovery that would call
  it interrupted (`daemon.rs:155`).
* `RecoveryTruthful`, in no run: the recovery of `AgentGraphServer::new` runs for
  every connection (`server.rs:226`) and marks runs as interrupted that another
  connection executes; its comment says "A server restart cannot resume an
  in-flight graph. Make that interruption explicit" (`store.rs:1152`).
* `PendingBlocksResume`, in no run: the approval is checked in one store call, the checkpoint
  consumed in another that looks at `consumed_at` only (`server.rs:1807`,
  `:1877`); a run executes while its approval is pending.
* `ResumedExactlyOnce`, in no run: the checkpoint is consumed before the run is
  launched, and after a crash in between nothing repairs it (`server.rs:1877`),
  although the tool promises to "resume its pinned run exactly once"
  (`server.rs:1781`).  TLC refutes the three in `durable.cfg`.

### Proofs

`DurableRunsProofs` proves, for any sets of runs, connections and approvals,
with or without a daemon and with any events, `TypeOK`, `ExecutedOnce`,
`DecisionSpendsCheckpoint`, `DecidedNeverRuns`, `AskedOnce` and the refinement
of `OneShotTicket`; it assumes only that `Modes` is a set of Booleans
(`DurableAssumption`).  `AskedOnce` is in no run.

`ExecutedOnce` is not inductive: the run of a thread that is about to launch
must not have been started, nor have a second such thread.  `TicketInv` says
so, and that an available checkpoint has neither, which is what the
compare-and-set of `consume_resume_checkpoint` needs.  `IssuedInv` says that a
fresh id has no checkpoint and no creating thread; `DecisionInv` ties approvals
to checkpoints and is what keeps a decided run from a thread that is already
launching.  Every action has one of eight effects on issue, checkpoints,
approvals and starts (`StepEffect`); the invariant and the refinement are
proved from the effects, so the many actions that move threads or rows only are
looked at once.

The second half of `DurableRunsProofs` adds `NoFakeState` and
`DirectRestartInterrupts`, with no further assumption.  `RowInv` follows the
worker of a run: none before its start, one at most until its engine ends, its
outcome known from then on; one at most because the run was not started before
(`TicketInv`).  `LostInv` says that a run whose row was active in a crash was
started, so nothing is left that writes its row but a recovery; it also keeps
that no connection has a server in a process that is not alive.  Every action
has one of seven effects on workers and rows (`StepRowEffect`).

## 6. The state of a run

### Modules

`AgentState` is `state.rs` and the part of the engine that forks and merges.
Every state, the shared one and one fork for each branch, has a map (`data`), a
version counter and a history.  `At` says which state a task works on: a branch
has its fork, every writer (whoever holds a clone) the shared state.  A call
that takes one lock is one action; `set` reads under one lock and writes under
another (`SetRead`, `SetWrite`), `save_to_history` reads a snapshot before it
locks the history, `transaction` loads the version before it exports the map,
and `commit` compares versions before it replaces the map (`CommitCheck`,
`CommitReplace`).  The insertion and the counter are one step: they are under
one write lock, and a version that is loaded in between counts as loaded before
the insertion.  `phase`, `snapshot` and `merge` are one parallel superstep of the
engine: `Export`, a `Fork` per branch, then `merge_parallel_states` key by key
and branch by branch.  `base` is a history variable, the map the
state had when a transaction exported it.

A state is created with one of the maps of `Given`: `with_data_and_limits` validates
nothing, and the server starts a run with the caller's input this way
(`run_manager.rs:452`).  A snapshot is the caller's: `restore` takes one of the
state's own history or one of `Outside`, of another state with other limits.  `Slow`
says which locks may time out after five seconds.  Then `set` and the merge fail,
`replace_data` returns without an error (`state.rs:431`, and for a map over
the limits `state.rs:426`), and `export`, `snapshot` and so a fork are empty
(`Exports`).

Abstractions.  A value is the sequence of writes it is made of; a key of
`Appends` has a reducer that keeps both sides (`AppendReducer`, `AddReducer`),
any other key the last write.  A refused call changes nothing and has no step,
except where the refusal comes after a first lock (`SetWrite`, `MergeWrite`).
Not modelled: value sizes (`max_value_bytes`, which is validated with the number of
keys), a reducer that fails, reducers registered later, `MergeReducer`, closures.  When branches are spawned, retried and aborted is in `GraphEngine`.

### Runs

| run | instance | shows |
|---|---|---|
| `state_branches` | a writer with two of transaction, save and restore beside one with a set or an update, a branch that sets or removes and one that writes raw; two keys, room for one, one snapshot kept; created empty or with both keys, a snapshot of another state; every lock may time out | forks are isolated, the merge follows the superstep's order |
| `state_commit` | the same without timeouts, expected violation | a commit overwrites a change made after its check |

Bounds.  Two calls are a transaction with a staged write, or a save and its
restore; the other writer makes one change at any point of them.  Two keys and room for
one put every call at the limit, also the write of the merge, and a state created
with both keys over it.  The properties of the run are theorems for any number of
calls, of every kind.  Two branches are the least
that have an order.  `CHECK_DEADLOCK FALSE`: tasks run out of calls.  No
liveness is stated.

### Findings

* `state_commit`: the version is compared before the write lock is taken
  (`state.rs:86`, `:94`); a change in between is lost and `commit` returns `Ok`.
* `SetReducesWhatItReplaces`, in no run: of two concurrent sets of an appending
  key one may be lost, since `set` reduces with what it read under an earlier
  lock (`state.rs:221`, `:232`).
* `WritesCountOnce`, in no run: a fork starts with the snapshot, a `set` in it
  reduces with that, and the merge reduces the whole value into the snapshot
  again (`engine.rs:832`).  With a counter at 5 and two branches that add 1 and
  2 the result is 18.  `tests/parallel_tests.rs:208` says that the merge adds
  the "diff" of each branch; it starts from 0, where both agree.
* `CommitApplies`, in no run: "After this call, staged changes are applied atomically"
  (`state.rs:81`).  `commit` returns `Ok` also when `replace_data` dropped the map,
  because the state was created over the limit or the lock timed out.  TLC refutes
  the three when they are added to `state_branches.cfg`.
* A transaction whose `export` timed out begins with an empty map (`state.rs:346`);
  if the versions agree its commit leaves nothing but what it staged.  A fork or the
  snapshot of the superstep may be empty in the same way.
* A branch that removes a key does not remove it: the merge looks at the keys a
  fork has.  And `max_history_len` 0 keeps one snapshot (`state.rs:325`), which
  is why `LimitsKept` says "or one".

### Proofs

`AgentStateProofs` proves, for every finite set of keys, any writers, branches,
calls, limits, timeouts, given maps and snapshots of other states (`StateAssumption`:
names differ, ranks differ, what is given was written by none of the tasks), `TypeOK`,
`VersionIdentifiesMap`, `LimitsKept`, `BranchesIsolated` and `LastBranchWins`, and
`StatesFit` when every given map is within the limit.

`VersionIdentifiesMap` needs that a counter never falls below what a transaction
began with (`VersionInv`), from the fact that a step either counts up or keeps
the map (`VersionStep`).  What may be over `max_keys` is only what a
state was created with, and then it never has a key more: `LimitsKept`, which is
inductive (`Within`: a map fits, or has no other keys than a given one), because an
insertion over the limit is refused unless the key is there, and what a commit, a
restore or a fork brings in is `Within` already or validated as a whole.  It does not
say that `replace_data` never drops a map; it does (above).  `StatesStayFit`
(`StatesFit`) is the case of states created within the limit, whatever is restored.  `BranchesIsolated` needs that no other task holds a branch's
write in what it has read, saved or staged (`IsolationInv`).  `LastBranchWins`
needs that the branches merged so far precede the others in rank (`MergeInv`)
and that nothing touches a fork once all are joined (`JoinedStay`).

Every property of `state_branches` is proved; the other theorems are about
properties that are in no run because they are proved.

## 7. Graphs and joins

### Modules

* `Values` has JSON values, the map of a run and sequences of positions.
* `GraphSpecs` is what `graph_create` accepts: `validate` and `validate_node`
  type by type, the write-conflict check with its reachability matrix
  (`ReachMatrix`, the triple loop; `Reachable`, what it should compute), what the
  compiler refuses, and `resume_eligibility`.
* `JoinStrategies` is `join.rs`: six plain modes, and four strategies with their
  stages (validate, normalize, contradictions, adjudicate, certify).
* `Templates` has the seven graphs of `templates::instantiate`, and
  `TemplateRuns` what they promise when the engine runs them.
* `GraphWalk` takes a specification from `graph_create` through `compile` to the
  end of one run.  A superstep is one step: every node's possible outcomes
  (`Results`), the merge of what branches changed, the union of where they lead.
  `budget` is `max_nodes`, and `BudgetLimit` the superstep limit that
  `budget_iteration_limit` derives from the edges.  `ran` is history: which node ran in
  which superstep.
* `WalkSupersteps` maps a walk to `SuperstepRun` (section 4): the nodes of the
  graph, for each of them the sets its router's lists or its edges lead to
  (`RoutesOf`), its `max_iterations`, and a verdict.  Until the engine is started the
  superstep to come is the entry (`NotStarted`).
* `MCGraphWalk` builds the graphs of the run.

Abstractions.  A provider answers any of a few values or fails after its
attempts; texts are atomic; a dotted path is one name, because the code uses it
as one key.  Sizes, prompts, denied names, token counts and artifact hashes are
left out.  Parallel and subgraph nodes compile to nodes that pass, as in the
code.

A node of any type may have a retry policy (`Attempts`, `compiler.rs:326`), and only
an llm's is validated.  Whatever fails is retried: a join whose inputs do not fit, an
approval that interrupts, a transform, which finds what its failed attempts have
written (`TransformResult`).  Each attempt emits a `NodeStart`, and `started`, what the
budget is compared with, counts them.  What a router writes at `__route__` goes through the
reducer of that key (`WrittenRoute`).

The engine has two names of its own.  A run starts behind `__start__`, where the
compiler adds an edge to the entry beside the edges of the specification, and the
engine drops `__end__` from every superstep (`graph.rs:27`, `engine.rs:355`).
Validation lets a node have either name (`spec.rs:685`): such a graph starts in two
places or skips a node.  The model does the same (`Targets`, `Entered`), and what
edges alone promise (`ConflictsAreOrdered`, `ChainIsExecuted`,
`FrontierWithinBudget`) is stated for `PlainNames`, graphs without nodes of these
names; TLC refutes each of the three without that condition.

### Run

`graph_walk`: about three thousand graphs (every list of up to three edges over
three nodes, routers and their odd lists, forks of uneven branches, cousins that
write one key, refused configurations, a transform of each kind, the built-in
templates, each join over every combination of artifacts in three branches),
budgets 0, 1 and 3.  It shows that the matrix is the transitive closure and that
nodes of one superstep that declare one key are ordered; that a graph called
eligible for resume runs exactly its chain; that where
edges decide no more nodes run than the budget allows, and no more attempts start
unless a node is retried; that a built-in graph delivers the key it promises; that a strategy
loses no artifact; that a favourable verdict is earned.  Edges to no node, an edge
from END, more attempts than validation admits and retried nodes of every type are
among the submitted.  Three
nodes are the
least with an intermediate node for each pair, four and five the least where the
writers meet through branches of different length.  `CHECK_DEADLOCK FALSE`: a run
ends.

### Findings (in no run; TLC refutes the first three when they are added to `graph_walk.cfg`)

* `TemplatesAreValid`: `release_verification` is refused by `graph_create`: its
  reporter and its formatter both write `verification_report`, neither leads to
  the other, and no reducer is declared (`templates.rs:299`); the doc comment
  promises "a valid GraphSpec JSON" (`templates.rs:85`).  The refusal is a theorem,
  `ReleaseVerificationIsRefused`.
* `NoUnorderedWrites`: two nodes of one superstep may write one key all the same.
  The check looks at declared keys and at edges; an approval declares its output
  and writes `__approval_request__`, a model node without `output_key` declares
  nothing and writes `__input__`, ordered writers may still meet in a superstep
  when one branch is shorter, and routers add successors without an edge.  The
  server reports `rejected_without_explicit_reducer` in `graph_status`.
* `NoOverBudgetFrontier`: "Conditional edges are treated as possible edges; this can
  stop early, but never allows an over-budget frontier" (`run_manager.rs:920`).
  `budget_iteration_limit` looks at edges only, and where a router leads is in its
  configuration, not in edges: its targets may be wider than the frontier that was
  counted, or nobody's successors (the graphs of `Detour`).  Two more ways past the
  budget are in `FrontierWithinBudget`: attempts are counted as nodes afterwards,
  but not by the limit, and names of the engine add an entry.
* `OnlyEndIsMissing` holds and is a theorem: a router's list with `END` beside
  other targets passes validation and ends the run with `NodeNotFound`.
* The routers of `analysis_pipeline` and `release_verification` look at
  `validation.valid` and `validation.verified`.  The validators write
  `validation`; a path is a key as it stands, so the rules never hold and the
  default is always taken (`nodes.rs:272`): the "correction loop" of
  `README.md:121` is never entered.
* A quorum counts an input that is named twice twice; `VerdictIsEarned` excepts
  it.  A strict `contradiction_matrix` passes with branches that have not written.

### Proofs

`GraphSpecsProofs` and `GraphWalkProofs` speak of any set of specifications, of
any size, any inputs, answers and budgets.  They assume that nodes and edges
come in lists and an edge has two ends (`ListAssumption`), that budgets and numbers
of attempts are numbers (`BudgetAssumption`, `RetryAssumption`), and that a quorum has a number and inputs are
lists (`JoinAssumption`): what the JSON types of a specification say.

*Recursion.*  The matrix, the frontiers, the limit and the chain are defined by
recursion over numbers.  An induction rule with an operator for a parameter
cannot be used, so the rules here are about sets: `Least` (a set of numbers that
is not empty has a least element, from the well-foundedness of `<`), `Induction`
and `InductionUpTo` from it, and `RoundsExist`, `RoundsOnly`, `RoundsFollow`,
which say that a recursion of this shape has exactly one solution and how a
value follows from the one before.  What follows no number, such as a fold over
a data structure, would need the other kind of rule.

* `MatrixClosure`, and from it `MatrixIsClosure` (`MatrixIsReachability`).  The
  invariant of the triple loop, in `Warshall`: after round `k` the relation is
  closed under composition through the nodes `1..k`.  At the end it is transitive;
  it contains the edges; and it is inside every relation that is both
  (`WarshallLeast`), such as reachability.
* `EligibleIsOneChain`: in a linear graph each node has one edge out and one in
  (`OneSuccessor`, `OnePredecessor`), so a walk from the entry repeats no node
  (`FollowsOnce`; the entry has no predecessor), and one that is as long as the
  list of nodes has them all (`FollowsAll`).
* `ChainsAreExecuted` (`ChainIsExecuted`): `ChainInv` says that after `k`
  supersteps exactly the first `k` nodes of the chain have run; the superstep is
  the next of them because the frontiers of an eligible graph are its chain
  (`FrontiersOfChain`).
* `BudgetsHold` (`FrontierWithinBudget`): without routers the
  superstep is `Frontier(step)` and `Width(step)` nodes have run; without retries as
  many have started (`FrontierInv`), whether superstep after superstep succeeds or the last one
  fails.  The limit is the last step whose width fits (`LimitFitsBudget`), which
  needs that widths add up and never go down (`WidthAdds`, `InitialSegment`).  A
  node may be reached by several edges of one superstep: both sides count it
  once.
* `WalkInvariant` (only accepted specifications run, and a superstep holds nodes
  of the graph, or an END that a router names beside others), `OnlyEndIsMissing`,
  `ConflictsAreOrdered` and `StepsBounded`.  The second conjunct of `WalkInv`
  makes `ConflictsAreOrdered` provable: without routers every node of a superstep
  is the entry or reachable from it, so two of them have a common ancestor, which
  is the case that validation looks at.
* `VerdictIsEarned` and `ArtifactsAreKept` (`JoinKeepsArtifacts`) are about one
  step: lemmas follow a verdict back, and artifacts forth, through the stages of
  a join.  `NormalizedKeeps` says what quarantine takes away, `FirstIsKept` and
  `KeptOnce` that of the artifacts with one identity exactly the first stays.

`OnlyEndIsMissing`, `StepsBounded` and `ImplementsSupersteps` are in no run.  Two of these proofs
changed the model, to what the code says: a matrix has no edge to or from a name
that is no node, and neither has `Reachable` (`spec.rs:347`); what
is bounded of attempts is an llm's (`spec.rs:545`), so that the sum of a superstep's
starts (`Total`) goes up to the most of any node.

* `TemplatesDeliver` (`TemplateDelivers`): the graphs are given, but not what the
  providers answer, what a run starts with, or the budget.  A *certificate* is a
  list of stages: how many supersteps were made, the nodes to run next, and keys
  that are in the state by then.  `Certified` says that each stage can be run and
  leads to stages of the list: by its edges, or by every list of targets that its
  router may choose (`Open`).  The invariant, `DeliverInv`, is that a run is at a
  stage of a certificate of its graph (`OnCourse`); `StageToStage` is the step, for
  any graph.  The rest is the six certificates, from what the lists of nodes and
  edges of `Templates` amount to (the lemmas `...Graph` of `GraphSpecsProofs`).  The
  theorem asks one thing of a caller: that the input of `analysis_pipeline` does not
  bring a key `validation.valid`.  Its router reads that key, none of its nodes
  writes it, and with `false` there the graph goes round its loop until the
  iterations are used up.  `StageToStage` also shows why the loop is never entered
  otherwise: no rule of that router is open.
* `ReleaseVerificationIsRefused`: the two last nodes have the router for an ancestor,
  write one key, and reach nothing.
* `WalksAreSupersteps`: the run of any graph that is submitted, with its joins,
  failures and budget, implements `SuperstepRun`, which `GraphEngine` implements
  too, with tasks, retries and a store.  A step is a superstep, the verdict, or
  nothing.  `ResultsRoute` says that a node that succeeds leads to one of its
  compiled routes, whatever it computed; `LimitWithin` that a node budget only
  lowers `max_iterations`; `PhaseInv`, with `WalkInv`, that nothing runs before the
  start or after a verdict.

## 8. The execution of one run

### Modules

* `EventBuffer`: a ring of events, its copy in SQLite and the pages a reader
  gets.  Events have consecutive cursors, so a ring is an interval.
* `Witnesses`: captured texts, stored under their authentication tag, and
  evidence documents whose claims name witnesses and spans.
* `RunExecution` is `execute_with_store_options`.  `worker` is where the worker
  thread is, `task` where the engine's task, `timer` where the wall-clock thread,
  `canceller` where a caller of `cancel`.  `heard` is a history variable: which
  notification found a waiter.  `Notify::notify_waiters` has no memory, so
  `NotifyCall` and `NotifyTimeout` reach only who listens at that step.  `record`
  is the run's record, `durable` the ring in SQLite, `witness` the rows of
  `source_witnesses`, `reader` a caller that pages through the events.
  An `Err` of the execution is `GiveUp`; the worker thread then writes the status
  and the error and nothing else (`WriteError`), and both ways meet in `Report`.
* `RunInServer` is the view `RunServer` has of that: the worker is `"engine"` until
  it knows what it decides from (`CheckEvidence`), the outcome is whether there is
  an error then, and the last update is `Publish`.  The server is the least in
  which a run can be cancelled and evicted: two clients, one record, one slot, the
  run already launched.  `ImplementsServer` says that every step is one of
  `RunServer`'s `Next` or hidden from it.

Abstractions.  The graph is a chain of calls; a call waits for a provider that
answers, fails or stays silent, or is a transform that removes the document.  The
state is the number of calls that have written and the evidence document.  A tag
stands for the envelope it is computed from; a text is its length and the offsets
where characters start.  The sizes are small: a ring of 4 for 512, pages of 2 for
200, a collector of 7 for 2048.

### Runs

| run | instance | shows |
|---|---|---|
| `run_execution` | chains of one and two calls with and without a node budget, an iteration limit and a clock; a cancel, a timeout, captures, damaged rows, eviction at any point | what is reported is what was left; the verdict, the budget and the evidence agree with what happened; a reader that goes on from its last event misses none unwarned; a stop that is heard ends the run; a run ends or waits for its provider |
| `event_pages` | the same reader, going on from `next_cursor`, expected violation | events beyond a page are skipped and no gap is reported |

Bounds.  A chain of two calls emits more events than the ring holds, so that
events are dropped; a page of two needs two reads for a ring; the collector is
full in the second call.  Two texts and three documents give a
claim bound to both, to the middle of a character and to nothing.  `CHECK_DEADLOCK
FALSE`: a run that has ended takes no step.

Fairness.  `WF` of the worker, of the engine's own steps, of a notification that
was begun and of the timer thread once it was told that the run is complete:
threads and ready tasks are scheduled.  None for the provider, the passing of the
limit, or callers.

### Findings

* `event_pages`: `next_cursor` is the end of the whole buffer, not of the page
  (`run_manager.rs:870`, `store.rs:1866`).
* A cancel between the test of the flag and the call of `notified()`
  (`nodes.rs:44`), and a timeout before the worker waits (`run_manager.rs:496`),
  are lost wake-ups: the run then ends when its provider answers.  The liveness
  properties say exactly that: `StoppedRunsEnd` speaks of what was heard,
  `EndsOrWaitsForProvider` of the rest.
* `budget_limited_iterations` (`run_manager.rs:598`) is always true with a node
  budget, as the derived limit never exceeds the base limit; and the nodes are
  counted from a collector that keeps 2048 events, so a larger budget is never
  seen as exhausted by the count.
* A run whose execution returns an `Err` (`GiveUp`, `WriteError`) leaves no events
  and no receipt in its record, and does not set `persistence_status` to pending.
* `NodeBudgetWasTheReason`, in no run: the code takes a failed run for one that hit its
  limit of supersteps when the error text contains "iteration" (`run_manager.rs:597`,
  `iteration_error`).  A provider's error with that word, after as many nodes as the
  budget has, is reported as an exhausted budget.  TLC refutes it when it is added to
  `run_execution.cfg`.
* A damaged witness row keeps its id: capturing the same text again changes
  nothing (`store.rs:758`) and every document that needs it stays refused.

`CompletedIsWhole`, `CancelledWasRequested` and `LimitIsNamed` are the parts of
`VerdictIsTrue`.

### Proofs

`RunExecutionProofs`, from the named assumptions of the
three modules (sizes are positive, chains are not empty and of the three kinds).

* `TypeCorrect` (`TypeOK`) from `Typed`, which also says that a ring's first cursor
  is not after its next.
* `ReportedFinal` (`ReportedStateIsFinal`) from `FinalInv`: in every step after the
  worker has joined or awaited the task, `task = "ended"`, and a task that has
  ended has no step; before its last update the record's `persistence` is
  `"volatile"`, which tells a settled record, written from what was read, from one
  that only has an `Err`.
* `HeardWritesNothing` (`HeardCancelWritesNothing`) from `HeardInv`: who hears the
  notification of `cancel` is in a provider call, and the flag was set before; the
  second look at the flag then ends the call, whichever side of `select!` won.
* `VerdictTrue` (`VerdictIsTrue`) from `VerdictInv`, `FinalInv` and `HeardInv`.  The
  verdict is decided from the worker's `result`, which for a run that timed out is
  not what its task ended with; the invariant ties the difference to a limit that
  was heard, and that to `timed_out`.
* `EnvelopesCaptured` (`EnvelopesAreCaptured`) from `EnvelopeInv`: a binding without
  an error has a verified row at that moment, and a verified row's id is the tag
  of a text that was captured by then.  `Captured` is read from the ids of the rows: no row
  is removed and a damaged one keeps its id, so a captured text stays one.  A claim may name a text that was not captured
  yet; such a document is refused.
* `ReaderComplete` (`ReaderMissesNothing`), under `Follow = "last"`: a page is closed
  downwards (`SelectedIsPrefix`), for every ring and page size.
* `ExecutionIsServersWorker` (`ImplementsServer`), one lemma per action that
  `RunServer` sees: `EngineMaps`, `SettleMaps`, `ErrorMaps`, `CancelMaps`, `EvictMaps`;
  `OthersHidden` for the rest.  What must be shown is that the outcome `RunServer`
  fixes when the engine returns is still the one the verdict is made from, although
  the timer thread, the canceller and damaged rows go on: `ErrorStays`, from `ToldInv`
  (a timer that was told that the run is complete cannot expire any more).  So the
  theorems of `RunServerProofs` do not rest on a guess of what an engine returns.  No
  run has this property; TLC agrees with it on the instance of `run_execution`.

The two liveness properties stay with TLC.

## 9. The catalog and idempotency keys

### Module

`GraphCatalog` has a server for each connection, with a map of graphs of its own
(`memory`) and two mutexes (`graphsLock`, `runsLock`), and the tables they share
(`graphs`, `versions`, `executions`, `keys`).  A call is a program with one action
per lock, statement or transaction: `graph_create` holds the mutex of `graphs`
over the three statements of `save_graph`; a delete takes it first and last, not
over `delete_graph`; `graph_execute` and `graph_run_start` share one shape,
resolve under `graphs`, then take the mutex of `runs`, look the key up, save the
execution (whose error is ignored), start the run and save the key.  A server
restores its graphs in three steps (`list_graphs`, a `load_graph` each, serve).
`runs`, `answers`, `lost` and `unread` are history variables.

A key may fail to be saved, and a row of a key may fail to be read: the code takes that
for no row (`store.rs:1928`).  A missed look-up (`NotFound`) runs the operation
again; a loser of the insert that cannot read the winner's row answers for itself
(`SaveKey`).  `lost` has the keys of the first two, `unread` those of the third.  The row
of an execution is written only while the graph has a row (`StartRun`; the foreign
key of `store.rs:558`), and its error is ignored.

Abstractions.  A version stands for its specification.  The request digest of a
key is the request.  A write of graphs that fails part of the way and the other
keyed tools (which look up and save in the same way) are left out; the run itself
is in the other modules.

### Run

`catalog`: two connections, two callers, one graph name, two versions, one key,
four calls, two runs, each connection served once; the process may die at any
point, a key fail to be saved or read (the write of an execution may fail too in the
model and the theorems, not in the run: it removes only references).  It shows that
callers of one key for one request get one answer unless the loser of an insert could
not read the winner's row, that on
one server a key starts one run unless saving the key failed or its row was missed,
and that no version of a graph that was executed is removed.  Two callers are both sides
of each race; four calls allow a create, its overwrite or delete, and two
executions.  `CHECK_DEADLOCK FALSE`: the calls run out.

### Findings (in no run; TLC refutes the first four when they are added to `catalog.cfg`)

* `VersionNamesSpec`: an overwrite between `list_graphs` and `load_graph` files
  the new specification under the old label (`server.rs:240`).
* `ExecutedVersionIsStored`: a delete between `resolve_graph` and
  `save_execution` finds no reference, and the execution is written after it.
* `StoredVersionIsListed`: `save_graph` is three statements; the delete of another
  connection can fall between the last two, and leaves a graph without a version.
* `AnswersAreStored`: "a concurrent same-key caller cannot observe a result that was
  not stored" (`server.rs:111`): it does when the read of the winner's row fails,
  since that error is taken for no row.
* A create that meets a delete may leave a row without an entry in memory; a
  delete has no key, so that a create with a key, a delete and the same create
  again answers "created" without a graph.
* `MAX_GRAPHS` is not looked at with `overwrite=true` nor by the restore.
* When the key cannot be saved the call fails after the run was started
  (`server.rs:770`), and a retry starts a second run; on two connections a key
  may start two runs, of which one is reported to both.

### Proofs

`GraphCatalogProofs`, from `CatalogAssumption` (`None` is no
other value, the limits are numbers, `Faults` names faults).

* `TypeCorrect` (`TypeOK`), from `Typed`, which also says what each step of a call
  has: a server and a name, a version of its own, a resolved graph, an answer.
* `ReferencedStays` (`ReferencedGraphStays`): only `DeleteStored` removes versions,
  and an execution of the name refutes its guard whatever version it names; no insert
  takes a version away.  That the write of an execution needs the row of its graph is
  not used.
* `OneAnswer` (`OneAnswerPerKey`): `KeyInv`, an answer that was given is the stored
  one.  A key is never overwritten, and a caller that loses the insert answers
  with what it finds.
* `OneRun` (`OneRunPerKey`).  It is not inductive: the second caller passes `Enter`
  because no answer is stored, and that says nothing of runs.  `RunInv` says that
  a run of a living server whose key was not lost (saved and found) has its answer stored or a
  caller at `saveRun`; `LockInv` that this caller has the mutex of `runs`, which
  `Enter` needs; so no such run exists (`RecordInv`), and none is added before
  `StartRun`, by the mutex again.  Crashes and restarts end the claim of a run by
  the server's number of lives.

The findings are about what the model does and stay with TLC; there is no
liveness property here, since a caller may stop.

## 10. Not modelled

* The proxy and its link to the daemon (`main.rs`, `bin/agent-graph-mcpd.rs`).  It
  sends one line and waits for one frame, so pairing is by lockstep.  Two things
  a model would show: the `--connect-timeout-ms` of 2000 is also the read timeout
  of every answer, so that a call that takes longer ends the proxy; and the
  daemon drops one half of a duplex stream to "signal EOF", which the other half
  keeps open.
* The owner lock (`owner_lock.rs`), a lock of the operating system.  The daemon
  opens and migrates the store before it takes the lock
  (`bin/agent-graph-mcpd.rs:30`).  Generations are numbers nobody compares, the
  startup mode one row compared at the start.
* `AgentGraph::resume` (`graph.rs:113`) and the library's own event sinks
  (`event_sink.rs`): the server uses neither.
* Template promotion (`promotion.rs`): no caller but its tests.
* The builder and the library's router and edge types, of which the compiler uses
  a part that is in `GraphWalk`.
* Retry delays, back-off and jitter: a delay is a wait of any length.  Which
  errors are retried is not looked at by the code either (`retry.rs:80`).
* Digests, canonical JSON and HMACs (data encoding, taken to be collision-free);
  permission bits and peer checks, argument parsing, SQL migrations, packaging
  and offline tools.
* Across modules: `RunExecution` is proved to be a worker of `RunServer` (section 8),
  and `GraphEngine` and `GraphWalk` both to implement `SuperstepRun`, for any nodes and
  routes the one, for those of a specification the other (sections 4 and 7).  That
  the values of both are those of `AgentState` is by reading.
