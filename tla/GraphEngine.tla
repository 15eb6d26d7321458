---------------------------- MODULE GraphEngine -----------------------------
(***************************************************************************)
(* GraphExecutor: one run of a graph.  The engine walks from superstep to  *)
(* superstep; the nodes of a superstep are tasks, each a family of         *)
(* attempts with retries.  A superstep of one node works on the run's      *)
(* state itself; in a larger one every branch works on a fork and the      *)
(* forks are merged when all have been joined.  A failing branch aborts    *)
(* the others.  A checkpoint store, when there is one, records attempts,   *)
(* a snapshot per superstep and the run's terminal status.                 *)
(*                                                                         *)
(* A superstep is the set of its nodes: the order in which branches are    *)
(* spawned is left open.  END is dropped by the loop and so never a        *)
(* member.  The state is the set of writes <<superstep, node>> made.       *)
(* `step` is both `iteration` and `step_number` of the code, which move    *)
(* together (its cycle check, step_number > 2 * max_iter, is never         *)
(* reached).                                                               *)
(***************************************************************************)
EXTENDS Integers, FiniteSets

CONSTANTS
  Node,            (* the nodes of the graph                                *)
  Ghost,           (* names a router or a command may use that no node has  *)
  Entry,           (* the first superstep                                   *)
  Routes,          (* the sets of targets a node's output can resolve to    *)
  MaxIter,         (* min(recursion_limit, max_iterations)                  *)
  MaxAttempts,     (* RetryPolicy::max_attempts                             *)
  MaxParallelism,  (* branches of one superstep that run at once            *)
  Before, After,   (* InterruptConfig                                       *)
  HasStore,        (* a checkpoint store is configured                      *)
  Events           (* what may happen in an instance: see MayHappen         *)

MayHappen ==
  {"cancel", "error", "interrupt", "update", "panic", "merge", "router",
   "record", "complete", "fail", "snapshot", "close"}

Target == Node \cup Ghost

ASSUME EngineAssumption ==
  /\ IsFiniteSet(Node) /\ IsFiniteSet(Ghost) /\ Node \cap Ghost = {}
  /\ Entry \subseteq Target
  /\ Routes \in [Node -> SUBSET SUBSET Target]
  /\ MaxIter \in Nat
  /\ MaxAttempts \in Nat \ {0}
  /\ MaxParallelism \in Nat \ {0}
  /\ Before \subseteq Node /\ After \subseteq Node
  /\ HasStore \in BOOLEAN
  /\ Events \subseteq MayHappen

VARIABLES
  phase,       (* where the engine is                                       *)
  superstep,   (* the nodes of the current superstep                        *)
  step,        (* supersteps completed                                      *)
  targets,     (* the nodes the current superstep leads to                  *)
  result,      (* what execute returns                                      *)
  stop,        (* the cancel flag                                           *)
  task,        (* where the attempt family of each node is                  *)
  tries,       (* attempts of the family that have failed                   *)
  fault,       (* the error a family ended with                             *)
  forked,      (* nodes whose fork holds a write of the current superstep   *)
  state,       (* writes in the run's own state                             *)
  active,      (* active_branches                                           *)
  doomed,      (* the remaining tasks have been aborted                     *)
  unended,     (* per node, NodeStart events less NodeEnd events            *)
  run,         (* status of the run in the checkpoint store                 *)
  attempt,     (* status of every attempt in the checkpoint store           *)
  snapshot,    (* the last state snapshot in the checkpoint store           *)
  storeFailed  (* some call of the checkpoint store failed                  *)

engineVars == <<phase, superstep, step, targets, result>>
taskVars   == <<task, tries, fault, forked, active, doomed, unended>>
storeVars  == <<run, attempt, snapshot, storeFailed>>
vars == <<engineVars, stop, taskVars, state, storeVars>>

Steps == 0 .. (MaxIter - 1)
Tries == 0 .. (MaxAttempts - 1)

Working ==
  {"ready", "recording", "running", "completing", "failing", "rejected", "waiting"}

\* Nodes whose task has not ended.
Live == {n \in Node : task[n] \in Working}

Init ==
  /\ phase = "boundary"
  /\ superstep = Entry
  /\ step = 0
  /\ targets = {}
  /\ result = "none"
  /\ stop = FALSE
  /\ task = [n \in Node |-> "idle"]
  /\ tries = [n \in Node |-> 0]
  /\ fault = [n \in Node |-> "none"]
  /\ forked = {}
  /\ state = {}
  /\ active = {}
  /\ doomed = FALSE
  /\ unended = [n \in Node |-> 0]
  /\ run = IF HasStore THEN "Running" ELSE "none"
  /\ attempt = [a \in Steps \X Node \X Tries |-> "none"]
  /\ snapshot = {}
  /\ storeFailed = FALSE

\* A call of the store: it takes effect, or fails when `op` may fail.
Stored(effect) == effect /\ UNCHANGED storeFailed

StoreFails(op) ==
  HasStore /\ op \in Events /\ storeFailed' = TRUE /\ UNCHANGED <<run, attempt, snapshot>>

Conclude(r) == phase' = "closing" /\ result' = r /\ UNCHANGED <<superstep, step, targets>>

MoveTo(from, to) ==
  /\ phase = from /\ phase' = to
  /\ UNCHANGED <<superstep, step, targets, result>>


-----------------------------------------------------------------------------
(* The top of the loop: the checks come in this order. *)

NoNodesLeft ==
  /\ phase = "boundary" /\ superstep = {}
  /\ Conclude("ok")
  /\ UNCHANGED <<stop, taskVars, state, storeVars>>

Stopped ==
  /\ phase = "boundary" /\ superstep # {}
  /\ stop
  /\ Conclude("cancelled")
  /\ UNCHANGED <<stop, taskVars, state, storeVars>>

TooManySteps ==
  /\ phase = "boundary" /\ superstep # {}
  /\ ~stop /\ step >= MaxIter
  /\ Conclude("failed")
  /\ UNCHANGED <<stop, taskVars, state, storeVars>>

CanStep == phase = "boundary" /\ superstep # {} /\ ~stop /\ step < MaxIter

\* save_state_snapshot, then the run ends or goes on as `next` says.
SaveSnapshot == HasStore /\ snapshot' = state /\ UNCHANGED <<run, attempt, storeFailed>>

NoStore == ~HasStore /\ UNCHANGED storeVars

\* An interrupt point: the snapshot is saved and the run ends.
Pause ==
  \/ (SaveSnapshot \/ NoStore) /\ Conclude("interrupted")
  \/ StoreFails("snapshot") /\ Conclude("failed")

InterruptBefore ==
  /\ CanStep /\ superstep \cap Before # {}
  /\ Pause
  /\ UNCHANGED <<stop, taskVars, state>>

Ready(n) == task' = [task EXCEPT ![n] = "ready"]

StartSingle ==
  /\ CanStep /\ superstep \cap Before = {}
  /\ \E n \in Node : superstep = {n} /\ Ready(n)
  /\ MoveTo("boundary", "single")
  /\ UNCHANGED <<stop, tries, fault, forked, active, doomed, unended, state, storeVars>>

\* NodeNotFound: the only node of the superstep does not exist.
StartGhost ==
  /\ CanStep
  /\ \E g \in Ghost : superstep = {g}
  /\ Conclude("failed")
  /\ UNCHANGED <<stop, taskVars, state, storeVars>>

StartParallel ==
  /\ CanStep /\ superstep \cap Before = {}
  /\ \A m \in Target : superstep # {m}
  /\ MoveTo("boundary", "spawning")
  /\ UNCHANGED <<stop, taskVars, state, storeVars>>

-----------------------------------------------------------------------------
(* The branches of a superstep: spawn, join, abort, merge. *)

\* Members of the superstep that have not been spawned.
Pending == {m \in superstep : m \in Node => task[m] = "idle"}

RoomForBranch == Cardinality(active) < MaxParallelism

Spawn(n) ==
  /\ phase = "spawning" /\ n \in Pending /\ RoomForBranch
  /\ Ready(n)
  /\ active' = active \cup {n}
  /\ UNCHANGED <<engineVars, stop, tries, fault, forked, doomed, unended, state, storeVars>>

\* The error of spawn_parallel_branch returns from the loop: the JoinSet is
\* dropped, which aborts its tasks and does not wait for them.
SpawnGhost ==
  /\ phase = "spawning" /\ Pending \cap Ghost # {} /\ RoomForBranch
  /\ Conclude("failed")
  /\ doomed' = TRUE
  /\ UNCHANGED <<stop, task, tries, fault, forked, active, unended, state, storeVars>>

SpawnDone ==
  /\ Pending = {} \/ ~RoomForBranch
  /\ MoveTo("spawning", "joining")
  /\ UNCHANGED <<stop, taskVars, state, storeVars>>

\* A branch is joined; its place goes to the next pending node.
Join(n) ==
  /\ phase = "joining" /\ task[n] = "ok"
  /\ \/ /\ Pending = {}
        /\ task' = [task EXCEPT ![n] = "joined"]
        /\ active' = active \ {n}
     \/ \E m \in Pending \cap Node :
          /\ task' = [task EXCEPT ![n] = "joined", ![m] = "ready"]
          /\ active' = (active \ {n}) \cup {m}
  /\ UNCHANGED <<engineVars, stop, tries, fault, forked, doomed, unended, state, storeVars>>

\* The next pending node does not exist: as in SpawnGhost.
JoinGhost(n) ==
  /\ phase = "joining" /\ task[n] = "ok" /\ Pending \cap Ghost # {}
  /\ task' = [task EXCEPT ![n] = "joined"]
  /\ active' = active \ {n}
  /\ Conclude("failed")
  /\ doomed' = TRUE
  /\ UNCHANGED <<stop, tries, fault, forked, unended, state, storeVars>>

\* Deviation: the error is returned at once, the other branches run on.
JoinFailedUndrained(n) ==
  /\ phase = "joining" /\ task[n] \in {"err", "panicked"}
  /\ Conclude(IF task[n] = "err" THEN fault[n] ELSE "failed")
  /\ UNCHANGED <<stop, taskVars, state, storeVars>>

\* Deviation: a branch that saw the cancel flag is not taken for a failure.
JoinFailedUnlessCancelled(n) ==
  /\ phase = "joining" /\ task[n] \in {"err", "panicked"} /\ fault[n] # "cancelled"
  /\ phase' = "draining"
  /\ result' = IF task[n] = "err" THEN fault[n] ELSE "failed"
  /\ doomed' = TRUE
  /\ UNCHANGED <<superstep, step, targets, stop, task, tries, fault, forked, active, unended, state, storeVars>>

\* A branch failed or panicked: abort_all, then drain.
JoinFailed(n) ==
  /\ phase = "joining" /\ task[n] \in {"err", "panicked"}
  /\ phase' = "draining"
  /\ result' = IF task[n] = "err" THEN fault[n] ELSE "failed"
  /\ doomed' = TRUE
  /\ UNCHANGED <<superstep, step, targets, stop, task, tries, fault, forked, active, unended, state, storeVars>>

\* Deviation: an abort does not reach a node that is running.
ReapUnlessRunning(n) ==
  /\ doomed /\ n \in Live /\ task[n] # "running"
  /\ task' = [task EXCEPT ![n] = "dropped"]
  /\ UNCHANGED <<engineVars, stop, tries, fault, forked, active, doomed, unended, state, storeVars>>

\* An aborted task is dropped at one of its awaits.
Reap(n) ==
  /\ doomed /\ n \in Live
  /\ task' = [task EXCEPT ![n] = "dropped"]
  /\ UNCHANGED <<engineVars, stop, tries, fault, forked, active, doomed, unended, state, storeVars>>

\* Every task has ended; NodeEnd "interrupted" for every active branch.
Drained ==
  /\ Live = {}
  /\ MoveTo("draining", "closing")
  /\ unended' = [n \in Node |-> IF n \in active THEN unended[n] - 1 ELSE unended[n]]
  /\ UNCHANGED <<stop, task, tries, fault, forked, active, doomed, state, storeVars>>

\* Deviation: the first branch to finish is enough.
AnyJoined == superstep \cap {n \in Node : task[n] = "joined"} # {}

AllJoined == superstep \subseteq {n \in Node : task[n] = "joined"}

Writes(nodes) == {step} \X nodes

Merge ==
  /\ AllJoined
  /\ MoveTo("joining", "resolving")
  /\ state' = state \cup Writes(forked \cap superstep)
  /\ UNCHANGED <<stop, taskVars, storeVars>>

\* Deviation: the state is saved also when the merge fails.
MergeFailsSaving ==
  /\ phase = "joining" /\ AllJoined /\ "merge" \in Events
  /\ \E part \in SUBSET (forked \cap superstep) : state' = state \cup Writes(part)
  /\ HasStore /\ snapshot' = state' /\ UNCHANGED <<run, attempt, storeFailed>>
  /\ Conclude("failed")
  /\ UNCHANGED <<stop, taskVars>>

\* A reducer or the size limit refuses a key: earlier keys are in.
MergeFails ==
  /\ phase = "joining" /\ AllJoined /\ "merge" \in Events
  /\ \E part \in SUBSET (forked \cap superstep) : state' = state \cup Writes(part)
  /\ Conclude("failed")
  /\ UNCHANGED <<stop, taskVars, storeVars>>

SingleDone(n) ==
  /\ task[n] = "ok"
  /\ MoveTo("single", "resolving")
  /\ UNCHANGED <<stop, taskVars, state, storeVars>>

SingleFailed(n) ==
  /\ phase = "single" /\ task[n] = "err"
  /\ Conclude(fault[n])
  /\ UNCHANGED <<stop, taskVars, state, storeVars>>

-----------------------------------------------------------------------------
(* After the nodes of a superstep. *)

Resolve ==
  /\ phase = "resolving" /\ phase' = "after"
  /\ \E choice \in [superstep -> SUBSET Target] :
       /\ \A n \in superstep : choice[n] \in Routes[n]
       /\ targets' = UNION {choice[n] : n \in superstep}
  /\ UNCHANGED <<superstep, step, result, stop, taskVars, state, storeVars>>

RouterFails ==
  /\ phase = "resolving" /\ "router" \in Events
  /\ Conclude("failed")
  /\ UNCHANGED <<stop, taskVars, state, storeVars>>

InterruptAfter ==
  /\ phase = "after" /\ superstep \cap After # {}
  /\ Pause
  /\ UNCHANGED <<stop, taskVars, state>>

NextStep ==
  /\ phase = "after" /\ superstep \cap After = {}
  /\ SaveSnapshot \/ NoStore
  /\ phase' = "boundary"
  /\ superstep' = targets
  /\ step' = step + 1
  /\ targets' = {}
  /\ task' = [n \in Node |-> "idle"]
  /\ tries' = [n \in Node |-> 0]
  /\ fault' = [n \in Node |-> "none"]
  /\ forked' = {}
  /\ active' = {}
  /\ unended' = [n \in Node |-> 0]
  /\ UNCHANGED <<result, stop, doomed, state>>

\* Deviation: the error of the snapshot is dropped.
SnapshotBestEffort ==
  /\ phase = "after" /\ superstep \cap After = {}
  /\ StoreFails("snapshot")
  /\ Conclude("ok")
  /\ UNCHANGED <<stop, taskVars, state>>

SnapshotFails ==
  /\ phase = "after" /\ superstep \cap After = {}
  /\ StoreFails("snapshot")
  /\ Conclude("failed")
  /\ UNCHANGED <<stop, taskVars, state>>

\* complete_run or fail_run; their failure is the result.
Close ==
  /\ phase = "closing" /\ phase' = "ended"
  /\ \/ /\ HasStore
        /\ run' = IF result = "ok" THEN "Completed" ELSE "Failed"
        /\ UNCHANGED <<result, attempt, snapshot, storeFailed>>
     \/ NoStore /\ UNCHANGED result
     \/ StoreFails("close") /\ result' = "failed"
  /\ UNCHANGED <<superstep, step, targets, stop, taskVars, state>>

Cancel ==
  /\ "cancel" \in Events /\ ~stop /\ phase \notin {"ended", "unwound"}
  /\ stop' = TRUE
  /\ UNCHANGED <<engineVars, taskVars, state, storeVars>>

-----------------------------------------------------------------------------
(* execute_node_attempt_family: the attempts of one node. *)

Current(n) == <<step, n, tries[n]>>

\* The family ends with an error: NodeEnd, and the error for whoever joins.
EndWith(n, e) ==
  /\ task' = [task EXCEPT ![n] = "err"]
  /\ fault' = [fault EXCEPT ![n] = e]
  /\ unended' = [unended EXCEPT ![n] = @ - 1]

\* The flag is looked at before an attempt; NodeStart.
BeginAttempt(n) ==
  /\ task[n] = "ready" /\ ~stop
  /\ task' = [task EXCEPT ![n] = "recording"]
  /\ unended' = [unended EXCEPT ![n] = @ + 1]
  /\ UNCHANGED <<engineVars, stop, tries, fault, forked, active, doomed, state, storeVars>>

AttemptCancelled(n) ==
  /\ task[n] = "ready" /\ stop
  /\ EndWith(n, "cancelled")
  /\ UNCHANGED <<engineVars, stop, tries, forked, active, doomed, state, storeVars>>

RecordAttempt(n) ==
  /\ task[n] = "recording"
  /\ \/ /\ HasStore
        /\ attempt' = [attempt EXCEPT ![Current(n)] = "Running"]
        /\ task' = [task EXCEPT ![n] = "running"]
        /\ UNCHANGED <<fault, unended, run, snapshot, storeFailed>>
     \/ /\ NoStore
        /\ task' = [task EXCEPT ![n] = "running"]
        /\ UNCHANGED <<fault, unended>>
     \/ StoreFails("record") /\ EndWith(n, "failed")
  /\ UNCHANGED <<engineVars, stop, tries, forked, active, doomed, state>>

\* Deviation: a branch shares the run's state.
WriteShared(n) == state' = state \cup Writes({n}) /\ forked' = forked \cup {n}

\* What the node writes goes to the run's state or to its branch's fork.
Write(n) ==
  IF Cardinality(superstep) = 1
  THEN state' = state \cup Writes({n}) /\ UNCHANGED forked
  ELSE forked' = forked \cup {n} /\ UNCHANGED state

\* The node returns its output, or an error (having written or not), or the
\* updates of its command are refused, which is never retried.
Execute(n) ==
  /\ task[n] = "running"
  /\ \/ Write(n) /\ task' = [task EXCEPT ![n] = "completing"] /\ UNCHANGED fault
     \/ /\ Write(n) \/ UNCHANGED <<forked, state>>
        /\ task' = [task EXCEPT ![n] = "failing"]
        /\ \/ "error" \in Events /\ fault' = [fault EXCEPT ![n] = "failed"]
           \/ "interrupt" \in Events /\ fault' = [fault EXCEPT ![n] = "interrupted"]
     \/ /\ "update" \in Events
        /\ Write(n)
        /\ task' = [task EXCEPT ![n] = "rejected"]
        /\ fault' = [fault EXCEPT ![n] = "failed"]
  /\ UNCHANGED <<engineVars, stop, tries, active, doomed, unended, storeVars>>

\* A panic ends the task of a branch where it is; alone in its superstep the
\* node runs in the engine's own task, which unwinds and closes nothing.
Panic(n) ==
  /\ task[n] = "running" /\ "panic" \in Events
  /\ task' = [task EXCEPT ![n] = "panicked"]
  /\ IF phase = "single" THEN MoveTo("single", "unwound") ELSE UNCHANGED engineVars
  /\ UNCHANGED <<stop, tries, fault, forked, active, doomed, unended, state, storeVars>>

SetAttempt(n, s) ==
  \/ HasStore /\ attempt' = [attempt EXCEPT ![Current(n)] = s] /\ UNCHANGED <<run, snapshot, storeFailed>>
  \/ NoStore

\* complete_attempt, NodeEnd.
CompleteAttempt(n) ==
  /\ task[n] = "completing"
  /\ \/ /\ SetAttempt(n, "Completed")
        /\ task' = [task EXCEPT ![n] = "ok"]
        /\ unended' = [unended EXCEPT ![n] = @ - 1]
        /\ UNCHANGED fault
     \/ StoreFails("complete") /\ EndWith(n, "failed")
  /\ UNCHANGED <<engineVars, stop, tries, forked, active, doomed, state>>

\* should_retry: the policy's predicate may also say no.
MayRetry(n) == task[n] = "failing" /\ tries[n] + 1 < MaxAttempts

\* fail_attempt; then the policy retries or the error ends the family.
FailAttempt(n) ==
  /\ task[n] \in {"failing", "rejected"}
  /\ \/ SetAttempt(n, "Failed") /\ EndWith(n, fault[n])
     \/ /\ SetAttempt(n, "Failed")
        /\ MayRetry(n)
        /\ task' = [task EXCEPT ![n] = "waiting"]
        /\ unended' = [unended EXCEPT ![n] = @ - 1]
        /\ UNCHANGED fault
     \/ StoreFails("fail") /\ EndWith(n, "failed")
  /\ UNCHANGED <<engineVars, stop, tries, forked, active, doomed, state>>

\* The retry delay polls the flag every 10 ms.
WaitCancelled(n) ==
  /\ task[n] = "waiting" /\ stop
  /\ EndWith(n, "cancelled")
  /\ UNCHANGED <<engineVars, stop, tries, forked, active, doomed, state, storeVars>>

WaitElapsed(n) ==
  /\ task[n] = "waiting"
  /\ tries' = [tries EXCEPT ![n] = @ + 1]
  /\ Ready(n)
  /\ UNCHANGED <<engineVars, stop, fault, forked, active, doomed, unended, state, storeVars>>

-----------------------------------------------------------------------------

Engine ==
  \/ NoNodesLeft \/ Stopped \/ TooManySteps \/ InterruptBefore \/ StartSingle
  \/ StartGhost \/ StartParallel \/ SpawnGhost \/ SpawnDone \/ Drained
  \/ Merge \/ MergeFails \/ Resolve \/ RouterFails \/ InterruptAfter
  \/ NextStep \/ SnapshotFails \/ Close
  \/ \E n \in Node : Spawn(n) \/ Join(n) \/ JoinGhost(n) \/ JoinFailed(n)
                       \/ SingleDone(n) \/ SingleFailed(n)

\* Steps of a family that end by themselves.
Attempt(n) ==
  \/ BeginAttempt(n) \/ AttemptCancelled(n) \/ RecordAttempt(n) \/ CompleteAttempt(n)
  \/ FailAttempt(n) \/ WaitCancelled(n) \/ WaitElapsed(n)

Next ==
  \/ Engine
  \/ \E n \in Node : Attempt(n) \/ Execute(n) \/ Panic(n) \/ Reap(n)
  \/ Cancel

Spec == Init /\ [][Next]_vars

\* The runtime polls ready tasks and drops aborted ones at their awaits; a
\* node may run for ever unless it observes the cancel flag.
Fairness ==
  /\ WF_vars(Engine)
  /\ \A n \in Node : WF_vars(Attempt(n)) /\ WF_vars(Reap(n)) /\ WF_vars(stop /\ Execute(n))

FairSpec == Spec /\ Fairness

-----------------------------------------------------------------------------
(* Properties. *)

\* Every variable stays in its range.
TypeOK ==
  /\ phase \in {"boundary", "single", "spawning", "joining", "draining", "resolving",
                "after", "closing", "ended", "unwound"}
  /\ superstep \subseteq Target
  /\ step \in 0 .. MaxIter
  /\ targets \subseteq Target
  /\ result \in {"none", "ok", "failed", "cancelled", "interrupted"}
  /\ stop \in BOOLEAN
  /\ task \in [Node -> Working \cup {"idle", "ok", "err", "panicked", "joined", "dropped"}]
  /\ tries \in [Node -> Tries]
  /\ fault \in [Node -> {"none", "failed", "cancelled", "interrupted"}]
  /\ forked \subseteq Node
  /\ state \subseteq Steps \X Node
  /\ active \subseteq Node
  /\ doomed \in BOOLEAN
  /\ unended \in [Node -> Int]
  /\ run \in {"none", "Running", "Completed", "Failed"}
  /\ attempt \in [Steps \X Node \X Tries -> {"none", "Running", "Completed", "Failed"}]
  /\ snapshot \subseteq Steps \X Node
  /\ storeFailed \in BOOLEAN

\* Never more branches than max_parallelism, through refills and retries.
ParallelismBounded == Cardinality(Live) <= MaxParallelism

\* "so no task can continue producing effects after the parent fails": when
\* the run has ended every task of it has ended (abort_all and drain).
NothingOutlivesRun == phase = "ended" => Live = {}

\* A parallel superstep that fails leaves none of its branches' writes in the
\* run's state, also those of branches that succeeded; only a merge that
\* fails half-way may (forks, merge_parallel_states).
FailedSuperstepLeavesNoWrites ==
  phase \in {"spawning", "joining", "draining"} \/ (phase = "ended" /\ ~AllJoined) =>
    Cardinality(superstep) = 1 \/ state \cap Writes(Node) = {}

\* A snapshot never shows a part of a superstep (save_state_snapshot is
\* called after the merge and at interrupts).
SnapshotIsWhole ==
  snapshot \cap Writes(Node) # {} =>
    Writes(superstep) \subseteq snapshot

\* An attempt is recorded only after the one before it failed.
RetryFollowsFailure ==
  \A s \in Steps, n \in Node : \A i \in 1 .. MaxAttempts - 1 :
    attempt[<<s, n, i>>] # "none" => attempt[<<s, n, i - 1>>] = "Failed"

\* A run recorded as completed has no attempt left open, and every write in
\* its state belongs to an attempt recorded as completed.
CompletedRunIsClosed ==
  run = "Completed" =>
    /\ \A a \in DOMAIN attempt : attempt[a] # "Running"
    /\ \A w \in state : \E i \in Tries : attempt[<<w[1], w[2], i>>] = "Completed"

\* A failing store call is never reported as success, whichever call of
\* whichever branch it was (checkpoint_store_failure_contract.rs).
StoreFailureIsReported == storeFailed /\ phase = "ended" => result # "ok"

\* The record of a run does not change any more when it is terminal.
ClosedRunIsFrozen ==
  [][(run \in {"Completed", "Failed"}) => UNCHANGED storeVars]_vars

\* Tasks, forks, retries and the store implement all-or-nothing supersteps.
Supersteps == INSTANCE SuperstepRun WITH
  current <- superstep,
  effects <- {w \in state : w[1] < step},
  verdict <- IF phase = "ended" THEN result ELSE "none"
ImplementsSupersteps == Supersteps!Spec

\* Nothing of the run executes any more: it returned, or a node that ran alone
\* panicked and unwound the engine.
Over == phase \in {"ended", "unwound"}

\* A raised cancel flag ends the run, in a retry delay, a branch or between
\* supersteps.
CancelEndsRun == stop ~> Over

\* A failing branch ends the run although its siblings never return.
FailureEndsRun == doomed ~> Over

\* Every trial that was started is ended by one NodeEnd and no other is.
EachTrialEndsOnce == \A n \in Node : unended[n] \in {0, 1}

\* The status in the checkpoint store tells interrupts from failures.
InterruptIsRecorded == phase = "ended" /\ result = "interrupted" => run # "Failed"

=============================================================================
