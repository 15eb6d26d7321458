----------------------------- MODULE RunServer -----------------------------
(***************************************************************************)
(* One MCP server: tool-call handlers (clients) that allocate, admit,      *)
(* launch, await, cancel and resume runs, and the worker thread of every   *)
(* launched run.  Handlers exclude each other with the server's mutex      *)
(* around the registry (`outer`); workers take only the registry's inner   *)
(* mutex, so every step of a worker may fall between two steps of a        *)
(* handler.  The executions row of a run in SQLite is `row`; a durable     *)
(* checkpoint is `ckpt`.  Approvals, restarts and further servers on the   *)
(* same database are in DurableRuns.                                       *)
(***************************************************************************)
EXTENDS RunRegistry

CONSTANTS
  Client,    (* tool calls in flight                                        *)
  Nobody,    (* no client holds the mutex, no run is being handled          *)
  Calls,     (* the tools an instance's clients call                        *)
  Events     (* what the environment may do in an instance: a store call    *)
             (* fails ("row", "checkpoint", "consume", "launch", "persist") *)
             (* or the deadline of a synchronous call passes ("deadline")   *)

ASSUME ServerAssumption ==
  /\ Nobody \notin Client
  /\ Nobody \notin RunId
  /\ IsFiniteSet(Client)
  /\ Calls \subseteq {"async", "sync", "checkpoint", "resume", "cancel", "wait"}

VARIABLES
  outer,     (* holder of the server's mutex around the registry            *)
  pc,        (* where each handler is                                       *)
  arg,       (* the run it handles                                          *)
  kind,      (* the operation it performs                                   *)
  seen,      (* the status it last read from a record and acts on           *)
  issued,    (* run ids the counter has issued                              *)
  worker,    (* where the worker thread of each run is                      *)
  outcome,   (* what the engine returned to the worker                      *)
  rec,       (* terminal status in the record the worker hands to SQLite    *)
  row,       (* status in the executions table                              *)
  ckpt,      (* the run's durable checkpoint                                *)
  claim,     (* persistence_status of the run's record                      *)
  stranded   (* runs admitted by a launch that failed before the spawn      *)

clientVars == <<outer, pc, arg, kind, seen, issued>>
workerVars == <<worker, outcome, rec>>
storeVars  == <<row, ckpt, claim, stranded>>
vars == <<registryVars, clientVars, workerVars, storeVars>>

Done == {"completed", "failed", "cancelled"}

\* The calls that allocate a run.
Kinds == Calls \cap {"async", "sync", "checkpoint"}

Init ==
  /\ RegistryInit
  /\ outer = Nobody
  /\ pc = [c \in Client |-> "idle"]
  /\ arg = [c \in Client |-> Nobody]
  /\ kind = [c \in Client |-> "none"]
  /\ seen = [c \in Client |-> "none"]
  /\ issued = {}
  /\ worker = [r \in RunId |-> "none"]
  /\ outcome = [r \in RunId |-> "none"]
  /\ rec = [r \in RunId |-> "none"]
  /\ row = [r \in RunId |-> "none"]
  /\ ckpt = [r \in RunId |-> "none"]
  /\ claim = [r \in RunId |-> "volatile"]
  /\ stranded = {}

-----------------------------------------------------------------------------
(* Steps of a handler. *)

MoveTo(c, from, to) == pc[c] = from /\ pc' = [pc EXCEPT ![c] = to]

\* The handler returns and drops the mutex it holds.
Return(c) ==
  /\ pc' = [pc EXCEPT ![c] = "idle"]
  /\ arg' = [arg EXCEPT ![c] = Nobody]
  /\ kind' = [kind EXCEPT ![c] = "none"]
  /\ seen' = [seen EXCEPT ![c] = "none"]
  /\ outer' = IF outer = c THEN Nobody ELSE outer

Spawn(r) ==
  /\ worker' = [worker EXCEPT ![r] = "spawned"]
  /\ UNCHANGED <<outcome, rec>>

\* graph_execute and graph_run_start: lock the registry, allocate a record.
Allocate(c, r, k) ==
  /\ pc[c] = "idle" /\ outer = Nobody /\ r \notin issued
  /\ InsertRecord(r)
  /\ outer' = c
  /\ issued' = issued \cup {r}
  /\ pc' = [pc EXCEPT ![c] = "allocated"]
  /\ arg' = [arg EXCEPT ![c] = r]
  /\ kind' = [kind EXCEPT ![c] = k]
  /\ claim' = [claim EXCEPT ![r] = "volatile"]
  /\ UNCHANGED <<seen, workerVars, row, ckpt, stranded>>

\* Every retained record is live: the call fails, the id is spent.
AllocateRefused(c, r) ==
  /\ pc[c] = "idle" /\ outer = Nobody /\ r \notin issued
  /\ ~CanInsert
  /\ issued' = issued \cup {r}
  /\ UNCHANGED <<registryVars, outer, pc, arg, kind, seen, workerVars, storeVars>>

Admit(c) ==
  /\ kind[c] \in {"async", "sync"}
  /\ MoveTo(c, "allocated", "admitted")
  /\ AdmitAsync(arg[c])
  /\ UNCHANGED <<outer, arg, kind, seen, issued, workerVars, storeVars>>

AdmitRefused(c) ==
  /\ kind[c] \in {"async", "sync"}
  /\ MoveTo(c, "allocated", "refused")
  /\ ~CanAdmit(arg[c])
  /\ UNCHANGED <<registryVars, outer, arg, kind, seen, issued, workerVars, storeVars>>

\* RUN_CAPACITY or a failed checkpoint: the record goes, the call returns.
Refuse(c) ==
  /\ pc[c] = "refused"
  /\ RemoveRecord(arg[c])
  /\ Return(c)
  /\ UNCHANGED <<issued, workerVars, storeVars>>

\* save_execution "running"; its error is dropped.
SaveRow(c) ==
  /\ MoveTo(c, "admitted", "saved")
  /\ \/ row' = [row EXCEPT ![arg[c]] = "running"]
     \/ "row" \in Events /\ UNCHANGED row
  /\ UNCHANGED <<registryVars, outer, arg, kind, seen, issued, workerVars, ckpt, claim, stranded>>

StartAsync(c) ==
  /\ pc[c] = "saved" /\ kind[c] = "async"
  /\ Spawn(arg[c])
  /\ Return(c)
  /\ UNCHANGED <<registryVars, issued, storeVars>>

\* A synchronous execute polls the record with the server's mutex held.
StartSync(c) ==
  /\ kind[c] = "sync"
  /\ MoveTo(c, "saved", "polling")
  /\ Spawn(arg[c])
  /\ UNCHANGED <<registryVars, outer, arg, kind, seen, issued, storeVars>>

PollTerminal(c) ==
  /\ MoveTo(c, "polling", "polled")
  /\ status[arg[c]] \in Done
  /\ seen' = [seen EXCEPT ![c] = status[arg[c]]]
  /\ UNCHANGED <<registryVars, outer, arg, kind, issued, workerVars, storeVars>>

\* The record read last was live and the deadline has passed.
PollDeadline(c) ==
  /\ MoveTo(c, "polling", "expired")
  /\ "deadline" \in Events
  /\ status[arg[c]] \notin Done
  /\ seen' = [seen EXCEPT ![c] = status[arg[c]]]
  /\ UNCHANGED <<registryVars, outer, arg, kind, issued, workerVars, storeVars>>

\* The cancel may be refused: the worker can have finished since the read.
DeadlineCancel(c) ==
  /\ MoveTo(c, "expired", "polled")
  /\ IF CanCancel(arg[c]) THEN RequestCancel(arg[c]) ELSE UNCHANGED registryVars
  /\ UNCHANGED <<outer, arg, kind, seen, issued, workerVars, storeVars>>

\* save_execution and update_execution_status with the status that was read.
SyncReturn(c) ==
  /\ pc[c] = "polled"
  /\ \/ row' = [row EXCEPT ![arg[c]] = seen[c]]
     \/ "row" \in Events /\ UNCHANGED row
  /\ Return(c)
  /\ UNCHANGED <<registryVars, issued, workerVars, ckpt, claim, stranded>>

\* graph_run_start with a checkpoint: row, checkpoint, then the record.
SaveCheckpointRow(c) ==
  /\ kind[c] = "checkpoint"
  /\ pc[c] = "allocated"
  /\ \/ /\ row' = [row EXCEPT ![arg[c]] = "checkpointed"]
        /\ pc' = [pc EXCEPT ![c] = "rowed"]
     \/ /\ "checkpoint" \in Events
        /\ pc' = [pc EXCEPT ![c] = "refused"]
        /\ UNCHANGED row
  /\ UNCHANGED <<registryVars, outer, arg, kind, seen, issued, workerVars, ckpt, claim, stranded>>

CreateCheckpoint(c) ==
  /\ pc[c] = "rowed"
  /\ \/ /\ ckpt' = [ckpt EXCEPT ![arg[c]] = "available"]
        /\ pc' = [pc EXCEPT ![c] = "checkpointing"]
        /\ UNCHANGED row
     \/ /\ "checkpoint" \in Events
        /\ row' = [row EXCEPT ![arg[c]] = "failed"]
        /\ pc' = [pc EXCEPT ![c] = "refused"]
        /\ UNCHANGED ckpt
  /\ UNCHANGED <<registryVars, outer, arg, kind, seen, issued, workerVars, claim, stranded>>

MarkCheckpointed(c) ==
  /\ pc[c] = "checkpointing"
  /\ SetStatus(arg[c], "checkpointed")
  /\ Return(c)
  /\ UNCHANGED <<issued, workerVars, storeVars>>

-----------------------------------------------------------------------------
(* graph_run_resume and launch_resumed. *)

ResumeLoad(c, r) ==
  /\ pc[c] = "idle"
  /\ ckpt[r] = "available"
  /\ pc' = [pc EXCEPT ![c] = "validated"]
  /\ arg' = [arg EXCEPT ![c] = r]
  /\ kind' = [kind EXCEPT ![c] = "resume"]
  /\ UNCHANGED <<registryVars, outer, seen, issued, workerVars, storeVars>>

Reserve(c) ==
  /\ outer = Nobody
  /\ MoveTo(c, "validated", "reserved")
  /\ ReserveAsyncSlot
  /\ UNCHANGED <<outer, arg, kind, seen, issued, workerVars, storeVars>>

ReserveRefused(c) ==
  /\ pc[c] = "validated" /\ outer = Nobody
  /\ ~SlotFree
  /\ Return(c)
  /\ UNCHANGED <<registryVars, issued, workerVars, storeVars>>

\* Deviation: the update is not conditional on consumed_at IS NULL.
ConsumeAgain(c) ==
  /\ MoveTo(c, "reserved", "consumed")
  /\ ckpt' = [ckpt EXCEPT ![arg[c]] = "consumed"]
  /\ UNCHANGED <<registryVars, outer, arg, kind, seen, issued, workerVars, row, claim, stranded>>

\* consume_resume_checkpoint: a compare-and-set in one transaction.
Consume(c) ==
  /\ MoveTo(c, "reserved", "consumed")
  /\ ckpt[arg[c]] = "available"
  /\ ckpt' = [ckpt EXCEPT ![arg[c]] = "consumed"]
  /\ UNCHANGED <<registryVars, outer, arg, kind, seen, issued, workerVars, row, claim, stranded>>

\* Deviation: the slot is given back at once, and by Release again.
ConsumeRefusedReleasing(c) ==
  /\ MoveTo(c, "reserved", "releasing")
  /\ ckpt[arg[c]] = "consumed" \/ "consume" \in Events
  /\ ReleaseAsyncSlot
  /\ UNCHANGED <<outer, arg, kind, seen, issued, workerVars, storeVars>>

ConsumeRefused(c) ==
  /\ MoveTo(c, "reserved", "releasing")
  /\ ckpt[arg[c]] = "consumed" \/ "consume" \in Events
  /\ UNCHANGED <<registryVars, outer, arg, kind, seen, issued, workerVars, storeVars>>

Release(c) ==
  /\ pc[c] = "releasing" /\ outer = Nobody
  /\ ReleaseAsyncSlot
  /\ Return(c)
  /\ UNCHANGED <<issued, workerVars, storeVars>>

\* Deviation: the reservation is given back before the run is activated.
LaunchReplaceReleasing(c) ==
  /\ outer = Nobody /\ outer' = c
  /\ MoveTo(c, "consumed", "replacing")
  /\ ReleaseAsyncSlot
  /\ UNCHANGED <<arg, kind, seen, issued, workerVars, storeVars>>

LaunchReplace(c) ==
  /\ outer = Nobody /\ outer' = c
  /\ MoveTo(c, "consumed", "replacing")
  /\ RemoveRecord(arg[c])
  /\ UNCHANGED <<arg, kind, seen, issued, workerVars, storeVars>>

LaunchAllocate(c) ==
  /\ MoveTo(c, "replacing", "relisted")
  /\ InsertRecord(arg[c])
  /\ claim' = [claim EXCEPT ![arg[c]] = "volatile"]
  /\ UNCHANGED <<outer, arg, kind, seen, issued, workerVars, row, ckpt, stranded>>

LaunchRefused(c) ==
  /\ pc[c] = "replacing"
  /\ ~CanInsert
  /\ ReleaseAsyncSlot
  /\ Return(c)
  /\ UNCHANGED <<issued, workerVars, storeVars>>

LaunchAdmit(c) ==
  /\ MoveTo(c, "relisted", "activated")
  /\ AdmitReservedAsync(arg[c])
  /\ UNCHANGED <<outer, arg, kind, seen, issued, workerVars, storeVars>>

LaunchSaveRow(c) ==
  /\ MoveTo(c, "activated", "launching")
  /\ row' = [row EXCEPT ![arg[c]] = "running"]
  /\ UNCHANGED <<registryVars, outer, arg, kind, seen, issued, workerVars, ckpt, claim, stranded>>

\* The update's error returns from the handler with the run admitted.
LaunchSaveFails(c) ==
  /\ pc[c] = "activated" /\ "launch" \in Events
  /\ stranded' = stranded \cup {arg[c]}
  /\ Return(c)
  /\ UNCHANGED <<registryVars, issued, workerVars, row, ckpt, claim>>

LaunchStart(c) ==
  /\ pc[c] = "launching"
  /\ Spawn(arg[c])
  /\ Return(c)
  /\ UNCHANGED <<registryVars, issued, storeVars>>

-----------------------------------------------------------------------------
(* graph_run_cancel and graph_run_wait. *)

Cancel(c, r) ==
  /\ pc[c] = "idle" /\ outer = Nobody
  /\ RequestCancel(r)
  /\ UNCHANGED <<clientVars, workerVars, storeVars>>

WaitRead(c, r) ==
  /\ pc[c] = "idle" /\ outer = Nobody
  /\ status[r] \in Done
  /\ pc' = [pc EXCEPT ![c] = "waited"]
  /\ arg' = [arg EXCEPT ![c] = r]
  /\ kind' = [kind EXCEPT ![c] = "wait"]
  /\ seen' = [seen EXCEPT ![c] = status[r]]
  /\ UNCHANGED <<registryVars, outer, issued, workerVars, storeVars>>

\* persist_terminal_projection: an error when the run has no row.
CanPersist(r) == row[r] # "none"

PersistRow(r, s) == row' = [row EXCEPT ![r] = s]

WaitPersist(c) ==
  /\ pc[c] = "waited"
  /\ \/ /\ CanPersist(arg[c])
        /\ PersistRow(arg[c], seen[c])
        /\ MoveTo(c, "waited", "marking")
     \/ /\ ~CanPersist(arg[c]) \/ "persist" \in Events
        /\ MoveTo(c, "waited", "unmarking")
        /\ UNCHANGED row
  /\ UNCHANGED <<registryVars, outer, arg, kind, seen, issued, workerVars, ckpt, claim, stranded>>

MarkPersistence(r, s) ==
  claim' = IF status[r] = "absent" THEN claim ELSE [claim EXCEPT ![r] = s]

WaitMark(c) ==
  /\ pc[c] \in {"marking", "unmarking"} /\ outer = Nobody
  /\ MarkPersistence(arg[c], IF pc[c] = "marking" THEN "durable" ELSE "failed")
  /\ Return(c)
  /\ UNCHANGED <<registryVars, issued, workerVars, row, ckpt, stranded>>

-----------------------------------------------------------------------------
(* The worker thread of a run. *)

Advance(r, from, to) == worker[r] = from /\ worker' = [worker EXCEPT ![r] = to]

\* execute_with_store_options sets the status, compiles, starts the engine.
WorkerBegin(r) ==
  /\ \/ Advance(r, "spawned", "engine")
     \/ Advance(r, "spawned", "erring")
  /\ SetStatus(r, "running")
  /\ UNCHANGED <<clientVars, outcome, rec, storeVars>>

\* The engine returns; an oversized state or output is an early return.
EngineReturns(r) ==
  /\ \/ \E o \in {"ok", "error"} :
          /\ Advance(r, "engine", "publishing")
          /\ outcome' = [outcome EXCEPT ![r] = o]
     \/ Advance(r, "engine", "erring") /\ UNCHANGED outcome
  /\ UNCHANGED <<registryVars, clientVars, rec, storeVars>>

\* The flag and the status are read and written under one lock.
Publish(r) ==
  /\ Advance(r, "publishing", "published")
  /\ SetStatus(r, TerminalOutcome(r \in cancelled, outcome[r] = "error"))
  /\ MarkPersistence(r, "pending")
  /\ outcome' = [outcome EXCEPT ![r] = "none"]
  /\ UNCHANGED <<clientVars, rec, row, ckpt, stranded>>

\* Deviation: an Err of the execution is not written to the record.
WorkerFailsSilently(r) ==
  /\ Advance(r, "erring", "published")
  /\ UNCHANGED <<registryVars, clientVars, outcome, rec, storeVars>>

\* The thread's handler of an Err.
WorkerFails(r) ==
  /\ Advance(r, "erring", "published")
  /\ SetStatus(r, "failed")
  /\ UNCHANGED <<clientVars, outcome, rec, storeVars>>

\* get, after which the completion runs on the copy; an evicted record ends
\* the thread, by the expect after the update or the missing Some.
FetchRecord(r) ==
  /\ worker[r] = "published"
  /\ IF status[r] = "absent"
       THEN worker' = [worker EXCEPT ![r] = "dead"] /\ UNCHANGED rec
       ELSE /\ worker' = [worker EXCEPT ![r] = "persisting"]
            /\ rec' = [rec EXCEPT ![r] = status[r]]
  /\ UNCHANGED <<registryVars, clientVars, outcome, storeVars>>

PersistTerminal(r) ==
  /\ \/ /\ CanPersist(r)
        /\ PersistRow(r, rec[r])
        /\ Advance(r, "persisting", "marking")
     \/ /\ ~CanPersist(r) \/ "persist" \in Events
        /\ Advance(r, "persisting", "unmarking")
        /\ UNCHANGED row
  /\ UNCHANGED <<registryVars, clientVars, outcome, rec, ckpt, claim, stranded>>

\* Deviation: the result of the persistence is not looked at.
WorkerMarkDurable(r) ==
  /\ Advance(r, "marking", "done") \/ Advance(r, "unmarking", "done")
  /\ MarkPersistence(r, "durable")
  /\ rec' = [rec EXCEPT ![r] = "none"]
  /\ UNCHANGED <<registryVars, clientVars, outcome, row, ckpt, stranded>>

WorkerMark(r) ==
  /\ \/ Advance(r, "marking", "done") /\ MarkPersistence(r, "durable")
     \/ Advance(r, "unmarking", "done") /\ MarkPersistence(r, "failed")
  /\ rec' = [rec EXCEPT ![r] = "none"]
  /\ UNCHANGED <<registryVars, clientVars, outcome, row, ckpt, stranded>>

-----------------------------------------------------------------------------

\* Steps of a handler that needs no further input to go on.
Handle(c) ==
  \/ Admit(c) \/ AdmitRefused(c) \/ Refuse(c) \/ SaveRow(c) \/ StartAsync(c)
  \/ StartSync(c) \/ PollTerminal(c) \/ PollDeadline(c) \/ DeadlineCancel(c)
  \/ SyncReturn(c) \/ SaveCheckpointRow(c) \/ CreateCheckpoint(c)
  \/ MarkCheckpointed(c) \/ Reserve(c) \/ ReserveRefused(c) \/ Consume(c)
  \/ ConsumeRefused(c) \/ Release(c) \/ LaunchReplace(c) \/ LaunchAllocate(c)
  \/ LaunchRefused(c) \/ LaunchAdmit(c) \/ LaunchSaveRow(c)
  \/ LaunchSaveFails(c) \/ LaunchStart(c) \/ WaitPersist(c) \/ WaitMark(c)

Call(c) ==
  \E r \in RunId :
    \/ \E k \in Kinds : Allocate(c, r, k)
    \/ AllocateRefused(c, r)
    \/ "resume" \in Calls /\ ResumeLoad(c, r)
    \/ "cancel" \in Calls /\ Cancel(c, r)
    \/ "wait" \in Calls /\ WaitRead(c, r)

\* Steps of a worker that end by themselves.
Work(r) ==
  WorkerBegin(r) \/ Publish(r) \/ WorkerFails(r) \/ FetchRecord(r)
    \/ PersistTerminal(r) \/ WorkerMark(r)

Next ==
  \/ \E c \in Client : Call(c) \/ Handle(c)
  \/ \E r \in RunId : Work(r) \/ EngineReturns(r)

Spec == Init /\ [][Next]_vars

\* Threads are scheduled; a node may run for ever unless its run has been
\* cancelled, which the engine and every cancellable node observe.
Fairness ==
  /\ \A c \in Client : WF_vars(Handle(c))
  /\ \A r \in RunId : WF_vars(Work(r))
  /\ \A r \in RunId : WF_vars(r \in cancelled /\ EngineReturns(r))

FairSpec == Spec /\ Fairness

-----------------------------------------------------------------------------
(* Properties. *)

ClientPC ==
  {"idle", "allocated", "admitted", "refused", "saved", "polling", "expired",
   "polled", "rowed", "checkpointing", "validated", "reserved", "releasing",
   "consumed", "replacing", "relisted", "activated", "launching", "waited",
   "marking", "unmarking"}

WorkerPC ==
  {"none", "spawned", "engine", "publishing", "erring", "published",
   "persisting", "marking", "unmarking", "done", "dead"}

\* Every variable stays in its range (the state RunManager, the handlers and
\* the executions table can hold).
TypeOK ==
  /\ status \in [RunId -> Status]
  /\ order \in Seq(RunId)
  /\ reserved \in Nat
  /\ cancelled \subseteq RunId
  /\ outer \in Client \cup {Nobody}
  /\ pc \in [Client -> ClientPC]
  /\ arg \in [Client -> RunId \cup {Nobody}]
  /\ kind \in [Client -> Calls \cup {"none"}]
  /\ seen \in [Client -> Status \cup {"none"}]
  /\ issued \subseteq RunId
  /\ worker \in [RunId -> WorkerPC]
  /\ outcome \in [RunId -> {"none", "ok", "error"}]
  /\ rec \in [RunId -> Status \cup {"none"}]
  /\ row \in [RunId -> {"none", "running"} \cup Terminal]
  /\ ckpt \in [RunId -> {"none", "available", "consumed"}]
  /\ claim \in [RunId -> {"volatile", "pending", "durable", "failed"}]
  /\ stranded \subseteq RunId

\* Executing runs and reservations together never exceed MAX_ACTIVE_RUNS,
\* though handlers check the bound in one critical section and a resume
\* takes its slot in another (admit_async, reserve_async_slot).
CapacityBound == Cardinality(Running) + reserved <= MaxActive

\* The slots counted as reserved are those of the resumes between reserve_async_slot and
\* their activation or release: whichever of them is refused, by the checkpoint, the
\* retention bound or a failing store, gives back its own slot and no other's, though the
\* release saturates at zero and the handlers interleave.
Holders == {c \in Client : pc[c] \in {"reserved", "releasing", "consumed", "replacing", "relisted"}}
ReservationsHeld == reserved = Cardinality(Holders)

\* The retention queue lists exactly the retained records, each once, and
\* never more than MAX_RUNS of them, whatever is evicted, removed or relisted.
RegistryConsistent ==
  /\ Len(order) <= MaxRuns
  /\ {order[i] : i \in 1 .. Len(order)} = Present
  /\ \A i, j \in 1 .. Len(order) : order[i] = order[j] => i = j

\* A run whose record says "running" has a handler about to spawn its worker
\* or a worker that will publish, except after a failed launch.
RunningIsOwned ==
  \A r \in Running :
    \/ worker[r] \in {"spawned", "engine", "publishing", "erring"}
    \/ \E c \in Client :
         arg[c] = r /\ pc[c] \in {"admitted", "saved", "activated", "launching"}
    \/ r \in stranded

\* While a synchronous call polls with the mutex held, its record stays.
PolledRunPresent ==
  \A c \in Client : pc[c] \in {"polling", "expired", "polled"} => status[arg[c]] # "absent"

\* The activation of a resumed run is never refused: the slot was reserved
\* before the checkpoint was consumed and nobody else can have taken it.
ActivationNeverRefused ==
  \A c \in Client : pc[c] = "relisted" => CanAdmitReserved(arg[c])

\* With more records than slots a call is never refused for want of a
\* record to evict (insert_record's "live runs cannot be evicted").
AllocationNeverRefused ==
  MaxRuns > MaxActive =>
    /\ outer = Nobody => CanInsert
    /\ \A c \in Client : pc[c] = "replacing" => CanInsert

\* Once a cancel request is accepted the run cannot be reported completed.
CancelNeverCompletes == \A r \in cancelled : status[r] # "completed"

\* What the registry reports as durable is what SQLite holds.
DurableClaimIsTrue ==
  \A r \in Present : claim[r] = "durable" => row[r] = status[r]

\* The server keeps the registry's promise: a run executes only in a slot of
\* its own and ends once, whatever handlers and workers interleave
\* (run_manager.rs admission, cancel and publication).
Lifecycle == INSTANCE RunLifecycle WITH state <- status, held <- reserved
ImplementsLifecycle == Lifecycle!Spec

\* A row that reached a terminal status keeps it.
TerminalRowIsFinal ==
  [][\A r \in RunId : row[r] \in Done => row'[r] = row[r]]_vars

\* No run is executed by two worker threads, in turn or at once: its
\* checkpoint is consumed once and its id is issued once.
OneWorkerPerRun ==
  [][\A r \in RunId : worker[r] # "none" /\ worker'[r] # worker[r] => worker'[r] # "spawned"]_vars

\* A worker that finds its record evicted before it could persist it has left
\* a terminal row behind (the README's persisted terminal projections).
EvictedRunIsDurable == \A r \in RunId : worker[r] = "dead" => row[r] \in Done

\* An accepted cancel ends the run.
CancelTakesEffect ==
  \A r \in RunId : (r \in cancelled /\ status[r] = "running") ~> status[r] # "running"

\* A handler that holds the mutex gives it back, also when it is a
\* synchronous call that polls a run that never ends.
MutexReleased == \A c \in Client : outer = c ~> outer # c

=============================================================================
