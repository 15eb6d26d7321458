---------------------------- MODULE RunExecution ----------------------------
(***************************************************************************)
(* One run, as execute_with_store_options carries it out: the worker       *)
(* thread, the engine's task, the wall-clock timer, a caller that cancels, *)
(* a reader of events, and the witness store.  The worker waits for the    *)
(* engine or for the timer, in the second case aborts the engine, then     *)
(* reads what is left, decides what the run is reported as and publishes   *)
(* it.  Notify::notify_waiters reaches only who is waiting at that moment. *)
(*                                                                         *)
(* The graph is a chain of calls.  A call of kind "llm" waits for its      *)
(* provider, "evidence" as well and its answer is a document, "delete" is  *)
(* a transform that removes the document.  The state is the number of      *)
(* calls that have written and the document.                               *)
(***************************************************************************)
EXTENDS EventBuffer, Witnesses

CONSTANTS
  Plans,       (* chains with their limits: [chain, iterations, nodes, clock] *)
  Documents,   (* what a provider may answer an evidence call                 *)
  Captures,    (* witnesses a caller may capture                              *)
  CollectorCap,(* 2048: events the collector keeps                            *)
  HasStore,    (* the server has a SQLite store                               *)
  Follow       (* the cursor a reader goes on from: "last" + 1, or "next"     *)

NoDocument == [object |-> FALSE, claims |-> <<>>, sources |-> <<>>]

ASSUME ExecutionAssumption ==
  /\ \A p \in Plans : /\ p.chain \in Seq({"llm", "evidence", "delete"}) /\ p.chain # <<>>
                      /\ p.iterations \in Nat \ {0} /\ p.nodes \in Nat /\ p.clock \in BOOLEAN
  /\ NoDocument \notin Documents
  /\ CollectorCap \in Nat \ {0}
  /\ HasStore \in BOOLEAN
  /\ Follow \in {"last", "next"}

VARIABLES
  plan,         (* the chain and its limits; nodes = 0 is no node budget      *)
  worker,       (* where the worker thread is                                 *)
  task,         (* where the engine's task is                                 *)
  written,      (* calls that have written their output                       *)
  document,     (* the evidence document in the state                         *)
  ended,        (* what the engine's task ended with                          *)
  stop,         (* engine_cancel                                              *)
  woken,        (* the task's `notified()` was reached                        *)
  aborted,      (* handle.abort() was called                                  *)
  collected,    (* events in the collector                                    *)
  started,      (* NodeStart events among them                                *)
  cancelled,    (* the run's cancel flag                                      *)
  canceller,    (* where the caller of `cancel` is                            *)
  timer,        (* where the timer thread is                                  *)
  timedOut,     (* timed_out                                                  *)
  late,         (* the wall-clock limit has passed                            *)
  complete,     (* the timer's channel holds a message                        *)
  result,       (* `result` of the worker                                     *)
  taken,        (* what the worker read when the engine was gone              *)
  evidence,     (* evidence_error, or "complete" for complete envelopes       *)
  record,       (* the run's record in the registry                           *)
  durable,      (* the ring in SQLite                                         *)
  witness,      (* rows of source_witnesses                                   *)
  reader,       (* the cursor a reader goes on from, what it saw, if it was warned *)
  heard         (* history: the notifications that found a waiter             *)

workerVars == <<worker, result, taken, evidence>>
taskVars   == <<task, written, document, ended, collected, started>>
timerVars  == <<timer, timedOut, late, complete>>
storeVars  == <<durable, witness>>
vars == <<plan, workerVars, taskVars, stop, woken, aborted, cancelled, canceller, timerVars,
          record, storeVars, reader, heard>>

Least(a, b) == IF a < b THEN a ELSE b

\* budget_iteration_limit for a chain, and the limit the engine is given.
budget_iteration_limit(p) ==
  LET fits == Least(p.nodes, Least(Len(p.chain), p.iterations)) IN IF fits = 0 THEN 1 ELSE fits

RecursionLimit ==
  IF plan.nodes = 0 THEN plan.iterations ELSE Least(budget_iteration_limit(plan), plan.iterations)

NothingTaken == [written |-> 0, document |-> NoDocument, events |-> 0, nodes |-> 0, late |-> FALSE]

Init ==
  /\ plan \in Plans
  /\ worker = "begin" /\ result = "none" /\ taken = NothingTaken /\ evidence = "none"
  /\ task = "none" /\ written = 0 /\ document = NoDocument /\ ended = "none"
  /\ collected = 0 /\ started = 0
  /\ stop = FALSE /\ woken = FALSE /\ aborted = FALSE
  /\ cancelled = FALSE /\ canceller = "idle"
  /\ timer = "off" /\ timedOut = FALSE /\ late = FALSE /\ complete = FALSE
  /\ record = [status |-> "running", error |-> "none", budget |-> "none", envelopes |-> FALSE,
               written |-> 0, document |-> NoDocument, persistence |-> "volatile",
               ring |-> EmptyRing]
  /\ durable = EmptyRing
  /\ witness = {}
  /\ reader = [cursor |-> 0, seen |-> {}, warned |-> FALSE]
  /\ heard = {}

-----------------------------------------------------------------------------
(* The engine's task: a superstep per call of the chain. *)

EngineUnchanged ==
  UNCHANGED <<plan, workerVars, stop, aborted, cancelled, canceller, timerVars, record,
              storeVars, reader, heard>>

Emits(n) == collected' = Least(CollectorCap, collected + n)

Quiet == UNCHANGED <<collected, started>>

GoTo(pc) == task' = pc /\ UNCHANGED <<written, document, ended>>

\* The task returns; a call that fails emits its NodeEnd before RunEnd.
Ends(how, events) ==
  /\ task' = "ended" /\ ended' = how
  /\ Emits(events)
  /\ UNCHANGED <<written, document, started>>

Begin == task = "spawned" /\ Emits(1) /\ UNCHANGED started /\ GoTo("boundary")

\* The checks at the top of the loop, in their order.
Finish == task = "boundary" /\ written = Len(plan.chain) /\ Ends("ok", 1)

Stopped == task = "boundary" /\ written < Len(plan.chain) /\ stop /\ Ends("cancelled", 1)

TooMany ==
  /\ task = "boundary" /\ written < Len(plan.chain) /\ ~stop
  /\ written >= RecursionLimit
  /\ Ends("iterations", 1)

\* SuperstepStart and NodeStart.
StartCall ==
  /\ task = "boundary" /\ written < Len(plan.chain) /\ ~stop
  /\ written < RecursionLimit
  /\ Emits(2)
  /\ started' = IF collected + 1 < CollectorCap THEN started + 1 ELSE started
  /\ GoTo("called")

Kind == plan.chain[written + 1]

\* ctx.check() at the start of a node.
EnterCall ==
  /\ task = "called"
  /\ \/ cancelled /\ Ends("cancelled", 2)
     \/ ~cancelled /\ GoTo(IF Kind = "delete" THEN "writing" ELSE "asking") /\ Quiet

\* cancellation_requested: the flag is tested, then `notified()` is created.
TestFlag ==
  /\ task = "asking"
  /\ \/ cancelled /\ Ends("cancelled", 2)
     \/ ~cancelled /\ GoTo("tested") /\ Quiet

Listen == task = "tested" /\ GoTo("listening") /\ Quiet

WakeCall == task = "listening" /\ woken /\ Ends("cancelled", 2)

\* select! takes the provider's answer; also when the notification is there too.
\* The text of a provider's error is its own: it may say "iteration".
ProviderAnswers ==
  /\ task = "listening"
  /\ \/ GoTo("answered") /\ Quiet
     \/ \E error \in {"error", "iteration in text"} : Ends(error, 2)

\* Deviation: the answer is written without a second look at the flag.
CheckAgainSkipped == task = "answered" /\ GoTo("writing") /\ Quiet

CheckAgain ==
  /\ task = "answered"
  /\ \/ cancelled /\ Ends("cancelled", 2)
     \/ ~cancelled /\ GoTo("writing") /\ Quiet

\* The output is written; a document of the wrong shape is refused.
WriteOutput ==
  /\ task = "writing"
  /\ \/ /\ Kind = "llm" /\ UNCHANGED document
        /\ task' = "wrote" /\ written' = written + 1 /\ UNCHANGED ended /\ Quiet
     \/ /\ Kind = "delete" /\ document' = NoDocument
        /\ task' = "wrote" /\ written' = written + 1 /\ UNCHANGED ended /\ Quiet
     \/ /\ Kind = "evidence"
        /\ \E d \in Documents :
             \/ /\ validate_research_evidence(d)
                /\ document' = d /\ task' = "wrote" /\ written' = written + 1
                /\ UNCHANGED ended /\ Quiet
             \/ /\ ~validate_research_evidence(d)
                /\ Ends("error", 2)

\* StateUpdate, NodeEnd and SuperstepEnd.
EndCall == task = "wrote" /\ Emits(3) /\ UNCHANGED started /\ GoTo("boundary")

\* An aborted task is dropped where it next waits; its outcome is lost.
AbortLands ==
  /\ aborted /\ task \notin {"none", "ended"}
  /\ task' = "ended" /\ ended' = "aborted"
  /\ UNCHANGED <<written, document>> /\ Quiet

EngineStep ==
  \/ Begin \/ Finish \/ Stopped \/ TooMany \/ StartCall \/ EnterCall \/ TestFlag \/ Listen
  \/ WakeCall \/ CheckAgain \/ WriteOutput \/ EndCall \/ AbortLands

Engine == (EngineStep \/ ProviderAnswers) /\ EngineUnchanged /\ UNCHANGED woken

-----------------------------------------------------------------------------
(* cancel: the flag under the registry's lock, then the notification. *)

\* Who is in `notified()` when notify_waiters is called.
NotifyCall == woken' = (woken \/ task = "listening")

RequestCancel ==
  /\ canceller = "idle" /\ record.status = "running"
  /\ cancelled' = TRUE /\ canceller' = "notify"
  /\ UNCHANGED <<plan, workerVars, taskVars, stop, woken, aborted, timerVars, record, storeVars,
                 reader, heard>>

NotifyCancel ==
  /\ canceller = "notify" /\ canceller' = "done"
  /\ NotifyCall
  /\ heard' = IF task = "listening" THEN heard \cup {"cancel"} ELSE heard
  /\ UNCHANGED <<plan, workerVars, taskVars, stop, aborted, cancelled, timerVars, record,
                 storeVars, reader>>

-----------------------------------------------------------------------------
(* The timer thread: recv_timeout, then the flag, then the notification. *)

TimerUnchanged ==
  UNCHANGED <<plan, workerVars, taskVars, stop, woken, aborted, cancelled, canceller, record,
              storeVars, reader>>

LimitPasses ==
  /\ plan.clock /\ ~late /\ task # "none"
  /\ late' = TRUE
  /\ UNCHANGED <<timer, timedOut, complete, heard>> /\ TimerUnchanged

Expire ==
  /\ timer = "armed" /\ late /\ ~complete
  /\ timer' = "expired" /\ timedOut' = TRUE
  /\ UNCHANGED <<late, complete, heard>> /\ TimerUnchanged

NotifyTimeout ==
  /\ timer = "expired" /\ timer' = "ended"
  /\ heard' = IF worker = "waiting" THEN heard \cup {"clock"} ELSE heard
  /\ UNCHANGED <<timedOut, late, complete>> /\ TimerUnchanged

CompletionReceived ==
  /\ timer = "armed" /\ complete
  /\ timer' = "ended"
  /\ UNCHANGED <<timedOut, late, complete, heard>> /\ TimerUnchanged

Timer == LimitPasses \/ Expire \/ NotifyTimeout \/ CompletionReceived

-----------------------------------------------------------------------------
(* The worker thread *)

WorkerUnchanged ==
  UNCHANGED <<plan, written, document, ended, collected, started, cancelled, canceller, timedOut, late, witness,
              reader, heard>>

WorkerAt(from, to) == worker = from /\ worker' = to

\* The execution returns an Err.
GiveUp(from) ==
  /\ WorkerAt(from, "erring")
  /\ UNCHANGED <<task, stop, woken, aborted, timer, complete, result, taken, evidence, record, durable>>

\* start_with_completion: an Err is written over the status only.
WriteError ==
  /\ WorkerAt("erring", "report")
  /\ record' = [record EXCEPT !.status = "failed", !.error = "error"]
  /\ UNCHANGED <<task, stop, woken, aborted, timer, complete, result, taken, evidence, durable>>

CompileFails == GiveUp("begin")

Start ==
  /\ WorkerAt("begin", IF plan.clock THEN "arming" ELSE "waiting")
  /\ task' = "spawned"
  /\ UNCHANGED <<stop, woken, aborted, timer, complete, result, taken, evidence, record, durable>>

ArmTimer ==
  /\ WorkerAt("arming", "armed")
  /\ timer' = "armed"
  /\ UNCHANGED <<task, stop, woken, aborted, complete, result, taken, evidence, record, durable>>

\* select! creates `notified()`: from here on the timer is heard.
Await ==
  /\ WorkerAt("armed", "waiting")
  /\ UNCHANGED <<task, stop, woken, aborted, timer, complete, result, taken, evidence, record, durable>>

Joined ==
  /\ WorkerAt("waiting", IF plan.clock THEN "completing" ELSE "exporting")
  /\ task = "ended"
  /\ result' = ended
  /\ UNCHANGED <<task, stop, woken, aborted, timer, complete, taken, evidence, record, durable>>

StopEngine ==
  /\ WorkerAt("waiting", "notifying")
  /\ "clock" \in heard
  /\ stop' = TRUE
  /\ UNCHANGED <<task, woken, aborted, timer, complete, result, taken, evidence, record, durable>>

WakeProvider ==
  /\ WorkerAt("notifying", "aborting")
  /\ NotifyCall
  /\ UNCHANGED <<task, stop, aborted, timer, complete, result, taken, evidence, record, durable>>

\* Deviation: the task is woken but not aborted.
AbortSkipped ==
  /\ WorkerAt("aborting", "joining")
  /\ UNCHANGED <<task, stop, woken, aborted, timer, complete, result, taken, evidence, record, durable>>

Abort ==
  /\ WorkerAt("aborting", "joining")
  /\ aborted' = TRUE
  /\ UNCHANGED <<task, stop, woken, timer, complete, result, taken, evidence, record, durable>>

\* Deviation: the worker goes on while the aborted task may still run.
AwaitAbortedSkipped ==
  /\ WorkerAt("joining", "completing")
  /\ result' = "budget"
  /\ UNCHANGED <<task, stop, woken, aborted, timer, complete, taken, evidence, record, durable>>

\* let _ = handle.await: whatever the task ended with is not looked at.
AwaitAborted ==
  /\ WorkerAt("joining", "completing")
  /\ task = "ended"
  /\ result' = "budget"
  /\ UNCHANGED <<task, stop, woken, aborted, timer, complete, taken, evidence, record, durable>>

\* Deviation: the timer is joined without having been told.
SendCompleteSkipped ==
  /\ WorkerAt("completing", "joiningTimer")
  /\ UNCHANGED <<task, stop, woken, aborted, timer, complete, result, taken, evidence, record, durable>>

SendComplete ==
  /\ WorkerAt("completing", "joiningTimer")
  /\ complete' = TRUE
  /\ UNCHANGED <<task, stop, woken, aborted, timer, result, taken, evidence, record, durable>>

JoinTimer ==
  /\ WorkerAt("joiningTimer", "exporting")
  /\ timer = "ended"
  /\ UNCHANGED <<task, stop, woken, aborted, timer, complete, result, taken, evidence, record, durable>>

\* snapshot.export(), the collector and the elapsed time; a state or an output that is
\* too large ends the execution with an Err.
Export ==
  \/ /\ WorkerAt("exporting", "checking")
     /\ taken' = [written |-> written, document |-> document, events |-> collected,
                  nodes |-> started, late |-> late]
     /\ UNCHANGED <<task, stop, woken, aborted, timer, complete, result, evidence, record, durable>>
  \/ GiveUp("exporting")

NeedsEvidence == result = "ok" /\ \E i \in DOMAIN plan.chain : plan.chain[i] = "evidence"

\* What validate_witness_dependencies may answer; a read of the store may fail.
EvidenceOutcomes ==
  IF ~NeedsEvidence THEN {"none"}
  ELSE IF ~HasStore THEN {"WITNESS_STORE_REQUIRED"}
  ELSE IF taken.document = NoDocument THEN {"WITNESS_EVIDENCE_MISSING"}
  ELSE LET errors == validate_witness_dependencies(taken.document, witness)
       IN  (IF errors = {} THEN {"complete"} ELSE errors) \cup {"WITNESS_STORE_ERROR"}

CheckEvidence ==
  /\ WorkerAt("checking", "settling")
  /\ evidence' \in EvidenceOutcomes
  /\ UNCHANGED <<task, stop, woken, aborted, timer, complete, result, taken, record, durable>>

WallExhausted == plan.clock /\ (taken.late \/ timedOut)

\* Deviation: only a count above the limit is an exhausted budget.
NodesExhaustedAboveOnly == plan.nodes # 0 /\ taken.nodes > plan.nodes

\* The limit of supersteps is recognised by a word in the text of an error.
iteration_error == result \in {"iterations", "iteration in text"}

NodesExhausted ==
  /\ plan.nodes # 0
  /\ taken.nodes > plan.nodes \/ (taken.nodes >= plan.nodes /\ iteration_error)

BudgetExhausted ==
  IF WallExhausted THEN "clock" ELSE IF NodesExhausted THEN "nodes" ELSE "none"

Error ==
  IF BudgetExhausted # "none" THEN "budget"
  ELSE IF evidence \notin {"none", "complete"} THEN evidence
  ELSE IF result = "ok" THEN "none" ELSE result

terminal_outcome ==
  IF cancelled THEN "cancelled" ELSE IF Error # "none" THEN "failed" ELSE "completed"

\* The last update: verdict, state, receipt and events in one critical section.
Settle ==
  /\ WorkerAt("settling", "report")
  /\ record' = [status |-> terminal_outcome,
                error |-> IF cancelled THEN "none" ELSE Error,
                budget |-> BudgetExhausted,
                envelopes |-> evidence = "complete",
                written |-> taken.written,
                document |-> taken.document,
                persistence |-> "pending",
                ring |-> Pushed(record.ring, taken.events)]
  /\ UNCHANGED <<task, stop, woken, aborted, timer, complete, result, taken, evidence, durable>>

\* on_completion: the record is read back and its ring written, or the write fails.
Report ==
  /\ WorkerAt("report", "done")
  /\ \/ HasStore /\ record.status # "evicted" /\ durable' = record.ring
     \/ UNCHANGED durable
  /\ UNCHANGED <<task, stop, woken, aborted, timer, complete, result, taken, evidence, record>>

WorkerStep ==
  \/ CompileFails \/ Start \/ ArmTimer \/ Await \/ Joined \/ StopEngine \/ WakeProvider
  \/ Abort \/ AwaitAborted \/ SendComplete \/ JoinTimer \/ Export \/ CheckEvidence
  \/ Settle \/ WriteError \/ Report

Worker == WorkerStep /\ WorkerUnchanged

-----------------------------------------------------------------------------
(* The registry, the store and a reader around the run. *)

AroundUnchanged ==
  UNCHANGED <<plan, workerVars, taskVars, stop, woken, aborted, cancelled, canceller, timerVars,
              durable, heard>>

Terminal == {"completed", "failed", "cancelled"}

\* An allocation of another run evicts this one when it is terminal.
Evict ==
  /\ record.status \in Terminal
  /\ record' = [record EXCEPT !.status = "evicted"]
  /\ UNCHANGED <<witness, reader>> /\ AroundUnchanged

Capture ==
  /\ HasStore
  /\ \E c \in Captures : witness' = capture_witness(witness, c) /\ witness' # witness
  /\ UNCHANGED <<record, reader>> /\ AroundUnchanged

\* A row is damaged on disk: another envelope stands under its id.
Damage ==
  /\ \E r \in witness, c \in Captures :
       /\ c # r.capture
       /\ witness' = (witness \ {r}) \cup {[r EXCEPT !.capture = c]}
  /\ UNCHANGED <<record, reader>> /\ AroundUnchanged

\* graph_run_events, from the record, else from SQLite, else "run not found".
ReadPage(page) ==
  reader' = [cursor |-> IF Follow = "next" THEN page.next
                        ELSE IF page.events = {} THEN reader.cursor ELSE Max(page.events) + 1,
             seen |-> reader.seen \cup page.events,
             warned |-> reader.warned \/ page.gap]

ReadEvents ==
  /\ \/ record.status # "evicted" /\ ReadPage(MemoryPage(record.ring, reader.cursor))
     \/ /\ record.status = "evicted" /\ Held(durable) # {}
        /\ ReadPage(DurablePage(durable, reader.cursor))
  /\ UNCHANGED <<record, witness>> /\ AroundUnchanged

Next ==
  \/ Engine \/ RequestCancel \/ NotifyCancel \/ Timer \/ Worker
  \/ Evict \/ Capture \/ Damage \/ ReadEvents

\* Threads and tasks are scheduled.  Nothing is said of the provider, of how soon the
\* limit passes, or of what callers do.
Fairness ==
  /\ WF_vars(Worker)
  /\ WF_vars(EngineStep /\ EngineUnchanged /\ UNCHANGED woken)
  /\ WF_vars(NotifyCancel)
  /\ WF_vars(NotifyTimeout)
  /\ WF_vars(CompletionReceived)

Spec == Init /\ [][Next]_vars

FairSpec == Spec /\ Fairness

-----------------------------------------------------------------------------
(* Properties *)

Verdicts == Terminal \cup {"running", "evicted"}

\* Every variable has its type.
TypeOK ==
  /\ plan \in Plans
  /\ worker \in {"begin", "arming", "armed", "waiting", "notifying", "aborting", "joining",
                 "completing", "joiningTimer", "exporting", "checking", "settling", "erring",
                 "report", "done"}
  /\ task \in {"none", "spawned", "boundary", "called", "asking", "tested", "listening",
               "answered", "writing", "wrote", "ended"}
  /\ written \in Nat /\ collected \in Nat /\ started \in Nat
  /\ document \in Documents \cup {NoDocument}
  /\ ended \in {"none", "ok", "cancelled", "iterations", "error", "iteration in text", "aborted"}
  /\ {stop, woken, aborted, cancelled, timedOut, late, complete} \subseteq BOOLEAN
  /\ canceller \in {"idle", "notify", "done"}
  /\ timer \in {"off", "armed", "expired", "ended"}
  /\ result \in {"none", "ok", "cancelled", "iterations", "error", "iteration in text", "aborted",
                 "budget"}
  /\ record.status \in Verdicts
  /\ record.ring \in Rings /\ durable \in Rings
  /\ heard \subseteq {"cancel", "clock"}

\* The last update was made.
Settled == worker \in {"report", "done"} /\ record.persistence = "pending"

\* What a run reports is what its engine left: when the worker has read the state, no
\* task of the run is alive that could still write to it.  (The worker waits for the
\* aborted task to end before it reads.)
ReportedStateIsFinal ==
  worker \in {"checking", "settling"} \/ Settled =>
    /\ task = "ended"
    /\ taken.written = written /\ taken.document = document

\* A completed run carried out all its calls, within its limits.
CompletedIsWhole ==
  record.status = "completed" =>
    /\ record.written = Len(plan.chain)
    /\ "clock" \notin heard /\ ~cancelled
    /\ plan.nodes # 0 => taken.nodes <= plan.nodes

\* A run is reported as cancelled only if a caller asked for it: a timeout, which wakes
\* the provider call through the same notification, is not a cancellation.
CancelledWasRequested == record.status = "cancelled" => canceller # "idle"

\* A run that was stopped at a limit names the limit.
LimitIsNamed ==
  Settled =>
    /\ "clock" \in heard => record.budget = "clock"
    /\ (plan.nodes # 0 /\ ended = "iterations" /\ started = written /\ plan.nodes <= written
         /\ record.status = "failed") => record.error = "budget"

\* The verdict of a run agrees with how its execution went: the three parts above.
VerdictIsTrue == CompletedIsWhole /\ CancelledWasRequested /\ LimitIsNamed

\* "budget_exhausted": "max_nodes" (run_manager.rs, node_exhausted): the run was stopped
\* by its node budget.
NodeBudgetWasTheReason ==
  Settled /\ record.budget = "nodes" => taken.nodes > plan.nodes \/ result = "iterations"

\* What callers have captured: a row is never removed and keeps its id, also when it is
\* damaged.
Captured == {c \in Captures : \E r \in witness : r.id = Tag(c)}

\* Envelopes are reported as complete only if every claim of the reported document is
\* bound to a span of a text that had been captured by then, also when rows are damaged
\* meanwhile: an id that no capture ever answered with binds nothing.
EnvelopesAreCaptured ==
  record.envelopes =>
    \A b \in witness_bindings(record.document) :
      \E c \in Captured : b.id = Tag(c) /\ InRange(b.span, c.content)

\* A call that heard the cancellation writes nothing, and no call after it, even when
\* the provider's answer arrived at the same time.
HeardCancelWritesNothing == [][("cancel" \in heard) => written' = written]_vars

\* A reader that goes on from the last event it was given sees every event or is told
\* of a gap: through the ring, the terminal update, eviction and the durable copy.
ReaderMissesNothing ==
  reader.warned \/ \A c \in 0 .. (reader.cursor - 1) : c \in reader.seen

\* A stop that was heard ends the run: also when the provider never answers.
StoppedRunsEnd == heard # {} ~> worker = "done"

\* A run ends unless it waits for its provider for ever.
EndsOrWaitsForProvider == <>[](task = "listening") \/ <>(worker = "done")
=============================================================================
