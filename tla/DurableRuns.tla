---------------------------- MODULE DurableRuns ----------------------------
(***************************************************************************)
(* One SQLite store and the servers that use it.  The daemon builds a      *)
(* server per connection; every server recovers the store when it is       *)
(* built, and the daemon recovers it when it starts.  Run without a        *)
(* daemon (--direct) a process has one server.  A crash ends every thread  *)
(* and leaves the rows.                                                    *)
(*                                                                         *)
(* Handlers and workers are threads <<server, run, stage>>: a handler      *)
(* that saves a checkpoint (creating), a resume that passed its checks     *)
(* (checked) and then consumed the checkpoint (launching), a synchronous   *)
(* execute that waits for its run and saves it again (polling), a worker   *)
(* (working, persisting).  A thread outlives the connection it came from.  *)
(* Registry, slots and the mutex are the subject of RunServer.             *)
(***************************************************************************)
EXTENDS FiniteSets

CONSTANTS
  Run,       (* run ids, each issued once                                   *)
  Server,    (* connections                                                 *)
  Approval,  (* approval ids                                                *)
  Audience,  (* who is asked                                                *)
  Modes,     (* with a daemon (FALSE), or --direct (TRUE): one server       *)
  Events     (* what may happen in an instance: see MayHappen               *)

MayHappen ==
  {"crash", "disconnect", "row", "checkpoint", "consume", "launch", "persist", "decide",
   "deadline"}

ASSUME DurableAssumption ==
  /\ IsFiniteSet(Run) /\ IsFiniteSet(Server) /\ IsFiniteSet(Approval)
  /\ Modes \subseteq BOOLEAN
  /\ Events \subseteq MayHappen

VARIABLES
  direct,    (* no daemon: a process is one server                          *)
  alive,     (* the process runs                                            *)
  server,    (* connections that have a server                              *)
  threads,   (* handlers and workers under way                              *)
  issued,    (* run ids that were allocated                                 *)
  row,       (* status in executions                                        *)
  ckpt,      (* the run's resume checkpoint                                 *)
  status,    (* status of every approval                                    *)
  subject,   (* what an approval is about: <<run, audience>>                *)
  latest,    (* per run, the approval created last                          *)
  started,   (* history: runs that were given to a worker                   *)
  again,     (* history: runs that were given to a second one               *)
  outcome,   (* history: how the run's engine ended                         *)
  lost       (* history: runs whose row was active when the process ended   *)

processVars  == <<direct, alive, server>>
approvalVars == <<status, subject, latest>>
historyVars  == <<started, again, outcome, lost>>
vars == <<processVars, threads, issued, row, ckpt, approvalVars, historyVars>>

NoSubject == <<>>
Stage == {"creating", "checked", "launching", "polling", "working", "persisting"}
Status ==
  {"none", "checkpointed", "running", "completed", "failed", "cancelled",
   "interrupted_non_resumable", "legacy_unverified"}

Init ==
  /\ direct \in Modes
  /\ alive = FALSE
  /\ server = {}
  /\ threads = {}
  /\ issued = {}
  /\ row = [r \in Run |-> "none"]
  /\ ckpt = [r \in Run |-> "none"]
  /\ status = [a \in Approval |-> "none"]
  /\ subject = [a \in Approval |-> NoSubject]
  /\ latest = [r \in Run |-> {}]
  /\ started = {}
  /\ again = {}
  /\ outcome = [r \in Run |-> "none"]
  /\ lost = {}

SetRow(r, s) == row' = [row EXCEPT ![r] = s]

MoveTo(s, r, from, to) ==
  /\ <<s, r, from>> \in threads
  /\ threads' = (threads \ {<<s, r, from>>}) \cup {<<s, r, to>>}

Return(s, r, from) ==
  /\ <<s, r, from>> \in threads
  /\ threads' = threads \ {<<s, r, from>>}

\* A worker thread is spawned for the run.
Spawned(r) ==
  /\ started' = started \cup {r}
  /\ again' = again \cup ({r} \cap started)
  /\ UNCHANGED <<outcome, lost>>

-----------------------------------------------------------------------------
(* Processes and connections. *)

\* Rows of runs that were active are given another status.
Marked(s) == row' = [r \in Run |-> IF row[r] = "running" THEN s ELSE row[r]]

\* recover_owned_state: no row names an owner.
DaemonStart ==
  /\ ~direct /\ ~alive
  /\ alive' = TRUE
  /\ Marked("legacy_unverified")
  /\ UNCHANGED <<direct, server, threads, issued, ckpt, approvalVars, historyVars>>

\* Deviation: only runs that were not begun are recovered.
RecoverAccepted == row' = [r \in Run |-> IF row[r] = "accepted" THEN "interrupted_non_resumable" ELSE row[r]]

\* recover_incomplete_executions
Recover == Marked("interrupted_non_resumable")

Connect(s) ==
  /\ ~direct /\ alive /\ s \notin server
  /\ Recover
  /\ server' = server \cup {s}
  /\ UNCHANGED <<direct, alive, threads, issued, ckpt, approvalVars, historyVars>>

DirectStart(s) ==
  /\ direct /\ ~alive
  /\ alive' = TRUE
  /\ Recover
  /\ server' = {s}
  /\ UNCHANGED <<direct, threads, issued, ckpt, approvalVars, historyVars>>

\* The connection ends; its threads go on.
Disconnect(s) ==
  /\ "disconnect" \in Events /\ ~direct /\ s \in server
  /\ server' = server \ {s}
  /\ UNCHANGED <<direct, alive, threads, issued, row, ckpt, approvalVars, historyVars>>

\* The process ends, by a crash or because its only client has gone.
Crash ==
  /\ "crash" \in Events /\ alive
  /\ alive' = FALSE
  /\ server' = {}
  /\ threads' = {}
  /\ lost' = lost \cup {r \in Run : row[r] = "running"}
  /\ UNCHANGED <<direct, issued, row, ckpt, approvalVars, started, again, outcome>>

-----------------------------------------------------------------------------
(* Runs. *)

\* graph_run_start, or graph_execute, which waits for the run: the row, whose
\* failure is ignored, then the worker.
StartRun(s, r) ==
  /\ s \in server /\ r \notin issued
  /\ issued' = issued \cup {r}
  /\ SetRow(r, "running") \/ ("row" \in Events /\ UNCHANGED row)
  /\ \E waits \in SUBSET {<<s, r, "polling">>} :
       threads' = threads \cup {<<s, r, "working">>} \cup waits
  /\ Spawned(r)
  /\ UNCHANGED <<processVars, ckpt, approvalVars>>

\* graph_execute saves the execution again with the status it polled last, which is not
\* terminal when its deadline passed; both writes of it may fail.
SaveExecuted(s, r) ==
  /\ Return(s, r, "polling")
  /\ \E polled \in {outcome[r], "running"} \ {"none"} :
       /\ polled = "running" => "deadline" \in Events
       /\ SetRow(r, polled) \/ ("row" \in Events /\ UNCHANGED row)
  /\ UNCHANGED <<processVars, issued, ckpt, approvalVars, historyVars>>

\* graph_run_start with a checkpoint: the row, then the checkpoint.
SaveCheckpointRow(s, r) ==
  /\ s \in server /\ r \notin issued
  /\ issued' = issued \cup {r}
  /\ \/ SetRow(r, "checkpointed") /\ threads' = threads \cup {<<s, r, "creating">>}
     \/ "row" \in Events /\ UNCHANGED <<row, threads>>
  /\ UNCHANGED <<processVars, ckpt, approvalVars, historyVars>>

CreateCheckpoint(s, r) ==
  /\ Return(s, r, "creating")
  /\ ckpt' = [ckpt EXCEPT ![r] = "available"]
  /\ UNCHANGED <<processVars, issued, row, approvalVars, historyVars>>

\* The row is set to failed, if that works.
CreateFails(s, r) ==
  /\ "checkpoint" \in Events
  /\ Return(s, r, "creating")
  /\ SetRow(r, "failed") \/ UNCHANGED row
  /\ UNCHANGED <<processVars, issued, ckpt, approvalVars, historyVars>>

AwaitsDecision(r) == \E a \in latest[r] : status[a] = "pending"

\* The checks of graph_run_resume: approval, consumed flag, contract.
ResumeCheck(s, r) ==
  /\ s \in server
  /\ ckpt[r] = "available" /\ row[r] # "none"
  /\ ~AwaitsDecision(r)
  /\ threads' = threads \cup {<<s, r, "checked">>}
  /\ UNCHANGED <<processVars, issued, row, ckpt, approvalVars, historyVars>>

\* Deviation: the checkpoint is not looked at again.
ConsumeAgain(s, r) ==
  /\ MoveTo(s, r, "checked", "launching")
  /\ ckpt' = [ckpt EXCEPT ![r] = "consumed"]
  /\ UNCHANGED <<processVars, issued, row, approvalVars, historyVars>>

\* Deviation: the checkpoint is not marked.
ConsumeKeeping(s, r) ==
  /\ ckpt[r] = "available"
  /\ MoveTo(s, r, "checked", "launching")
  /\ UNCHANGED <<processVars, issued, row, ckpt, approvalVars, historyVars>>

\* consume_resume_checkpoint: compare and set in one transaction.
Consume(s, r) ==
  /\ ckpt[r] = "available"
  /\ MoveTo(s, r, "checked", "launching")
  /\ ckpt' = [ckpt EXCEPT ![r] = "consumed"]
  /\ UNCHANGED <<processVars, issued, row, approvalVars, historyVars>>

ConsumeRefused(s, r) ==
  /\ ckpt[r] = "consumed" \/ "consume" \in Events
  /\ Return(s, r, "checked")
  /\ UNCHANGED <<processVars, issued, row, ckpt, approvalVars, historyVars>>

\* launch_resumed: the row, then the worker.
Launch(s, r) ==
  /\ row[r] # "none"
  /\ MoveTo(s, r, "launching", "working")
  /\ SetRow(r, "running")
  /\ Spawned(r)
  /\ UNCHANGED <<processVars, issued, ckpt, approvalVars>>

\* No room in the registry, or no row: the checkpoint stays consumed.
LaunchFails(s, r) ==
  /\ "launch" \in Events \/ row[r] = "none"
  /\ Return(s, r, "launching")
  /\ UNCHANGED <<processVars, issued, row, ckpt, approvalVars, historyVars>>

EngineEnds(s, r) ==
  /\ MoveTo(s, r, "working", "persisting")
  /\ \E o \in {"completed", "failed", "cancelled"} : outcome' = [outcome EXCEPT ![r] = o]
  /\ UNCHANGED <<processVars, issued, row, ckpt, approvalVars, started, again, lost>>

\* Deviation: the row is taken for completed whatever the engine said.
PersistCompleted(s, r) ==
  /\ row[r] # "none"
  /\ Return(s, r, "persisting")
  /\ SetRow(r, "completed")
  /\ UNCHANGED <<processVars, issued, ckpt, approvalVars, historyVars>>

\* persist_terminal_projection
Persist(s, r) ==
  /\ row[r] # "none"
  /\ Return(s, r, "persisting")
  /\ SetRow(r, outcome[r])
  /\ UNCHANGED <<processVars, issued, ckpt, approvalVars, historyVars>>

PersistFails(s, r) ==
  /\ row[r] = "none" \/ "persist" \in Events
  /\ Return(s, r, "persisting")
  /\ UNCHANGED <<processVars, issued, row, ckpt, approvalVars, historyVars>>

-----------------------------------------------------------------------------
(* Approvals; each operation is a transaction. *)

\* create_checkpoint_approval: a request that is pending already is returned
\* or refused.
Request(s, a, r, u) ==
  /\ s \in server /\ status[a] = "none"
  /\ ckpt[r] = "available"
  /\ \A b \in Approval : subject[b] = <<r, u>> => status[b] # "pending"
  /\ status' = [status EXCEPT ![a] = "pending"]
  /\ subject' = [subject EXCEPT ![a] = <<r, u>>]
  /\ latest' = [latest EXCEPT ![r] = {a}]
  /\ UNCHANGED <<processVars, threads, issued, row, ckpt, historyVars>>

\* Deviation: a rejected checkpoint stays available.
DecideKeeping(a, r, d) ==
  /\ "decide" \in Events /\ alive
  /\ status[a] = "pending" /\ subject[a][1] = r
  /\ ckpt[r] = "available"
  /\ ckpt' = IF d = "rejected" THEN ckpt ELSE [ckpt EXCEPT ![r] = "consumed"]
  /\ status' = [status EXCEPT ![a] = d]
  /\ UNCHANGED <<processVars, threads, issued, row, subject, latest, historyVars>>

\* decide_checkpoint_approval: a decision spends the checkpoint.
Decide(a, r, d) ==
  /\ "decide" \in Events /\ alive
  /\ status[a] = "pending" /\ subject[a][1] = r
  /\ ckpt[r] = "available"
  /\ ckpt' = [ckpt EXCEPT ![r] = "consumed"]
  /\ status' = [status EXCEPT ![a] = d]
  /\ UNCHANGED <<processVars, threads, issued, row, subject, latest, historyVars>>

\* Deviation: the checkpoint is left to others.
ExpireKeeping(a, r) ==
  /\ "decide" \in Events /\ alive
  /\ status[a] = "pending" /\ subject[a][1] = r
  /\ status' = [status EXCEPT ![a] = "expired"]
  /\ UNCHANGED <<processVars, threads, issued, row, ckpt, subject, latest, historyVars>>

\* decide_checkpoint_approval after the expiration.
Expire(a, r) ==
  /\ "decide" \in Events /\ alive
  /\ status[a] = "pending" /\ subject[a][1] = r
  /\ ckpt' = [ckpt EXCEPT ![r] = "consumed"]
  /\ status' = [status EXCEPT ![a] = "expired"]
  /\ UNCHANGED <<processVars, threads, issued, row, subject, latest, historyVars>>

-----------------------------------------------------------------------------

Handler(s, r) ==
  \/ StartRun(s, r) \/ SaveExecuted(s, r) \/ SaveCheckpointRow(s, r) \/ CreateCheckpoint(s, r)
  \/ CreateFails(s, r) \/ ResumeCheck(s, r) \/ Consume(s, r) \/ ConsumeRefused(s, r)
  \/ Launch(s, r) \/ LaunchFails(s, r)

Worker(s, r) == EngineEnds(s, r) \/ Persist(s, r) \/ PersistFails(s, r)

Next ==
  \/ DaemonStart \/ Crash
  \/ \E s \in Server : Connect(s) \/ DirectStart(s) \/ Disconnect(s)
  \/ \E s \in Server, r \in Run : Handler(s, r) \/ Worker(s, r)
  \/ \E s \in Server, a \in Approval, r \in Run, u \in Audience : Request(s, a, r, u)
  \/ \E a \in Approval, r \in Run :
       Expire(a, r) \/ \E d \in {"approved", "rejected"} : Decide(a, r, d)

Spec == Init /\ [][Next]_vars

-----------------------------------------------------------------------------
(* Properties. *)

\* Every variable stays in its range.
TypeOK ==
  /\ direct \in BOOLEAN /\ alive \in BOOLEAN
  /\ server \subseteq Server
  /\ threads \subseteq Server \X Run \X Stage
  /\ issued \subseteq Run
  /\ row \in [Run -> Status]
  /\ ckpt \in [Run -> {"none", "available", "consumed"}]
  /\ status \in [Approval -> {"none", "pending", "approved", "rejected", "expired"}]
  /\ subject \in [Approval -> (Run \X Audience) \cup {NoSubject}]
  /\ latest \in [Run -> SUBSET Approval]
  /\ started \subseteq Run
  /\ again \subseteq Run
  /\ outcome \in [Run -> {"none", "completed", "failed", "cancelled"}]
  /\ lost \subseteq Run

\* A run is given to one worker in its life, whatever connections resume it
\* and wherever the process crashes.
ExecutedOnce == again = {}

\* A checkpoint whose approval was decided or has expired is spent: no resume
\* can use it later.
DecisionSpendsCheckpoint ==
  \A a \in Approval, r \in Run :
    subject[a] # NoSubject /\ subject[a][1] = r /\ status[a] # "pending" => ckpt[r] = "consumed"

\* A run that was decided about is not executed by a resume that raced the
\* decision.
DecidedNeverRuns ==
  \A a \in Approval : status[a] \in {"approved", "rejected"} => subject[a][1] \notin started

\* An audience is asked once about a checkpoint.
AskedOnce ==
  \A a, b \in Approval : a # b /\ subject[a] = subject[b] => subject[a] = NoSubject

\* "no fake running or completed state": while the process runs, a running
\* row has a worker, or its engine has ended and the write of its terminal
\* status failed or is overwritten by a synchronous call whose deadline passed;
\* and a terminal row is what the engine returned.
NoFakeState ==
  \A r \in Run :
    /\ alive /\ row[r] = "running" =>
         (\E s \in Server : <<s, r, "working">> \in threads) \/ outcome[r] # "none"
    /\ row[r] \in {"completed", "cancelled"} => outcome[r] = row[r]

\* Checkpoints, approvals and workers of all connections implement tickets.
Tickets == INSTANCE OneShotTicket WITH
  ticket <- ckpt,
  decided <- {r \in Run : \E a \in Approval :
                status[a] \in {"approved", "rejected"} /\ subject[a][1] = r}
ImplementsTickets == Tickets!Spec

\* "uncheckpointed active rows become interrupted_non_resumable after
\* restart": once a server has been built.
RestartInterrupts ==
  server # {} => \A r \in lost : row[r] = "interrupted_non_resumable"

\* The same without a daemon: a restarted process says of every run it lost
\* that it was interrupted, and goes on saying so.
DirectRestartInterrupts == direct => RestartInterrupts

\* A row that says interrupted belongs to a run that is not executing.
RecoveryTruthful ==
  \A t \in threads : t[3] = "working" => row[t[2]] # "interrupted_non_resumable"

\* "model client cannot resume without operator decision": a run whose
\* approval is pending does not execute.
PendingBlocksResume ==
  \A a \in Approval : status[a] = "pending" => subject[a][1] \notin started

\* "resume its pinned run exactly once": a checkpoint that a resume consumed
\* has led to a start, or still will.
ResumedExactlyOnce ==
  \A r \in Run :
    ckpt[r] = "consumed" /\ (\A a \in Approval : status[a] = "none") =>
      r \in started \/ \E s \in Server : <<s, r, "launching">> \in threads

=============================================================================
