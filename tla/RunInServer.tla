----------------------------- MODULE RunInServer -----------------------------
(***************************************************************************)
(* An execution of RunExecution as the worker thread that RunServer sees.  *)
(* RunServer takes from the engine what it returns ("ok" or "error") and   *)
(* publishes a verdict in one step; here both are what execute_with_store_ *)
(* options does.  The server is the least that does what RunExecution lets *)
(* happen around a run: one client cancels it, another allocates a run,    *)
(* and the registry retains one record.                                    *)
(***************************************************************************)
EXTENDS RunExecution

Evicted == record.status = "evicted"

ServerStatus == IF Evicted THEN "absent" ELSE record.status

\* The engine is at work until the worker knows what it decides from.
ServerWorker ==
  CASE worker \in {"report", "done"} -> "published"
    [] worker = "erring" -> "erring"
    [] worker = "settling" -> "publishing"
    [] OTHER -> "engine"

ServerOutcome ==
  IF worker # "settling" THEN "none" ELSE IF Error = "none" THEN "ok" ELSE "error"

Runs == {"run", "other"}

OfRun(value, other) == [r \in Runs |-> IF r = "run" THEN value ELSE other]

Clients == {"caller", "starter"}

\* The client that allocates, once this run has been evicted for its record.
OfStarter(value, before) ==
  [c \in Clients |-> IF c = "starter" /\ Evicted THEN value ELSE before]

Server == INSTANCE RunServer WITH
  RunId <- Runs, MaxRuns <- 1, MaxActive <- 1,
  Client <- Clients, Nobody <- "nobody", Calls <- {"async", "cancel"}, Events <- {},
  status <- OfRun(ServerStatus, IF Evicted THEN "accepted" ELSE "absent"),
  order <- IF Evicted THEN <<"other">> ELSE <<"run">>,
  reserved <- 0,
  cancelled <- IF cancelled THEN {"run"} ELSE {},
  outer <- IF Evicted THEN "starter" ELSE "nobody",
  issued <- IF Evicted THEN Runs ELSE {"run"},
  pc <- OfStarter("allocated", "idle"), arg <- OfStarter("other", "nobody"),
  kind <- OfStarter("async", "none"), seen <- [c \in Clients |-> "none"],
  worker <- OfRun(ServerWorker, "none"),
  outcome <- OfRun(ServerOutcome, "none"),
  rec <- OfRun("none", "none"), row <- OfRun("running", "none"), ckpt <- OfRun("none", "none"),
  claim <- OfRun(record.persistence, "volatile"),
  stranded <- {}

\* An execution takes no step that RunServer does not take for its worker, its callers
\* or its registry: RunServer's free choice of what an engine returns covers every
\* execution, and the verdict is the one it publishes for it (run_manager.rs
\* execute_with_store_options, as start_with_completion's worker calls it).
ImplementsServer == [][Server!Next]_(Server!vars)
=============================================================================
