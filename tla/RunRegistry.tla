---------------------------- MODULE RunRegistry ----------------------------
(***************************************************************************)
(* The in-memory run registry of one MCP server (RunManager): the records  *)
(* of the retained runs, the order they were inserted in, and the slots    *)
(* that bound how many runs execute at once.  Every operator below is one  *)
(* method of RunManager; the registry mutex makes each of them one step.   *)
(* RunServer composes them into tool handlers and worker threads.          *)
(***************************************************************************)
EXTENDS Naturals, Sequences, FiniteSets

CONSTANTS
  RunId,      (* identifiers the counter of the registry can issue         *)
  MaxRuns,    (* MAX_RUNS: records retained                                *)
  MaxActive   (* MAX_ACTIVE_RUNS: runs executing or holding a reservation  *)

ASSUME RegistryAssumption ==
  /\ IsFiniteSet(RunId)
  /\ MaxRuns \in Nat \ {0}
  /\ MaxActive \in Nat \ {0}

VARIABLES
  status,     (* status of each run's record, "absent" when it has none    *)
  order,      (* retained runs, oldest insertion first                     *)
  reserved,   (* slots reserved for a resume that has not been activated   *)
  cancelled   (* runs whose record carries an accepted cancel request      *)

registryVars == <<status, order, reserved, cancelled>>

Terminal == {"completed", "failed", "cancelled", "checkpointed"}

Status == {"absent", "accepted", "running"} \cup Terminal

Running == {r \in RunId : status[r] = "running"}

Present == {r \in RunId : status[r] # "absent"}

RegistryInit ==
  /\ status = [r \in RunId |-> "absent"]
  /\ order = << >>
  /\ reserved = 0
  /\ cancelled = {}

-----------------------------------------------------------------------------
(* The retention order. *)

\* The sequence without its k-th element: what order.retain leaves of a
\* queue that holds the run once (RegistryConsistent).
DropAt(s, k) == [i \in 1 .. (Len(s) - 1) |-> IF i < k THEN s[i] ELSE s[i + 1]]

\* Position of the oldest record that may be evicted.
OldestTerminalAt(k) ==
  /\ k \in 1 .. Len(order)
  /\ status[order[k]] \in Terminal
  /\ \A j \in 1 .. (k - 1) : status[order[j]] \notin Terminal

CanInsert == Len(order) # MaxRuns \/ \E k \in 1 .. Len(order) : OldestTerminalAt(k)

\* insert_record: at the retention bound the oldest terminal record makes room.
InsertRecord(r) ==
  /\ IF Len(order) # MaxRuns
       THEN /\ order' = Append(order, r)
            /\ status' = [status EXCEPT ![r] = "accepted"]
       ELSE \E k \in 1 .. Len(order) :
              /\ OldestTerminalAt(k)
              /\ order' = Append(DropAt(order, k), r)
              /\ status' = [status EXCEPT ![order[k]] = "absent", ![r] = "accepted"]
  /\ cancelled' = cancelled \ {r}
  /\ UNCHANGED reserved

\* remove: a running record stays, any other is forgotten.
RemoveRecord(r) ==
  /\ IF status[r] \in {"running", "absent"}
       THEN UNCHANGED <<status, order>>
       ELSE /\ status' = [status EXCEPT ![r] = "absent"]
            /\ \E k \in 1 .. Len(order) : order[k] = r /\ order' = DropAt(order, k)
  /\ UNCHANGED <<reserved, cancelled>>

-----------------------------------------------------------------------------
(* Admission. *)

\* Deviation: one slot too many.
SlotFreeOffByOne == Cardinality(Running) + reserved <= MaxActive

SlotFree == Cardinality(Running) + reserved < MaxActive

CanAdmit(r) == SlotFree /\ status[r] = "accepted"

AdmitAsync(r) ==
  /\ CanAdmit(r)
  /\ status' = [status EXCEPT ![r] = "running"]
  /\ UNCHANGED <<order, reserved, cancelled>>

ReserveAsyncSlot ==
  /\ SlotFree
  /\ reserved' = reserved + 1
  /\ UNCHANGED <<status, order, cancelled>>

\* release_async_slot saturates at zero.
ReleaseAsyncSlot ==
  /\ reserved' = IF reserved = 0 THEN 0 ELSE reserved - 1
  /\ UNCHANGED <<status, order, cancelled>>

CanAdmitReserved(r) == reserved > 0 /\ status[r] = "accepted"

AdmitReservedAsync(r) ==
  /\ CanAdmitReserved(r)
  /\ status' = [status EXCEPT ![r] = "running"]
  /\ reserved' = reserved - 1
  /\ UNCHANGED <<order, cancelled>>

-----------------------------------------------------------------------------
(* Updates of one record. *)

\* update: writes the status of a record that is there; the caller learns
\* whether it was.
SetStatus(r, s) ==
  /\ status' = IF status[r] = "absent" THEN status ELSE [status EXCEPT ![r] = s]
  /\ UNCHANGED <<order, reserved, cancelled>>

\* Deviation: the result wins over the cancel request.
TerminalOutcomeOfResult(isCancelled, hasError) ==
  IF ~hasError THEN "completed" ELSE IF isCancelled THEN "cancelled" ELSE "failed"

\* terminal_outcome: an accepted cancel wins over the result of the run.
TerminalOutcome(isCancelled, hasError) ==
  IF isCancelled THEN "cancelled" ELSE IF hasError THEN "failed" ELSE "completed"

CanCancel(r) == status[r] \in {"accepted", "running"}

\* cancel: under the registry mutex, so the flag is set before the worker
\* publishes a terminal status or not at all.
RequestCancel(r) ==
  /\ CanCancel(r)
  /\ cancelled' = cancelled \cup {r}
  /\ UNCHANGED <<status, order, reserved>>

=============================================================================
