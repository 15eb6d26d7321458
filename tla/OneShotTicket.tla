--------------------------- MODULE OneShotTicket ---------------------------
(***************************************************************************)
(* What durable checkpoints promise, without servers, threads or crashes:  *)
(* a run starts at most once; a run that waits for a ticket starts only    *)
(* on it; a ticket is spent once, to start its run or by a decision about  *)
(* it, and a run that was decided about does not start.                    *)
(***************************************************************************)

CONSTANT Run

VARIABLES
  ticket,    (* per run: none, available or consumed                        *)
  started,   (* runs that were given to a worker                            *)
  decided    (* runs a decision was taken about                             *)

Init ==
  /\ ticket = [r \in Run |-> "none"]
  /\ started = {}
  /\ decided = {}

StartPlain(r) ==
  /\ ticket[r] = "none" /\ r \notin started
  /\ started' = started \cup {r}
  /\ UNCHANGED <<ticket, decided>>

Issue(r) ==
  /\ ticket[r] = "none" /\ r \notin started
  /\ ticket' = [ticket EXCEPT ![r] = "available"]
  /\ UNCHANGED <<started, decided>>

\* Spent for a start, which may never come, or because nobody decided in time.
Spend(r) ==
  /\ ticket[r] = "available"
  /\ ticket' = [ticket EXCEPT ![r] = "consumed"]
  /\ UNCHANGED <<started, decided>>

Begin(r) ==
  /\ ticket[r] = "consumed" /\ r \notin started /\ r \notin decided
  /\ started' = started \cup {r}
  /\ UNCHANGED <<ticket, decided>>

Decide(r) ==
  /\ ticket[r] = "available"
  /\ ticket' = [ticket EXCEPT ![r] = "consumed"]
  /\ decided' = decided \cup {r}
  /\ UNCHANGED started

Next ==
  \E r \in Run : StartPlain(r) \/ Issue(r) \/ Spend(r) \/ Begin(r) \/ Decide(r)

Spec == Init /\ [][Next]_<<ticket, started, decided>>

=============================================================================
