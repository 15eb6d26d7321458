---------------------------- MODULE RunLifecycle ----------------------------
(***************************************************************************)
(* What the registry promises about runs, without mutexes, threads,        *)
(* retention order or storage: a run is accepted, occupies one of a        *)
(* bounded number of slots while it executes, and ends once.  A slot can   *)
(* be held ahead of the run that will use it.                              *)
(***************************************************************************)
EXTENDS Naturals, FiniteSets

CONSTANTS RunId, MaxActive

VARIABLES
  state,    (* where each run is in its life                               *)
  held      (* slots held for a run that is not executing yet              *)

Ended == {"completed", "failed", "cancelled"}

Executing == {r \in RunId : state[r] = "running"}

SlotLeft == Cardinality(Executing) + held < MaxActive

Init == state = [r \in RunId |-> "absent"] /\ held = 0

\* A run is accepted; at most one run that no longer executes is forgotten.
Accept(r) ==
  /\ UNCHANGED held
  /\ \/ state' = [state EXCEPT ![r] = "accepted"]
     \/ \E old \in RunId :
          /\ state[old] \in Ended \cup {"checkpointed"}
          /\ state' = [state EXCEPT ![old] = "absent", ![r] = "accepted"]
  /\ state[r] = "absent"

Forget(r) ==
  /\ state[r] # "running"
  /\ state' = [state EXCEPT ![r] = "absent"]
  /\ UNCHANGED held

Park(r) ==
  /\ state[r] = "accepted"
  /\ state' = [state EXCEPT ![r] = "checkpointed"]
  /\ UNCHANGED held

Start(r) ==
  /\ state[r] = "accepted" /\ SlotLeft
  /\ state' = [state EXCEPT ![r] = "running"]
  /\ UNCHANGED held

Hold == SlotLeft /\ held' = held + 1 /\ UNCHANGED state

Drop == held > 0 /\ held' = held - 1 /\ UNCHANGED state

StartHeld(r) ==
  /\ state[r] = "accepted" /\ held > 0
  /\ state' = [state EXCEPT ![r] = "running"]
  /\ held' = held - 1

End(r) ==
  /\ state[r] = "running"
  /\ \E s \in Ended : state' = [state EXCEPT ![r] = s]
  /\ UNCHANGED held

Next ==
  \/ Hold \/ Drop
  \/ \E r \in RunId :
       Accept(r) \/ Forget(r) \/ Park(r) \/ Start(r) \/ StartHeld(r) \/ End(r)

Spec == Init /\ [][Next]_<<state, held>>

=============================================================================
