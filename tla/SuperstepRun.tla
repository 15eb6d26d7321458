---------------------------- MODULE SuperstepRun ----------------------------
(***************************************************************************)
(* What a graph run promises, without tasks, retries, events or storage:   *)
(* it proceeds in supersteps, each of them takes effect as a whole or not  *)
(* at all, the next one is what the routes of the nodes that ran say, and  *)
(* the run reaches one verdict.                                            *)
(***************************************************************************)
EXTENDS Naturals

CONSTANTS Node, Ghost, Entry, Routes, MaxIter

VARIABLES
  current,   (* the nodes of the superstep to come                          *)
  step,      (* how many supersteps have taken effect                       *)
  effects,   (* the effects of nodes, by superstep                          *)
  verdict    (* how the run ended                                           *)

Init == current = Entry /\ step = 0 /\ effects = {} /\ verdict = "none"

Follow(nodes, next) ==
  \E choice \in [nodes -> SUBSET (Node \cup Ghost)] :
    /\ \A n \in nodes : choice[n] \in Routes[n]
    /\ next = UNION {choice[n] : n \in nodes}

Superstep ==
  /\ verdict = "none"
  /\ current # {} /\ current \subseteq Node
  /\ step < MaxIter
  /\ effects' = effects \cup ({step} \X current)
  /\ step' = step + 1
  /\ Follow(current, current')
  /\ UNCHANGED verdict

Complete ==
  /\ verdict = "none" /\ current = {}
  /\ verdict' = "ok"
  /\ UNCHANGED <<current, step, effects>>

GiveUp ==
  /\ verdict = "none"
  /\ verdict' \in {"failed", "cancelled", "interrupted"}
  /\ UNCHANGED <<current, step, effects>>

Next == Superstep \/ Complete \/ GiveUp

Spec == Init /\ [][Next]_<<current, step, effects, verdict>>

=============================================================================
