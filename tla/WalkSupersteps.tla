--------------------------- MODULE WalkSupersteps ---------------------------
(***************************************************************************)
(* A walk through a submitted graph as a run of supersteps: the promise    *)
(* that GraphEngine keeps with tasks, retries and a store, for the nodes   *)
(* and routes that validation and the compiler make of a specification.    *)
(***************************************************************************)
EXTENDS GraphWalk

\* The lists of targets a router may go to.
Lists(router) == {DefaultList(router)} \cup {rule.targets : rule \in Rules(router)}

\* What the compiled nodes of a specification may lead to: a router to one of its
\* lists, any other node to the targets of its edges.
RoutesOf(s) ==
  [id \in Ids(s) |->
     IF TypeOf(s, id) = "router" THEN {Entered(Goto(list)) : list \in Lists(Config(s, id))}
     ELSE {Entered(Targets(s, id))}]

EntryOf(s) == Entered(Targets(s, "__start__"))

\* The engine was not started: not yet, or the graph was refused or does not compile.
NotStarted ==
  phase \in {"submitted", "refused", "registered"} \/ (phase = "done" /\ result = "none")

Verdict ==
  IF result = "ok" THEN "ok" ELSE IF result # "none" \/ phase = "done" THEN "failed" ELSE "none"

Run(s) == INSTANCE SuperstepRun WITH
  Node <- Ids(s), Ghost <- {"END"}, Entry <- EntryOf(s), Routes <- RoutesOf(s),
  MaxIter <- Iterations(s),
  current <- IF NotStarted THEN EntryOf(spec) ELSE superstep,
  effects <- ran,
  verdict <- Verdict

\* A run of a submitted graph is a run of supersteps over its own nodes and routes: a
\* superstep takes effect as a whole or not at all, the next is what its routes say,
\* never past max_iterations, and there is one verdict (engine.rs execute_inner over
\* what compiler.rs built).
ImplementsSupersteps(s) == spec = s => Run(s)!Spec
=============================================================================
