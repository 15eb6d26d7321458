-------------------------- MODULE GraphWalkProofs --------------------------
(***************************************************************************)
(* Proofs about GraphWalk, for any specifications, inputs, answers and     *)
(* budgets.                                                                *)
(*                                                                         *)
(* The invariant WalkInv says that only accepted specifications are run    *)
(* (the specification never changes), that a superstep holds nodes of the  *)
(* graph, and END only through a router that names it beside others, and   *)
(* that without a router a superstep holds nothing but the entry and what  *)
(* edges lead to from it.  Two nodes of one superstep then have the entry  *)
(* as a common ancestor, which is where validation compared their writes.  *)
(*                                                                         *)
(* FrontierInv says that without routers the superstep is the frontier     *)
(* that the node budget was computed from, and that as many nodes have run *)
(* as it counted, each with one attempt if none is retried; ChainInv that  *)
(* the walk of an eligible graph is a prefix of the chain.  A later part   *)
(* follows artifacts through the stages of a join.                         *)
(*                                                                         *)
(* Another part runs the built-in graphs.  A certificate of a graph lists *)
(* the stages of its runs: how many supersteps were made, the nodes to run *)
(* next and keys that are there by then.  Every stage leads to stages of   *)
(* the list (Certified), so a run that starts at one stays on course       *)
(* (OnCourse) until it ends.                                               *)
(*                                                                         *)
(* The last part shows that a walk implements SuperstepRun, the promise of *)
(* the graph engine.  WalkInv and PhaseInv are the invariant it needs.     *)
(***************************************************************************)
EXTENDS TemplateRuns, WalkSupersteps, GraphSpecsProofs

-----------------------------------------------------------------------------
(* Edges and routers of an accepted specification. *)

LEMMA SuccessorsAreNodes ==
  ASSUME NEW s, Valid(s), NEW ids
  PROVE  Successors(s, ids) \subseteq Ids(s)
BY DEF Valid, EdgeOk, TargetExists, Successors, RangeOf

LEMMA TargetsAreNodes ==
  ASSUME NEW s, Valid(s), NEW id
  PROVE  Targets(s, id) \subseteq Ids(s)
BY SuccessorsAreNodes DEF Targets, Valid

\* Without the engine's names a node leads where its edges lead, and a run starts at the
\* entry and loses no node.
LEMMA PlainTargets ==
  ASSUME NEW s, Valid(s), Ids(s) \cap EngineNames = {}
  PROVE  /\ \A id \in Ids(s) : Targets(s, id) = Successors(s, {id})
         /\ Entered(Targets(s, "__start__")) = {s.entry}
         /\ \A S \in SUBSET (Ids(s) \cup {"END"}) : Entered(S) = S
<1>1. "__start__" \notin Ids(s) /\ "__end__" \notin Ids(s) \cup {"END"} /\ s.entry \in Ids(s)
  BY DEF EngineNames, Valid
<1>2. Successors(s, {"__start__"}) = {}
  BY <1>1 DEF Successors, Valid, EdgeOk
<1>3. QED
  BY <1>1, <1>2 DEF Targets, Entered

\* What follows the entry or a node reachable from it is reachable from it.
LEMMA ReachableIsClosed ==
  ASSUME NEW s, Valid(s), NEW a \in Ids(s), NEW n \in {a} \cup Reachable(s, a)
  PROVE  Successors(s, {n}) \subseteq Reachable(s, a)
<1> SUFFICES ASSUME NEW m \in Successors(s, {n}), NEW S \in SUBSET Ids(s),
                    Successors(s, {a} \cup S) \cap Ids(s) \subseteq S
             PROVE  m \in S
  BY SuccessorsAreNodes DEF Reachable
<1>1. n \in {a} \cup S
  BY DEF Reachable
<1>2. m \in Successors(s, {a} \cup S)
  BY <1>1 DEF Successors
<1>3. QED
  BY <1>2, SuccessorsAreNodes

LEMMA ChosenAreTargets ==
  ASSUME NEW data, NEW router, NEW targets \in Chosen(data, router)
  PROVE  /\ RangeOf(targets) \subseteq RouterTargets(router)
         /\ targets \in {DefaultList(router)} \cup {r.targets : r \in Rules(router)}
<1> DEFINE list == ListOf(router.rules)
           holding == {i \in DOMAIN list : Holds(data, list[i])}
<1>1. CASE holding = {}
  BY <1>1 DEF Chosen, RouterTargets
<1>2. CASE holding # {}
  <2>1. PICK i \in DOMAIN list : targets = list[i].targets
    BY <1>2 DEF Chosen
  <2>2. list[i] \in Rules(router)
    BY <2>1 DEF Rules, RangeOf
  <2>3. QED
    BY <2>1, <2>2 DEF RouterTargets, RuleTargets
<1>3. QED
  BY <1>1, <1>2

\* Where a node may lead to.
Leads(s, id, goto) ==
  \/ goto \subseteq Targets(s, id)
  \/ /\ TypeOf(s, id) = "router"
     /\ \E targets \in {DefaultList(Config(s, id))} \cup {r.targets : r \in Rules(Config(s, id))} :
          goto = Goto(targets) /\ RangeOf(targets) \subseteq RouterTargets(Config(s, id))

LEMMA ResultsLead ==
  ASSUME NEW id, NEW data, NEW r \in Results(id, data)
  PROVE  Leads(spec, id, r.goto)
<1> DEFINE config == Config(spec, id)
<1>0. /\ \A d, n : Done(id, d, n).goto = Targets(spec, id)
      /\ \A d, n : Failed(d, n).goto = {}
  BY DEF Done, Failed
<1>1. CASE TypeOf(spec, id) = "llm"
  <2>1. r \in LlmResults(id, config, data)
    BY <1>1 DEF Results
  <2>2. r.goto = Targets(spec, id) \/ r.goto = {}
    BY <2>1, <1>0 DEF LlmResults
  <2>3. QED
    BY <2>2 DEF Leads
<1>2. CASE TypeOf(spec, id) = "router"
  <2>1. r \in RouterResults(id, config, data)
    BY <1>2 DEF Results
  <2>2. PICK targets \in Chosen(data, config) :
          r = [ok |-> TRUE, data |-> Write(data, "__route__", WrittenRoute(data, targets)),
               goto |-> Goto(targets), starts |-> 1]
    BY <2>1 DEF RouterResults
  <2>3. r.goto = Goto(targets)
    BY <2>2
  <2>4. QED
    BY <1>2, <2>3, ChosenAreTargets DEF Leads
<1>3. CASE TypeOf(spec, id) = "join"
  <2>1. r = JoinResult(id, config, data)
    BY <1>3 DEF Results
  <2>2. r.goto = Targets(spec, id) \/ r.goto = {}
    BY <2>1, <1>0 DEF JoinResult
  <2>3. QED
    BY <2>2 DEF Leads
<1>4. CASE TypeOf(spec, id) = "human_approval"
  <2>1. r = ApprovalResult(id, config, data)
    BY <1>4 DEF Results
  <2>2. r.goto = Targets(spec, id) \/ r.goto = {}
    BY <2>1, <1>0 DEF ApprovalResult
  <2>3. QED
    BY <2>2 DEF Leads
<1>5. CASE TypeOf(spec, id) = "state_transform"
  <2>1. r = TransformResult(id, config, data)
    BY <1>5 DEF Results
  <2>2. r.goto = Targets(spec, id) \/ r.goto = {}
    BY <2>1, <1>0 DEF TransformResult
  <2>3. QED
    BY <2>2 DEF Leads
<1>6. CASE TypeOf(spec, id) \notin {"llm", "router", "join", "human_approval", "state_transform"}
  <2>1. r = Done(id, data, 1)
    BY <1>6 DEF Results
  <2>2. QED
    BY <2>1, <1>0 DEF Leads
<1>7. QED
  BY <1>1, <1>2, <1>3, <1>4, <1>5, <1>6

-----------------------------------------------------------------------------
(* The inductive invariant. *)

Begun == phase \notin {"submitted", "refused"}

\* The nodes of a superstep, and where END among them comes from.
SuperstepInv ==
  /\ superstep \subseteq Ids(spec) \cup {"END"}
  /\ superstep \subseteq Ids(spec) \/ EndBesideOthers
  /\ ~HasRouter /\ PlainNames => superstep \subseteq {spec.entry} \cup Reachable(spec, spec.entry)

\* What is run was accepted, and what could not be entered was END.
WalkInv ==
  /\ spec \in Submitted /\ step \in Nat
  /\ Begun => Accepted(spec)
  /\ phase = "submitted" => superstep = {} /\ result = "none"
  /\ SuperstepInv
  /\ result = "missing" => EndBesideOthers

LEMMA RouterNamesEnd ==
  ASSUME NEW id \in Ids(spec), TypeOf(spec, id) = "router",
         NEW targets \in {DefaultList(Config(spec, id))}
                            \cup {r.targets : r \in Rules(Config(spec, id))},
         "END" \in Goto(targets)
  PROVE  EndBesideOthers
<1>1. NodeOf(spec, id) \in RangeOf(spec.nodes)
  BY NodeOfId
<1>2. "END" \in RangeOf(targets) /\ targets # <<"END">>
  BY DEF Goto
<1>3. QED
  BY <1>1, <1>2 DEF EndBesideOthers, TypeOf, Config

LEMMA NoRouterNoGoto ==
  ASSUME NEW id \in Ids(spec), ~HasRouter
  PROVE  TypeOf(spec, id) # "router"
BY NodeOfId DEF HasRouter, TypeOf

LEMMA TargetsExist ==
  ASSUME NEW id \in Ids(spec), TypeOf(spec, id) = "router", Valid(spec)
  PROVE  RouterTargets(Config(spec, id)) \subseteq Ids(spec) \cup {"END"}
<1>1. NodeOk(spec, NodeOf(spec, id))
  BY NodeOfId DEF Valid
<1>2. RouterOk(spec, Config(spec, id))
  BY <1>1 DEF NodeOk, TypeOf, Config
<1>3. QED
  BY <1>2 DEF RouterOk, TargetExists

\* What one node leads to keeps the superstep's invariant.
LEMMA LeadsWell ==
  ASSUME Valid(spec), NEW id \in Ids(spec), NEW goto, Leads(spec, id, goto)
  PROVE  /\ goto \subseteq Ids(spec) \cup {"END"}
         /\ goto \subseteq Ids(spec) \/ EndBesideOthers
         /\ ~HasRouter /\ PlainNames /\ id \in {spec.entry} \cup Reachable(spec, spec.entry)
              => goto \subseteq Reachable(spec, spec.entry)
<1>1. CASE goto \subseteq Targets(spec, id)
  <2>1. spec.entry \in Ids(spec)
    BY DEF Valid
  <2>2. id \in {spec.entry} \cup Reachable(spec, spec.entry)
          => Successors(spec, {id}) \subseteq Reachable(spec, spec.entry)
    BY <2>1, ReachableIsClosed
  <2>3. PlainNames => Targets(spec, id) = Successors(spec, {id})
    BY PlainTargets DEF PlainNames
  <2>4. QED
    BY <1>1, <2>2, <2>3, TargetsAreNodes
<1>2. CASE ~ goto \subseteq Targets(spec, id)
  <2>1. /\ TypeOf(spec, id) = "router"
        /\ \E targets \in {DefaultList(Config(spec, id))}
                             \cup {r.targets : r \in Rules(Config(spec, id))} :
             goto = Goto(targets) /\ RangeOf(targets) \subseteq RouterTargets(Config(spec, id))
    BY <1>2 DEF Leads
  <2>2. PICK targets \in {DefaultList(Config(spec, id))}
                            \cup {r.targets : r \in Rules(Config(spec, id))} :
          goto = Goto(targets) /\ RangeOf(targets) \subseteq RouterTargets(Config(spec, id))
    BY <2>1
  <2>3. goto \subseteq Ids(spec) \cup {"END"}
    BY <2>1, <2>2, TargetsExist DEF Goto
  <2>4. "END" \in goto => EndBesideOthers
    BY <2>1, <2>2, RouterNamesEnd
  <2>5. QED
    BY <2>1, <2>3, <2>4, NoRouterNoGoto
<1>3. QED
  BY <1>1, <1>2

LEMMA SuperstepKeeps ==
  ASSUME WalkInv, Superstep
  PROVE  SuperstepInv'
<1>1. Valid(spec)
  BY DEF WalkInv, Begun, Accepted, Superstep, CanStep
<1>2. PICK outcome \in [superstep -> UNION {Results(n, state) : n \in superstep}] :
        /\ \A n \in superstep : outcome[n] \in Results(n, state)
        /\ superstep' = Entered(UNION {outcome[n].goto : n \in superstep})
  BY DEF Superstep
<1>3. \A n \in superstep : n \in Ids(spec) /\ Leads(spec, n, outcome[n].goto)
  BY <1>2, ResultsLead DEF Superstep
<1>4. spec' = spec
  BY DEF Superstep
<1>5. \A m \in superstep' : \E n \in superstep : m \in outcome[n].goto
  BY <1>2 DEF Entered
<1>6. superstep' \subseteq Ids(spec) \cup {"END"}
  BY <1>1, <1>3, <1>5, LeadsWell
<1>7. superstep' \subseteq Ids(spec) \/ EndBesideOthers
  BY <1>1, <1>3, <1>5, LeadsWell
<1>8. ~HasRouter /\ PlainNames => superstep' \subseteq {spec.entry} \cup Reachable(spec, spec.entry)
  BY <1>1, <1>3, <1>5, LeadsWell DEF WalkInv, SuperstepInv
<1>9. QED
  BY <1>4, <1>6, <1>7, <1>8 DEF SuperstepInv, EndBesideOthers, HasRouter, PlainNames

\* A step that leaves the superstep alone leaves its invariant.
LEMMA SameSuperstep ==
  ASSUME SuperstepInv, UNCHANGED <<spec, superstep>>
  PROVE  SuperstepInv'
BY DEF SuperstepInv, EndBesideOthers, HasRouter, PlainNames

LEMMA InitWalkInv == Init => WalkInv
BY DEF Init, WalkInv, Begun, SuperstepInv

LEMMA NextWalkInv == WalkInv /\ [Next]_vars => WalkInv'
<1> SUFFICES ASSUME WalkInv, [Next]_vars
             PROVE  WalkInv'
  OBVIOUS
<1> USE DEF WalkInv, Begun
<1>1. CASE Refuse
  BY <1>1, SameSuperstep DEF Refuse, runVars
<1>2. CASE Register
  BY <1>2, SameSuperstep DEF Register, runVars
<1>3. CASE CompileFails
  BY <1>3, SameSuperstep DEF CompileFails, EndBesideOthers
<1>4. CASE Start
  <2>1. Valid(spec)
    BY <1>4 DEF Start, Accepted
  <2>2. superstep' = Entered(Targets(spec, "__start__")) /\ spec' = spec
    BY <1>4 DEF Start
  <2>3. superstep' \subseteq Ids(spec)
    BY <2>1, <2>2, TargetsAreNodes DEF Entered
  <2>4. PlainNames => superstep' = {spec.entry}
    BY <2>1, <2>2, PlainTargets DEF PlainNames
  <2>5. SuperstepInv'
    BY <2>2, <2>3, <2>4 DEF SuperstepInv, HasRouter, PlainNames
  <2>6. QED
    BY <1>4, <2>5 DEF Start, EndBesideOthers
<1>5. CASE NoNodesLeft
  BY <1>5, SameSuperstep DEF NoNodesLeft, Stop
<1>6. CASE TooManySteps
  BY <1>6, SameSuperstep DEF TooManySteps, Stop
<1>7. CASE MissingNode
  <2>1. EndBesideOthers
    BY <1>7 DEF MissingNode, SuperstepInv
  <2>2. EndBesideOthers'
    BY <1>7, <2>1 DEF MissingNode, EndBesideOthers
  <2>3. QED
    BY <1>7, <2>2, SameSuperstep DEF MissingNode, Stop, CanStep
<1>8. CASE Superstep
  <2>1. SuperstepInv'
    BY <1>8, SuperstepKeeps
  <2>2. QED
    BY <1>8, <2>1 DEF Superstep, CanStep, EndBesideOthers
<1>9. CASE NodeFails
  BY <1>9, SameSuperstep DEF NodeFails, Stop, CanStep
<1>10. CASE Report
  BY <1>10, SameSuperstep DEF Report, EndBesideOthers
<1>11. CASE UNCHANGED vars
  BY <1>11, SameSuperstep DEF vars, EndBesideOthers
<1>12. QED
  BY <1>1, <1>2, <1>3, <1>4, <1>5, <1>6, <1>7, <1>8, <1>9, <1>10, <1>11 DEF Next

\* Whatever is submitted: only accepted specifications run, and supersteps hold
\* what edges and routers lead to.
THEOREM WalkInvariant == Spec => []WalkInv
<1>1. QED
  BY InitWalkInv, NextWalkInv, PTL DEF Spec

-----------------------------------------------------------------------------
(* What follows from it. *)

\* A node that is not in the graph is an END that a router names beside other
\* targets.
THEOREM MissingNodesAreEnds == Spec => []OnlyEndIsMissing
<1>1. WalkInv => OnlyEndIsMissing
  BY DEF WalkInv, SuperstepInv, OnlyEndIsMissing
<1>2. QED
  BY <1>1, WalkInvariant, PTL

\* Without routers, nodes of one superstep that declare one key without a
\* reducer are ordered: the entry leads to both.
THEOREM DeclaredConflictsAreOrdered == Spec => []ConflictsAreOrdered
<1>1. ASSUME WalkInv, phase = "walking", ~HasRouter, PlainNames,
             NEW m \in superstep, NEW n \in superstep,
             NEW key \in Declared(NodeOf(spec, m)) \cap Declared(NodeOf(spec, n)),
             m # n, key \notin DOMAIN spec.reducers
      PROVE  Ordered(spec, m, n)
  <2>1. Valid(spec) /\ spec.entry \in Ids(spec)
    BY <1>1 DEF WalkInv, Begun, Accepted, Valid
  <2>2. {m, n} \subseteq {spec.entry} \cup Reachable(spec, spec.entry)
    BY <1>1 DEF WalkInv, SuperstepInv
  <2>3. m \in Ids(spec) /\ n \in Ids(spec)
    BY <2>1, <2>2 DEF Reachable
  <2>4. CASE m = spec.entry \/ n = spec.entry
    BY <1>1, <2>2, <2>4 DEF Ordered
  <2>5. CASE m # spec.entry /\ n # spec.entry
    <3>1. HaveAncestor(spec, m, n)
      BY <2>1, <2>2, <2>5 DEF HaveAncestor
    <3>2. /\ NodeOf(spec, m) \in RangeOf(spec.nodes) /\ NodeOf(spec, m).id = m
          /\ NodeOf(spec, n) \in RangeOf(spec.nodes) /\ NodeOf(spec, n).id = n
      BY <2>3, NodeOfId
    <3>3. WritesOk(spec)
      BY <2>1 DEF Valid
    <3>4. Ordered(spec, m, n) \/ ~HaveAncestor(spec, m, n)
      BY <1>1, <3>2, <3>3 DEF WritesOk
    <3>5. QED
      BY <3>1, <3>4
  <2>6. QED
    BY <2>4, <2>5
<1>2. WalkInv => ConflictsAreOrdered
  BY <1>1 DEF ConflictsAreOrdered
<1>3. QED
  BY <1>2, WalkInvariant, PTL

LEMMA LimitWithin ==
  ASSUME Valid(spec)
  PROVE  /\ IterationLimit \in Nat /\ IterationLimit <= Iterations(spec)
         /\ Iterations(spec) \in Nat /\ Iterations(spec) <= MaxIterations
<1>1. Iterations(spec) \in 1 .. MaxIterations
  BY DEF Valid, Iterations, MaxIterations
<1>2. AllowedSteps \in SUBSET (1 .. Iterations(spec))
  BY DEF AllowedSteps
<1>3. IsFiniteSet(1 .. Iterations(spec)) /\ Cardinality(1 .. Iterations(spec)) = Iterations(spec)
  <2>1. Iterations(spec) \in Int /\ ~ 1 > Iterations(spec) /\ Iterations(spec) - 1 + 1 = Iterations(spec)
    BY <1>1 DEF MaxIterations
  <2>2. QED
    BY <2>1, FS_Interval
<1>4. Cardinality(AllowedSteps) \in Nat /\ Cardinality(AllowedSteps) <= Iterations(spec)
  BY <1>2, <1>3, FS_Subset, FS_CardinalityType
<1>5. QED
  BY <1>1, <1>4 DEF IterationLimit, BudgetLimit, MaxIterations

\* No graph runs for ever, whatever its routers decide.
THEOREM WalksEnd == Spec => []StepsBounded
<1>1. Init => StepsBounded
  BY DEF Init, StepsBounded, MaxIterations
<1>2. WalkInv /\ StepsBounded /\ [Next]_vars => StepsBounded'
  <2> SUFFICES ASSUME WalkInv, StepsBounded, [Next]_vars
               PROVE  StepsBounded'
    OBVIOUS
  <2>1. CASE Superstep
    <3>1. Valid(spec)
      BY <2>1 DEF Superstep, CanStep, WalkInv, Begun, Accepted
    <3>2. step < IterationLimit /\ step' = step + 1 /\ step \in Nat
      BY <2>1 DEF Superstep, CanStep, WalkInv
    <3>3. QED
      BY <3>1, <3>2, LimitWithin DEF StepsBounded, MaxIterations
  <2>2. CASE ~Superstep
    <3>1. step' = step
      BY <2>2 DEF Next, vars, runVars, Refuse, Register, CompileFails, Start, NoNodesLeft,
                  TooManySteps, MissingNode, NodeFails, Report
    <3>2. QED
      BY <3>1 DEF StepsBounded, MaxIterations
  <2>3. QED
    BY <2>1, <2>2
<1>3. QED
  BY <1>1, <1>2, WalkInvariant, PTL DEF Spec

-----------------------------------------------------------------------------
(* The reachability matrix of validation. *)

\* Validation compares the writers of a key by what edges really lead to.
THEOREM MatrixIsClosure == Spec => []MatrixIsReachability
<1>1. WalkInv => MatrixIsReachability
  BY ListAssumption, MatrixClosure DEF WalkInv, MatrixIsReachability
<1>2. QED
  BY <1>1, WalkInvariant, PTL

-----------------------------------------------------------------------------
(* The frontiers that budget_iteration_limit counts. *)

LEMMA FrontierFollows ==
  ASSUME Valid(spec)
  PROVE  /\ Frontier(0) = {spec.entry}
         /\ \A k \in Nat : /\ Frontier(k) \subseteq Ids(spec)
                           /\ Frontier(k + 1) = Successors(spec, Frontier(k))
<1> DEFINE X == SUBSET Ids(spec)
           a == {spec.entry}
           g == [k \in Nat |-> [A \in X |-> Successors(spec, A)]]
           F == [k \in Nat |-> Frontier(k)]
<1>1. a \in X
  BY DEF Valid
<1>2. g \in Steps(X) /\ \A k \in Nat : \A A \in X : g[k][A] = Successors(spec, A)
  BY SuccessorsAreNodes DEF Steps
<1> HIDE DEF X, a, g
<1>3. ASSUME NEW k \in Nat PROVE \E f \in Rounds(X, a, g, k) : F[k] = f[k]
  <2> DEFINE After[i \in 0 .. k] == IF i = 0 THEN a ELSE Successors(spec, After[i - 1])
  <2>1. F[k] = After[k]
    BY DEF Frontier, a
  <2>2. PICK f : f \in Rounds(X, a, g, k)
    BY <1>1, <1>2, RoundsExist
  <2>3. /\ f = [i \in 0 .. k |-> IF i = 0 THEN a ELSE g[i - 1][f[i - 1]]]
        /\ \A i \in 0 .. k : f[i] \in X
    BY <2>2, RoundsUnfold
  <2>4. \A i \in 0 .. k : i # 0 => i - 1 \in Nat /\ i - 1 \in 0 .. k
    OBVIOUS
  <2>5. f = [i \in 0 .. k |-> IF i = 0 THEN a ELSE Successors(spec, f[i - 1])]
    BY <1>2, <2>3, <2>4
  <2>6. After = [i \in 0 .. k |-> IF i = 0 THEN a ELSE Successors(spec, After[i - 1])]
    BY <2>5 DEF After
  <2> HIDE DEF After
  <2>7. ASSUME NEW i \in 0 .. k - 1, After[i] \in X PROVE After[i + 1] = g[i][After[i]]
    <3>1. i \in Nat /\ i + 1 \in 0 .. k /\ i + 1 # 0 /\ (i + 1) - 1 = i
      OBVIOUS
    <3>2. After[i + 1] = Successors(spec, After[i])
      BY <2>6, <3>1
    <3>3. QED
      BY <1>2, <2>7, <3>1, <3>2
  <2>8. After = [i \in 0 .. k |-> After[i]] /\ After[0] = a
    BY <2>6
  <2>9. After \in Rounds(X, a, g, k)
    BY <1>1, <1>2, <2>7, <2>8, RoundsOnly
  <2>10. QED
    BY <2>1, <2>9
<1>4. F[0] = a /\ \A k \in Nat : F[k] \in X /\ F[k + 1] = g[k][F[k]]
  <2> HIDE DEF F
  <2>1. QED
    BY <1>1, <1>2, <1>3, RoundsFollow
<1>5. \A k \in Nat : k + 1 \in Nat
  OBVIOUS
<1>6. QED
  BY <1>2, <1>4, <1>5 DEF a, X

\* The nodes of the first frontiers, as sums.
LEMMA WidthAdds ==
  ASSUME \A k \in Nat : Cardinality(Frontier(k)) \in Nat
  PROVE  /\ Width(0) = 0
         /\ \A k \in Nat : /\ Width(k) \in Nat
                           /\ Width(k + 1) = Width(k) + Cardinality(Frontier(k))
<1> DEFINE card(k) == Cardinality(Frontier(k))
           g == [k \in Nat |-> [x \in Nat |-> x + card(k)]]
           F == [k \in Nat |-> Width(k)]
<1>1. \A k \in Nat : card(k) \in Nat
  OBVIOUS
<1> HIDE DEF card
<1>2. g \in Steps(Nat) /\ \A k \in Nat : \A x \in Nat : g[k][x] = x + card(k)
  BY <1>1 DEF Steps
<1> HIDE DEF g
<1>3. ASSUME NEW k \in Nat PROVE \E f \in Rounds(Nat, 0, g, k) : F[k] = f[k]
  <2> DEFINE Sum[i \in 0 .. k] == IF i = 0 THEN 0 ELSE Sum[i - 1] + card(i - 1)
  <2>1. F[k] = Sum[k]
    BY DEF Width, card
  <2>2. PICK f : f \in Rounds(Nat, 0, g, k)
    BY <1>2, RoundsExist
  <2>3. /\ f = [i \in 0 .. k |-> IF i = 0 THEN 0 ELSE g[i - 1][f[i - 1]]]
        /\ \A i \in 0 .. k : f[i] \in Nat
    BY <2>2, RoundsUnfold
  <2>4. \A i \in 0 .. k : i # 0 => i - 1 \in Nat /\ i - 1 \in 0 .. k
    OBVIOUS
  <2>5. f = [i \in 0 .. k |-> IF i = 0 THEN 0 ELSE f[i - 1] + card(i - 1)]
    BY <1>2, <2>3, <2>4
  <2>6. Sum = [i \in 0 .. k |-> IF i = 0 THEN 0 ELSE Sum[i - 1] + card(i - 1)]
    BY <2>5 DEF Sum
  <2> HIDE DEF Sum
  <2>7. ASSUME NEW i \in 0 .. k - 1, Sum[i] \in Nat PROVE Sum[i + 1] = g[i][Sum[i]]
    <3>1. i \in Nat /\ i + 1 \in 0 .. k /\ i + 1 # 0 /\ (i + 1) - 1 = i
      OBVIOUS
    <3>2. Sum[i + 1] = Sum[i] + card(i)
      BY <2>6, <3>1
    <3>3. QED
      BY <1>2, <2>7, <3>1, <3>2
  <2>8. Sum = [i \in 0 .. k |-> Sum[i]] /\ Sum[0] = 0
    BY <2>6
  <2>9. Sum \in Rounds(Nat, 0, g, k)
    BY <1>2, <2>7, <2>8, RoundsOnly
  <2>10. QED
    BY <2>1, <2>9
<1>4. F[0] = 0 /\ \A k \in Nat : F[k] \in Nat /\ F[k + 1] = g[k][F[k]]
  <2> DEFINE X == Nat
             a == 0
  <2>1. a \in X /\ g \in Steps(X)
    BY <1>2
  <2>2. \A k \in Nat : \E f \in Rounds(X, a, g, k) : F[k] = f[k]
    BY <1>3
  <2> HIDE DEF F, X, a
  <2>3. F[0] = a /\ \A k \in Nat : F[k] \in X /\ F[k + 1] = g[k][F[k]]
    BY <2>1, <2>2, RoundsFollow
  <2>4. QED
    BY <2>3 DEF X, a
<1>5. \A k \in Nat : k + 1 \in Nat
  OBVIOUS
<1>6. QED
  BY <1>2, <1>4, <1>5 DEF card

\* One attempt each: as many as there are nodes.
LEMMA TotalOfSingles ==
  ASSUME NEW outcome, \A n \in DOMAIN outcome : outcome[n].starts = 1,
         DOMAIN outcome # {}, Cardinality(DOMAIN outcome) \in Nat
  PROVE  Total(outcome) = Cardinality(DOMAIN outcome)
<1> DEFINE S == DOMAIN outcome
           counts == {outcome[n].starts : n \in S}
           most == CHOOSE m \in counts : \A k \in counts : k <= m
           starts(k) == Cardinality({n \in S : outcome[n].starts >= k})
           Sum[k \in 0 .. most] == IF k = 0 THEN 0 ELSE Sum[k - 1] + starts(k)
           c == Cardinality(S)
           f == [k \in 0 .. 1 |-> IF k = 0 THEN 0 ELSE c]
<1>1. Total(outcome) = Sum[most]
  BY DEF Total
<1>2. most = 1
  <2>1. counts = {1}
    OBVIOUS
  <2>2. 1 \in counts /\ \A k \in counts : k <= 1
    BY <2>1
  <2>3. most \in counts
    BY <2>2
  <2>4. QED
    BY <2>1, <2>3
<1>3. starts(1) = c
  <2>1. {n \in S : outcome[n].starts >= 1} = S
    OBVIOUS
  <2>2. QED
    BY <2>1
<1>4. c \in Nat
  OBVIOUS
<1> HIDE DEF starts, c, most
<1>5. f = [k \in 0 .. most |-> IF k = 0 THEN 0 ELSE f[k - 1] + starts(k)]
  <2>1. \A k \in 0 .. most : k = 0 \/ k = 1
    BY <1>2
  <2>2. f[0] = 0 /\ f[1] = f[1 - 1] + starts(1)
    BY <1>3, <1>4
  <2>3. QED
    BY <1>2, <2>1, <2>2
<1>6. Sum = [k \in 0 .. most |-> IF k = 0 THEN 0 ELSE Sum[k - 1] + starts(k)]
  BY <1>5 DEF Sum
<1> HIDE DEF Sum
<1>7. Sum[1] = Sum[0] + starts(1) /\ Sum[0] = 0
  BY <1>2, <1>6
<1>8. QED
  BY <1>1, <1>2, <1>3, <1>4, <1>7 DEF c

\* Frontiers and their widths, of an accepted graph.
LEMMA Widths ==
  ASSUME spec \in Submitted, Valid(spec)
  PROVE  /\ Width(0) = 0 /\ Width(1) = 1
         /\ \A k \in Nat :
              /\ Frontier(k) \subseteq Ids(spec)
              /\ Cardinality(Frontier(k)) \in Nat /\ Width(k) \in Nat
              /\ Frontier(k + 1) = Successors(spec, Frontier(k))
              /\ Width(k + 1) = Width(k) + Cardinality(Frontier(k))
<1>1. \A k \in Nat : Cardinality(Frontier(k)) \in Nat
  BY FrontierFollows, IdsAreFinite, ListAssumption
<1>2. /\ Width(0) = 0
      /\ \A k \in Nat : Width(k) \in Nat /\ Width(k + 1) = Width(k) + Cardinality(Frontier(k))
  BY <1>1, WidthAdds
<1>3. Cardinality(Frontier(0)) = 1
  BY FrontierFollows, FS_Singleton
<1>4. Width(1) = 1
  <2>1. Width(0 + 1) = Width(0) + Cardinality(Frontier(0))
    BY <1>2
  <2>2. QED
    BY <1>2, <1>3, <2>1
<1>5. QED
  BY <1>1, <1>2, <1>4, FrontierFollows

\* The limit is a step whose frontiers fit the budget, as do all before it.
LEMMA LimitFitsBudget ==
  ASSUME spec \in Submitted, Valid(spec), budget \in Nat, budget # 0
  PROVE  \A k \in 0 .. IterationLimit : Width(k) <= budget
<1> DEFINE A == AllowedSteps
<1>1. Iterations(spec) \in Nat
  BY IterationsBounded
<1>2. Iterations(spec) >= 1
  BY IterationsBounded
<1>3. 1 \in A
  <2>1. Frontier(1 - 1) # {}
    BY FrontierFollows
  <2>2. Width(1) <= budget
    BY Widths
  <2>3. QED
    BY <1>1, <1>2, <2>1, <2>2 DEF AllowedSteps
<1>4. A \subseteq 1 .. Iterations(spec)
  BY DEF AllowedSteps
<1>5. ASSUME NEW i \in A, i > 1 PROVE i - 1 \in A
  <2> DEFINE j == i - 2
  <2>1. /\ i \in 1 .. Iterations(spec) /\ j \in Nat /\ j + 1 = i - 1 /\ (j + 1) + 1 = i
        /\ (i - 1) - 1 = j /\ i - 1 \in Nat /\ i - 1 \in 1 .. Iterations(spec)
    BY <1>1, <1>4, <1>5
  <2>2. Frontier(i - 1) # {} /\ Width(i) <= budget
    BY DEF AllowedSteps
  <2> HIDE DEF j
  <2>3. Frontier(i - 1) = Successors(spec, Frontier(j))
    BY <2>1, Widths
  <2>4. Frontier(j) # {}
    BY <2>2, <2>3 DEF Successors
  <2>5. /\ Width((i - 1) + 1) = Width(i - 1) + Cardinality(Frontier(i - 1))
        /\ Width(i - 1) \in Nat /\ Cardinality(Frontier(i - 1)) \in Nat
    BY <2>1, Widths
  <2>6. Width(i - 1) <= budget
    BY <2>1, <2>2, <2>5
  <2>7. QED
    BY <2>1, <2>4, <2>6 DEF AllowedSteps
<1>6. IterationLimit = Cardinality(A)
  BY <1>3 DEF IterationLimit, BudgetLimit
<1> HIDE DEF A
<1>7. Cardinality(A) \in Nat /\ A = 1 .. Cardinality(A)
  BY <1>1, <1>3, <1>4, <1>5, InitialSegment
<1>8. \A k \in A : Width(k) <= budget
  BY DEF A, AllowedSteps
<1>9. \A k \in 0 .. Cardinality(A) : k = 0 \/ k \in A
  BY <1>7
<1>10. QED
  BY <1>6, <1>8, <1>9, Widths

\* A node that is not retried makes one attempt.
LEMMA OneAttempt ==
  ASSUME spec \in Submitted, ~Retrying, NEW id \in Ids(spec)
  PROVE  Attempts(Config(spec, id)) = 1
<1>1. NodeOf(spec, id) \in RangeOf(spec.nodes)
  BY NodeOfId
<1>2. ~(Attempts(Config(spec, id)) > 1)
  BY <1>1 DEF Retrying, Config
<1>3. "attempts" \in DOMAIN Config(spec, id) => Config(spec, id).attempts \in Nat
  BY <1>1, RetryAssumption DEF Config
<1>4. QED
  BY <1>2, <1>3 DEF Attempts

\* Without routers, what succeeds follows the edges; without retries, nothing
\* is started twice.
LEMMA SingleResults ==
  ASSUME spec \in Submitted, ~HasRouter, NEW id \in Ids(spec), NEW data, NEW r \in Results(id, data)
  PROVE  (~Retrying => r.starts = 1) /\ (r.ok => r.goto = Targets(spec, id))
<1> DEFINE config == Config(spec, id)
           n == Attempts(config)
           Single(x) == (~Retrying => x.starts = 1) /\ (x.ok => x.goto = Targets(spec, id))
<1>1. /\ \A d : Single(Done(id, d, 1))
      /\ \A d : Single(Failed(d, n))
  BY OneAttempt DEF Done, Failed
<1>2. TypeOf(spec, id) # "router"
  BY NoRouterNoGoto
<1>3. CASE TypeOf(spec, id) = "llm"
  <2>1. r \in LlmResults(id, config, data)
    BY <1>3 DEF Results
  <2>2. \/ \E d : r = Failed(d, n)
        \/ \E d : \E k \in (1 .. n) \cup {1} : r = Done(id, d, k)
    BY <2>1 DEF LlmResults
  <2>3. CASE \E d : r = Failed(d, n)
    BY <1>1, <2>3
  <2>4. CASE \E d : \E k \in (1 .. n) \cup {1} : r = Done(id, d, k)
    <3>1. PICK k \in (1 .. n) \cup {1} : \E d : r = Done(id, d, k)
      BY <2>4
    <3>2. ASSUME ~Retrying PROVE k = 1
      <4>1. n = 1
        BY <3>2, OneAttempt
      <4>2. QED
        BY <3>1, <4>1
    <3>3. QED
      BY <3>1, <3>2 DEF Done
  <2>5. QED
    BY <2>2, <2>3, <2>4
<1> HIDE DEF Single, n
<1>4. CASE TypeOf(spec, id) = "join"
  BY <1>1, <1>4 DEF Results, JoinResult, Single, n
<1>5. CASE TypeOf(spec, id) = "human_approval"
  BY <1>1, <1>5 DEF Results, ApprovalResult, Single, n
<1>6. CASE TypeOf(spec, id) = "state_transform"
  BY <1>1, <1>6 DEF Results, TransformResult, Single, n
<1>7. CASE TypeOf(spec, id) \notin {"llm", "router", "join", "human_approval", "state_transform"}
  BY <1>1, <1>7 DEF Results, Single
<1>8. QED
  BY <1>2, <1>3, <1>4, <1>5, <1>6, <1>7

\* While edges alone lead through the graph, a run is at a frontier and has run
\* the nodes of those before it, and started no others unless one is retried.

Counted ==
  /\ IsFiniteSet(ran) /\ \A r \in ran : r[1] \in Nat /\ r[1] < step
  /\ phase = "walking" => Cardinality(ran) = Width(step)
  /\ budget # 0 => Cardinality(ran) <= budget

CountedStarts ==
  /\ phase = "walking" => started = Width(step)
  /\ budget # 0 => started <= budget

FrontierInv ==
  /\ budget \in Nat
  /\ phase \in {"submitted", "refused", "registered"} => step = 0 /\ started = 0 /\ ran = {}
  /\ ~HasRouter /\ PlainNames =>
       /\ phase \in {"walking", "stopped"} => superstep = Frontier(step)
       /\ Counted
       /\ ~Retrying => CountedStarts

LEMMA InitFrontierInv == Init => FrontierInv
BY FS_EmptySet DEF Init, FrontierInv, Counted, CountedStarts

LEMMA SameFrontiers ==
  ASSUME spec' = spec
  PROVE  \A k \in Nat : Frontier(k)' = Frontier(k) /\ Width(k)' = Width(k)
<1>1. \A k \in Nat : Frontier(k)' = Frontier(k)
  BY DEF Frontier
<1>2. \A k \in Nat : Width(k)' = Width(k)
  BY DEF Width, Frontier
<1>3. QED
  BY <1>1, <1>2

\* The start: the entry is the first frontier.
LEMMA StartsAtFrontier ==
  ASSUME WalkInv, FrontierInv, Start
  PROVE  FrontierInv'
<1>1. spec \in Submitted /\ Valid(spec) /\ spec' = spec
  BY DEF WalkInv, Start, Begun, Accepted
<1>2. /\ step' = 0 /\ started' = 0 /\ budget' \in Nat /\ ran' = {}
      /\ PlainNames => superstep' = {spec.entry}
  BY <1>1, BudgetAssumption, PlainTargets DEF Start, FrontierInv, PlainNames
<1>3. Frontier(0) = {spec.entry} /\ Width(0) = 0
  BY <1>1, Widths, FrontierFollows
<1>4. Frontier(step)' = {spec.entry} /\ Width(step)' = 0
  BY <1>1, <1>2, <1>3, SameFrontiers
<1>5. IsFiniteSet({}) /\ Cardinality({}) = 0
  BY FS_EmptySet
<1>6. Counted' /\ CountedStarts'
  BY <1>2, <1>4, <1>5 DEF Counted, CountedStarts
<1>7. phase' = "walking"
  BY DEF Start
<1> HIDE DEF Counted, CountedStarts
<1>8. QED
  BY <1>1, <1>2, <1>4, <1>6, <1>7 DEF FrontierInv, PlainNames

\* What the nodes of a superstep have started, and lead to.
LEMMA StepStarts ==
  ASSUME WalkInv, FrontierInv, CanStep, ~HasRouter, PlainNames, superstep \subseteq Ids(spec)
  PROVE  /\ Cardinality(ran) = Width(step) /\ Cardinality(ran) \in Nat /\ step \in Nat
         /\ ~Retrying => started = Width(step) /\ started \in Nat
         /\ Width(step + 1) = Width(step) + Cardinality(superstep)
         /\ Frontier(step + 1) = Successors(spec, superstep)
         /\ budget # 0 => Width(step + 1) <= budget
         /\ superstep # {} /\ IsFiniteSet(superstep) /\ Cardinality(superstep) \in Nat
<1>1. /\ spec \in Submitted /\ Valid(spec) /\ step \in Nat
      /\ superstep = Frontier(step) /\ Counted /\ (~Retrying => CountedStarts)
      /\ phase = "walking" /\ superstep # {}
  BY DEF WalkInv, Begun, Accepted, CanStep, FrontierInv
<1>2. /\ Width(step + 1) = Width(step) + Cardinality(Frontier(step)) /\ Width(step) \in Nat
      /\ Frontier(step + 1) = Successors(spec, Frontier(step))
  BY <1>1, Widths
<1>3. budget # 0 => Width(step + 1) <= budget
  <2>1. step + 1 \in 0 .. IterationLimit
    BY <1>1, LimitWithin DEF CanStep
  <2>2. QED
    BY <1>1, <2>1, LimitFitsBudget DEF FrontierInv
<1>4. IsFiniteSet(superstep) /\ Cardinality(superstep) \in Nat
  BY <1>1, ListAssumption, IdsAreFinite
<1>5. QED
  BY <1>1, <1>2, <1>3, <1>4 DEF Counted, CountedStarts

\* The nodes of a superstep have not run in it before.
LEMMA RanAdds ==
  ASSUME Counted, step \in Nat, NEW S, IsFiniteSet(S), Cardinality(S) \in Nat,
         Cardinality(ran) \in Nat
  PROVE  /\ IsFiniteSet(ran \cup ({step} \X S))
         /\ Cardinality(ran \cup ({step} \X S)) = Cardinality(ran) + Cardinality(S)
         /\ \A r \in ran \cup ({step} \X S) : r[1] \in Nat /\ r[1] < step + 1
<1>1. IsFiniteSet({step}) /\ Cardinality({step}) = 1
  BY FS_Singleton
<1>2. IsFiniteSet({step} \X S) /\ Cardinality({step} \X S) = 1 * Cardinality(S)
  BY <1>1, FS_Product
<1>3. ran \cap ({step} \X S) = {}
  BY DEF Counted
<1>4. /\ IsFiniteSet(ran \cup ({step} \X S))
      /\ Cardinality(ran \cup ({step} \X S)) =
           Cardinality(ran) + Cardinality({step} \X S) - Cardinality(ran \cap ({step} \X S))
  BY <1>2, FS_Union DEF Counted
<1>5. Cardinality(ran \cap ({step} \X S)) = 0
  BY <1>3, FS_EmptySet
<1>6. \A r \in ran \cup ({step} \X S) : r[1] \in Nat /\ r[1] < step + 1
  BY DEF Counted
<1>7. QED
  BY <1>2, <1>4, <1>5, <1>6

LEMMA StepsToFrontier ==
  ASSUME WalkInv, FrontierInv, Superstep
  PROVE  FrontierInv'
<1>1. /\ spec \in Submitted /\ Valid(spec) /\ spec' = spec /\ step' = step + 1 /\ budget' = budget
      /\ phase' = phase /\ phase = "walking" /\ ran' = ran \cup ({step} \X superstep)
      /\ superstep \subseteq Ids(spec) /\ CanStep
  BY DEF WalkInv, Begun, Accepted, Superstep, CanStep
<1>2. ASSUME ~HasRouter, PlainNames
      PROVE  /\ superstep' = Frontier(step)'
             /\ Counted' /\ (~Retrying => CountedStarts')
  <2>1. PICK outcome \in [superstep -> UNION {Results(n, state) : n \in superstep}] :
          /\ \A n \in superstep : outcome[n] \in Results(n, state) /\ outcome[n].ok
          /\ superstep' = Entered(UNION {outcome[n].goto : n \in superstep})
          /\ started' = started + Total(outcome)
    BY DEF Superstep
  <2>2. \A n \in superstep : /\ ~Retrying => outcome[n].starts = 1
                             /\ outcome[n].goto = Successors(spec, {n})
    BY <1>1, <1>2, <2>1, SingleResults, PlainTargets DEF PlainNames
  <2>3. /\ Cardinality(ran) = Width(step) /\ Cardinality(ran) \in Nat /\ step \in Nat
        /\ ~Retrying => started = Width(step) /\ started \in Nat
        /\ Width(step + 1) = Width(step) + Cardinality(superstep) /\ step + 1 \in Nat
        /\ Frontier(step + 1) = Successors(spec, superstep)
        /\ budget # 0 => Width(step + 1) <= budget
        /\ superstep # {} /\ IsFiniteSet(superstep) /\ Cardinality(superstep) \in Nat
    BY <1>1, <1>2, StepStarts
  <2>4. superstep' = Successors(spec, superstep)
    <3>1. UNION {outcome[n].goto : n \in superstep} = Successors(spec, superstep)
      BY <2>2 DEF Successors
    <3>2. QED
      BY <1>1, <1>2, <2>1, <3>1, PlainTargets, SuccessorsAreNodes DEF PlainNames
  <2>5. Frontier(step)' = Frontier(step + 1) /\ Width(step)' = Width(step + 1)
    BY <1>1, <2>3, SameFrontiers
  <2>6. Counted'
    <3>1. Counted
      BY <1>2 DEF FrontierInv
    <3>2. /\ IsFiniteSet(ran')
          /\ Cardinality(ran') = Cardinality(ran) + Cardinality(superstep)
          /\ \A r \in ran' : r[1] \in Nat /\ r[1] < step + 1
      BY <1>1, <2>3, <3>1, RanAdds
    <3>3. QED
      BY <1>1, <2>3, <2>5, <3>2 DEF Counted
  <2>7. ASSUME ~Retrying PROVE CountedStarts'
    <3>1. \A n \in superstep : outcome[n].starts = 1
      BY <2>2, <2>7
    <3>2. Total(outcome) = Cardinality(superstep)
      BY <2>1, <2>3, <3>1, TotalOfSingles
    <3>3. QED
      BY <1>1, <2>1, <2>3, <2>5, <2>7, <3>2 DEF CountedStarts
  <2>8. QED
    BY <2>3, <2>4, <2>5, <2>6, <2>7
<1>3. HasRouter' = HasRouter /\ Retrying' = Retrying /\ PlainNames' = PlainNames
  BY <1>1 DEF HasRouter, Retrying, PlainNames
<1>4. budget \in Nat
  BY DEF FrontierInv
<1> HIDE DEF Counted, CountedStarts
<1>5. QED
  BY <1>1, <1>2, <1>3, <1>4 DEF FrontierInv

LEMMA FailsWithinBudget ==
  ASSUME WalkInv, FrontierInv, NodeFails
  PROVE  FrontierInv'
<1>1. /\ spec \in Submitted /\ Valid(spec) /\ spec' = spec /\ budget' = budget /\ phase' = "stopped"
      /\ superstep \subseteq Ids(spec) /\ CanStep /\ phase = "walking"
      /\ superstep' = superstep /\ step' = step /\ step \in Nat /\ ran' = ran /\ budget \in Nat
  BY DEF WalkInv, Begun, Accepted, NodeFails, CanStep, Stop, FrontierInv
<1>2. ASSUME ~HasRouter, ~Retrying, PlainNames, budget # 0
      PROVE  started' <= budget
  <2>1. PICK outcome \in [superstep -> UNION {Results(n, state) : n \in superstep}] :
          /\ \A n \in superstep : outcome[n] \in Results(n, state)
          /\ \E begun \in SUBSET superstep :
               /\ \E n \in begun : ~outcome[n].ok
               /\ started' = started + Total([n \in begun |-> outcome[n]])
    BY DEF NodeFails
  <2>2. PICK begun \in SUBSET superstep :
               /\ begun # {}
               /\ started' = started + Total([n \in begun |-> outcome[n]])
    BY <2>1
  <2>3. \A n \in superstep : outcome[n].starts = 1
    BY <1>1, <1>2, <2>1, SingleResults
  <2>4. /\ Width(step + 1) = started + Cardinality(superstep) /\ started \in Nat
        /\ Width(step + 1) <= budget
        /\ IsFiniteSet(superstep) /\ Cardinality(superstep) \in Nat
    BY <1>1, <1>2, StepStarts
  <2>5. Cardinality(begun) \in Nat /\ Cardinality(begun) <= Cardinality(superstep)
    BY <2>4, FS_Subset, FS_CardinalityType
  <2>6. Total([n \in begun |-> outcome[n]]) = Cardinality(begun)
    <3> DEFINE o == [n \in begun |-> outcome[n]]
    <3>1. DOMAIN o = begun /\ \A n \in DOMAIN o : o[n].starts = 1
      BY <2>3
    <3> HIDE DEF o
    <3>2. QED
      BY <2>2, <2>5, <3>1, TotalOfSingles DEF o
  <2>7. QED
    BY <1>1, <2>2, <2>4, <2>5, <2>6
<1>3. HasRouter' = HasRouter /\ Retrying' = Retrying /\ PlainNames' = PlainNames
  BY <1>1 DEF HasRouter, Retrying, PlainNames
<1>4. Frontier(step)' = Frontier(step)
  BY <1>1, SameFrontiers
<1>5. ~HasRouter /\ PlainNames => Counted'
  BY <1>1 DEF FrontierInv, Counted
<1>6. ~HasRouter /\ PlainNames /\ ~Retrying => CountedStarts'
  BY <1>1, <1>2 DEF CountedStarts
<1> HIDE DEF Counted, CountedStarts
<1>7. QED
  BY <1>1, <1>3, <1>4, <1>5, <1>6 DEF FrontierInv

LEMMA NextFrontierInv == WalkInv /\ FrontierInv /\ [Next]_vars => FrontierInv'
<1> SUFFICES ASSUME WalkInv, FrontierInv, [Next]_vars
             PROVE  FrontierInv'
  OBVIOUS
<1>1. ASSUME UNCHANGED <<spec, step, superstep, started, budget, ran>>,
             \/ phase' = phase \/ phase' = "done" \/ (phase = "walking" /\ phase' = "stopped")
             \/ phase = "submitted" /\ phase' \in {"refused", "registered"}
      PROVE  FrontierInv'
  <2>1. step \in Nat
    BY DEF WalkInv
  <2>2. HasRouter' = HasRouter /\ Retrying' = Retrying /\ PlainNames' = PlainNames
    BY <1>1 DEF HasRouter, Retrying, PlainNames
  <2>3. Frontier(step)' = Frontier(step) /\ Width(step)' = Width(step)
    BY <1>1, <2>1, SameFrontiers
  <2>4. QED
    BY <1>1, <2>2, <2>3 DEF FrontierInv, Counted, CountedStarts
<1>2. CASE Refuse \/ Register
  BY <1>1, <1>2 DEF Refuse, Register, runVars
<1>3. CASE CompileFails \/ Report
  BY <1>1, <1>3 DEF CompileFails, Report
<1>4. CASE Start
  BY <1>4, StartsAtFrontier
<1>5. CASE NoNodesLeft \/ TooManySteps
  BY <1>1, <1>5 DEF NoNodesLeft, TooManySteps, Stop
<1>6. CASE MissingNode
  <2>1. HasRouter
    BY <1>6 DEF MissingNode, WalkInv, SuperstepInv, EndBesideOthers, HasRouter
  <2>2. HasRouter'
    BY <1>6, <2>1 DEF MissingNode, HasRouter
  <2>3. QED
    BY <1>6, <2>2 DEF MissingNode, Stop, FrontierInv
<1>7. CASE Superstep
  BY <1>7, StepsToFrontier
<1>8. CASE NodeFails
  BY <1>8, FailsWithinBudget
<1>9. CASE UNCHANGED vars
  BY <1>1, <1>9 DEF vars
<1>10. QED
  BY <1>2, <1>3, <1>4, <1>5, <1>6, <1>7, <1>8, <1>9 DEF Next

\* budget_iteration_limit keeps its promise for every graph that edges alone
\* lead through: no more nodes run than the budget allows, and no more attempts
\* are started where no node has a retry policy of several attempts.
THEOREM BudgetsHold == Spec => []FrontierWithinBudget
<1>1. Init => FrontierInv
  BY InitFrontierInv
<1>2. FrontierInv => FrontierWithinBudget
  BY DEF FrontierInv, FrontierWithinBudget, Counted, CountedStarts
<1>3. QED
  BY <1>1, <1>2, NextFrontierInv, WalkInvariant, PTL DEF Spec

-----------------------------------------------------------------------------
(* Graphs that may be resumed. *)

LEMMA LocalNodesOnly ==
  ASSUME Eligible(spec)
  PROVE  ~HasRouter /\ ~Retrying
BY DEF Eligible, Local, HasRouter, Retrying, Attempts

\* The frontiers of a chain are its nodes, one by one, and then none.
LEMMA FrontiersOfChain ==
  ASSUME spec \in Submitted, Valid(spec), Eligible(spec), NEW k \in 0 .. Len(spec.nodes)
  PROVE  Frontier(k) = IF k < Len(spec.nodes) THEN {Chain(spec)[k + 1]} ELSE {}
<1> DEFINE c == Chain(spec)
           n == Len(spec.nodes)
           Node(i) == IF i < n THEN {c[i + 1]} ELSE {}
           S == {i \in 0 .. n : Frontier(i) = Node(i)}
<1>1. n \in Nat /\ n # 0
  BY ListAssumption DEF Valid
<1>2. /\ c[1] = spec.entry
      /\ \A i \in 1 .. n - 1 : Successors(spec, {c[i]}) = {c[i + 1]}
      /\ Successors(spec, {c[n]}) = {}
  BY ListAssumption, EligibleIsOneChain
<1> HIDE DEF c, n
<1>3. 0 \in S
  <2>1. Frontier(0) = {c[1]}
    BY <1>2, FrontierFollows
  <2>2. 0 \in 0 .. n /\ 0 < n /\ 0 + 1 = 1
    BY <1>1
  <2>3. QED
    BY <2>1, <2>2
<1>4. ASSUME NEW i \in 0 .. n - 1, i \in S PROVE i + 1 \in S
  <2>1. i \in Nat /\ i + 1 \in 0 .. n /\ i < n /\ i + 1 \in 1 .. n
    BY <1>1
  <2>2. Frontier(i + 1) = Successors(spec, {c[i + 1]})
    BY <1>4, <2>1, FrontierFollows
  <2>3. CASE i + 1 < n
    <3>1. i + 1 \in 1 .. n - 1
      BY <1>1, <2>1, <2>3
    <3>2. QED
      BY <1>2, <2>1, <2>2, <2>3, <3>1
  <2>4. CASE ~(i + 1 < n)
    <3>1. i + 1 = n
      BY <1>1, <2>1, <2>4
    <3>2. Frontier(i + 1) = {}
      BY <1>2, <2>2, <3>1
    <3>3. QED
      BY <2>1, <2>4, <3>2
  <2>5. QED
    BY <2>3, <2>4
<1> HIDE DEF S
<1>5. 0 .. n \subseteq S
  BY <1>1, <1>3, <1>4, InductionUpTo
<1>6. QED
  BY <1>5 DEF S, c, n

\* What has run is the beginning of the chain.
ChainInv ==
  /\ phase \in {"submitted", "registered"} => step = 0 /\ ran = {} /\ result = "none"
  /\ Eligible(spec) /\ PlainNames /\ phase \in {"walking", "stopped"} =>
       /\ step \in 0 .. Len(spec.nodes)
       /\ ran = {<<i - 1, Chain(spec)[i]>> : i \in 1 .. step}
       /\ result \in {"none", "ok", "iterations", "failed"}
       /\ result = "ok" => superstep = {}

\* The next node of the chain, or none.
LEMMA NextInChain ==
  ASSUME WalkInv, FrontierInv, ChainInv, Eligible(spec), PlainNames, phase \in {"walking", "stopped"}
  PROVE  /\ Len(spec.nodes) \in Nat /\ Len(Chain(spec)) = Len(spec.nodes)
         /\ step \in 0 .. Len(spec.nodes)
         /\ superstep = IF step < Len(spec.nodes) THEN {Chain(spec)[step + 1]} ELSE {}
<1>1. /\ spec \in Submitted /\ Valid(spec) /\ step \in 0 .. Len(spec.nodes)
      /\ Len(spec.nodes) \in Nat /\ Len(Chain(spec)) = Len(spec.nodes)
  BY ListAssumption DEF WalkInv, Begun, Accepted, ChainInv, Eligible
<1>2. superstep = Frontier(step)
  BY LocalNodesOnly DEF FrontierInv
<1>3. QED
  BY <1>1, <1>2, FrontiersOfChain

LEMMA ChainStep ==
  ASSUME WalkInv, FrontierInv, ChainInv, Superstep
  PROVE  ChainInv'
<1> SUFFICES ASSUME Eligible(spec), PlainNames
             PROVE  /\ step' \in 0 .. Len(spec.nodes)
                    /\ ran' = {<<i - 1, Chain(spec)[i]>> : i \in 1 .. step'}
                    /\ result' \in {"none", "ok", "iterations", "failed"}
                    /\ result' # "ok"
  BY DEF ChainInv, Superstep, CanStep, PlainNames
<1>1. /\ phase = "walking" /\ superstep # {} /\ step' = step + 1
      /\ ran' = ran \cup ({step} \X superstep)
      /\ result' = result
  BY DEF Superstep, CanStep
<1>2. /\ Len(spec.nodes) \in Nat /\ step \in 0 .. Len(spec.nodes)
      /\ superstep = IF step < Len(spec.nodes) THEN {Chain(spec)[step + 1]} ELSE {}
  BY <1>1, NextInChain
<1>3. step < Len(spec.nodes) /\ superstep = {Chain(spec)[step + 1]}
  BY <1>1, <1>2
<1>4. ran = {<<i - 1, Chain(spec)[i]>> : i \in 1 .. step} /\ result \in {"none", "iterations", "failed"}
  BY <1>1 DEF ChainInv
<1>5. \A i : i \in 1 .. step + 1 <=> i \in 1 .. step \/ i = step + 1
  BY <1>2
<1>6. ran' = {<<i - 1, Chain(spec)[i]>> : i \in 1 .. step + 1}
  <2>1. (step + 1) - 1 = step
    BY <1>2
  <2>2. {step} \X superstep = {<<step, Chain(spec)[step + 1]>>}
    BY <1>3
  <2>3. QED
    BY <1>1, <1>4, <1>5, <2>1, <2>2
<1>7. QED
  BY <1>1, <1>2, <1>3, <1>4, <1>6

LEMMA NextChainInv == WalkInv /\ FrontierInv /\ ChainInv /\ [Next]_vars => ChainInv'
<1> SUFFICES ASSUME WalkInv, FrontierInv, ChainInv, [Next]_vars
             PROVE  ChainInv'
  OBVIOUS
<1>1. CASE Refuse \/ Register
  BY <1>1 DEF Refuse, Register, runVars, ChainInv, PlainNames
<1>2. CASE CompileFails \/ Report
  BY <1>2 DEF CompileFails, Report, ChainInv, PlainNames
<1>3. CASE Start
  <2>1. /\ spec' = spec /\ step' = 0 /\ ran' = {} /\ result' = "none" /\ phase' = "walking"
        /\ spec \in Submitted
    BY <1>3 DEF Start, ChainInv, WalkInv
  <2>2. Len(spec.nodes) \in Nat
    BY <2>1, ListAssumption
  <2>3. 0 \in 0 .. Len(spec.nodes) /\ 1 .. 0 = {}
    BY <2>2
  <2>4. QED
    BY <2>1, <2>3 DEF ChainInv, PlainNames
<1>4. CASE NoNodesLeft \/ TooManySteps
  BY <1>4 DEF NoNodesLeft, TooManySteps, Stop, ChainInv, PlainNames
<1>5. CASE MissingNode
  <2>1. ~Eligible(spec)
    BY <1>5, LocalNodesOnly DEF MissingNode, WalkInv, SuperstepInv, EndBesideOthers, HasRouter
  <2>2. QED
    BY <1>5, <2>1 DEF MissingNode, Stop, ChainInv, PlainNames
<1>6. CASE Superstep
  BY <1>6, ChainStep
<1>7. CASE NodeFails
  BY <1>7 DEF NodeFails, Stop, CanStep, ChainInv, PlainNames
<1>8. CASE UNCHANGED vars
  BY <1>8 DEF vars, ChainInv, PlainNames
<1>9. QED
  BY <1>1, <1>2, <1>3, <1>4, <1>5, <1>6, <1>7, <1>8 DEF Next

\* resume_eligibility classifies rightly, whatever the graph: it runs its chain,
\* one node at a time, and has run every node when it ends well.
THEOREM ChainsAreExecuted == Spec => []ChainIsExecuted
<1>1. Init => FrontierInv /\ ChainInv
  BY InitFrontierInv DEF Init, ChainInv
<1>2. WalkInv /\ FrontierInv /\ ChainInv => ChainIsExecuted
  <2> SUFFICES ASSUME WalkInv, FrontierInv, ChainInv, phase \in {"walking", "stopped"},
                      Eligible(spec), PlainNames
               PROVE  /\ superstep = IF step < Len(Chain(spec)) THEN {Chain(spec)[step + 1]} ELSE {}
                      /\ result \in {"none", "ok", "iterations", "failed"}
                      /\ result = "ok" =>
                           /\ ran = {<<i - 1, Chain(spec)[i]>> : i \in DOMAIN Chain(spec)}
                           /\ {run[2] : run \in ran} = Ids(spec)
    BY DEF ChainIsExecuted
  <2>1. /\ Len(spec.nodes) \in Nat /\ Len(Chain(spec)) = Len(spec.nodes)
        /\ step \in 0 .. Len(spec.nodes)
        /\ superstep = IF step < Len(spec.nodes) THEN {Chain(spec)[step + 1]} ELSE {}
        /\ DOMAIN Chain(spec) = 1 .. Len(spec.nodes)
    BY NextInChain, ListAssumption, EligibleIsOneChain DEF WalkInv, Begun, Accepted
  <2>2. /\ ran = {<<i - 1, Chain(spec)[i]>> : i \in 1 .. step}
        /\ result \in {"none", "ok", "iterations", "failed"}
        /\ result = "ok" => superstep = {}
    BY DEF ChainInv
  <2>3. result = "ok" => step = Len(spec.nodes)
    BY <2>1, <2>2
  <2>4. {run[2] : run \in ran} = {Chain(spec)[i] : i \in 1 .. step}
    <3> DEFINE entry(i) == <<i - 1, Chain(spec)[i]>>
    <3>1. ran = {entry(i) : i \in 1 .. step}
      BY <2>2
    <3>2. \A i \in 1 .. step : entry(i)[2] = Chain(spec)[i]
      OBVIOUS
    <3> HIDE DEF entry
    <3>3. QED
      BY <3>1, <3>2
  <2>5. {Chain(spec)[i] : i \in 1 .. Len(spec.nodes)} = Ids(spec)
    <3>1. /\ spec \in Submitted /\ Valid(spec)
      BY DEF WalkInv, Begun, Accepted
    <3>2. QED
      BY <3>1, ListAssumption, EligibleIsOneChain
  <2>6. QED
    BY <2>1, <2>2, <2>3, <2>4, <2>5
<1>3. QED
  BY <1>1, <1>2, NextFrontierInv, NextChainInv, WalkInvariant, PTL DEF Spec

-----------------------------------------------------------------------------
(* Joins. *)

\* What a step with a single join writes.
LEMMA JoinWrites ==
  ASSUME WalkInv, Next, NEW n \in superstep, JoinStep(n)
  PROVE  /\ Joined(JoinOf(n), state).ok
         /\ state'[JoinOf(n).output] = Joined(JoinOf(n), state).value
         /\ n \in Ids(spec)
<1> USE DEF JoinStep, JoinOf
<1>1. Superstep
  BY DEF Next, WalkInv, Refuse, Register, runVars, CompileFails, Start, NoNodesLeft, TooManySteps,
         MissingNode, NodeFails, Report
<1>2. PICK outcome \in [superstep -> UNION {Results(m, state) : m \in superstep}] :
        /\ \A m \in superstep : outcome[m] \in Results(m, state) /\ outcome[m].ok
        /\ \/ \E m \in superstep : superstep = {m} /\ state' = outcome[m].data
           \/ Cardinality(superstep) > 1
  BY <1>1 DEF Superstep
<1>3. state' = outcome[n].data
  <2>1. superstep = {n} /\ Cardinality({n}) = 1
    BY FS_Singleton
  <2>2. ~ Cardinality(superstep) > 1
    BY <2>1
  <2>3. QED
    BY <1>2, <2>1, <2>2
<1>4. outcome[n] = JoinResult(n, Config(spec, n), state)
  BY <1>2 DEF Results
<1>5. Joined(JoinOf(n), state).ok
  BY <1>2, <1>4 DEF JoinResult, Failed
<1>6. outcome[n].data = Write(state, JoinOf(n).output, Joined(JoinOf(n), state).value)
  BY <1>4, <1>5 DEF JoinResult, Done
<1>7. QED
  BY <1>1, <1>3, <1>5, <1>6 DEF Write, Superstep

LEMMA JoinConfig ==
  ASSUME WalkInv, NEW n \in Ids(spec), TypeOf(spec, n) = "join"
  PROVE  /\ JoinOf(n).inputs \in Seq(STRING)
         /\ JoinOf(n).mode = "quorum" => JoinOf(n).required \in Nat
BY JoinAssumption, NodeOfId DEF WalkInv, JoinOf, Config, TypeOf

\* The inputs of a join, by position.
LEMMA JoinInputs ==
  ASSUME NEW join, NEW data, join.inputs \in Seq(STRING)
  PROVE  /\ DOMAIN InputsOf(join, data) = DOMAIN join.inputs
         /\ \A i \in DOMAIN join.inputs :
              /\ InputsOf(join, data)[i][1] = join.inputs[i]
              /\ InputsOf(join, data)[i][2] = Read(data, join.inputs[i])
BY DEF InputsOf

LEMMA InputAt ==
  ASSUME NEW join, NEW data, join.inputs \in Seq(STRING), NEW k \in RangeOf(join.inputs)
  PROVE  \E i \in DOMAIN InputsOf(join, data) :
           InputsOf(join, data)[i][2] = Read(data, k) /\ i \in Nat
<1>1. PICK i \in DOMAIN join.inputs : join.inputs[i] = k
  BY DEF RangeOf
<1>2. i \in Nat
  OBVIOUS
<1>3. i \in DOMAIN InputsOf(join, data) /\ InputsOf(join, data)[i][2] = Read(data, join.inputs[i])
  BY JoinInputs
<1>4. QED
  BY <1>1, <1>2, <1>3

\* A value keeps what it was made of.
LEMMA Unwrapped ==
  ASSUME NEW x
  PROVE  Bool(x)[2] = x /\ Object(x)[2] = x
BY DEF Bool, Object

\* all_success: a branch that has not written has not succeeded.
LEMMA AllSuccessEarned ==
  ASSUME NEW join, NEW data, join.inputs \in Seq(STRING), join.mode = "all_success",
         Joined(join, data).ok, Joined(join, data).value[2].all_success[2],
         NEW k \in RangeOf(join.inputs)
  PROVE  Read(data, k) # Null
<1> DEFINE inputs == InputsOf(join, data)
<1>1. Joined(join, data) = Made(AllSuccess(inputs))
  BY DEF Joined, Broken, Strategies, Plain
<1>2. Joined(join, data).value = AllSuccess(inputs)
  BY <1>1 DEF Made
<1>3. \A i \in DOMAIN inputs : Succeeded(inputs[i][2])
  <2> DEFINE P == \A i \in DOMAIN inputs : Succeeded(inputs[i][2])
             record == [all_success |-> Bool(P), values |-> Array(ValuesOf(inputs))]
  <2>1. AllSuccess(inputs) = Object(record)
    BY DEF AllSuccess
  <2>2. record.all_success = Bool(P)
    OBVIOUS
  <2> HIDE DEF P, record
  <2>3. P
    BY <1>2, <2>1, <2>2, Unwrapped
  <2>4. QED
    BY <2>3 DEF P
<1>4. PICK i \in DOMAIN inputs : inputs[i][2] = Read(data, k) /\ i \in Nat
  BY InputAt
<1>5. ~Succeeded(Null)
  BY DEF Succeeded, Null, Is, Field, Absent
<1>6. QED
  BY <1>3, <1>4, <1>5

\* quorum: where every branch is named once, positions are branches.
LEMMA QuorumEarned ==
  ASSUME NEW join, NEW data, join.inputs \in Seq(STRING), join.mode = "quorum",
         join.required \in Nat, NamedOnce(join.inputs),
         Joined(join, data).ok, Joined(join, data).value[2].met[2]
  PROVE  Cardinality({k \in RangeOf(join.inputs) : IsTrue(Read(data, k))}) >= join.required
<1> DEFINE inputs == InputsOf(join, data)
           S == {i \in DOMAIN inputs : IsTrue(inputs[i][2])}
           T == {k \in RangeOf(join.inputs) : IsTrue(Read(data, k))}
           f == [i \in S |-> join.inputs[i]]
<1>1. Joined(join, data).value = QuorumOf(join, inputs)
  BY DEF Joined, Broken, Strategies, Plain, Made
<1>2. Cardinality(S) >= join.required
  <2> DEFINE P == Approvals(inputs) >= join.required
             record == [met |-> Bool(P), approvals |-> Number(Approvals(inputs)),
                        required |-> Number(join.required)]
  <2>1. QuorumOf(join, inputs) = Object(record)
    BY DEF QuorumOf
  <2>2. record.met = Bool(P)
    OBVIOUS
  <2> HIDE DEF P, record
  <2>3. P
    BY <1>1, <2>1, <2>2, Unwrapped
  <2>4. QED
    BY <2>3 DEF P, Approvals
<1>3. IsFiniteSet(S)
  <2>1. DOMAIN inputs = 1 .. Len(join.inputs) /\ Len(join.inputs) \in Nat
    BY JoinInputs
  <2>2. IsFiniteSet(1 .. Len(join.inputs))
    BY <2>1, FS_Interval
  <2>3. S \in SUBSET (1 .. Len(join.inputs))
    BY <2>1
  <2>4. QED
    BY <2>2, <2>3, FS_Subset
<1>4. f \in Injection(S, T)
  BY JoinInputs DEF NamedOnce, RangeOf, Injection, IsInjective
<1>5. f \in Surjection(S, T)
  BY JoinInputs DEF RangeOf, Surjection
<1>6. IsFiniteSet(T)
  BY <1>3, <1>5, FS_Surjection
<1>7. Cardinality(S) <= Cardinality(T) /\ Cardinality(S) \in Nat /\ Cardinality(T) \in Nat
  BY <1>3, <1>4, <1>6, FS_Injection, FS_CardinalityType
<1>8. QED
  BY <1>2, <1>7

\* The certification of a strategy is that of its normalized inputs.
LEMMA CertificationOf ==
  ASSUME NEW join, NEW data, join.mode \in {"contradiction_matrix", "proof_carrying_join"},
         Joined(join, data).ok, Joined(join, data).value[2].certification[2] = "pass"
  PROVE  Certification(join, InputsOf(join, data)) = "pass"
<1> DEFINE inputs == InputsOf(join, data)
<1>1. Joined(join, data) = Strategy(join, inputs)
  BY DEF Joined, Broken, Strategies
<1>2. Joined(join, data).value = Envelope(join, inputs)
  BY <1>1 DEF Strategy, Broken, Made, Normalized
<1>3. QED
  BY <1>2 DEF Envelope, Object, Text

LEMMA ProofEarned ==
  ASSUME NEW join, NEW data, join.inputs \in Seq(STRING), join.mode = "proof_carrying_join",
         Joined(join, data).ok, Joined(join, data).value[2].certification[2] = "pass",
         NEW k \in RangeOf(join.inputs), NEW name \in join.fields
  PROVE  Field(Read(data, k), name) # Absent
<1> DEFINE inputs == InputsOf(join, data)
<1>1. Noted(join, inputs) = {}
  BY CertificationOf DEF Certification
<1>2. \A i \in DOMAIN inputs : Proven(join, inputs[i][2])
  BY <1>1 DEF Noted, Majority
<1>3. PICK i \in DOMAIN inputs : inputs[i][2] = Read(data, k) /\ i \in Nat
  BY InputAt
<1>4. QED
  BY <1>2, <1>3 DEF Proven

LEMMA StrictPassEarned ==
  ASSUME NEW join, NEW data, join.inputs \in Seq(STRING), join.mode = "contradiction_matrix",
         join.strict,
         Joined(join, data).ok, Joined(join, data).value[2].certification[2] = "pass",
         NEW k \in RangeOf(join.inputs), NEW l \in RangeOf(join.inputs)
  PROVE  ~Contradict(Read(data, k), Read(data, l))
<1> DEFINE inputs == InputsOf(join, data)
<1>1. Contradictions(join, inputs) = {}
  BY CertificationOf DEF Certification
<1>2. ASSUME NEW i \in DOMAIN inputs, NEW j \in DOMAIN inputs, i < j
      PROVE  ~Contradict(inputs[i][2], inputs[j][2])
  <2>1. <<i, j>> \notin Contradictions(join, inputs)
    BY <1>1
  <2>2. QED
    BY <1>2, <2>1 DEF Contradictions
<1>3. \A v, w : Contradict(v, w) => Contradict(w, v) /\ v # w
  BY DEF Contradict
<1>4. PICK i \in DOMAIN inputs : inputs[i][2] = Read(data, k) /\ i \in Nat
  BY InputAt
<1>5. PICK j \in DOMAIN inputs : inputs[j][2] = Read(data, l) /\ j \in Nat
  BY InputAt
<1>6. QED
  BY <1>2, <1>3, <1>4, <1>5

LEMMA NextVerdict ==
  ASSUME WalkInv, Next, NEW n \in superstep, JoinStep(n)
  PROVE  LET value(key) == Read(state, key)
             keys == RangeOf(JoinOf(n).inputs)
             passed == Out(n).certification[2] = "pass"
         IN CASE JoinOf(n).mode = "all_success" ->
                   Out(n).all_success[2] => \A k \in keys : value(k) # Null
              [] JoinOf(n).mode = "quorum" ->
                   Out(n).met[2] /\ NamedOnce(JoinOf(n).inputs) =>
                     Cardinality({k \in keys : IsTrue(value(k))}) >= JoinOf(n).required
              [] JoinOf(n).mode = "proof_carrying_join" ->
                   passed => \A k \in keys : \A name \in JoinOf(n).fields : Field(value(k), name) # Absent
              [] JoinOf(n).mode = "contradiction_matrix" ->
                   passed /\ JoinOf(n).strict => \A k, l \in keys : ~Contradict(value(k), value(l))
              [] OTHER -> TRUE
<1> DEFINE join == JoinOf(n)
<1>1. /\ Joined(join, state).ok
      /\ Out(n) = Joined(join, state).value[2]
      /\ join.inputs \in Seq(STRING)
      /\ join.mode = "quorum" => join.required \in Nat
  BY JoinWrites, JoinConfig DEF Out, JoinStep
<1>2. CASE join.mode = "all_success"
  BY <1>1, <1>2, AllSuccessEarned
<1>3. CASE join.mode = "quorum"
  BY <1>1, <1>3, QuorumEarned
<1>4. CASE join.mode = "proof_carrying_join"
  BY <1>1, <1>4, ProofEarned
<1>5. CASE join.mode = "contradiction_matrix"
  BY <1>1, <1>5, StrictPassEarned
<1>6. QED
  BY <1>2, <1>3, <1>4, <1>5

\* A favourable verdict of a join is earned by what its branches have written.
THEOREM VerdictsAreEarned == Spec => VerdictIsEarned
<1>1. WalkInv /\ [Next]_vars =>
        [\A n \in superstep : JoinStep(n) =>
           LET value(key) == Read(state, key)
               keys == RangeOf(JoinOf(n).inputs)
               passed == Out(n).certification[2] = "pass"
           IN CASE JoinOf(n).mode = "all_success" ->
                     Out(n).all_success[2] => \A k \in keys : value(k) # Null
                [] JoinOf(n).mode = "quorum" ->
                     Out(n).met[2] /\ NamedOnce(JoinOf(n).inputs) =>
                       Cardinality({k \in keys : IsTrue(value(k))}) >= JoinOf(n).required
                [] JoinOf(n).mode = "proof_carrying_join" ->
                     passed => \A k \in keys : \A name \in JoinOf(n).fields :
                                 Field(value(k), name) # Absent
                [] JoinOf(n).mode = "contradiction_matrix" ->
                     passed /\ JoinOf(n).strict =>
                       \A k, l \in keys : ~Contradict(value(k), value(l))
                [] OTHER -> TRUE]_vars
  BY NextVerdict
<1>2. QED
  BY <1>1, WalkInvariant, PTL DEF Spec, VerdictIsEarned

-----------------------------------------------------------------------------
(* No strategy loses an artifact. *)

\* The elements At picks are those at the positions.
Picks(seq, P) ==
  LET c == Cardinality(P) IN
  /\ c \in Nat /\ DOMAIN At(seq, P) = 1 .. c
  /\ \A n \in 1 .. c : \E i \in P : At(seq, P)[n] = seq[i]
  /\ \A i \in P : \E n \in 1 .. c : At(seq, P)[n] = seq[i]

\* A position's rank among the positions is where its element goes.
LEMMA AtPicks ==
  ASSUME NEW m \in Nat, NEW P, P \subseteq 1 .. m, NEW seq
  PROVE  Picks(seq, P)
<1> DEFINE Upto(i) == {j \in P : j <= i}
           Rank(i) == Cardinality(Upto(i))
           c == Cardinality(P)
           f == [i \in P |-> Rank(i)]
           Pos(n) == CHOOSE i \in P : Rank(i) = n
<1>1. IsFiniteSet(P) /\ c \in Nat
  <2>1. IsFiniteSet(1 .. m)
    BY FS_Interval
  <2>2. QED
    BY <2>1, FS_Subset, FS_CardinalityType
<1>2. At(seq, P) = [n \in 1 .. c |-> seq[Pos(n)]]
  BY DEF At
<1>3. ASSUME NEW i \in P PROVE Rank(i) \in 1 .. c
  <2>1. Upto(i) \in SUBSET P /\ Upto(i) # {}
    OBVIOUS
  <2>2. IsFiniteSet(Upto(i)) /\ Rank(i) \in Nat /\ Rank(i) <= c
    BY <1>1, <2>1, FS_Subset, FS_CardinalityType
  <2>3. Rank(i) # 0
    BY <2>1, <2>2, FS_EmptySet
  <2>4. QED
    BY <1>1, <2>2, <2>3
<1>4. ASSUME NEW i \in P, NEW j \in P, i < j PROVE Rank(i) # Rank(j)
  <2>1. Upto(i) \in SUBSET Upto(j) /\ j \in Upto(j) /\ j \notin Upto(i)
    <3>1. \A k \in P : k \in Int /\ (k <= i => k <= j)
      BY <1>4
    <3>2. j <= j /\ ~(j <= i)
      BY <1>4
    <3>3. QED
      BY <3>1, <3>2
  <2>2. IsFiniteSet(Upto(j))
    BY <1>1, FS_Subset
  <2>3. Upto(i) # Upto(j)
    BY <2>1
  <2>4. QED
    BY <2>1, <2>2, <2>3, FS_Subset
<1>5. \A i, j \in P : Rank(i) = Rank(j) => i = j
  <2>1. \A i, j \in P : i < j \/ i = j \/ j < i
    OBVIOUS
  <2> HIDE DEF Rank
  <2>2. QED
    BY <1>4, <2>1
<1> HIDE DEF Rank, c
<1>6. f \in Injection(P, 1 .. c)
  BY <1>3, <1>5 DEF Injection, IsInjective
<1>7. IsFiniteSet(1 .. c) /\ Cardinality(1 .. c) = c
  BY <1>1, FS_Interval
<1>8. f \in Surjection(P, 1 .. c)
  BY <1>6, <1>7, FS_Injection DEF c
<1>9. ASSUME NEW n \in 1 .. c PROVE Pos(n) \in P /\ Rank(Pos(n)) = n
  <2>1. \E i \in P : Rank(i) = n
    BY <1>8 DEF Surjection
  <2>2. QED
    BY <2>1
<1>10. ASSUME NEW i \in P PROVE Pos(Rank(i)) = i
  BY <1>3, <1>5, <1>9
<1> HIDE DEF Pos
<1>11. QED
  BY <1>1, <1>2, <1>3, <1>9, <1>10 DEF c, Picks

LEMMA ValuesAt ==
  ASSUME NEW m \in Nat, NEW P, P \subseteq 1 .. m, NEW seq
  PROVE  RangeOf(ValuesOf(At(seq, P))) = {seq[i][2] : i \in P}
<1>1. Picks(seq, P)
  BY AtPicks
<1>2. RangeOf(ValuesOf(At(seq, P))) = {At(seq, P)[n][2] : n \in 1 .. Cardinality(P)}
  <2> DEFINE list == At(seq, P)
  <2>1. DOMAIN list = 1 .. Cardinality(P)
    BY <1>1 DEF Picks
  <2> HIDE DEF list
  <2>2. RangeOf(ValuesOf(list)) = {list[n][2] : n \in DOMAIN list}
    BY DEF RangeOf, ValuesOf
  <2>3. QED
    BY <2>1, <2>2 DEF list
<1>3. \A n \in 1 .. Cardinality(P) : At(seq, P)[n][2] \in {seq[i][2] : i \in P}
  BY <1>1 DEF Picks
<1>4. ASSUME NEW i \in P
      PROVE  seq[i][2] \in {At(seq, P)[n][2] : n \in 1 .. Cardinality(P)}
  <2>1. PICK n \in 1 .. Cardinality(P) : At(seq, P)[n] = seq[i]
    BY <1>1 DEF Picks
  <2>2. QED
    BY <2>1
<1>5. QED
  BY <1>2, <1>3, <1>4

\* What a strategy shows of its normalized inputs.
LEMMA EnvelopeShows ==
  ASSUME NEW join, NEW set, NEW m \in Nat, DOMAIN set = 1 .. m
  PROVE  LET out == Envelope(join, set)[2]
         IN /\ RangeOf(out.value[2]) = {set[i][2] : i \in Majority(join, set)}
            /\ RangeOf(out.minority_report[2]) = {set[i][2] : i \in Minority(join, set)}
            /\ out.notes[2] = {set[i][1] : i \in Noted(join, set)}
            /\ Majority(join, set) \cup Minority(join, set) \cup Noted(join, set) = DOMAIN set
<1>1. /\ Majority(join, set) \subseteq 1 .. m /\ Minority(join, set) \subseteq 1 .. m
  BY DEF Majority, Minority
<1>2. /\ RangeOf(ValuesOf(At(set, Majority(join, set)))) = {set[i][2] : i \in Majority(join, set)}
      /\ RangeOf(ValuesOf(At(set, Minority(join, set)))) = {set[i][2] : i \in Minority(join, set)}
  BY <1>1, ValuesAt
<1>3. Majority(join, set) \cup Minority(join, set) \cup Noted(join, set) = DOMAIN set
  BY DEF Majority, Minority, Noted
<1> DEFINE V == ValuesOf(At(set, Majority(join, set)))
           W == ValuesOf(At(set, Minority(join, set)))
           K == {set[i][1] : i \in Noted(join, set)}
           out == Envelope(join, set)[2]
<1>4. out.value[2] = V /\ out.minority_report[2] = W /\ out.notes[2] = K
  <2> HIDE DEF V, W, K
  <2>1. QED
    BY DEF Envelope, Object, Text, Array, V, W, K
<1>5. QED
  BY <1>2, <1>3, <1>4

\* The inputs that stay, as positions.
Kept(join, inputs) ==
  IF join.mode # "dedupe_by_identity" THEN DOMAIN inputs
  ELSE {i \in DOMAIN inputs :
          \A j \in 1 .. i - 1 : IdentityOf(join, inputs[j]) # IdentityOf(join, inputs[i])}

\* The inputs at some positions make the set.
MadeOf(set, inputs, positions) ==
  /\ \E n \in Nat : DOMAIN set = 1 .. n
  /\ \A n \in DOMAIN set : \E i \in positions : set[n] = inputs[i]
  /\ \A i \in positions : \E n \in DOMAIN set : set[n] = inputs[i]

LEMMA NormalizedKeeps ==
  ASSUME NEW join, NEW inputs, NEW m \in Nat, DOMAIN inputs = 1 .. m
  PROVE  MadeOf(Normalized(join, inputs), inputs, Kept(join, inputs))
<1> DEFINE P == Kept(join, inputs)
           set == Normalized(join, inputs)
<1>1. CASE join.mode # "dedupe_by_identity"
  BY <1>1 DEF Normalized, Kept, MadeOf
<1>2. CASE join.mode = "dedupe_by_identity"
  <2>1. set = At(inputs, P)
    BY <1>2 DEF Normalized, Kept
  <2>2. P \subseteq 1 .. m
    BY DEF Kept
  <2> HIDE DEF P, set
  <2>3. Picks(inputs, P)
    BY <2>2, AtPicks
  <2>4. QED
    BY <2>1, <2>3 DEF Picks, P, set, MadeOf
<1>3. QED
  BY <1>1, <1>2

\* Of those with one identity, the first is kept.
LEMMA FirstIsKept ==
  ASSUME NEW join, NEW inputs, NEW m \in Nat, DOMAIN inputs = 1 .. m,
         join.mode = "dedupe_by_identity", NEW i \in 1 .. m
  PROVE  \E k \in Kept(join, inputs) : IdentityOf(join, inputs[k]) = IdentityOf(join, inputs[i])
<1> DEFINE id(j) == IdentityOf(join, inputs[j])
           T == {j \in 1 .. m : id(j) = id(i)}
<1>1. T \subseteq Nat /\ T # {} /\ T \subseteq 1 .. m /\ \A j \in 1 .. m : j \in T <=> id(j) = id(i)
  OBVIOUS
<1> HIDE DEF T, id
<1>2. PICK k \in T : \A j \in T : k <= j
  BY <1>1, Least
<1>3. \A j \in 1 .. k - 1 : j \in 1 .. m /\ ~(k <= j)
  BY <1>1, <1>2
<1>4. \A j \in 1 .. k - 1 : id(j) # id(k)
  BY <1>1, <1>2, <1>3
<1>5. k \in Kept(join, inputs)
  BY <1>1, <1>2, <1>4 DEF Kept, id
<1>6. QED
  BY <1>1, <1>2, <1>5 DEF id

LEMMA KeptOnce ==
  ASSUME NEW join, NEW inputs, NEW m \in Nat, DOMAIN inputs = 1 .. m,
         join.mode = "dedupe_by_identity",
         NEW k \in Kept(join, inputs), NEW l \in Kept(join, inputs),
         IdentityOf(join, inputs[k]) = IdentityOf(join, inputs[l])
  PROVE  k = l
<1>1. /\ k \in 1 .. m /\ l \in 1 .. m
      /\ \A j \in 1 .. k - 1 : IdentityOf(join, inputs[j]) # IdentityOf(join, inputs[k])
      /\ \A j \in 1 .. l - 1 : IdentityOf(join, inputs[j]) # IdentityOf(join, inputs[l])
  BY DEF Kept
<1>2. k \notin 1 .. l - 1 /\ l \notin 1 .. k - 1
  BY <1>1
<1>3. QED
  BY <1>1, <1>2

\* What a strategy's output owes its inputs.
KeepsArtifacts(join, data, out) ==
  LET inputs == RangeOf(InputsOf(join, data))
      shown == RangeOf(out.value[2]) \cup RangeOf(out.minority_report[2])
      identified == join.mode = "dedupe_by_identity" /\ join.identity # None
      identity(value) == Field(value, join.identity)
  IN /\ shown \subseteq {input[2] : input \in inputs}
     /\ \A input \in inputs :
          IF identified THEN Cardinality({v \in shown : identity(v) = identity(input[2])}) = 1
          ELSE input[2] \in shown \/ input[1] \in out.notes[2]

LEMMA ArtifactsKept ==
  ASSUME NEW join, NEW data, join.inputs \in Seq(STRING), join.mode \in Strategies,
         Joined(join, data).ok
  PROVE  KeepsArtifacts(join, data, Joined(join, data).value[2])
<1> DEFINE inputs == InputsOf(join, data)
           set == Normalized(join, inputs)
           P == Kept(join, inputs)
           m == Len(join.inputs)
           out == Joined(join, data).value[2]
           shown == RangeOf(out.value[2]) \cup RangeOf(out.minority_report[2])
           identity(value) == Field(value, join.identity)
<1>1. /\ m \in Nat /\ DOMAIN inputs = 1 .. m
      /\ \A i \in 1 .. m : inputs[i][1] = join.inputs[i] /\ inputs[i][2] = Read(data, join.inputs[i])
      /\ RangeOf(inputs) = {inputs[i] : i \in 1 .. m}
  BY JoinInputs DEF RangeOf
<1>2. ValidInputs(join, inputs) /\ out = Envelope(join, set)[2]
  <2>1. Joined(join, data) = Strategy(join, inputs)
    BY DEF Joined, Broken
  <2>2. QED
    BY <2>1 DEF Strategy, Broken, Made
<1> HIDE DEF inputs, m
<1>3. /\ \E n \in Nat : DOMAIN set = 1 .. n
      /\ \A n \in DOMAIN set : \E i \in P : set[n] = inputs[i]
      /\ \A i \in P : \E n \in DOMAIN set : set[n] = inputs[i]
  <2>1. MadeOf(set, inputs, P)
    BY <1>1, NormalizedKeeps
  <2>2. QED
    BY <2>1 DEF MadeOf
<1> HIDE DEF set, out
<1>4. /\ shown = {set[i][2] : i \in Majority(join, set) \cup Minority(join, set)}
      /\ out.notes[2] = {set[i][1] : i \in Noted(join, set)}
      /\ Majority(join, set) \cup Minority(join, set) \cup Noted(join, set) = DOMAIN set
  <2>1. PICK n \in Nat : DOMAIN set = 1 .. n
    BY <1>3
  <2>2. /\ RangeOf(out.value[2]) = {set[i][2] : i \in Majority(join, set)}
        /\ RangeOf(out.minority_report[2]) = {set[i][2] : i \in Minority(join, set)}
        /\ out.notes[2] = {set[i][1] : i \in Noted(join, set)}
        /\ Majority(join, set) \cup Minority(join, set) \cup Noted(join, set) = DOMAIN set
    BY <1>2, <2>1, EnvelopeShows
  <2>3. QED
    BY <2>2
<1>5. P \subseteq 1 .. m
  BY <1>1 DEF Kept
<1> HIDE DEF shown, P
<1>6. shown \subseteq {input[2] : input \in RangeOf(inputs)}
  <2> SUFFICES ASSUME NEW n \in DOMAIN set
               PROVE  set[n][2] \in {input[2] : input \in RangeOf(inputs)}
    BY <1>4
  <2>1. PICK i \in P : set[n] = inputs[i]
    BY <1>3
  <2>2. inputs[i] \in RangeOf(inputs)
    BY <1>1, <1>5
  <2>3. QED
    BY <2>1, <2>2
<1> DEFINE identified == join.mode = "dedupe_by_identity" /\ join.identity # None
<1>7. ASSUME join.mode = "dedupe_by_identity"
      PROVE  /\ shown = {inputs[i][2] : i \in P}
             /\ \A i \in 1 .. m : \E k \in P : IdentityOf(join, inputs[k]) = IdentityOf(join, inputs[i])
  <2>1. shown = {set[n][2] : n \in DOMAIN set}
    BY <1>4, <1>7 DEF Majority, Minority
  <2>2. shown = {inputs[i][2] : i \in P}
    BY <1>3, <2>1
  <2>3. QED
    BY <1>1, <1>7, <2>2, FirstIsKept DEF P
<1>8. ASSUME ~identified, NEW i \in 1 .. m
      PROVE  inputs[i][2] \in shown \/ inputs[i][1] \in out.notes[2]
  <2>1. CASE join.mode # "dedupe_by_identity"
    <3>1. i \in P
      BY <1>1, <2>1 DEF P, Kept
    <3>2. PICK n \in DOMAIN set : set[n] = inputs[i]
      BY <1>3, <3>1
    <3>3. QED
      BY <1>4, <3>2
  <2>2. CASE join.mode = "dedupe_by_identity"
    <3>1. PICK k \in P : IdentityOf(join, inputs[k]) = IdentityOf(join, inputs[i])
      BY <1>7, <2>2
    <3>2. inputs[k][1] = inputs[i][1]
      BY <1>8, <2>2, <3>1 DEF IdentityOf
    <3>3. inputs[k][2] = inputs[i][2]
      BY <1>1, <1>5, <3>2
    <3>4. QED
      BY <1>7, <2>2, <3>3
  <2>3. QED
    BY <2>1, <2>2
<1>9. ASSUME identified, NEW i \in 1 .. m
      PROVE  Cardinality({v \in shown : identity(v) = identity(inputs[i][2])}) = 1
  <2>1. \A k, l \in 1 .. m : identity(inputs[k][2]) = identity(inputs[l][2])
                              <=> IdentityOf(join, inputs[k]) = IdentityOf(join, inputs[l])
    <3>1. \A k \in 1 .. m : identity(inputs[k][2]) # Absent
      BY <1>1, <1>2, <1>9 DEF ValidInputs, HasIdentity, Filled
    <3>2. \A v : identity(v) # Absent => identity(v) = <<identity(v)[1]>>
      BY DEF Field
    <3>3. \A k \in 1 .. m : IdentityOf(join, inputs[k]) = identity(inputs[k][2])[1]
      BY <1>9 DEF IdentityOf
    <3> HIDE DEF identity
    <3>4. QED
      BY <3>1, <3>2, <3>3
  <2> HIDE DEF identity
  <2>2. PICK k \in P : IdentityOf(join, inputs[k]) = IdentityOf(join, inputs[i])
    BY <1>7, <1>9
  <2>3. identity(inputs[k][2]) = identity(inputs[i][2])
    BY <1>5, <2>1, <2>2
  <2>4. ASSUME NEW l \in P, identity(inputs[l][2]) = identity(inputs[i][2]) PROVE l = k
    <3>1. IdentityOf(join, inputs[l]) = IdentityOf(join, inputs[k])
      BY <1>5, <2>1, <2>2, <2>4
    <3>2. QED
      BY <1>1, <1>9, <3>1, KeptOnce DEF P
  <2>5. {v \in shown : identity(v) = identity(inputs[i][2])} = {inputs[k][2]}
    BY <1>7, <1>9, <2>3, <2>4
  <2>6. QED
    BY <2>5, FS_Singleton
<1> HIDE DEF identity
<1>10. \A input \in RangeOf(inputs) :
          IF identified THEN Cardinality({v \in shown : identity(v) = identity(input[2])}) = 1
          ELSE input[2] \in shown \/ input[1] \in out.notes[2]
  BY <1>1, <1>8, <1>9
<1>11. QED
  BY <1>6, <1>10 DEF KeepsArtifacts, inputs, shown, out, identity

\* A strategy loses no artifact and invents none, whatever its branches left.
THEOREM ArtifactsAreKept == Spec => JoinKeepsArtifacts
<1>1. ASSUME WalkInv, Next, NEW n \in superstep, JoinStep(n), JoinOf(n).mode \in Strategies
      PROVE  KeepsArtifacts(JoinOf(n), state, Out(n))
  <2>1. /\ Joined(JoinOf(n), state).ok
        /\ Out(n) = Joined(JoinOf(n), state).value[2]
        /\ JoinOf(n).inputs \in Seq(STRING)
    BY <1>1, JoinWrites, JoinConfig DEF Out, JoinStep
  <2>2. QED
    BY <1>1, <2>1, ArtifactsKept
<1>2. WalkInv /\ [Next]_vars =>
        [\A n \in superstep : JoinStep(n) /\ JoinOf(n).mode \in Strategies =>
           LET inputs == RangeOf(InputsOf(JoinOf(n), state))
               identified == JoinOf(n).mode = "dedupe_by_identity" /\ JoinOf(n).identity # None
               identity(value) == Field(value, JoinOf(n).identity)
           IN /\ Shown(n) \subseteq {input[2] : input \in inputs}
              /\ \A input \in inputs :
                   IF identified THEN Cardinality({v \in Shown(n) : identity(v) = identity(input[2])}) = 1
                   ELSE input[2] \in Shown(n) \/ input[1] \in Out(n).notes[2]]_vars
  BY <1>1 DEF KeepsArtifacts, Shown
<1>3. QED
  BY <1>2, WalkInvariant, PTL DEF Spec, JoinKeepsArtifacts

-----------------------------------------------------------------------------
(* The built-in graphs. *)

\* A key that must not be in the state when a run of the graph starts: its
\* router reads a key that no node of the graph writes.
Unset(s) == IF s = AnalysisPipeline THEN {"validation.valid"} ELSE {}

\* The keys a node adds to the state when it succeeds.
Adds(s, id) ==
  CASE TypeOf(s, id) = "llm" -> {OutputOf(Config(s, id))}
    [] TypeOf(s, id) = "join" -> {Config(s, id).output}
    [] TypeOf(s, id) = "router" -> {"__route__"}
    [] OTHER -> {}

\* What a router may choose as long as those keys are not there: to be equal to
\* anything but null, a key must have a value.
Open(s, router) ==
  {DefaultList(router)}
    \cup {r.targets : r \in {q \in Rules(router) :
                               q.path \notin Unset(s) \/ q.op # "eq" \/ q.value = Null}}

\* The supersteps that may come next.
Onward(s, at) ==
  IF \E id \in at : TypeOf(s, id) = "router"
  THEN UNION {{Goto(targets) : targets \in Open(s, Config(s, id))} : id \in at}
  ELSE {UNION {Successors(s, {id}) : id \in at}}

\* A place in the course of a run: how many supersteps it has made, the nodes to
\* run next, and keys that have been written by then.
Stage(k, at, has) == [step |-> k, at |-> at, has |-> has]

\* The stage can be run, and leads to stages of Q.
Leg(s, q, Q) ==
  /\ \A id \in q.at :
       /\ TypeOf(s, id) \in {"llm", "router", "join", "passthrough"}
       /\ TypeOf(s, id) = "router" => q.at = {id}
       /\ TypeOf(s, id) = "join" => RangeOf(Config(s, id).inputs) \subseteq q.has
       /\ Adds(s, id) \cap Unset(s) = {}
  /\ \A next \in Onward(s, q.at) : \E r \in Q :
       /\ r.step = q.step + 1 /\ r.at = next
       /\ r.has \subseteq q.has \cup UNION {Adds(s, id) : id \in q.at}

\* Q has every stage of every run that no failure and no budget ends.
Certified(s, Q) ==
  /\ Ids(s) \cap EngineNames = {}
  /\ Stage(0, {s.entry}, {}) \in Q
  /\ \A q \in Q :
       /\ q.at \subseteq Ids(s)
       /\ q.at = {} => s.output \in q.has
       /\ q.at # {} => q.step < Iterations(s) /\ Leg(s, q, Q)

LEMMA ResultsAdd ==
  ASSUME NEW id, NEW data, NEW r \in Results(id, data), r.ok,
         TypeOf(spec, id) \in {"llm", "router", "join", "passthrough"}
  PROVE  /\ DOMAIN r.data = DOMAIN data \cup Adds(spec, id)
         /\ TypeOf(spec, id) # "router" => r.goto = Targets(spec, id)
         /\ TypeOf(spec, id) = "router" =>
              \E targets \in Chosen(data, Config(spec, id)) : r.goto = Goto(targets)
<1> DEFINE config == Config(spec, id)
<1>0. /\ \A d, n : Done(id, d, n).goto = Targets(spec, id) /\ Done(id, d, n).data = d
      /\ \A d, n : ~Failed(d, n).ok
      /\ \A key, value : DOMAIN Write(data, key, value) = DOMAIN data \cup {key}
  BY DEF Done, Failed, Write
<1>1. CASE TypeOf(spec, id) = "llm"
  <2>1. r \in LlmResults(id, config, data)
    BY <1>1 DEF Results
  <2>2. PICK v, n : r = Done(id, Write(data, OutputOf(config), v), n)
    BY <2>1, <1>0 DEF LlmResults
  <2>3. r.goto = Targets(spec, id) /\ r.data = Write(data, OutputOf(config), v)
    BY <1>0, <2>2
  <2>4. Adds(spec, id) = {OutputOf(config)}
    BY <1>1 DEF Adds
  <2>5. QED
    BY <1>0, <1>1, <2>3, <2>4
<1>2. CASE TypeOf(spec, id) = "router"
  <2>1. r \in RouterResults(id, config, data)
    BY <1>2 DEF Results
  <2>2. PICK targets \in Chosen(data, config) :
          r = [ok |-> TRUE, data |-> Write(data, "__route__", WrittenRoute(data, targets)),
               goto |-> Goto(targets), starts |-> 1]
    BY <2>1 DEF RouterResults
  <2>3. r.goto = Goto(targets) /\ r.data = Write(data, "__route__", WrittenRoute(data, targets))
    BY <2>2
  <2>4. QED
    BY <1>0, <1>2, <2>3 DEF Adds
<1>3. CASE TypeOf(spec, id) = "join"
  <2>1. r = JoinResult(id, config, data)
    BY <1>3 DEF Results
  <2>2. PICK v : r = Done(id, Write(data, config.output, v), 1)
    BY <2>1, <1>0 DEF JoinResult
  <2>3. r.goto = Targets(spec, id) /\ r.data = Write(data, config.output, v)
    BY <1>0, <2>2
  <2>4. Adds(spec, id) = {config.output}
    BY <1>3 DEF Adds
  <2>5. DOMAIN r.data = DOMAIN data \cup {config.output}
    BY <1>0, <2>3
  <2>6. QED
    BY <1>3, <2>3, <2>4, <2>5
<1>4. CASE TypeOf(spec, id) = "passthrough"
  <2>1. r = Done(id, data, 1)
    BY <1>4 DEF Results
  <2>2. QED
    BY <1>0, <1>4, <2>1 DEF Adds
<1>5. QED
  BY <1>1, <1>2, <1>3, <1>4

LEMMA ChosenIsOpen ==
  ASSUME NEW s, NEW router, NEW data, DOMAIN data \cap Unset(s) = {},
         NEW targets \in Chosen(data, router)
  PROVE  targets \in Open(s, router)
<1> DEFINE list == ListOf(router.rules)
           holding == {i \in DOMAIN list : Holds(data, list[i])}
<1>1. CASE holding = {}
  BY <1>1 DEF Chosen, Open
<1>2. CASE holding # {}
  <2>1. PICK i \in holding : targets = list[i].targets
    BY <1>2 DEF Chosen
  <2>2. list[i] \in Rules(router) /\ Holds(data, list[i])
    BY <2>1 DEF Rules, RangeOf
  <2>3. ~(list[i].path \in Unset(s) /\ list[i].op = "eq" /\ list[i].value # Null)
    BY <2>2 DEF Holds, Read
  <2>4. QED
    BY <2>1, <2>2, <2>3 DEF Open
<1>3. QED
  BY <1>1, <1>2

\* The run is at a stage of its graph.
AtStage(q) ==
  /\ q.step = step /\ q.at = superstep /\ q.has \subseteq DOMAIN state
  /\ DOMAIN state \cap Unset(spec) = {}

OnCourse == \E Q : Certified(spec, Q) /\ \E q \in Q : AtStage(q)

LEMMA MergedKeys ==
  ASSUME NEW outcome, NEW order
  PROVE  DOMAIN Merged(outcome, order)
           = DOMAIN state \cup UNION {DOMAIN outcome[n].data : n \in DOMAIN outcome}
BY DEF Merged

LEMMA StageToStage ==
  ASSUME Valid(spec), Superstep, NEW Q, Certified(spec, Q), NEW q \in Q, AtStage(q)
  PROVE  \E r \in Q : AtStage(r)'
<1>1. PICK outcome \in [superstep -> UNION {Results(n, state) : n \in superstep}] :
        /\ \A n \in superstep : outcome[n] \in Results(n, state) /\ outcome[n].ok
        /\ superstep' = Entered(UNION {outcome[n].goto : n \in superstep})
        /\ \/ \E n \in superstep : superstep = {n} /\ state' = outcome[n].data
           \/ \E order : state' = Merged(outcome, order)
  BY DEF Superstep
<1>2. /\ spec' = spec /\ step' = step + 1 /\ superstep # {}
      /\ superstep = q.at /\ q.step = step
  BY DEF Superstep, CanStep, AtStage
<1>3. Leg(spec, q, Q) /\ Ids(spec) \cap EngineNames = {} /\ q.at \subseteq Ids(spec)
  BY <1>2 DEF Certified
<1> DEFINE added == UNION {Adds(spec, id) : id \in superstep}
           next == UNION {outcome[n].goto : n \in superstep}
<1>4. \A n \in superstep :
        /\ TypeOf(spec, n) \in {"llm", "router", "join", "passthrough"}
        /\ TypeOf(spec, n) = "router" => superstep = {n}
        /\ Adds(spec, n) \cap Unset(spec) = {}
  BY <1>2, <1>3 DEF Leg
<1>5. \A n \in superstep :
        /\ DOMAIN outcome[n].data = DOMAIN state \cup Adds(spec, n)
        /\ TypeOf(spec, n) # "router" => outcome[n].goto = Successors(spec, {n})
        /\ TypeOf(spec, n) = "router" =>
             \E targets \in Open(spec, Config(spec, n)) : outcome[n].goto = Goto(targets)
  <2> TAKE n \in superstep
  <2>1. Targets(spec, n) = Successors(spec, {n})
    BY <1>2, <1>3, PlainTargets
  <2>2. DOMAIN state \cap Unset(spec) = {}
    BY DEF AtStage
  <2>3. QED
    BY <1>1, <1>4, <2>1, <2>2, ResultsAdd, ChosenIsOpen
<1>6. DOMAIN state' = DOMAIN state \cup added
  <2>1. CASE \E n \in superstep : superstep = {n} /\ state' = outcome[n].data
    BY <1>5, <2>1
  <2>2. CASE \E order : state' = Merged(outcome, order)
    <3>1. DOMAIN state' = DOMAIN state \cup UNION {DOMAIN outcome[n].data : n \in superstep}
      BY <2>2, MergedKeys
    <3>2. \A n \in superstep : DOMAIN outcome[n].data = DOMAIN state \cup Adds(spec, n)
      BY <1>5
    <3>3. \A key : key \in UNION {DOMAIN outcome[n].data : n \in superstep} =>
                     key \in DOMAIN state \/ key \in added
      BY <3>2
    <3>4. \A key \in added : key \in UNION {DOMAIN outcome[n].data : n \in superstep}
      BY <3>2
    <3>5. QED
      BY <3>1, <3>3, <3>4
  <2>3. QED
    BY <1>1, <2>1, <2>2
<1>7. next \in Onward(spec, superstep)
  <2>1. CASE \E id \in superstep : TypeOf(spec, id) = "router"
    <3>1. PICK n \in superstep : TypeOf(spec, n) = "router" /\ superstep = {n}
      BY <1>4, <2>1
    <3>2. PICK targets \in Open(spec, Config(spec, n)) : outcome[n].goto = Goto(targets)
      BY <1>5, <3>1
    <3>3. next = Goto(targets)
      BY <3>1, <3>2
    <3>4. QED
      BY <2>1, <3>2, <3>3 DEF Onward
  <2>2. CASE ~ \E id \in superstep : TypeOf(spec, id) = "router"
    <3>1. next = UNION {Successors(spec, {id}) : id \in superstep}
      BY <1>5, <2>2
    <3>2. QED
      BY <2>2, <3>1 DEF Onward
  <2>3. QED
    BY <2>1, <2>2
<1>8. PICK r \in Q : r.step = q.step + 1 /\ r.at = next /\ r.has \subseteq q.has \cup added
  <2> HIDE DEF next
  <2>1. QED
    BY <1>2, <1>3, <1>7 DEF Leg
<1>9. superstep' = r.at
  <2>1. r.at \subseteq Ids(spec)
    BY DEF Certified
  <2>2. next \in SUBSET (Ids(spec) \cup {"END"})
    BY <1>8, <2>1
  <2> HIDE DEF next
  <2>3. Entered(next) = next
    BY <1>3, <2>2, PlainTargets
  <2>4. QED
    BY <1>1, <1>8, <2>3 DEF next
<1>10. r.has \subseteq DOMAIN state' /\ DOMAIN state' \cap Unset(spec) = {}
  BY <1>4, <1>6, <1>8 DEF AtStage
<1>11. Unset(spec)' = Unset(spec)
  BY <1>2 DEF Unset
<1>12. QED
  BY <1>2, <1>8, <1>9, <1>10, <1>11 DEF AtStage

\* The nodes of the built-in graphs.
LEMMA NodeKinds ==
  ASSUME NEW s, NEW id
  PROVE  /\ \A input, output : NodeOf(s, id) = Llm(id, input, output) /\ output # None =>
              TypeOf(s, id) = "llm" /\ Adds(s, id) = {output}
         /\ NodeOf(s, id) = Pass(id) => TypeOf(s, id) = "passthrough" /\ Adds(s, id) = {}
         /\ \A inputs, output : NodeOf(s, id) = Collect(id, inputs, output) =>
              /\ TypeOf(s, id) = "join" /\ Adds(s, id) = {output}
              /\ Config(s, id).inputs = inputs
         /\ \A rules, default : NodeOf(s, id) = Router(id, rules, default) =>
              /\ TypeOf(s, id) = "router" /\ Adds(s, id) = {"__route__"}
              /\ Rules(Config(s, id)) = RangeOf(rules) /\ DefaultList(Config(s, id)) = default
<1>1. \A input, output : NodeOf(s, id) = Llm(id, input, output) /\ output # None =>
        TypeOf(s, id) = "llm" /\ Adds(s, id) = {output}
  BY DEF Llm, TypeOf, Config, Adds, OutputOf
<1>2. NodeOf(s, id) = Pass(id) => TypeOf(s, id) = "passthrough" /\ Adds(s, id) = {}
  BY DEF Pass, TypeOf, Adds
<1>3. \A inputs, output : NodeOf(s, id) = Collect(id, inputs, output) =>
        /\ TypeOf(s, id) = "join" /\ Adds(s, id) = {output}
        /\ Config(s, id).inputs = inputs
  BY DEF Collect, TypeOf, Config, Adds
<1>4. \A rules, default : NodeOf(s, id) = Router(id, rules, default) =>
        /\ TypeOf(s, id) = "router" /\ Adds(s, id) = {"__route__"}
        /\ Rules(Config(s, id)) = RangeOf(rules) /\ DefaultList(Config(s, id)) = default
  <2> SUFFICES ASSUME NEW rules, NEW default, NodeOf(s, id) = Router(id, rules, default)
               PROVE  /\ TypeOf(s, id) = "router" /\ Adds(s, id) = {"__route__"}
                      /\ Rules(Config(s, id)) = RangeOf(rules)
                      /\ DefaultList(Config(s, id)) = default
    OBVIOUS
  <2>1. TypeOf(s, id) = "router" /\ Adds(s, id) = {"__route__"}
    BY DEF Router, TypeOf, Adds
  <2>2. /\ ~Config(s, id).legacy
        /\ Config(s, id).rules = <<rules>> /\ Config(s, id).default = <<default>>
    BY DEF Router, Config
  <2>3. ListOf(<<rules>>) = rules /\ ListOf(<<default>>) = default
    BY DEF ListOf, Absent
  <2>4. QED
    BY <2>1, <2>2, <2>3 DEF Rules, DefaultList
<1>5. QED
  BY <1>1, <1>2, <1>3, <1>4

LEMMA NothingUnset ==
  ASSUME NEW s, s.entry # "planner"
  PROVE  Unset(s) = {}
BY AnalysisPipelineGraph DEF Unset

\* The edges of stage q lead to stage r.
Edgewise(s, q, r) ==
  /\ r.step = q.step + 1 /\ q.at # {}
  /\ \A id \in q.at :
       /\ TypeOf(s, id) \in {"llm", "join", "passthrough"}
       /\ TypeOf(s, id) = "join" => RangeOf(Config(s, id).inputs) \subseteq q.has
       /\ Adds(s, id) \cap Unset(s) = {}
       /\ Successors(s, {id}) = r.at
  /\ r.has \subseteq q.has \cup UNION {Adds(s, id) : id \in q.at}

\* A stage without routers leads where its edges do.
LEMMA EdgeLeg ==
  ASSUME NEW s, NEW Q, NEW q, NEW r \in Q, Edgewise(s, q, r)
  PROVE  Leg(s, q, Q)
<1>1. ~ \E id \in q.at : TypeOf(s, id) = "router"
  BY DEF Edgewise
<1>2. UNION {Successors(s, {id}) : id \in q.at} = r.at
  BY DEF Edgewise
<1>3. Onward(s, q.at) = {r.at}
  BY <1>1, <1>2 DEF Onward
<1>4. QED
  BY <1>1, <1>3 DEF Leg, Edgewise

LEMMA GotoOne ==
  ASSUME NEW t, t # "END"
  PROVE  Goto(<<t>>) = {t}
BY RangeOfLists DEF Goto

\* A router alone leads where a list that is open to it does.
LEMMA RouterLeg ==
  ASSUME NEW s, NEW Q, NEW q, NEW id, q.at = {id}, TypeOf(s, id) = "router",
         Adds(s, id) \cap Unset(s) = {},
         \A targets \in Open(s, Config(s, id)) : \E r \in Q :
           r.step = q.step + 1 /\ r.at = Goto(targets) /\ r.has \subseteq q.has
  PROVE  Leg(s, q, Q)
<1>1. Onward(s, q.at) = {Goto(targets) : targets \in Open(s, Config(s, id))}
  BY DEF Onward
<1>2. \A next \in Onward(s, q.at) : \E r \in Q :
        r.step = q.step + 1 /\ r.at = next /\ r.has \subseteq q.has
  BY <1>1
<1>3. QED
  BY <1>2 DEF Leg

LEMMA PlanCritiqueRefineCertified ==
  ASSUME NEW s, s = PlanCritiqueRefine
  PROVE  \E Q : Certified(s, Q)
<1> DEFINE q0 == Stage(0, {"plan"}, {})
           q1 == Stage(1, {"critique"}, {})
           q2 == Stage(2, {"refine"}, {})
           q3 == Stage(3, {}, {"final"})
           Q == {q0, q1, q2, q3}
<1>1. /\ q0.step = 0 /\ q0.at = {"plan"} /\ q0.has = {}
      /\ q1.step = 1 /\ q1.at = {"critique"} /\ q1.has = {}
      /\ q2.step = 2 /\ q2.at = {"refine"} /\ q2.has = {}
      /\ q3.step = 3 /\ q3.at = {} /\ q3.has = {"final"}
  BY DEF Stage
<1>2. Stage(0, {"plan"}, {}) \in Q
  OBVIOUS
<1> HIDE DEF q0, q1, q2, q3
<1>3. /\ TypeOf(s, "plan") = "llm" /\ Adds(s, "plan") = {"draft"}
      /\ TypeOf(s, "critique") = "llm" /\ Adds(s, "critique") = {"critique"}
      /\ TypeOf(s, "refine") = "llm" /\ Adds(s, "refine") = {"final"}
  BY PlanCritiqueRefineGraph, NodeKinds DEF None
<1>4. Unset(s) = {}
  BY PlanCritiqueRefineGraph, NothingUnset
<1>5. Leg(s, q0, Q)
  <2>1. q1 \in Q /\ Edgewise(s, q0, q1)
    BY <1>1, <1>3, <1>4, PlanCritiqueRefineGraph DEF Edgewise
  <2> HIDE DEF Q
  <2>2. QED
    BY <2>1, EdgeLeg
<1>6. Leg(s, q1, Q)
  <2>1. q2 \in Q /\ Edgewise(s, q1, q2)
    BY <1>1, <1>3, <1>4, PlanCritiqueRefineGraph DEF Edgewise
  <2> HIDE DEF Q
  <2>2. QED
    BY <2>1, EdgeLeg
<1>7. Leg(s, q2, Q)
  <2>1. q3 \in Q /\ Edgewise(s, q2, q3)
    BY <1>1, <1>3, <1>4, PlanCritiqueRefineGraph DEF Edgewise
  <2> HIDE DEF Q
  <2>2. QED
    BY <2>1, EdgeLeg
<1>8. Certified(s, Q)
  <2>1. /\ s.entry = "plan" /\ s.output = "final" /\ Iterations(s) = 12
        /\ Ids(s) \cap EngineNames = {}
        /\ {"plan", "critique", "refine"} \subseteq Ids(s)
    BY PlanCritiqueRefineGraph DEF EngineNames
  <2>2. \A q \in Q :
          /\ q.at \subseteq Ids(s)
          /\ q.at = {} => s.output \in q.has
          /\ q.at # {} => q.step < Iterations(s) /\ Leg(s, q, Q)
    <3>1. \A q \in Q :
            /\ q.at \subseteq {"plan", "critique", "refine"}
            /\ q.at = {} => "final" \in q.has
            /\ q.step <= 3 /\ q.step \in Nat
      BY <1>1
    <3>2. \A q \in Q : q.at # {} => Leg(s, q, Q)
      BY <1>1, <1>5, <1>6, <1>7
    <3> HIDE DEF Q
    <3>3. QED
      BY <2>1, <3>1, <3>2
  <2>3. QED
    BY <1>2, <2>1, <2>2 DEF Certified
<1>9. QED
  BY <1>8

LEMMA ParallelCouncilCertified ==
  ASSUME NEW s, s = ParallelCouncil
  PROVE  \E Q : Certified(s, Q)
<1> DEFINE q0 == Stage(0, {"fanout"}, {})
           q1 == Stage(1, {"optimist", "skeptic"}, {})
           q2 == Stage(2, {"join"}, {"optimist", "skeptic"})
           q3 == Stage(3, {"judge"}, {})
           q4 == Stage(4, {}, {"decision"})
           Q == {q0, q1, q2, q3, q4}
<1>1. /\ q0.step = 0 /\ q0.at = {"fanout"} /\ q0.has = {}
      /\ q1.step = 1 /\ q1.at = {"optimist", "skeptic"} /\ q1.has = {}
      /\ q2.step = 2 /\ q2.at = {"join"} /\ q2.has = {"optimist", "skeptic"}
      /\ q3.step = 3 /\ q3.at = {"judge"} /\ q3.has = {}
      /\ q4.step = 4 /\ q4.at = {} /\ q4.has = {"decision"}
  BY DEF Stage
<1>2. Stage(0, {"fanout"}, {}) \in Q
  OBVIOUS
<1> HIDE DEF q0, q1, q2, q3, q4
<1>3. /\ TypeOf(s, "fanout") = "passthrough" /\ Adds(s, "fanout") = {}
      /\ TypeOf(s, "optimist") = "llm" /\ Adds(s, "optimist") = {"optimist"}
      /\ TypeOf(s, "skeptic") = "llm" /\ Adds(s, "skeptic") = {"skeptic"}
      /\ TypeOf(s, "join") = "join" /\ Adds(s, "join") = {"council"}
      /\ Config(s, "join").inputs = <<"optimist", "skeptic">>
      /\ TypeOf(s, "judge") = "llm" /\ Adds(s, "judge") = {"decision"}
  BY ParallelCouncilGraph, NodeKinds DEF None
<1>4. Unset(s) = {}
  BY ParallelCouncilGraph, NothingUnset
<1>5. Leg(s, q0, Q)
  <2>1. q1 \in Q /\ Edgewise(s, q0, q1)
    BY <1>1, <1>3, <1>4, ParallelCouncilGraph DEF Edgewise
  <2> HIDE DEF Q
  <2>2. QED
    BY <2>1, EdgeLeg
<1>6. Leg(s, q1, Q)
  <2>1. q2 \in Q /\ Edgewise(s, q1, q2)
    BY <1>1, <1>3, <1>4, ParallelCouncilGraph DEF Edgewise
  <2> HIDE DEF Q
  <2>2. QED
    BY <2>1, EdgeLeg
<1>7. Leg(s, q2, Q)
  <2>1. RangeOf(Config(s, "join").inputs) = {"optimist", "skeptic"}
    BY <1>3, RangeOfLists
  <2>2. q3 \in Q /\ Edgewise(s, q2, q3)
    BY <1>1, <1>3, <1>4, <2>1, ParallelCouncilGraph DEF Edgewise
  <2> HIDE DEF Q
  <2>3. QED
    BY <2>2, EdgeLeg
<1>8. Leg(s, q3, Q)
  <2>1. q4 \in Q /\ Edgewise(s, q3, q4)
    BY <1>1, <1>3, <1>4, ParallelCouncilGraph DEF Edgewise
  <2> HIDE DEF Q
  <2>2. QED
    BY <2>1, EdgeLeg
<1>9. Certified(s, Q)
  <2>1. /\ s.entry = "fanout" /\ s.output = "decision" /\ Iterations(s) = 8
        /\ Ids(s) \cap EngineNames = {}
        /\ {"fanout", "optimist", "skeptic", "join", "judge"} \subseteq Ids(s)
    BY ParallelCouncilGraph DEF EngineNames
  <2>2. \A q \in Q :
          /\ q.at \subseteq Ids(s)
          /\ q.at = {} => s.output \in q.has
          /\ q.at # {} => q.step < Iterations(s) /\ Leg(s, q, Q)
    <3>1. \A q \in Q :
            /\ q.at \subseteq {"fanout", "optimist", "skeptic", "join", "judge"}
            /\ q.at = {} => "decision" \in q.has
            /\ q.step <= 4 /\ q.step \in Nat
      BY <1>1
    <3>2. \A q \in Q : q.at # {} => Leg(s, q, Q)
      BY <1>1, <1>5, <1>6, <1>7, <1>8
    <3> HIDE DEF Q
    <3>3. QED
      BY <2>1, <3>1, <3>2
  <2>3. QED
    BY <1>2, <2>1, <2>2 DEF Certified
<1>10. QED
  BY <1>9

LEMMA CouncilDeliberationCertified ==
  ASSUME NEW s, s = CouncilDeliberation
  PROVE  \E Q : Certified(s, Q)
<1> DEFINE q0 == Stage(0, {"coordinator"}, {})
           q1 == Stage(1, {"fanout"}, {})
           q2 == Stage(2, {"analyst_0", "analyst_1", "analyst_2"}, {})
           q3 == Stage(3, {"join"}, {"ws0_result", "ws1_result", "ws2_result"})
           q4 == Stage(4, {"synthesize"}, {})
           q5 == Stage(5, {}, {"final_report"})
           Q == {q0, q1, q2, q3, q4, q5}
<1>1. /\ q0.step = 0 /\ q0.at = {"coordinator"} /\ q0.has = {}
      /\ q1.step = 1 /\ q1.at = {"fanout"} /\ q1.has = {}
      /\ q2.step = 2 /\ q2.at = {"analyst_0", "analyst_1", "analyst_2"} /\ q2.has = {}
      /\ q3.step = 3 /\ q3.at = {"join"} /\ q3.has = {"ws0_result", "ws1_result", "ws2_result"}
      /\ q4.step = 4 /\ q4.at = {"synthesize"} /\ q4.has = {}
      /\ q5.step = 5 /\ q5.at = {} /\ q5.has = {"final_report"}
  BY DEF Stage
<1>2. Stage(0, {"coordinator"}, {}) \in Q
  OBVIOUS
<1> HIDE DEF q0, q1, q2, q3, q4, q5
<1>3. /\ TypeOf(s, "coordinator") = "llm" /\ Adds(s, "coordinator") = {"workstreams"}
      /\ TypeOf(s, "fanout") = "passthrough" /\ Adds(s, "fanout") = {}
      /\ TypeOf(s, "analyst_0") = "llm" /\ Adds(s, "analyst_0") = {"ws0_result"}
      /\ TypeOf(s, "analyst_1") = "llm" /\ Adds(s, "analyst_1") = {"ws1_result"}
      /\ TypeOf(s, "analyst_2") = "llm" /\ Adds(s, "analyst_2") = {"ws2_result"}
      /\ TypeOf(s, "join") = "join" /\ Adds(s, "join") = {"findings"}
      /\ Config(s, "join").inputs = <<"ws0_result", "ws1_result", "ws2_result">>
      /\ TypeOf(s, "synthesize") = "llm" /\ Adds(s, "synthesize") = {"final_report"}
  BY CouncilDeliberationGraph, NodeKinds DEF None
<1>4. Unset(s) = {}
  BY CouncilDeliberationGraph, NothingUnset
<1>5. Leg(s, q0, Q)
  <2>1. q1 \in Q /\ Edgewise(s, q0, q1)
    BY <1>1, <1>3, <1>4, CouncilDeliberationGraph DEF Edgewise
  <2> HIDE DEF Q
  <2>2. QED
    BY <2>1, EdgeLeg
<1>6. Leg(s, q1, Q)
  <2>1. q2 \in Q /\ Edgewise(s, q1, q2)
    BY <1>1, <1>3, <1>4, CouncilDeliberationGraph DEF Edgewise
  <2> HIDE DEF Q
  <2>2. QED
    BY <2>1, EdgeLeg
<1>7. Leg(s, q2, Q)
  <2>1. q3 \in Q /\ Edgewise(s, q2, q3)
    BY <1>1, <1>3, <1>4, CouncilDeliberationGraph DEF Edgewise
  <2> HIDE DEF Q
  <2>2. QED
    BY <2>1, EdgeLeg
<1>8. Leg(s, q3, Q)
  <2>1. RangeOf(Config(s, "join").inputs) = {"ws0_result", "ws1_result", "ws2_result"}
    BY <1>3, RangeOfLists
  <2>2. q4 \in Q /\ Edgewise(s, q3, q4)
    BY <1>1, <1>3, <1>4, <2>1, CouncilDeliberationGraph DEF Edgewise
  <2> HIDE DEF Q
  <2>3. QED
    BY <2>2, EdgeLeg
<1>9. Leg(s, q4, Q)
  <2>1. q5 \in Q /\ Edgewise(s, q4, q5)
    BY <1>1, <1>3, <1>4, CouncilDeliberationGraph DEF Edgewise
  <2> HIDE DEF Q
  <2>2. QED
    BY <2>1, EdgeLeg
<1>10. Certified(s, Q)
  <2>1. /\ s.entry = "coordinator" /\ s.output = "final_report" /\ Iterations(s) = 16
        /\ Ids(s) \cap EngineNames = {}
        /\ {"coordinator", "fanout", "analyst_0", "analyst_1", "analyst_2", "join",
             "synthesize"} \subseteq Ids(s)
    BY CouncilDeliberationGraph DEF EngineNames
  <2>2. \A q \in Q :
          /\ q.at \subseteq Ids(s)
          /\ q.at = {} => s.output \in q.has
          /\ q.at # {} => q.step < Iterations(s) /\ Leg(s, q, Q)
    <3>1. \A q \in Q :
            /\ q.at \subseteq {"coordinator", "fanout", "analyst_0", "analyst_1",
                               "analyst_2", "join", "synthesize"}
            /\ q.at = {} => "final_report" \in q.has
            /\ q.step <= 5 /\ q.step \in Nat
      BY <1>1
    <3>2. \A q \in Q : q.at # {} => Leg(s, q, Q)
      BY <1>1, <1>5, <1>6, <1>7, <1>8, <1>9
    <3> HIDE DEF Q
    <3>3. QED
      BY <2>1, <3>1, <3>2
  <2>3. QED
    BY <1>2, <2>1, <2>2 DEF Certified
<1>11. QED
  BY <1>10

LEMMA CodeAuditCertified ==
  ASSUME NEW s, s = CodeAudit
  PROVE  \E Q : Certified(s, Q)
<1> DEFINE q0 == Stage(0, {"coordinator"}, {})
           q1 == Stage(1, {"fanout"}, {})
           q2 == Stage(2, {"arch_auditor", "security_auditor", "quality_auditor"}, {})
           q3 == Stage(3, {"join"}, {"arch_result", "security_result", "quality_result"})
           q4 == Stage(4, {"synthesize"}, {})
           q5 == Stage(5, {}, {"audit_report"})
           Q == {q0, q1, q2, q3, q4, q5}
<1>1. /\ q0.step = 0 /\ q0.at = {"coordinator"} /\ q0.has = {}
      /\ q1.step = 1 /\ q1.at = {"fanout"} /\ q1.has = {}
      /\ q2.step = 2 /\ q2.at = {"arch_auditor", "security_auditor", "quality_auditor"}
         /\ q2.has = {}
      /\ q3.step = 3 /\ q3.at = {"join"}
         /\ q3.has = {"arch_result", "security_result", "quality_result"}
      /\ q4.step = 4 /\ q4.at = {"synthesize"} /\ q4.has = {}
      /\ q5.step = 5 /\ q5.at = {} /\ q5.has = {"audit_report"}
  BY DEF Stage
<1>2. Stage(0, {"coordinator"}, {}) \in Q
  OBVIOUS
<1> HIDE DEF q0, q1, q2, q3, q4, q5
<1>3. /\ TypeOf(s, "coordinator") = "llm" /\ Adds(s, "coordinator") = {"audit_dimensions"}
      /\ TypeOf(s, "fanout") = "passthrough" /\ Adds(s, "fanout") = {}
      /\ TypeOf(s, "arch_auditor") = "llm" /\ Adds(s, "arch_auditor") = {"arch_result"}
      /\ TypeOf(s, "security_auditor") = "llm"
         /\ Adds(s, "security_auditor") = {"security_result"}
      /\ TypeOf(s, "quality_auditor") = "llm" /\ Adds(s, "quality_auditor") = {"quality_result"}
      /\ TypeOf(s, "join") = "join" /\ Adds(s, "join") = {"findings"}
      /\ Config(s, "join").inputs = <<"arch_result", "security_result", "quality_result">>
      /\ TypeOf(s, "synthesize") = "llm" /\ Adds(s, "synthesize") = {"audit_report"}
  BY CodeAuditGraph, NodeKinds DEF None
<1>4. Unset(s) = {}
  BY CodeAuditGraph, NothingUnset
<1>5. Leg(s, q0, Q)
  <2>1. q1 \in Q /\ Edgewise(s, q0, q1)
    BY <1>1, <1>3, <1>4, CodeAuditGraph DEF Edgewise
  <2> HIDE DEF Q
  <2>2. QED
    BY <2>1, EdgeLeg
<1>6. Leg(s, q1, Q)
  <2>1. q2 \in Q /\ Edgewise(s, q1, q2)
    BY <1>1, <1>3, <1>4, CodeAuditGraph DEF Edgewise
  <2> HIDE DEF Q
  <2>2. QED
    BY <2>1, EdgeLeg
<1>7. Leg(s, q2, Q)
  <2>1. q3 \in Q /\ Edgewise(s, q2, q3)
    BY <1>1, <1>3, <1>4, CodeAuditGraph DEF Edgewise
  <2> HIDE DEF Q
  <2>2. QED
    BY <2>1, EdgeLeg
<1>8. Leg(s, q3, Q)
  <2>1. RangeOf(Config(s, "join").inputs) = {"arch_result", "security_result", "quality_result"}
    BY <1>3, RangeOfLists
  <2>2. q4 \in Q /\ Edgewise(s, q3, q4)
    BY <1>1, <1>3, <1>4, <2>1, CodeAuditGraph DEF Edgewise
  <2> HIDE DEF Q
  <2>3. QED
    BY <2>2, EdgeLeg
<1>9. Leg(s, q4, Q)
  <2>1. q5 \in Q /\ Edgewise(s, q4, q5)
    BY <1>1, <1>3, <1>4, CodeAuditGraph DEF Edgewise
  <2> HIDE DEF Q
  <2>2. QED
    BY <2>1, EdgeLeg
<1>10. Certified(s, Q)
  <2>1. /\ s.entry = "coordinator" /\ s.output = "audit_report" /\ Iterations(s) = 16
        /\ Ids(s) \cap EngineNames = {}
        /\ {"coordinator", "fanout", "arch_auditor", "security_auditor",
             "quality_auditor", "join", "synthesize"} \subseteq Ids(s)
    BY CodeAuditGraph DEF EngineNames
  <2>2. \A q \in Q :
          /\ q.at \subseteq Ids(s)
          /\ q.at = {} => s.output \in q.has
          /\ q.at # {} => q.step < Iterations(s) /\ Leg(s, q, Q)
    <3>1. \A q \in Q :
            /\ q.at \subseteq {"coordinator", "fanout", "arch_auditor", "security_auditor",
                               "quality_auditor", "join", "synthesize"}
            /\ q.at = {} => "audit_report" \in q.has
            /\ q.step <= 5 /\ q.step \in Nat
      BY <1>1
    <3>2. \A q \in Q : q.at # {} => Leg(s, q, Q)
      BY <1>1, <1>5, <1>6, <1>7, <1>8, <1>9
    <3> HIDE DEF Q
    <3>3. QED
      BY <2>1, <3>1, <3>2
  <2>3. QED
    BY <1>2, <2>1, <2>2 DEF Certified
<1>11. QED
  BY <1>10

LEMMA AnalysisPipelineCertified ==
  ASSUME NEW s, s = AnalysisPipeline
  PROVE  \E Q : Certified(s, Q)
<1> DEFINE q0 == Stage(0, {"planner"}, {})
           q1 == Stage(1, {"researcher"}, {})
           q2 == Stage(2, {"extractor"}, {})
           q3 == Stage(3, {"synthesizer"}, {})
           q4 == Stage(4, {"validator"}, {})
           q5 == Stage(5, {"validation_router"}, {})
           q6 == Stage(6, {"formatter"}, {})
           q7 == Stage(7, {}, {"final"})
           Q == {q0, q1, q2, q3, q4, q5, q6, q7}
<1>1. /\ q0.step = 0 /\ q0.at = {"planner"} /\ q0.has = {}
      /\ q1.step = 1 /\ q1.at = {"researcher"} /\ q1.has = {}
      /\ q2.step = 2 /\ q2.at = {"extractor"} /\ q2.has = {}
      /\ q3.step = 3 /\ q3.at = {"synthesizer"} /\ q3.has = {}
      /\ q4.step = 4 /\ q4.at = {"validator"} /\ q4.has = {}
      /\ q5.step = 5 /\ q5.at = {"validation_router"} /\ q5.has = {}
      /\ q6.step = 6 /\ q6.at = {"formatter"} /\ q6.has = {}
      /\ q7.step = 7 /\ q7.at = {} /\ q7.has = {"final"}
  BY DEF Stage
<1>2. Stage(0, {"planner"}, {}) \in Q
  OBVIOUS
<1> HIDE DEF q0, q1, q2, q3, q4, q5, q6, q7
<1>3. /\ TypeOf(s, "planner") = "llm" /\ Adds(s, "planner") = {"plan"}
      /\ TypeOf(s, "researcher") = "llm" /\ Adds(s, "researcher") = {"research"}
      /\ TypeOf(s, "extractor") = "llm" /\ Adds(s, "extractor") = {"claims"}
      /\ TypeOf(s, "synthesizer") = "llm" /\ Adds(s, "synthesizer") = {"summary"}
      /\ TypeOf(s, "validator") = "llm" /\ Adds(s, "validator") = {"validation"}
      /\ TypeOf(s, "validation_router") = "router" 
         /\ Adds(s, "validation_router") = {"__route__"}
      /\ TypeOf(s, "formatter") = "llm" /\ Adds(s, "formatter") = {"final"}
  BY AnalysisPipelineGraph, NodeKinds DEF None
<1>4. Unset(s) = {"validation.valid"}
  BY DEF Unset
<1>5. \A targets \in Open(s, Config(s, "validation_router")) : Goto(targets) = {"formatter"}
  <2> DEFINE router == Config(s, "validation_router")
             valid == Rule("validation.valid", "eq", Yes, "formatter")
             invalid == Rule("validation.valid", "eq", No, "corrector")
  <2>1. Rules(router) = RangeOf(<<valid, invalid>>) /\ DefaultList(router) = <<"formatter">>
    BY AnalysisPipelineGraph, NodeKinds
  <2>2. \A r \in {valid, invalid} : r.path \in Unset(s) /\ r.op = "eq" /\ r.value # Null
    <3>1. Yes[1] = "bool" /\ No[1] = "bool" /\ Null[1] = "null"
      BY DEF Yes, No, Null
    <3>2. Yes # Null /\ No # Null
      BY <3>1
    <3>3. QED
      BY <1>4, <3>2 DEF Rule
  <2> HIDE DEF valid, invalid, router
  <2>3. Rules(router) = {valid, invalid}
    BY <2>1, RangeOfLists
  <2>4. Open(s, router) = { <<"formatter">> }
    BY <2>1, <2>2, <2>3 DEF Open
  <2>5. Goto(<<"formatter">>) = {"formatter"}
    BY GotoOne
  <2>6. QED
    BY <2>4, <2>5 DEF router
<1>6. Leg(s, q0, Q)
  <2>1. q1 \in Q /\ Edgewise(s, q0, q1)
    BY <1>1, <1>3, <1>4, AnalysisPipelineGraph DEF Edgewise
  <2> HIDE DEF Q
  <2>2. QED
    BY <2>1, EdgeLeg
<1>7. Leg(s, q1, Q)
  <2>1. q2 \in Q /\ Edgewise(s, q1, q2)
    BY <1>1, <1>3, <1>4, AnalysisPipelineGraph DEF Edgewise
  <2> HIDE DEF Q
  <2>2. QED
    BY <2>1, EdgeLeg
<1>8. Leg(s, q2, Q)
  <2>1. q3 \in Q /\ Edgewise(s, q2, q3)
    BY <1>1, <1>3, <1>4, AnalysisPipelineGraph DEF Edgewise
  <2> HIDE DEF Q
  <2>2. QED
    BY <2>1, EdgeLeg
<1>9. Leg(s, q3, Q)
  <2>1. q4 \in Q /\ Edgewise(s, q3, q4)
    BY <1>1, <1>3, <1>4, AnalysisPipelineGraph DEF Edgewise
  <2> HIDE DEF Q
  <2>2. QED
    BY <2>1, EdgeLeg
<1>10. Leg(s, q4, Q)
  <2>1. q5 \in Q /\ Edgewise(s, q4, q5)
    BY <1>1, <1>3, <1>4, AnalysisPipelineGraph DEF Edgewise
  <2> HIDE DEF Q
  <2>2. QED
    BY <2>1, EdgeLeg
<1>11. Leg(s, q5, Q)
  <2>1. \A targets \in Open(s, Config(s, "validation_router")) : \E r \in Q :
          r.step = q5.step + 1 /\ r.at = Goto(targets) /\ r.has \subseteq q5.has
    BY <1>1, <1>5
  <2>2. /\ q5.at = {"validation_router"} /\ TypeOf(s, "validation_router") = "router"
        /\ Adds(s, "validation_router") \cap Unset(s) = {}
    BY <1>1, <1>3, <1>4
  <2> HIDE DEF Q
  <2>3. QED
    BY <2>1, <2>2, RouterLeg
<1>12. Leg(s, q6, Q)
  <2>1. q7 \in Q /\ Edgewise(s, q6, q7)
    BY <1>1, <1>3, <1>4, AnalysisPipelineGraph DEF Edgewise
  <2> HIDE DEF Q
  <2>2. QED
    BY <2>1, EdgeLeg
<1>13. Certified(s, Q)
  <2>1. /\ s.entry = "planner" /\ s.output = "final" /\ Iterations(s) = 20
        /\ Ids(s) \cap EngineNames = {}
        /\ {"planner", "researcher", "extractor", "synthesizer", "validator",
             "validation_router", "formatter"} \subseteq Ids(s)
    BY AnalysisPipelineGraph DEF EngineNames
  <2>2. \A q \in Q :
          /\ q.at \subseteq Ids(s)
          /\ q.at = {} => s.output \in q.has
          /\ q.at # {} => q.step < Iterations(s) /\ Leg(s, q, Q)
    <3>1. \A q \in Q :
            /\ q.at \subseteq {"planner", "researcher", "extractor", "synthesizer",
                               "validator", "validation_router", "formatter"}
            /\ q.at = {} => "final" \in q.has
            /\ q.step <= 7 /\ q.step \in Nat
      BY <1>1
    <3>2. \A q \in Q : q.at # {} => Leg(s, q, Q)
      BY <1>1, <1>6, <1>7, <1>8, <1>9, <1>10, <1>11, <1>12
    <3> HIDE DEF Q
    <3>3. QED
      BY <2>1, <3>1, <3>2
  <2>3. QED
    BY <1>2, <2>1, <2>2 DEF Certified
<1>14. QED
  BY <1>13

LEMMA ClassifierRouterCertified ==
  ASSUME NEW s, s = ClassifierRouter
  PROVE  \E Q : Certified(s, Q)
<1> DEFINE q0 == Stage(0, {"classifier"}, {})
           q1 == Stage(1, {"router"}, {})
           q2a == Stage(2, {"bug_handler"}, {})
           q2b == Stage(2, {"feature_handler"}, {})
           q2c == Stage(2, {"question_handler"}, {})
           q2d == Stage(2, {"general_handler"}, {})
           q3 == Stage(3, {}, {"response"})
           Q == {q0, q1, q2a, q2b, q2c, q2d, q3}
<1>1. /\ q0.step = 0 /\ q0.at = {"classifier"} /\ q0.has = {}
      /\ q1.step = 1 /\ q1.at = {"router"} /\ q1.has = {}
      /\ q2a.step = 2 /\ q2a.at = {"bug_handler"} /\ q2a.has = {}
      /\ q2b.step = 2 /\ q2b.at = {"feature_handler"} /\ q2b.has = {}
      /\ q2c.step = 2 /\ q2c.at = {"question_handler"} /\ q2c.has = {}
      /\ q2d.step = 2 /\ q2d.at = {"general_handler"} /\ q2d.has = {}
      /\ q3.step = 3 /\ q3.at = {} /\ q3.has = {"response"}
  BY DEF Stage
<1>2. Stage(0, {"classifier"}, {}) \in Q
  OBVIOUS
<1> HIDE DEF q0, q1, q2a, q2b, q2c, q2d, q3
<1>3. /\ TypeOf(s, "classifier") = "llm"
         /\ Adds(s, "classifier") = {"classification.label"}
      /\ TypeOf(s, "router") = "router" 
         /\ Adds(s, "router") = {"__route__"}
      /\ TypeOf(s, "bug_handler") = "llm" /\ Adds(s, "bug_handler") = {"response"}
      /\ TypeOf(s, "feature_handler") = "llm" /\ Adds(s, "feature_handler") = {"response"}
      /\ TypeOf(s, "question_handler") = "llm" /\ Adds(s, "question_handler") = {"response"}
      /\ TypeOf(s, "general_handler") = "llm" /\ Adds(s, "general_handler") = {"response"}
  BY ClassifierRouterGraph, NodeKinds DEF None
<1>4. Unset(s) = {}
  BY ClassifierRouterGraph, NothingUnset
<1>5. \A targets \in Open(s, Config(s, "router")) :
        Goto(targets) \in {{"bug_handler"}, {"feature_handler"}, {"question_handler"},
                          {"general_handler"}}
  <2> DEFINE router == Config(s, "router")
             bug == Rule("classification.label", "contains", <<"text", "bug">>, "bug_handler")
             feature == Rule("classification.label", "contains", <<"text", "feature">>,
                          "feature_handler")
             question == Rule("classification.label", "contains", <<"text", "question">>,
                           "question_handler")
  <2>1. /\ Rules(router) = RangeOf(<<bug, feature, question>>)
        /\ DefaultList(router) = <<"general_handler">>
    BY ClassifierRouterGraph, NodeKinds
  <2>2. /\ bug.targets = <<"bug_handler">> /\ feature.targets = <<"feature_handler">>
        /\ question.targets = <<"question_handler">>
    BY DEF Rule
  <2> HIDE DEF bug, feature, question, router
  <2>3. Rules(router) = {bug, feature, question}
    BY <2>1, RangeOfLists
  <2>4. \A targets \in Open(s, router) :
          targets \in { <<"bug_handler">>, <<"feature_handler">>, <<"question_handler">>,
                         <<"general_handler">> }
    BY <2>1, <2>2, <2>3 DEF Open
  <2>5. /\ Goto(<<"bug_handler">>) = {"bug_handler"}
        /\ Goto(<<"feature_handler">>) = {"feature_handler"}
        /\ Goto(<<"question_handler">>) = {"question_handler"}
        /\ Goto(<<"general_handler">>) = {"general_handler"}
    BY GotoOne
  <2>6. QED
    BY <2>4, <2>5 DEF router
<1>6. Leg(s, q0, Q)
  <2>1. q1 \in Q /\ Edgewise(s, q0, q1)
    BY <1>1, <1>3, <1>4, ClassifierRouterGraph DEF Edgewise
  <2> HIDE DEF Q
  <2>2. QED
    BY <2>1, EdgeLeg
<1>7. Leg(s, q1, Q)
  <2>1. \A targets \in Open(s, Config(s, "router")) : \E r \in Q :
          r.step = q1.step + 1 /\ r.at = Goto(targets) /\ r.has \subseteq q1.has
    <3> DEFINE N == {{"bug_handler"}, {"feature_handler"}, {"question_handler"},
                   {"general_handler"}}
               R == {q2a, q2b, q2c, q2d}
    <3>1. \A r \in R : r \in Q /\ r.step = q1.step + 1 /\ r.has \subseteq q1.has
      BY <1>1
    <3>2. \A next \in N : \E r \in R : r.at = next
      BY <1>1
    <3>3. \A targets \in Open(s, Config(s, "router")) : Goto(targets) \in N
      BY <1>5
    <3> HIDE DEF Q, N, R
    <3>4. QED
      BY <3>1, <3>2, <3>3
  <2>2. /\ q1.at = {"router"} /\ TypeOf(s, "router") = "router"
        /\ Adds(s, "router") \cap Unset(s) = {}
    BY <1>1, <1>3, <1>4
  <2> HIDE DEF Q
  <2>3. QED
    BY <2>1, <2>2, RouterLeg
<1>8. Leg(s, q2a, Q)
  <2>1. q3 \in Q /\ Edgewise(s, q2a, q3)
    BY <1>1, <1>3, <1>4, ClassifierRouterGraph DEF Edgewise
  <2> HIDE DEF Q
  <2>2. QED
    BY <2>1, EdgeLeg
<1>9. Leg(s, q2b, Q)
  <2>1. q3 \in Q /\ Edgewise(s, q2b, q3)
    BY <1>1, <1>3, <1>4, ClassifierRouterGraph DEF Edgewise
  <2> HIDE DEF Q
  <2>2. QED
    BY <2>1, EdgeLeg
<1>10. Leg(s, q2c, Q)
  <2>1. q3 \in Q /\ Edgewise(s, q2c, q3)
    BY <1>1, <1>3, <1>4, ClassifierRouterGraph DEF Edgewise
  <2> HIDE DEF Q
  <2>2. QED
    BY <2>1, EdgeLeg
<1>11. Leg(s, q2d, Q)
  <2>1. q3 \in Q /\ Edgewise(s, q2d, q3)
    BY <1>1, <1>3, <1>4, ClassifierRouterGraph DEF Edgewise
  <2> HIDE DEF Q
  <2>2. QED
    BY <2>1, EdgeLeg
<1>12. Certified(s, Q)
  <2>1. /\ s.entry = "classifier" /\ s.output = "response" /\ Iterations(s) = 8
        /\ Ids(s) \cap EngineNames = {}
        /\ {"classifier", "router", "bug_handler", "feature_handler", "question_handler",
             "general_handler"} \subseteq Ids(s)
    BY ClassifierRouterGraph DEF EngineNames
  <2>2. \A q \in Q :
          /\ q.at \subseteq Ids(s)
          /\ q.at = {} => s.output \in q.has
          /\ q.at # {} => q.step < Iterations(s) /\ Leg(s, q, Q)
    <3>1. \A q \in Q :
            /\ q.at \subseteq {"classifier", "router", "bug_handler", "feature_handler",
                               "question_handler", "general_handler"}
            /\ q.at = {} => "response" \in q.has
            /\ q.step <= 3 /\ q.step \in Nat
      BY <1>1
    <3>2. \A q \in Q : q.at # {} => Leg(s, q, Q)
      BY <1>1, <1>6, <1>7, <1>8, <1>9, <1>10, <1>11
    <3> HIDE DEF Q
    <3>3. QED
      BY <2>1, <3>1, <3>2
  <2>3. QED
    BY <1>2, <2>1, <2>2 DEF Certified
<1>13. QED
  BY <1>12

\* Validation refuses the release verification template that templates::instantiate
\* builds: its two last nodes write one key, its router leads to both, and neither
\* leads to the other.
THEOREM ReleaseVerificationIsRefused == ~Accepted(ReleaseVerification)
<1> DEFINE s == ReleaseVerification
           r == NodeOf(s, "reporter")
           f == NodeOf(s, "formatter")
<1> SUFFICES ASSUME WritesOk(s) PROVE FALSE
  BY DEF Accepted, Valid
<1>1. /\ Ids(s) = {"planner", "executor", "validator", "validation_router", "reporter",
                    "formatter"}
      /\ r = Llm("reporter", "validation", "verification_report")
      /\ f = Llm("formatter", "validation", "verification_report")
      /\ Successors(s, {"validation_router"}) = {"formatter", "reporter"}
      /\ Successors(s, {"reporter"}) = {} /\ Successors(s, {"formatter"}) = {}
  BY ReleaseVerificationGraph
<1>2. r \in RangeOf(s.nodes) /\ f \in RangeOf(s.nodes)
  BY <1>1, NodeOfId
<1>3. /\ r.id = "reporter" /\ f.id = "formatter"
      /\ Declared(r) = {"verification_report"} /\ Declared(f) = {"verification_report"}
  BY <1>1 DEF Llm, Declared, None
<1>4. DOMAIN s.reducers = {}
  BY DEF ReleaseVerification, Template
<1> HIDE DEF s, r, f
<1>5. Ordered(s, "reporter", "formatter") \/ ~HaveAncestor(s, "reporter", "formatter")
  BY <1>2, <1>3, <1>4 DEF WritesOk
<1>6. Reachable(s, "reporter") = {} /\ Reachable(s, "formatter") = {}
  <2>1. ASSUME NEW a \in Ids(s), Successors(s, {a}) = {} PROVE Reachable(s, a) = {}
    <3>1. {a} \cup {} = {a}
      OBVIOUS
    <3>2. Successors(s, {a} \cup {}) \cap Ids(s) \subseteq {}
      BY <2>1, <3>1
    <3>3. QED
      BY <3>2 DEF Reachable
  <2>2. QED
    BY <1>1, <2>1
<1>7. {"reporter", "formatter"} \subseteq Reachable(s, "validation_router")
  BY <1>1, SuccessorsAreReachable
<1>8. QED
  BY <1>1, <1>5, <1>6, <1>7 DEF Ordered, HaveAncestor

\* Every built-in graph that is accepted has a certificate.
LEMMA Certificates ==
  ASSUME NEW s \in Builtin, Accepted(s)
  PROVE  \E Q : Certified(s, Q)
BY PlanCritiqueRefineCertified, ParallelCouncilCertified, CouncilDeliberationCertified,
   AnalysisPipelineCertified, ClassifierRouterCertified, CodeAuditCertified,
   ReleaseVerificationIsRefused DEF Builtin

\* What a run of a built-in graph keeps.
DeliverInv ==
  spec \in Builtin =>
    /\ phase \in {"submitted", "registered"} => step = 0 /\ result = "none"
    /\ phase = "walking" => OnCourse /\ result = "none"
    /\ result # "missing"
    /\ result = "iterations" => budget # 0
    /\ result = "ok" => spec.output \in DOMAIN state

LEMMA StartsOnCourse ==
  ASSUME WalkInv, DeliverInv, Start, spec \in Builtin,
         \A input \in Inputs(AnalysisPipeline) : "validation.valid" \notin DOMAIN input
  PROVE  OnCourse'
<1>1. Valid(spec) /\ spec' = spec /\ step' = 0
  BY DEF WalkInv, Begun, Accepted, DeliverInv, Start
<1>2. PICK Q : Certified(spec, Q)
  BY Certificates DEF WalkInv, Begun, Start
<1>3. superstep' = {spec.entry}
  BY <1>1, <1>2, PlainTargets DEF Start, Certified
<1>4. DOMAIN state' \cap Unset(spec) = {}
  BY DEF Start, Unset
<1>5. PICK q \in Q : q.step = 0 /\ q.at = {spec.entry} /\ q.has = {}
  BY <1>2 DEF Certified, Stage
<1>6. Unset(spec)' = Unset(spec) /\ Certified(spec, Q)' = Certified(spec, Q)
  BY <1>1 DEF Unset, Certified
<1>7. AtStage(q)'
  BY <1>1, <1>3, <1>4, <1>5, <1>6 DEF AtStage
<1>8. QED
  BY <1>1, <1>2, <1>5, <1>7 DEF OnCourse

LEMMA StaysOnCourse ==
  ASSUME WalkInv, OnCourse, Superstep
  PROVE  OnCourse'
<1>1. Valid(spec) /\ spec' = spec
  BY DEF WalkInv, Begun, Accepted, Superstep, CanStep
<1>2. PICK Q : Certified(spec, Q) /\ \E q \in Q : AtStage(q)
  BY DEF OnCourse
<1>3. \E r \in Q : AtStage(r)'
  BY <1>1, <1>2, StageToStage
<1>4. QED
  BY <1>1, <1>2, <1>3 DEF OnCourse

\* What a stage promises of the superstep that it stands for.
LEMMA CourseKeeps ==
  ASSUME OnCourse
  PROVE  /\ superstep \subseteq Ids(spec)
         /\ superstep = {} => spec.output \in DOMAIN state
         /\ superstep # {} => step < Iterations(spec)
         /\ \A n \in superstep : TypeOf(spec, n) = "join" =>
              RangeOf(Config(spec, n).inputs) \subseteq DOMAIN state
<1>1. PICK Q, q : Certified(spec, Q) /\ q \in Q /\ AtStage(q)
  BY DEF OnCourse
<1>2. QED
  BY <1>1 DEF Certified, AtStage, Leg

\* The course of a run is kept until it ends.
LEMMA NextDeliverInv ==
  ASSUME \A input \in Inputs(AnalysisPipeline) : "validation.valid" \notin DOMAIN input
  PROVE  WalkInv /\ DeliverInv /\ [Next]_vars => DeliverInv'
<1> SUFFICES ASSUME WalkInv, DeliverInv, [Next]_vars, spec' \in Builtin
             PROVE  DeliverInv'
  BY DEF DeliverInv
<1>0. spec \in Builtin /\ spec' = spec
  BY DEF Next, vars, Refuse, Register, CompileFails, Start, NoNodesLeft, TooManySteps,
         MissingNode,
         Superstep, NodeFails, Report, runVars
<1>1. CASE Refuse
  BY <1>0, <1>1 DEF DeliverInv, Refuse, runVars
<1>2. CASE Register
  BY <1>0, <1>2 DEF DeliverInv, Register, runVars
<1>3. CASE CompileFails
  BY <1>0, <1>3 DEF DeliverInv, CompileFails
<1>4. CASE Start
  BY <1>0, <1>4, StartsOnCourse DEF DeliverInv, Start
<1>5. CASE NoNodesLeft
  BY <1>0, <1>5, CourseKeeps DEF DeliverInv, NoNodesLeft, Stop
<1>6. CASE TooManySteps
  <2>1. budget # 0
    <3> SUFFICES ASSUME budget = 0 PROVE FALSE
      OBVIOUS
    <3>1. step >= Iterations(spec) /\ step < Iterations(spec) /\ step \in Nat
      BY <1>0, <1>6, CourseKeeps DEF TooManySteps, IterationLimit, DeliverInv, WalkInv
    <3>2. Iterations(spec) \in Nat
      BY <1>6, IterationsBounded DEF TooManySteps, WalkInv, Begun, Accepted
    <3>3. QED
      BY <3>1, <3>2
  <2>2. QED
    BY <1>0, <1>6, <2>1 DEF DeliverInv, TooManySteps, Stop
<1>7. CASE MissingNode
  BY <1>0, <1>7, CourseKeeps DEF DeliverInv, MissingNode, CanStep
<1>8. CASE Superstep
  BY <1>0, <1>8, StaysOnCourse DEF DeliverInv, Superstep, CanStep
<1>9. CASE NodeFails
  BY <1>0, <1>9 DEF DeliverInv, NodeFails, CanStep, Stop
<1>10. CASE Report
  BY <1>0, <1>10 DEF DeliverInv, Report
<1>11. CASE UNCHANGED vars
  <2>1. OnCourse' = OnCourse
    BY <1>11 DEF vars, OnCourse, AtStage, Unset
  <2>2. QED
    BY <1>0, <1>11, <2>1 DEF DeliverInv, vars
<1>12. QED
  BY <1>1, <1>2, <1>3, <1>4, <1>5, <1>6, <1>7, <1>8, <1>9, <1>10, <1>11 DEF Next

\* A built-in graph that is registered never runs into its iteration limit with
\* budgets to spare, misses no node, shows each of its joins all its inputs, and
\* has the key it promises when it ends well: whatever the providers answer.  A
\* caller's input must not bring the key that the router of the analysis pipeline
\* reads and none of its nodes writes: with false there, its loop has no end.
THEOREM TemplatesDeliver ==
  ASSUME \A input \in Inputs(AnalysisPipeline) : "validation.valid" \notin DOMAIN input
  PROVE  Spec => []TemplateDelivers
<1>1. Init => DeliverInv
  BY DEF Init, DeliverInv
<1>2. WalkInv /\ DeliverInv /\ [Next]_vars => DeliverInv'
  BY NextDeliverInv
<1>3. DeliverInv => TemplateDelivers
  BY CourseKeeps DEF DeliverInv, TemplateDelivers
<1>4. QED
  BY <1>1, <1>2, <1>3, WalkInvariant, PTL DEF Spec

-----------------------------------------------------------------------------
(* A walk is a run of supersteps *)

\* Where a node that succeeds leads to is what was compiled for it.
LEMMA ResultsRoute ==
  ASSUME NEW id \in Ids(spec), NEW data, NEW r \in Results(id, data), r.ok
  PROVE  Entered(r.goto) \in RoutesOf(spec)[id]
<1> DEFINE config == Config(spec, id)
<1>0. /\ \A d, n : Done(id, d, n).goto = Targets(spec, id)
      /\ \A d, n : Failed(d, n).ok = FALSE
  BY DEF Done, Failed
<1>1. CASE TypeOf(spec, id) = "router"
  <2>1. r \in RouterResults(id, config, data)
    BY <1>1 DEF Results
  <2>2. PICK targets \in Chosen(data, config) :
          r = [ok |-> TRUE, data |-> Write(data, "__route__", WrittenRoute(data, targets)),
               goto |-> Goto(targets), starts |-> 1]
    BY <2>1 DEF RouterResults
  <2>3. r.goto = Goto(targets)
    BY <2>2
  <2>4. targets \in Lists(config)
    BY ChosenAreTargets DEF Lists
  <2>5. QED
    BY <1>1, <2>3, <2>4 DEF RoutesOf
<1>2. CASE TypeOf(spec, id) # "router"
  <2>1. r.goto = Targets(spec, id)
    <3>1. CASE TypeOf(spec, id) = "llm"
      <4>1. r \in LlmResults(id, config, data)
        BY <3>1 DEF Results
      <4>2. QED
        BY <4>1, <1>0 DEF LlmResults
    <3>2. CASE TypeOf(spec, id) = "join"
      <4>1. r = JoinResult(id, config, data)
        BY <3>2 DEF Results
      <4>2. QED
        BY <4>1, <1>0 DEF JoinResult
    <3>3. CASE TypeOf(spec, id) = "human_approval"
      <4>1. r = ApprovalResult(id, config, data)
        BY <3>3 DEF Results
      <4>2. QED
        BY <4>1, <1>0 DEF ApprovalResult
    <3>4. CASE TypeOf(spec, id) = "state_transform"
      <4>1. r = TransformResult(id, config, data)
        BY <3>4 DEF Results
      <4>2. QED
        BY <4>1, <1>0 DEF TransformResult
    <3>5. CASE TypeOf(spec, id) \notin {"llm", "router", "join", "human_approval", "state_transform"}
      <4>1. r = Done(id, data, 1)
        BY <3>5 DEF Results
      <4>2. QED
        BY <4>1, <1>0
    <3>6. QED
      BY <1>2, <3>1, <3>2, <3>3, <3>4, <3>5
  <2>2. QED
    BY <1>2, <2>1 DEF RoutesOf
<1>3. QED
  BY <1>1, <1>2

\* What a run has done in each phase.
PhaseInv ==
  /\ phase \in {"submitted", "refused", "registered"} =>
       step = 0 /\ ran = {} /\ result = "none" /\ superstep = {}
  /\ phase = "walking" => result = "none"
  /\ phase = "stopped" => result \in {"ok", "iterations", "missing", "failed"}

LEMMA NextPhaseInv == PhaseInv /\ [Next]_vars => PhaseInv'
<1> SUFFICES ASSUME PhaseInv, [Next]_vars
             PROVE  PhaseInv'
  OBVIOUS
<1> USE DEF PhaseInv
<1>1. CASE Refuse \/ Register \/ CompileFails \/ Start
  BY <1>1 DEF Refuse, Register, CompileFails, Start, runVars
<1>2. CASE NoNodesLeft \/ TooManySteps \/ MissingNode
  BY <1>2 DEF NoNodesLeft, TooManySteps, MissingNode, Stop
<1>3. CASE Superstep \/ NodeFails
  BY <1>3 DEF Superstep, NodeFails, CanStep, Stop
<1>4. CASE Report \/ UNCHANGED vars
  BY <1>4 DEF Report, vars
<1>5. QED
  BY <1>1, <1>2, <1>3, <1>4 DEF Next

LEMMA RunSuperstep ==
  ASSUME NEW s, spec = s, WalkInv, PhaseInv, Superstep
  PROVE  Run(s)!Superstep
<1>1. /\ phase = "walking" /\ superstep # {} /\ superstep \subseteq Ids(spec)
      /\ step < IterationLimit /\ result = "none" /\ Valid(spec)
      /\ UNCHANGED <<spec, phase, result>>
  BY DEF Superstep, CanStep, PhaseInv, WalkInv, Begun, Accepted
<1>2. ~NotStarted /\ ~NotStarted' /\ Verdict = "none" /\ Verdict' = "none"
  BY <1>1 DEF NotStarted, Verdict
<1>3. step < Iterations(s)
  BY <1>1, LimitWithin DEF WalkInv
<1>4. Run(s)!Follow(superstep, superstep')
  <2>1. PICK outcome \in [superstep -> UNION {Results(n, state) : n \in superstep}] :
          /\ \A n \in superstep : outcome[n] \in Results(n, state) /\ outcome[n].ok
          /\ superstep' = Entered(UNION {outcome[n].goto : n \in superstep})
    BY DEF Superstep
  <2> DEFINE choice == [n \in superstep |-> Entered(outcome[n].goto)]
  <2>2. \A n \in superstep : choice[n] \in RoutesOf(s)[n]
    BY <1>1, <2>1, ResultsRoute
  <2>3. superstep' = UNION {choice[n] : n \in superstep}
    BY <2>1 DEF Entered
  <2>4. \A n \in superstep : choice[n] \subseteq superstep'
    BY <2>3
  <2>5. superstep' \subseteq Ids(s) \cup {"END"}
    BY <1>1, SuperstepKeeps DEF SuperstepInv
  <2>6. choice \in [superstep -> SUBSET (Ids(s) \cup {"END"})]
    BY <2>4, <2>5
  <2> HIDE DEF choice
  <2>7. QED
    BY <2>2, <2>3, <2>6 DEF Run!Follow
<1>5. step' = step + 1 /\ ran' = ran \cup ({step} \X superstep)
  BY DEF Superstep
<1>6. QED
  BY <1>1, <1>2, <1>3, <1>4, <1>5 DEF Run!Superstep

RunInv(s) == WalkInv /\ PhaseInv /\ spec = s

RunVars(s) == <<IF NotStarted THEN EntryOf(spec) ELSE superstep, step, ran, Verdict>>

LEMMA RunStep ==
  ASSUME NEW s, RunInv(s), [Next]_vars
  PROVE  RunInv(s)' /\ [Run(s)!Next]_(RunVars(s))
<1> USE DEF RunInv
<1>1. spec' = spec
  BY DEF Next, vars, runVars, Refuse, Register, CompileFails, Start, NoNodesLeft,
     TooManySteps, MissingNode, NodeFails, Superstep, Report
<1>2. RunInv(s)'
  <2>1. WalkInv'
    BY NextWalkInv
  <2>2. PhaseInv'
    BY NextPhaseInv
  <2>3. QED
    BY <1>1, <2>1, <2>2
<1>3. CASE Superstep
  BY <1>2, <1>3, RunSuperstep DEF Run!Next
<1>4. CASE NoNodesLeft
  <2>1. /\ superstep = {} /\ UNCHANGED <<superstep, step, ran>>
        /\ ~NotStarted /\ ~NotStarted' /\ Verdict = "none" /\ Verdict' = "ok"
    BY <1>4 DEF NoNodesLeft, Stop, PhaseInv, NotStarted, Verdict
  <2>2. Run(s)!Complete
    BY <2>1 DEF Run!Complete
  <2>3. QED
    BY <1>2, <2>2 DEF Run!Next
<1>5. CASE TooManySteps \/ MissingNode \/ NodeFails
  <2>1. /\ UNCHANGED <<superstep, step, ran>>
        /\ ~NotStarted /\ ~NotStarted' /\ Verdict = "none" /\ Verdict' = "failed"
    BY <1>5 DEF TooManySteps, MissingNode, NodeFails, CanStep, Stop, PhaseInv, NotStarted, Verdict
  <2>2. Run(s)!GiveUp
    BY <2>1 DEF Run!GiveUp
  <2>3. QED
    BY <1>2, <2>2 DEF Run!Next
<1>6. CASE CompileFails
  <2>1. /\ UNCHANGED <<step, ran>>
        /\ NotStarted /\ NotStarted' /\ Verdict = "none" /\ Verdict' = "failed"
    BY <1>6 DEF CompileFails, PhaseInv, NotStarted, Verdict
  <2>2. Run(s)!GiveUp
    BY <1>1, <2>1 DEF Run!GiveUp
  <2>3. QED
    BY <1>2, <2>2 DEF Run!Next
<1>7. CASE Start
  <2>1. /\ UNCHANGED <<step, ran>> /\ superstep' = EntryOf(spec)
        /\ NotStarted /\ ~NotStarted' /\ Verdict = "none" /\ Verdict' = "none"
    BY <1>7 DEF Start, PhaseInv, NotStarted, Verdict, EntryOf
  <2>2. QED
    BY <1>1, <1>2, <2>1 DEF RunVars
<1>8. CASE Refuse \/ Register \/ Report \/ UNCHANGED vars
  <2>1. /\ UNCHANGED <<superstep, step, ran>>
        /\ (NotStarted' <=> NotStarted) /\ Verdict' = Verdict
    BY <1>8 DEF Refuse, Register, Report, vars, runVars, PhaseInv, NotStarted, Verdict
  <2>2. QED
    BY <1>1, <1>2, <2>1 DEF RunVars
<1>9. QED
  BY <1>3, <1>4, <1>5, <1>6, <1>7, <1>8 DEF Next

\* Whatever graph is submitted, its run is a run of supersteps over its own nodes and
\* compiled routes, within its max_iterations, with one verdict.
THEOREM WalksAreSupersteps ==
  ASSUME NEW s \in Submitted
  PROVE  Spec => ImplementsSupersteps(s)
<1>1. Init /\ spec = s => RunInv(s) /\ Run(s)!Init
  BY InitWalkInv DEF Init, RunInv, PhaseInv, Run!Init, NotStarted, Verdict
<1>2. RunInv(s) /\ [Next]_vars => RunInv(s)' /\ [Run(s)!Next]_(RunVars(s))
  BY RunStep
<1>3. QED
  BY <1>1, <1>2, PTL DEF Spec, ImplementsSupersteps, Run!Spec, RunVars
=============================================================================
