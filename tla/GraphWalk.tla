----------------------------- MODULE GraphWalk ------------------------------
(***************************************************************************)
(* A graph specification from graph_create to the end of one run: what is  *)
(* registered, what its nodes read, write and lead to, where a node budget *)
(* stops it, and what the run reports.                                     *)
(*                                                                         *)
(* A superstep is one step here; GraphEngine has its tasks.  The state of  *)
(* the run is a function from keys to values; an LLM may answer any value  *)
(* of Answers or fail.                                                     *)
(***************************************************************************)
EXTENDS GraphSpecs, JoinStrategies

CONSTANTS
  Submitted,   (* the specifications that may be submitted                  *)
  Inputs(_),   (* the states a run of a specification may start with        *)
  Answers,     (* values a provider may return                              *)
  Budgets,     (* max_nodes of a run; 0 stands for no budget                *)
  MayFail      (* provider calls may fail                                   *)

\* A quorum counts; every join names its inputs in a list.
ASSUME JoinAssumption ==
  \A s \in Submitted : \A node \in RangeOf(s.nodes) :
    node.type = "join" =>
      /\ node.config.inputs \in Seq(STRING)
      /\ node.config.mode = "quorum" => node.config.required \in Nat

\* max_attempts is a u64; only an llm's is validated.
ASSUME RetryAssumption ==
  \A s \in Submitted : \A node \in RangeOf(s.nodes) :
    "attempts" \in DOMAIN node.config => node.config.attempts \in Nat

ASSUME BudgetAssumption == Budgets \subseteq Nat

\* Nodes and edges come in lists; an edge has two ends.
ASSUME ListAssumption ==
  \A s \in Submitted : s.nodes \in Seq(RangeOf(s.nodes)) /\ s.edges \in Seq(STRING \X STRING)

VARIABLES
  spec,        (* the specification                                         *)
  phase,       (* submitted, refused, registered, walking, stopped, done    *)
  superstep,   (* the nodes to run next                                     *)
  step,        (* supersteps run                                            *)
  state,       (* the run's state                                           *)
  ran,         (* history: <<superstep, node>> for every node that has run  *)
  started,     (* NodeStart events: one per attempt                         *)
  budget,      (* max_nodes, 0 for none                                     *)
  result,      (* how the engine ended                                      *)
  reported     (* status of the run, with the exhausted budget if any       *)

vars == <<spec, phase, superstep, step, state, ran, started, budget, result, reported>>

-----------------------------------------------------------------------------
(* apply_transform *)

Num(value, other) == IF Is("number", value) THEN value[2] ELSE other

Items(value) ==
  IF Is("array", value) THEN value[2] ELSE IF value = Null THEN <<>> ELSE <<value>>

Fields(value) == IF Is("object", value) THEN value[2] ELSE [k \in {} |-> Null]

Selected(data, keys) == [k \in RangeOf(keys) \cap DOMAIN data |-> data[k]]

\* What an operation writes at its path.
Operand(data, op) ==
  LET current == Read(data, op.path) IN
  CASE op.op = "set" -> op.value
    [] op.op = "copy" -> Read(data, op.from)
    [] op.op = "increment" -> Number(Num(current, 0) + Num(op.value, 1))
    [] op.op = "append" -> Array(Append(Items(current), op.value))
    [] op.op \in {"merge", "merge_object"} -> Object(Extended(Fields(current), op.value[2]))
    [] op.op = "select" -> Object(Selected(data, op.values))
    [] op.op = "compare" -> Bool(current = op.value)
    [] op.op = "format" -> <<"formatted", [i \in DOMAIN op.values |-> Read(data, op.values[i])]>>

OperationFails(op) ==
  \/ op.op = "copy" /\ op.from = None
  \/ op.op \in {"merge", "merge_object"} /\ ~Is("object", op.value)

Operated(data, op) ==
  IF op.op = "delete" THEN Without(data, op.path) ELSE Write(data, op.path, Operand(data, op))

\* The operations in order; the first that fails ends the node and leaves the
\* effect of those before it.
Transformed(data, operations) ==
  LET After[i \in 0 .. Len(operations)] ==
        IF i = 0 THEN [ok |-> TRUE, data |-> data]
        ELSE IF ~After[i - 1].ok \/ OperationFails(operations[i])
        THEN [ok |-> FALSE, data |-> After[i - 1].data]
        ELSE [ok |-> TRUE, data |-> Operated(After[i - 1].data, operations[i])]
  IN After[Len(operations)]

-----------------------------------------------------------------------------
(* RouterNode: the first rule that holds, or the default.  A path is a key   *)
(* of the map as it stands: it is not followed into an object.  Texts are    *)
(* atomic: one contains another if they are equal.                           *)

Less(a, b) == Is("number", a) /\ Is("number", b) /\ a[2] < b[2]

Same(a, b) == Is("number", a) /\ a = b

Holds(data, rule) ==
  LET value == Read(data, rule.path) IN
  CASE rule.op \in {"eq", "equals"} -> value = rule.value
    [] rule.op = "exists" -> value # Null
    [] rule.op = "contains" -> value = rule.value
    [] rule.op = "lt" -> Less(value, rule.value)
    [] rule.op = "lte" -> Less(value, rule.value) \/ Same(value, rule.value)
    [] rule.op = "gt" -> Less(rule.value, value)
    [] rule.op = "gte" -> Less(rule.value, value) \/ Same(value, rule.value)
    [] OTHER -> FALSE

\* The targets of the first rule that holds; one list.
Chosen(data, router) ==
  LET list == ListOf(router.rules)
      holding == {i \in DOMAIN list : Holds(data, list[i])}
  IN IF holding = {} THEN {DefaultList(router)}
     ELSE {list[i].targets : i \in {k \in holding : \A j \in holding : k <= j}}

\* Only an END that stands alone is the end.
Goto(targets) == IF targets \in {<<>>, <<"END">>} THEN {} ELSE RangeOf(targets)

-----------------------------------------------------------------------------
(* The names the engine uses itself: it starts behind "__start__", where the *)
(* compiler adds an edge to the entry, and drops "__end__" from a superstep. *)
(* A node of a specification may have one of these names.                    *)

EngineNames == {"__start__", "__end__"}

Targets(s, id) ==
  Successors(s, {id}) \cup {entry \in {s.entry} : id = "__start__"}

Entered(ids) == ids \ {"__end__"}

-----------------------------------------------------------------------------
(* Reducers: what a write through a key's reducer leaves.                    *)

Reduced(kind, old, new) ==
  CASE kind = "append" ->
         Array(IF Is("array", new) THEN Items(old) \o new[2] ELSE Append(Items(old), new))
    [] kind = "merge" /\ Is("object", old) /\ Is("object", new) ->
         Object(Extended(old[2], new[2]))
    [] OTHER -> new

Kind(key) == IF key \in DOMAIN spec.reducers THEN spec.reducers[key] ELSE "last_write_wins"

-----------------------------------------------------------------------------
(* What one attempt family of a node may come to: [ok, data, goto, starts].  *)
(* A node of any type may have a retry policy; every error is retried.       *)

\* A policy of no attempts still makes one.
Attempts(config) ==
  IF "attempts" \notin DOMAIN config \/ config.attempts = 0 THEN 1 ELSE config.attempts

Done(id, data, starts) ==
  [ok |-> TRUE, data |-> data, goto |-> Targets(spec, id), starts |-> starts]

Failed(data, starts) == [ok |-> FALSE, data |-> data, goto |-> {}, starts |-> starts]

\* compile: an LLM without an output key writes the input of the graph.
OutputOf(llm) == IF llm.output = None THEN "__input__" ELSE llm.output

\* An answer may come after failed attempts, or not at all.
LlmResults(id, llm, data) ==
  {Done(id, Write(data, OutputOf(llm), v), n) :
     v \in Answers, n \in IF MayFail THEN 1 .. Attempts(llm) ELSE {1}}
    \cup IF MayFail THEN {Failed(data, Attempts(llm))} ELSE {}

\* goto_label
Label(targets) ==
  CASE targets \in {<<>>, <<"END">>} -> Text("END")
    [] Len(targets) = 1 /\ targets # <<"END">> -> Text(targets[1])
    [] OTHER -> Array([i \in DOMAIN targets |-> Text(targets[i])])

\* A command's update goes through the reducer of its key, if it has one.
WrittenRoute(data, targets) ==
  IF "__route__" \in DOMAIN data
  THEN Reduced(Kind("__route__"), data["__route__"], Label(targets)) ELSE Label(targets)

RouterResults(id, router, data) ==
  {[ok |-> TRUE, data |-> Write(data, "__route__", WrittenRoute(data, targets)),
    goto |-> Goto(targets), starts |-> 1] : targets \in Chosen(data, router)}

JoinResult(id, join, data) ==
  LET joined == Joined(join, data) IN
  IF joined.ok THEN Done(id, Write(data, join.output, joined.value), 1)
  ELSE Failed(data, Attempts(join))

\* The interrupt is an error like any other: it is retried too.
ApprovalResult(id, approval, data) ==
  LET asked == Write(data, "__approval_request__", Text("pending")) IN
  IF Read(data, approval.output) # Null THEN Done(id, asked, 1)
  ELSE Failed(asked, Attempts(approval))

\* A retry finds what the attempts before it have written.
TransformResult(id, transform, data) ==
  LET Tried[n \in 1 .. Attempts(transform)] ==
        Transformed(IF n = 1 THEN data ELSE Tried[n - 1].data, transform.operations)
  IN IF Tried[1].ok THEN Done(id, Tried[1].data, 1)
     ELSE Failed(Tried[Attempts(transform)].data, Attempts(transform))

\* Parallel and subgraph nodes are compiled to nodes that pass.
Results(id, data) ==
  LET config == Config(spec, id) IN
  CASE TypeOf(spec, id) = "llm" -> LlmResults(id, config, data)
    [] TypeOf(spec, id) = "router" -> RouterResults(id, config, data)
    [] TypeOf(spec, id) = "join" -> {JoinResult(id, config, data)}
    [] TypeOf(spec, id) = "human_approval" -> {ApprovalResult(id, config, data)}
    [] TypeOf(spec, id) = "state_transform" -> {TransformResult(id, config, data)}
    [] OTHER -> {Done(id, data, 1)}

-----------------------------------------------------------------------------
(* The branches of a superstep work on copies; the keys each changed are     *)
(* merged, in an order left open, by the key's reducer or by the last.       *)
(* Adding numbers, which may fail, is left to AgentState; objects that are   *)
(* merged have no objects in them.                                           *)

Changed(data, key) == key \notin DOMAIN state \/ data[key] # state[key]

Orders(S) == {f \in [1 .. Cardinality(S) -> S] : {f[i] : i \in 1 .. Cardinality(S)} = S}

Folded(kind, old, values) ==
  LET After[i \in 0 .. Len(values)] ==
        IF i = 0 THEN old ELSE Reduced(kind, After[i - 1], values[i])
  IN After[Len(values)]

\* Deviation: only keys the state already has are merged.
MergedKnownKeys(outcome, order) ==
  LET changers(key) ==
        SelectSeq(order, LAMBDA n : key \in DOMAIN outcome[n].data /\ Changed(outcome[n].data, key))
      values(key) == [i \in DOMAIN changers(key) |-> outcome[changers(key)[i]].data[key]]
  IN [key \in DOMAIN state |-> Folded(Kind(key), Read(state, key), values(key))]

Merged(outcome, order) ==
  LET changers(key) ==
        SelectSeq(order, LAMBDA n : key \in DOMAIN outcome[n].data /\ Changed(outcome[n].data, key))
      values(key) == [i \in DOMAIN changers(key) |-> outcome[changers(key)[i]].data[key]]
      keys == DOMAIN state \cup UNION {DOMAIN outcome[n].data : n \in DOMAIN outcome}
  IN [key \in keys |-> Folded(Kind(key), Read(state, key), values(key))]

-----------------------------------------------------------------------------
(* budget_iteration_limit: how many frontiers of edges fit the budget.       *)

Frontier(k) ==
  LET After[i \in 0 .. k] ==
        IF i = 0 THEN {spec.entry} ELSE Successors(spec, After[i - 1])
  IN After[k]

\* Nodes in the first k frontiers.
Width(k) ==
  LET Sum[i \in 0 .. k] == IF i = 0 THEN 0 ELSE Sum[i - 1] + Cardinality(Frontier(i - 1))
  IN Sum[k]

AllowedSteps ==
  {k \in 1 .. Iterations(spec) : Frontier(k - 1) # {} /\ Width(k) <= budget}

\* Deviation: the frontier that crosses the budget is let in.
BudgetLimitOneMore ==
  LET allowed == {k \in 1 .. Iterations(spec) : Frontier(k - 1) # {} /\ Width(k - 1) < budget}
  IN IF allowed = {} THEN 1 ELSE Cardinality(allowed)

\* What is allowed is 1 .. n for some n: later frontiers only add.
BudgetLimit == IF AllowedSteps = {} THEN 1 ELSE Cardinality(AllowedSteps)

IterationLimit == IF budget = 0 THEN Iterations(spec) ELSE BudgetLimit

-----------------------------------------------------------------------------
Init ==
  /\ spec \in Submitted
  /\ phase = "submitted"
  /\ superstep = {} /\ step = 0 /\ state = [k \in {} |-> Null]
  /\ ran = {} /\ started = 0 /\ budget = 0
  /\ result = "none" /\ reported = "none"

runVars == <<superstep, step, state, ran, started, budget, result, reported>>

Refuse ==
  /\ phase = "submitted" /\ ~Accepted(spec)
  /\ phase' = "refused"
  /\ UNCHANGED <<spec, runVars>>

Register ==
  /\ phase = "submitted" /\ Accepted(spec)
  /\ phase' = "registered"
  /\ UNCHANGED <<spec, runVars>>

\* compile fails: the run fails before the engine starts.
CompileFails ==
  /\ phase = "registered" /\ ~Compiles(spec)
  /\ phase' = "done"
  /\ reported' = "failed"
  /\ UNCHANGED <<spec, superstep, step, state, ran, started, budget, result>>

Start ==
  /\ phase = "registered" /\ Compiles(spec)
  /\ phase' = "walking"
  /\ superstep' = Entered(Targets(spec, "__start__"))
  /\ state' \in Inputs(spec)
  /\ budget' \in Budgets
  /\ UNCHANGED <<spec, step, ran, started, result, reported>>

Stop(r) == phase' = "stopped" /\ result' = r

\* The checks at the top of the loop.
NoNodesLeft ==
  /\ phase = "walking" /\ superstep = {}
  /\ Stop("ok")
  /\ UNCHANGED <<spec, superstep, step, state, ran, started, budget, reported>>

TooManySteps ==
  /\ phase = "walking" /\ superstep # {} /\ step >= IterationLimit
  /\ Stop("iterations")
  /\ UNCHANGED <<spec, superstep, step, state, ran, started, budget, reported>>

CanStep == phase = "walking" /\ superstep # {} /\ step < IterationLimit

\* All attempts: those that are at least first, second, ... of their node.
Total(outcome) ==
  LET S == DOMAIN outcome
      counts == {outcome[n].starts : n \in S}
      most == CHOOSE m \in counts : \A k \in counts : k <= m
      starts(k) == Cardinality({n \in S : outcome[n].starts >= k})
      Sum[k \in 0 .. most] == IF k = 0 THEN 0 ELSE Sum[k - 1] + starts(k)
  IN Sum[most]

\* Every node of the superstep succeeds.
Superstep ==
  /\ CanStep /\ superstep \subseteq Ids(spec)
  /\ \E outcome \in [superstep -> UNION {Results(n, state) : n \in superstep}] :
       /\ \A n \in superstep : outcome[n] \in Results(n, state) /\ outcome[n].ok
       /\ superstep' = Entered(UNION {outcome[n].goto : n \in superstep})
       /\ started' = started + Total(outcome)
       /\ \/ \E n \in superstep : superstep = {n} /\ state' = outcome[n].data
          \/ /\ Cardinality(superstep) > 1
             /\ \E order \in Orders(superstep) : state' = Merged(outcome, order)
  /\ step' = step + 1
  /\ ran' = ran \cup ({step} \X superstep)
  /\ UNCHANGED <<spec, phase, budget, result, reported>>

\* NodeNotFound: a router's list of targets may hold END beside others, and
\* END is not a node.  Branches that were started are dropped.
MissingNode ==
  /\ CanStep /\ ~ superstep \subseteq Ids(spec)
  /\ \E begun \in SUBSET (superstep \cap Ids(spec)) : started' = started + Cardinality(begun)
  /\ Stop("missing")
  /\ UNCHANGED <<spec, superstep, step, state, ran, budget, reported>>

\* A node fails: alone it leaves what it had written, as a branch nothing;
\* branches that were not started yet never are.
NodeFails ==
  /\ CanStep /\ superstep \subseteq Ids(spec)
  /\ \E outcome \in [superstep -> UNION {Results(n, state) : n \in superstep}] :
       /\ \A n \in superstep : outcome[n] \in Results(n, state)
       /\ \E begun \in SUBSET superstep :
            /\ \E n \in begun : ~outcome[n].ok
            /\ started' = started + Total([n \in begun |-> outcome[n]])
       /\ \/ \E n \in superstep : superstep = {n} /\ state' = outcome[n].data
          \/ Cardinality(superstep) > 1 /\ UNCHANGED state
  /\ Stop("failed")
  /\ UNCHANGED <<spec, superstep, step, ran, budget, reported>>

-----------------------------------------------------------------------------
(* The end of execute_with_store_options. *)

Exhausted ==
  /\ budget # 0
  /\ \/ started > budget
     \/ started >= budget /\ result = "iterations" /\ IterationLimit <= Iterations(spec)

Report ==
  /\ phase = "stopped" /\ phase' = "done"
  /\ reported' =
       IF Exhausted THEN "budget" ELSE IF result = "ok" THEN "completed" ELSE "failed"
  /\ UNCHANGED <<spec, superstep, step, state, ran, started, budget, result>>

Next ==
  \/ Refuse \/ Register \/ CompileFails \/ Start
  \/ NoNodesLeft \/ TooManySteps \/ MissingNode \/ Superstep \/ NodeFails
  \/ Report

Spec == Init /\ [][Next]_vars /\ WF_vars(Next)

-----------------------------------------------------------------------------
(* What a registered graph and its runs promise. *)

\* The compiler's reachability matrix says what edges lead to: the triple loop
\* of validate_state_write_conflicts computes the transitive closure.
MatrixIsReachability ==
  phase = "submitted" /\ Cardinality(Ids(spec)) = Len(spec.nodes) =>
    ReachMatrix(spec) = {ab \in Ids(spec) \X Ids(spec) : ab[2] \in Reachable(spec, ab[1])}

PlainNames == Ids(spec) \cap EngineNames = {}

HasRouter == \E n \in RangeOf(spec.nodes) : n.type = "router"

\* Two nodes of one superstep that declare the same key without a reducer: one
\* of them leads to the other.  Validation looks at edges only, so graphs with
\* a router are left out.
ConflictsAreOrdered ==
  phase = "walking" /\ ~HasRouter /\ PlainNames =>
    \A m, n \in superstep : \A key \in Declared(NodeOf(spec, m)) \cap Declared(NodeOf(spec, n)) :
      m # n /\ key \notin DOMAIN spec.reducers => Ordered(spec, m, n)

\* The keys a node writes when it runs, declared or not.
Written(node) ==
  CASE node.type = "llm" -> {OutputOf(node.config)}
    [] node.type = "human_approval" -> {"__approval_request__"}
    [] node.type = "subgraph" -> {}
    [] OTHER -> Declared(node)

\* "state_write_conflicts": "rejected_without_explicit_reducer" (server.rs,
\* graph_status): no two nodes of a superstep write one key that has no reducer.
NoUnorderedWrites ==
  phase = "walking" =>
    \A m, n \in superstep \cap Ids(spec) :
      m # n => Written(NodeOf(spec, m)) \cap Written(NodeOf(spec, n)) \subseteq DOMAIN spec.reducers

EndBesideOthers ==
  \E n \in RangeOf(spec.nodes) :
    /\ n.type = "router"
    /\ \E list \in {DefaultList(n.config)} \cup {r.targets : r \in Rules(n.config)} :
         "END" \in RangeOf(list) /\ list # <<"END">>

\* An accepted graph leads to a node it does not have only where a router
\* names END beside other targets: validation takes that END for an end, the
\* engine for a node.
OnlyEndIsMissing ==
  result = "missing" => EndBesideOthers /\ superstep \subseteq Ids(spec) \cup {"END"}

\* A graph classified as eligible for resume runs its chain, one node at a
\* time and every node once; only max_iterations or a failure end it earlier.
ChainIsExecuted ==
  phase \in {"walking", "stopped"} /\ Eligible(spec) /\ PlainNames =>
    /\ superstep = IF step < Len(Chain(spec)) THEN {Chain(spec)[step + 1]} ELSE {}
    /\ result \in {"none", "ok", "iterations", "failed"}
    /\ result = "ok" =>
         /\ ran = {<<i - 1, Chain(spec)[i]>> : i \in DOMAIN Chain(spec)}
         /\ {run[2] : run \in ran} = Ids(spec)

\* A run of an accepted graph ends: no budget, router or cycle takes it past
\* the 64 supersteps that validation allows.
StepsBounded == step <= MaxIterations

Retrying == \E n \in RangeOf(spec.nodes) : Attempts(n.config) > 1

\* Where only edges lead through a graph, budget_iteration_limit lets in no
\* frontier that would cross the budget, whatever the fan-out: the nodes that
\* have run fit it, and so do the attempts where no node is retried.
FrontierWithinBudget ==
  budget # 0 /\ ~HasRouter /\ PlainNames =>
    /\ Cardinality(ran) <= budget
    /\ ~Retrying => started <= budget

\* "Conditional edges are treated as possible edges; this can stop early, but never
\* allows an over-budget frontier" (run_manager.rs:920-921): with routers, too, the
\* nodes that run fit the budget.
NoOverBudgetFrontier == budget # 0 /\ PlainNames => Cardinality(ran) <= budget

\* A join that runs alone: its inputs and what it has written.
JoinStep(n) == superstep = {n} /\ step' = step + 1 /\ TypeOf(spec, n) = "join"

JoinOf(n) == Config(spec, n)
Out(n) == state'[JoinOf(n).output][2]
Shown(n) == RangeOf(Out(n).value[2]) \cup RangeOf(Out(n).minority_report[2])

\* A strategy loses no artifact and invents none: what a branch wrote is in the
\* value, in the minority report, or its key is named as quarantined; of those
\* with one identity exactly one stays.
JoinKeepsArtifacts ==
  [][\A n \in superstep : JoinStep(n) /\ JoinOf(n).mode \in Strategies =>
       LET inputs == RangeOf(InputsOf(JoinOf(n), state))
           identified == JoinOf(n).mode = "dedupe_by_identity" /\ JoinOf(n).identity # None
           identity(value) == Field(value, JoinOf(n).identity)
       IN /\ Shown(n) \subseteq {input[2] : input \in inputs}
          /\ \A input \in inputs :
               IF identified THEN Cardinality({v \in Shown(n) : identity(v) = identity(input[2])}) = 1
               ELSE input[2] \in Shown(n) \/ input[1] \in Out(n).notes[2]]_vars

NamedOnce(seq) == \A i, j \in DOMAIN seq : i # j => seq[i] # seq[j]

\* A favourable verdict is earned by the branches as they are when the join
\* runs: a branch that has not written never makes all_success, a pass of
\* proof_carrying_join or an approval of a quorum, and no two artifacts of a
\* strict pass contradict each other.
VerdictIsEarned ==
  [][\A n \in superstep : JoinStep(n) =>
       LET value(key) == Read(state, key)
           keys == RangeOf(JoinOf(n).inputs)
           passed == Out(n).certification[2] = "pass"
       IN CASE JoinOf(n).mode = "all_success" -> Out(n).all_success[2] => \A k \in keys : value(k) # Null
            [] JoinOf(n).mode = "quorum" ->
                 Out(n).met[2] /\ NamedOnce(JoinOf(n).inputs) =>
                   Cardinality({k \in keys : IsTrue(value(k))}) >= JoinOf(n).required
            [] JoinOf(n).mode = "proof_carrying_join" ->
                 passed => \A k \in keys : \A name \in JoinOf(n).fields : Field(value(k), name) # Absent
            [] JoinOf(n).mode = "contradiction_matrix" ->
                 passed /\ JoinOf(n).strict => \A k, l \in keys : ~Contradict(value(k), value(l))
            [] OTHER -> TRUE]_vars
=============================================================================
