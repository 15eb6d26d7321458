----------------------------- MODULE GraphSpecs -----------------------------
(***************************************************************************)
(* Graph specifications: what graph_create accepts (validate), what the    *)
(* compiler makes of it, and which graphs may be resumed                   *)
(* (resume_eligibility).                                                   *)
(*                                                                         *)
(* A specification is a record                                             *)
(*   nodes       a sequence of [id, type, config]                          *)
(*   entry       an id                                                     *)
(*   output      the key returned as final state, or None                  *)
(*   edges       a sequence of <<from, to>>; `to` may be "END"             *)
(*   iterations  max_iterations; 0 stands for an absent one                *)
(*   reducers    a function from keys to reducer kinds                     *)
(* and `config` has the fields its type reads:                             *)
(*   llm         input, output, json, evidence, attempts                   *)
(*   any other   attempts, where it has a retry policy                     *)
(*   router      legacy, rules, default: rules and default are Absent or   *)
(*               <<list>>; a rule is [path, op, value, targets]            *)
(*   state_transform  operations, a sequence of [op, path, from, value]    *)
(*   join        inputs, output, mode, and more: see JoinStrategies        *)
(*   parallel    branches, join                                            *)
(*   subgraph, human_approval   output                                     *)
(*   passthrough plain: no config and no evidence dependency               *)
(* Sizes of names, prompts and documents, token counts, delays and the     *)
(* denied field names are left out: nothing here depends on them.          *)
(***************************************************************************)
EXTENDS Values

NodeTypes ==
  {"llm", "router", "passthrough", "state_transform", "join", "parallel",
   "subgraph", "human_approval", "external", "tool", "loop"}

Executable == NodeTypes \ {"external", "tool", "loop"}

MaxIterations == 64

Ids(spec) == {spec.nodes[i].id : i \in DOMAIN spec.nodes}

NodeOf(spec, id) == CHOOSE n \in RangeOf(spec.nodes) : n.id = id

TypeOf(spec, id) == NodeOf(spec, id).type

Config(spec, id) == NodeOf(spec, id).config

-----------------------------------------------------------------------------
(* validate_node: one operator per type. *)

Predicates == {"eq", "equals", "exists", "contains", "lt", "lte", "gt", "gte"}

Operations ==
  {"set", "copy", "delete", "increment", "append", "merge", "merge_object",
   "select", "compare", "format"}

JoinModes ==
  {"collect_array", "collect_object", "merge_objects", "first_non_null",
   "all_success", "quorum", "dedupe_by_identity", "contradiction_matrix",
   "minority_report", "proof_carrying_join"}

TargetExists(spec, t) == t = "END" \/ t \in Ids(spec)

ListOf(option) == IF option = Absent THEN <<>> ELSE option[1]

Rules(router) == RangeOf(ListOf(router.rules))

\* legacy_router gives a route map the default END.
DefaultList(router) == IF router.legacy THEN <<"END">> ELSE ListOf(router.default)

RuleTargets(router) == UNION {RangeOf(rule.targets) : rule \in Rules(router)}

RouterTargets(router) == RuleTargets(router) \cup RangeOf(DefaultList(router))

\* Deviation: the default of a router is not looked at.
RouterOkByRules(spec, router) ==
  /\ \A t \in RuleTargets(router) : TargetExists(spec, t)
  /\ router.legacy => RuleTargets(router) # {}
  /\ ~router.legacy => router.default # Absent

\* A route map has no default of its own to validate; other routers need one.
RouterOk(spec, router) ==
  /\ \A t \in RouterTargets(router) : TargetExists(spec, t)
  /\ router.legacy => RuleTargets(router) # {}
  /\ ~router.legacy =>
       /\ RouterTargets(router) # {}
       /\ router.default # Absent
       /\ \A rule \in Rules(router) : rule.op \in Predicates

MostAttempts == 5

\* An llm without a retry policy has one attempt.
LlmOk(llm) ==
  /\ llm.evidence => llm.json /\ llm.output # None
  /\ llm.attempts \in 1 .. MostAttempts

TransformOk(transform) ==
  /\ transform.operations # <<>>
  /\ \A op \in RangeOf(transform.operations) : op.op \in Operations

JoinOk(join) == join.mode \in JoinModes /\ join.output # None

ParallelOk(spec, parallel) ==
  /\ parallel.branches # <<>>
  /\ \A entry \in RangeOf(parallel.branches) : entry \in Ids(spec)
  /\ TargetExists(spec, parallel.join)

\* graph_name, and prompt_key with audience, are given.
NodeOk(spec, node) ==
  /\ node.type = "router" => RouterOk(spec, node.config)
  /\ node.type = "llm" => LlmOk(node.config)
  /\ node.type = "state_transform" => TransformOk(node.config)
  /\ node.type = "join" => JoinOk(node.config)
  /\ node.type = "parallel" => ParallelOk(spec, node.config)

-----------------------------------------------------------------------------
(* validate_state_write_conflicts: nodes that write one key without a        *)
(* reducer must be ordered when something leads to both.                     *)

\* The keys a node declares to write.
Declared(node) ==
  CASE node.type \in {"llm", "human_approval", "subgraph", "join"} ->
         {node.config.output} \ {None}
    [] node.type = "state_transform" ->
         {op.path : op \in RangeOf(node.config.operations)} \ {None}
    [] OTHER -> {}

Successors(spec, ids) == {e[2] : e \in {f \in RangeOf(spec.edges) : f[1] \in ids}} \ {"END"}

\* What edges lead to from a node: the least set that holds its successors
\* and the successors of its members.  Edges to no node lead nowhere.
Reachable(spec, id) ==
  {n \in Ids(spec) :
     \A S \in SUBSET Ids(spec) :
       Successors(spec, {id} \cup S) \cap Ids(spec) \subseteq S => n \in S}

\* Deviation: the loop over intermediate nodes leaves out the last node.
ReachMatrixOneShort(spec) ==
  LET I == DOMAIN spec.nodes
      Edge(i, j) ==
        \E e \in RangeOf(spec.edges) : e[2] # "END" /\ e = <<spec.nodes[i].id, spec.nodes[j].id>>
      After[k \in 0 .. Len(spec.nodes) - 1] ==
        IF k = 0
        THEN {ij \in I \X I : Edge(ij[1], ij[2])}
        ELSE After[k - 1] \cup
               {ij \in I \X I : <<ij[1], k>> \in After[k - 1] /\ <<k, ij[2]>> \in After[k - 1]}
  IN {<<spec.nodes[ij[1]].id, spec.nodes[ij[2]].id>> : ij \in After[Len(spec.nodes) - 1]}

\* The code's matrix: the triple loop, over positions, as a function of k.
ReachMatrix(spec) ==
  LET I == DOMAIN spec.nodes
      Edge(i, j) ==
        \E e \in RangeOf(spec.edges) : e[2] # "END" /\ e = <<spec.nodes[i].id, spec.nodes[j].id>>
      After[k \in 0 .. Len(spec.nodes)] ==
        IF k = 0
        THEN {ij \in I \X I : Edge(ij[1], ij[2])}
        ELSE After[k - 1] \cup
               {ij \in I \X I : <<ij[1], k>> \in After[k - 1] /\ <<k, ij[2]>> \in After[k - 1]}
  IN {<<spec.nodes[ij[1]].id, spec.nodes[ij[2]].id>> : ij \in After[Len(spec.nodes)]}

Ordered(spec, a, b) == b \in Reachable(spec, a) \/ a \in Reachable(spec, b)

HaveAncestor(spec, a, b) ==
  \E c \in Ids(spec) \ {a, b} : {a, b} \subseteq Reachable(spec, c)

\* Deviation: only nodes that are fanned out by one edge each are compared.
WritesOkForSiblings(spec) ==
  \A m, n \in RangeOf(spec.nodes) : \A key \in Declared(m) \cap Declared(n) :
    m.id # n.id /\ key \notin DOMAIN spec.reducers =>
      ~ \E c \in Ids(spec) \ {m.id, n.id} : {m.id, n.id} \subseteq Successors(spec, {c})

WritesOk(spec) ==
  \A m, n \in RangeOf(spec.nodes) : \A key \in Declared(m) \cap Declared(n) :
    m.id # n.id /\ key \notin DOMAIN spec.reducers =>
      Ordered(spec, m.id, n.id) \/ ~HaveAncestor(spec, m.id, n.id)

-----------------------------------------------------------------------------
(* validate, normalize, and what graph_create adds *)

EdgeOk(spec, edge) == edge[1] \in Ids(spec) /\ TargetExists(spec, edge[2])

Valid(spec) ==
  /\ spec.nodes # <<>>
  /\ spec.iterations \in 0 .. MaxIterations
  /\ Cardinality(Ids(spec)) = Len(spec.nodes)
  /\ spec.entry \in Ids(spec)
  /\ \A node \in RangeOf(spec.nodes) : NodeOk(spec, node)
  /\ \A edge \in RangeOf(spec.edges) : EdgeOk(spec, edge)
  /\ WritesOk(spec)

\* normalize fills in what is absent.
Iterations(spec) == IF spec.iterations = 0 THEN MaxIterations ELSE spec.iterations

\* graph_create also refuses the reserved types before it registers a graph.
Accepted(spec) == Valid(spec) /\ \A n \in RangeOf(spec.nodes) : n.type \in Executable

\* compile reads two things validate did not look at: an operation without a
\* path and a router without a list of rules are refused only here.
Compiles(spec) ==
  /\ \A n \in RangeOf(spec.nodes) :
       /\ n.type = "state_transform" => \A op \in RangeOf(n.config.operations) : op.path # None
       /\ n.type = "router" /\ ~n.config.legacy => n.config.rules # Absent
  /\ \A edge \in RangeOf(spec.edges) : TargetExists(spec, edge[2])

-----------------------------------------------------------------------------
(* resume_eligibility *)

OutEdges(spec, id) == {i \in DOMAIN spec.edges : spec.edges[i][1] = id}
\* An edge to "END" is an end, though a node may have that name.
InEdges(spec, id) == {i \in DOMAIN spec.edges : spec.edges[i][2] = id /\ id # "END"}

\* Local node types only, with no field the class does not know, such as a
\* retry policy; the compiler and the state need nothing else.
Local(node) ==
  /\ node.type \in {"passthrough", "state_transform"}
  /\ node.config.plain /\ "attempts" \notin DOMAIN node.config

Linear(spec) ==
  /\ \A id \in Ids(spec) : Cardinality(OutEdges(spec, id)) = 1
  /\ InEdges(spec, spec.entry) = {}
  /\ \A id \in Ids(spec) \ {spec.entry} : Cardinality(InEdges(spec, id)) = 1

OnlySuccessor(spec, id) == spec.edges[CHOOSE i \in OutEdges(spec, id) : TRUE][2]

\* The walk from the entry, which is not named "END".  In a linear graph no node
\* comes twice, so that the walk is over after as many nodes as there are.
Chain(spec) ==
  LET Walk[k \in 0 .. Len(spec.nodes)] ==
        IF k = 0 THEN <<spec.entry>>
        ELSE LET last == Walk[k - 1][Len(Walk[k - 1])] IN
             IF last = "END" THEN Walk[k - 1]
             ELSE Append(Walk[k - 1], OnlySuccessor(spec, last))
      whole == Walk[Len(spec.nodes)]
  IN SubSeq(whole, 1, Len(whole) - 1)

\* Deviation: nodes that the chain does not reach are not noticed.
EligibleWithRest(spec) ==
  /\ DOMAIN spec.reducers = {}
  /\ \A node \in RangeOf(spec.nodes) : Local(node)
  /\ Linear(spec)

Eligible(spec) ==
  /\ DOMAIN spec.reducers = {}
  /\ \A node \in RangeOf(spec.nodes) : Local(node)
  /\ Linear(spec)
  /\ Len(Chain(spec)) = Len(spec.nodes)

=============================================================================
