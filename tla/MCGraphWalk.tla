---------------------------- MODULE MCGraphWalk -----------------------------
(* Small graphs, and the built-in templates, for TLC. *)
EXTENDS TemplateRuns, SequencesExt, TLC

NoReducers == [k \in {} |-> "last_write_wins"]

Set(id) ==
  [id |-> id, type |-> "state_transform",
   config |-> [plain |-> TRUE,
               operations |-> << [op |-> "set", path |-> "x", from |-> None,
                                  value |-> Text(id), values |-> <<>>] >>]]
Fork(id, targets) == Router(id, <<>>, targets)

Ops(id, list) ==
  [id |-> id, type |-> "state_transform", config |-> [plain |-> FALSE, operations |-> list]]

Op(op, path, from, value, values) ==
  [op |-> op, path |-> path, from |-> from, value |-> value, values |-> values]

\* A transform of every kind, routed by what it computed.
Arithmetic(flag) ==
  LET number == <<Op("increment", "n", None, Number(1), <<>>), Op("set", "m", None, Number(flag), <<>>)>>
      objects == <<Op("merge", "o", None, Object([k \in {"f"} |-> Yes]), <<>>),
                   Op("select", "s", None, Null, <<"o", "n">>), Op("format", "t", None, Null, <<"n">>),
                   Op("append", "l", None, Null, <<>>), Op("copy", "c", "n", Null, <<>>),
                   Op("compare", "m", None, Number(1), <<>>), Op("delete", "n", None, Null, <<>>)>>
      broken == <<Op("set", "n", None, Yes, <<>>), Op("copy", "c", None, Null, <<>>)>>
  IN Template("a", "n", 4,
       <<Ops("a", number),
         Router("b", <<Rule("m", "lt", Number(1), "c"), Rule("m", "gte", Number(2), "d"),
                       Rule("q", "exists", Null, "a")>>, <<"c", "d">>),
         Ops("c", objects), Ops("d", IF flag = 1 THEN broken ELSE number)>>,
       Path(<<"a", "b">>) \o Path(<<"c", "END">>) \o Path(<<"d", "a">>))

Approval(id) == [id |-> id, type |-> "human_approval", config |-> [output |-> "x"]]
Fan(id) == [id |-> id, type |-> "parallel", config |-> [branches |-> <<"b">>, join |-> "c"]]
Reserved(id) == [id |-> id, type |-> "tool", config |-> [plain |-> TRUE]]
Legacy(id) ==
  [id |-> id, type |-> "router",
   config |-> [legacy |-> TRUE, rules |-> << <<Rule(Input, "contains", Null, "b")>> >>, default |-> Absent]]
Flaky(id) ==
  [id |-> id, type |-> "llm",
   config |-> [input |-> Input, output |-> None, json |-> FALSE, evidence |-> FALSE, attempts |-> 2]]

Graph(nodes, edges, reducers) ==
  [nodes |-> nodes, entry |-> "a", output |-> "x", edges |-> edges, iterations |-> 4,
   reducers |-> reducers]

Pairs(ids) == {e \in ids \X (ids \cup {"END"}) : TRUE}

\* Three nodes, up to three edges.
EdgeLists == {SetToSeq(S) : S \in UNION {kSubset(k, Pairs({"a", "b", "c"})) : k \in 0 .. 3}}
Straight ==
  {Graph(<<m, n, o>>, edges, NoReducers) :
     m \in {Pass("a"), Set("a")}, n \in {Set("b")}, o \in {Pass("c"), Set("c")},
     edges \in EdgeLists}
Routed ==
  {Graph(<<m, n, o>>, edges, NoReducers) :
     m \in {Fork("a", <<"b", "c">>), Fork("a", <<"b", "END">>), Fork("a", <<"END">>),
            Fork("a", <<"d">>), Legacy("a"), Fan("a")},
     n \in {Set("b"), Approval("b"), Flaky("b")}, o \in {Set("c"), Reserved("c"), Fork("c", <<"a", "c">>)},
     edges \in {SetToSeq(S) : S \in UNION {kSubset(k, Pairs({"b", "c"}) \ {<<"b", "b">>}) : k \in 0 .. 2}}}
\* Four nodes, no cycle: forks of branches of different lengths.
Forward == { <<"a", "b">>, <<"a", "c">>, <<"a", "d">>, <<"b", "c">>, <<"b", "d">>, <<"c", "d">> }
Forked ==
  {Graph(<<Pass("a"), n, o, q>>, SetToSeq(S), r) :
     n \in {Pass("b"), Set("b")}, o \in {Set("c")},
     q \in {Set("d"), Collect("d", <<"x", "y">>, "z")}, S \in SUBSET Forward,
     r \in {NoReducers, [k \in {"x"} |-> "append"]}}

\* Five nodes: the two that write one key are children of different branches.
Cousins ==
  {Graph(<<Pass("a"), n, Pass("c"), Set("d"), o>>, SetToSeq(S), r) :
     n \in {Pass("b"), Fan("b")}, o \in {Set("e"), Pass("e")},
     S \in SUBSET { <<"a", "b">>, <<"a", "c">>, <<"b", "d">>, <<"c", "e">>, <<"d", "e">>,
                    <<"e", "END">> },
     r \in {NoReducers, [k \in {"x"} |-> "append"]}}

\* What the compiler refuses and validation does not, and the other way round.
Pathless == [Set("b") EXCEPT !.config.operations[1].path = None]
Ruleless == [Fork("b", <<"END">>) EXCEPT !.config.rules = Absent]
Unwitnessed == [Flaky("b") EXCEPT !.config.evidence = TRUE]
Tireless == [Flaky("b") EXCEPT !.config.attempts = 6]
Unknown == [Set("b") EXCEPT !.config.operations[1].op = "other"]
Modeless == [Collect("b", <<"x">>, "z") EXCEPT !.config.mode = "other"]
\* A router that edges leave as well: they do not show where it leads.
Detour ==
  {Graph(<<Pass("a"), Fork("b", targets), Set("c"), Pass("d")>>,
         Path(<<"a", "b", "c", "END">>) \o Path(<<"d", "END">>), NoReducers) :
     targets \in { <<"c", "d">>, <<"d">>, <<"END">> }}

\* Nodes with a retry policy: their attempts are not validated.
Retry(node, n) ==
  [node EXCEPT !.config = [f \in DOMAIN @ \cup {"attempts"} |-> IF f = "attempts" THEN n ELSE @[f]]]
Halfway == Ops("b", <<Op("append", "x", None, Yes, <<>>), Op("copy", "c", None, Null, <<>>)>>)
Retried ==
  {Retry(node, n) : n \in {0, 3}, node \in {Set("b"), Pass("b"), Approval("b"), Halfway,
                                            Collect("b", <<"x">>, "z"), Fork("b", <<"a">>)}}
Odd ==
  {Graph(<<Pass("a"), n>>, << <<"a", "b">>, <<"b", "END">> >>, NoReducers) :
     n \in {Pathless, Ruleless, Unwitnessed, Tireless, Unknown, Modeless} \cup Retried}
    \cup {[Graph(<<Set("a"), Set("b")>>, << <<"a", "b">>, <<"b", "END">> >>, NoReducers)
           EXCEPT !.iterations = i] : i \in {0, 1, 65}}
    \cup {Graph(<<Pass("a"), Fork("b", <<"a">>)>>, << <<"a", "b">> >>, [k \in {"__route__"} |-> kind]) :
            kind \in {"append", "merge"}}
    \cup {Graph(<<Set("a"), Set("b")>>, << <<"a", "b">>, edge >>, NoReducers) :
            edge \in { <<"b", "z">>, <<"z", "a">> }}
    \cup UNION {{Graph(<<Set("a"), Set(name)>>, <<edge, <<edge[2], "END">> >>, NoReducers) :
                   edge \in {"a", name} \X {"a", name}} : name \in EngineNames}

\* Joins of three branches, one of them named twice.
Joining(mode, inputs, required, identity, strict, fields) ==
  Graph(<<[id |-> "a", type |-> "join",
           config |-> [mode |-> mode, inputs |-> inputs, output |-> "x", required |-> required,
                       identity |-> identity, strict |-> strict, fields |-> fields]]>>,
        <<>>, NoReducers)
Three == <<"i", "j", "k">>
Proof == {"evidence", "checks", "receipt"}
Joins ==
  {Joining(mode, inputs, 2, None, FALSE, Proof) :
     mode \in JoinModes, inputs \in {Three, <<"i", "j", "i">>}}
    \cup {Joining("contradiction_matrix", Three, 2, None, TRUE, Proof),
          Joining("dedupe_by_identity", Three, 2, "claim", FALSE, Proof),
          Joining("proof_carrying_join", Three, 2, None, FALSE, {"receipt"})}

Claim(scope, claim) ==
  Object([f \in {"scope", "time", "claim"} |-> IF f = "claim" THEN claim ELSE Text(scope)])
Evidence(digest) == Array(<<Object([f \in {"witness_id", "digest"} |-> Text(digest)])>>)
Checks(statuses) ==
  Array([i \in DOMAIN statuses |-> Object([f \in {"status"} |-> Text(statuses[i])])])
Proven3(digest, statuses) ==
  Object([evidence |-> Evidence(digest), checks |-> Checks(statuses), receipt |-> Text("r")])

\* What a branch may have left, per mode of the join that reads it.
Artifacts(mode) ==
  CASE mode \in {"contradiction_matrix", "dedupe_by_identity"} ->
         {Claim("s", Text("true")), Claim("s", Yes), Claim("s", Text("false")),
          Claim("t", Text("false")), Object([scope |-> Text("s"), time |-> Text("s")])}
    [] mode = "minority_report" ->
         {Object([dissent |-> Yes]), Object([dissent |-> No]), Object([dissent |-> Text("true")])}
    [] mode = "proof_carrying_join" ->
         {Proven3("d", <<"passed">>), Proven3("d", <<"passed", "running">>), Proven3("d", <<>>),
          Proven3("", <<"passed">>), Object([receipt |-> Text("r")])}
    [] OTHER -> {Yes, No, Text("bug"), Object([success |-> Yes]), Object([i |-> No])}

Left(mode) ==
  UNION {[keys -> Artifacts(mode)] : keys \in SUBSET {"i", "j", "k"}}

Starts(graph) ==
  IF graph \in Joins THEN Left(graph.nodes[1].config.mode)
  ELSE {[k \in {Input} |-> Text("question")]}

Both == {Text("bug")} \cup {Object([k \in {"valid", "verified"} |-> No])}

Small == Joins \cup Cousins \cup Detour \cup Odd \cup Straight \cup Routed \cup Forked \cup {Arithmetic(f) : f \in 0 .. 2}

SmallAndBuiltin == Small \cup Builtin
=============================================================================
