----------------------------- MODULE Templates ------------------------------
(***************************************************************************)
(* The built-in graphs of templates::instantiate, as specifications.       *)
(* Prompts and parallelism are left out.                                   *)
(***************************************************************************)
EXTENDS GraphSpecs

Llm(id, input, output) ==
  [id |-> id, type |-> "llm",
   config |-> [input |-> input, output |-> output, json |-> FALSE, evidence |-> FALSE,
               attempts |-> 1]]

Pass(id) == [id |-> id, type |-> "passthrough", config |-> [plain |-> TRUE]]

Collect(id, inputs, output) ==
  [id |-> id, type |-> "join",
   config |-> [inputs |-> inputs, output |-> output, mode |-> "collect_array"]]

Rule(path, op, value, target) ==
  [path |-> path, op |-> op, value |-> value, targets |-> <<target>>]

Router(id, rules, default) ==
  [id |-> id, type |-> "router",
   config |-> [legacy |-> FALSE, rules |-> <<rules>>, default |-> <<default>>]]

Input == "__input__"

\* Every node of `from` to every node of `to`, and a chain of edges.
Edges(from, to) ==
  [i \in 1 .. Len(from) * Len(to) |->
     <<from[((i - 1) \div Len(to)) + 1], to[((i - 1) % Len(to)) + 1]>>]

Path(ids) == [i \in 1 .. Len(ids) - 1 |-> <<ids[i], ids[i + 1]>>]

Template(entry, output, iterations, nodes, edges) ==
  [nodes |-> nodes, entry |-> entry, output |-> output, edges |-> edges,
   iterations |-> iterations, reducers |-> [k \in {} |-> "last_write_wins"]]

PlanCritiqueRefine ==
  Template("plan", "final", 12,
    <<Llm("plan", Input, "draft"), Llm("critique", "draft", "critique"),
      Llm("refine", "critique", "final")>>,
    Path(<<"plan", "critique", "refine", "END">>))

ParallelCouncil ==
  Template("fanout", "decision", 8,
    <<Pass("fanout"), Llm("optimist", Input, "optimist"), Llm("skeptic", Input, "skeptic"),
      Collect("join", <<"optimist", "skeptic">>, "council"), Llm("judge", "council", "decision")>>,
    Edges(<<"fanout">>, <<"optimist", "skeptic">>) \o Edges(<<"optimist", "skeptic">>, <<"join">>)
      \o Path(<<"join", "judge", "END">>))

CouncilDeliberation ==
  LET analysts == <<"analyst_0", "analyst_1", "analyst_2">> IN
  [Template("coordinator", "final_report", 16,
     <<Llm("coordinator", Input, "workstreams"), Pass("fanout"),
       Llm("analyst_0", "workstreams", "ws0_result"), Llm("analyst_1", "workstreams", "ws1_result"),
       Llm("analyst_2", "workstreams", "ws2_result"),
       Collect("join", <<"ws0_result", "ws1_result", "ws2_result">>, "findings"),
       Llm("synthesize", "findings", "final_report")>>,
     Path(<<"coordinator", "fanout">>) \o Edges(<<"fanout">>, analysts)
       \o Edges(analysts, <<"join">>) \o Path(<<"join", "synthesize", "END">>))
   EXCEPT !.reducers = [k \in {"workstreams"} |-> "last_write_wins"]]

Yes == <<"bool", TRUE>>
No == <<"bool", FALSE>>

AnalysisPipeline ==
  Template("planner", "final", 20,
    <<Llm("planner", Input, "plan"), Llm("researcher", "plan", "research"),
      Llm("extractor", "research", "claims"), Llm("synthesizer", "claims", "summary"),
      Llm("validator", "summary", "validation"),
      Router("validation_router",
             <<Rule("validation.valid", "eq", Yes, "formatter"),
               Rule("validation.valid", "eq", No, "corrector")>>, <<"formatter">>),
      Llm("corrector", "validation", "summary"), Llm("formatter", Input, "final")>>,
    Path(<<"planner", "researcher", "extractor", "synthesizer", "validator", "validation_router">>)
      \o Edges(<<"validation_router">>, <<"formatter", "corrector">>)
      \o << <<"corrector", "validator">>, <<"formatter", "END">> >>)

ClassifierRouter ==
  LET handlers == <<"bug_handler", "feature_handler", "question_handler", "general_handler">> IN
  [Template("classifier", "response", 8,
     <<Llm("classifier", Input, "classification.label"),
       Router("router",
              <<Rule("classification.label", "contains", <<"text", "bug">>, "bug_handler"),
                Rule("classification.label", "contains", <<"text", "feature">>, "feature_handler"),
                Rule("classification.label", "contains", <<"text", "question">>,
                     "question_handler")>>,
              <<"general_handler">>)>>
       \o [i \in DOMAIN handlers |-> Llm(handlers[i], Input, "response")],
     Path(<<"classifier", "router">>) \o Edges(handlers, <<"END">>))
   EXCEPT !.reducers = [k \in {"original_input"} |-> "last_write_wins"]]

CodeAudit ==
  LET auditors == <<"arch_auditor", "security_auditor", "quality_auditor">> IN
  [Template("coordinator", "audit_report", 16,
     <<Llm("coordinator", Input, "audit_dimensions"), Pass("fanout"),
       Llm("arch_auditor", "audit_dimensions", "arch_result"),
       Llm("security_auditor", "audit_dimensions", "security_result"),
       Llm("quality_auditor", "audit_dimensions", "quality_result"),
       Collect("join", <<"arch_result", "security_result", "quality_result">>, "findings"),
       Llm("synthesize", "findings", "audit_report")>>,
     Path(<<"coordinator", "fanout">>) \o Edges(<<"fanout">>, auditors)
       \o Edges(auditors, <<"join">>) \o Path(<<"join", "synthesize", "END">>))
   EXCEPT !.reducers = [k \in {"audit_dimensions"} |-> "last_write_wins"]]

ReleaseVerification ==
  Template("planner", "verification_report", 12,
    <<Llm("planner", Input, "plan"), Llm("executor", "plan", "results"),
      Llm("validator", "results", "validation"),
      Router("validation_router",
             <<Rule("validation.verified", "eq", Yes, "formatter"),
               Rule("validation.verified", "eq", No, "reporter")>>, <<"reporter">>),
      Llm("reporter", "validation", "verification_report"),
      Llm("formatter", "validation", "verification_report")>>,
    Path(<<"planner", "executor", "validator", "validation_router">>)
      \o Edges(<<"validation_router">>, <<"formatter", "reporter">>)
      \o Edges(<<"reporter", "formatter">>, <<"END">>))

\* What templates::list calls executable; research_pipeline is another name of
\* analysis_pipeline.
Builtin ==
  {PlanCritiqueRefine, ParallelCouncil, CouncilDeliberation, AnalysisPipeline,
   ClassifierRouter, CodeAudit, ReleaseVerification}
=============================================================================
