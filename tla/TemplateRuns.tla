---------------------------- MODULE TemplateRuns ----------------------------
(***************************************************************************)
(* What the built-in graphs promise when the engine runs them.             *)
(***************************************************************************)
EXTENDS GraphWalk, Templates

\* A built-in graph that is registered ends by itself with the key it promises,
\* whatever the providers answer and unless one fails; its joins see all their
\* inputs.
TemplateDelivers ==
  spec \in Builtin =>
    /\ result # "missing"
    /\ result = "iterations" => budget # 0
    /\ result = "ok" => spec.output \in DOMAIN state
    /\ phase = "walking" =>
         \A n \in superstep : TypeOf(spec, n) = "join" =>
           RangeOf(Config(spec, n).inputs) \subseteq DOMAIN state

\* "Instantiate a template by ID, producing a valid GraphSpec JSON"
\* (templates.rs, instantiate).
TemplatesAreValid == spec \in Builtin => phase # "refused"
=============================================================================
