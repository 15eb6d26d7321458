--------------------------- MODULE MCGraphEngine ---------------------------
(* Small graphs for TLC. *)
EXTENDS GraphEngine, TLC

CONSTANTS a, b, c, d, e, ghost

\* The entry fans out to three nodes; a and b can lead to further supersteps, b
\* also to a node that is not in the graph.
FanOut == {a, b, c}
FanOutRoutes == (a :> {{}, {b, c}}) @@ (b :> {{c}, {ghost}}) @@ (c :> {{}})

\* b alone, then two at once: one of them may be an interrupt point.
Mixed == {b}
MixedRoutes ==
  (b :> {{a, c}, {c, d}, {b, c}, {}}) @@ (a :> {{}}) @@ (c :> {{b}}) @@ (d :> {{}})

\* Branches of different lengths meet in d: a to b and c, c to e, both to d.
Uneven == {a}
UnevenRoutes ==
  (a :> {{b, c}}) @@ (b :> {{d}}) @@ (c :> {{e}}) @@ (e :> {{d}}) @@ (d :> {{}})

NoEvents == {}
Failures == {"cancel", "error", "interrupt", "update", "panic"}
StoreTrouble ==
  {"cancel", "error", "merge", "router", "record", "complete", "fail", "snapshot", "close"}

\* Nodes with an edge to n.
Predecessors(n) == {m \in Node : \E t \in Routes[m] : n \in t}

\* "That node runs in the next superstep after all predecessors complete"
\* (ARCHITECTURE.md, fan-in), stated for an acyclic graph.
FanInWaits ==
  \A n \in Live : \A m \in Predecessors(n) : \E s \in Steps : s < step /\ <<s, m>> \in state
=============================================================================
