---------------------------- MODULE MCAgentState ----------------------------
(* Small instances of AgentState for TLC. *)
EXTENDS AgentState, TLC

CONSTANTS k1, k2, w1, w2, b1, b2

Ranks == (b1 :> 1) @@ (b2 :> 2)
AppendOne == {k1}

\* Nothing, or both keys, which is one too many; another state's snapshot.
Old == <<<<Shared, 0>>>>
Both == (k1 :> Old) @@ (k2 :> Old)
EmptyOrBoth == {[k \in Key |-> <<>>], Both}
One == {(k1 :> <<>>) @@ (k2 :> Old)}
Locks == {"read", "write"}

\* A writer with a transaction or the history and one with another call, beside two branches.
Mixed == (w1 :> {"transaction", "save", "restore"})
      @@ (w2 :> {"set", "update"})
      @@ (b1 :> {"set", "remove"}) @@ (b2 :> {"raw"})
Few == (w1 :> 2) @@ (w2 :> 1) @@ (b1 :> 1) @@ (b2 :> 1)
=============================================================================
