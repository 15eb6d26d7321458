--------------------------- MODULE MCDurableRuns ---------------------------
(* Small instances of DurableRuns for TLC. *)
EXTENDS DurableRuns, TLC

\* Runs, connections, approvals and audiences are interchangeable.
Symmetry ==
  Permutations(Run) \cup Permutations(Server) \cup Permutations(Approval)
    \cup Permutations(Audience)

Everything == MayHappen
Crashes == {"crash"}
NoEvents == {}
=============================================================================
