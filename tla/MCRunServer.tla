---------------------------- MODULE MCRunServer ----------------------------
(* Small instances of RunServer for TLC. *)
EXTENDS RunServer, TLC

\* Run ids and clients are interchangeable: nothing orders or computes with
\* them.  Used by the runs that check no liveness property.
Symmetry == Permutations(RunId) \cup Permutations(Client)

StoreFaults == {"row", "checkpoint", "consume", "launch", "persist"}

DeadlineOnly == {"deadline"}

AllCalls == {"async", "sync", "checkpoint", "resume", "cancel", "wait"}

Blocking == {"sync", "checkpoint", "resume", "cancel"}
=============================================================================
