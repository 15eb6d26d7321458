------------------------- MODULE GraphEngineProofs --------------------------
(***************************************************************************)
(* Proofs about GraphEngine for every graph, every bound on supersteps,    *)
(* attempts and parallel branches, every choice of interrupt points and    *)
(* faults, with and without a checkpoint store.                            *)
(*                                                                         *)
(* The argument has four layers, each resting on the ones before: where    *)
(* the tasks are in every phase of the engine (ShapeInv), which writes     *)
(* they have left where (EffectInv), what the store knows of them          *)
(* (StoreInv) and how the run ends (VerdictInv).                           *)
(***************************************************************************)
EXTENDS GraphEngine, TLAPS, FiniteSetTheorems

-----------------------------------------------------------------------------
(* The inductive invariant. *)

Idle == \A n \in Node : task[n] = "idle"
Single == Cardinality(superstep) = 1
Forking == {"spawning", "joining", "draining"}
Settled == {"resolving", "after"}
Closed == {"closing", "ended"}

\* Layer 1: the tasks of a superstep, their number, and when they are over.
ShapeInv ==
  /\ TypeOK
  /\ phase = "boundary" => Idle /\ active = {} /\ forked = {}
  /\ Live # {} \/ phase \in Forking \cup Settled \cup {"single"} => step < MaxIter
  /\ \A n \in Node : task[n] # "idle" => n \in superstep
  /\ \A n \in Node : task[n] = "waiting" => tries[n] + 1 < MaxAttempts
  /\ \A n \in Node : task[n] = "idle" => tries[n] = 0
  /\ phase \in Forking \cup Settled => superstep # {}
  /\ phase = "single" => \E n \in Node : superstep = {n}
  /\ phase \in Forking => ~Single
  /\ phase # "single" => Live \subseteq active
  /\ phase \in Forking =>
       \A n \in Node : task[n] \in {"ok", "err", "panicked"} => n \in active
  /\ Cardinality(active) <= MaxParallelism
  /\ phase \in Settled =>
       /\ superstep \subseteq Node
       /\ \A n \in superstep : task[n] = IF Single THEN "ok" ELSE "joined"

\* Layer 2: writes stay in the fork of their branch until all have been joined.
EffectInv ==
  /\ forked \subseteq superstep
  /\ \A w \in state : w[1] <= step /\ (w[1] = step => w[2] \in superstep)
  /\ \A n \in Node : task[n] \in {"completing", "ok", "joined"} =>
       IF Single THEN <<step, n>> \in state ELSE n \in forked
  /\ phase = "boundary" => state \cap Writes(Node) = {}
  /\ Single \/ state \cap Writes(Node) = {} \/ (phase \in Settled \cup Closed /\ AllJoined)
  /\ phase \in Settled => Writes(superstep) \subseteq state
  /\ SnapshotIsWhole
  /\ snapshot \subseteq state

\* Layer 3: the record of an attempt follows the task it belongs to.
AttemptOf(n) == attempt[<<step, n, tries[n]>>]

\* Without a store nothing is recorded.
UnrecordedInv ==
  ~HasStore => /\ \A s \in Steps, n \in Node, i \in Tries : attempt[<<s, n, i>>] = "none"
               /\ run = "none"
               /\ ~storeFailed

\* No attempt of a later superstep, or beyond the current one of its node.
FutureInv ==
  \A s \in Steps, n \in Node, i \in Tries :
    s > step \/ (s = step /\ i > tries[n]) => attempt[<<s, n, i>>] = "none"

\* An open attempt is the current one of its node, which is at work on it or
\* was stopped at it.
OpenInv ==
  \A s \in Steps, n \in Node, i \in Tries :
    attempt[<<s, n, i>>] = "Running" =>
      /\ s = step /\ i = tries[n]
      /\ task[n] \in {"running", "completing", "failing", "rejected",
                      "err", "panicked", "dropped"}

\* The current attempt of a node, by the stage its task is in.
StageOf(n) ==
  HasStore =>
    /\ task[n] \in {"ready", "recording"} /\ tries[n] > 0 =>
         attempt[<<step, n, tries[n] - 1>>] = "Failed"
    /\ task[n] \in {"running", "completing", "failing", "rejected"} => AttemptOf(n) = "Running"
    /\ task[n] \in {"idle", "ready", "recording"} /\ step < MaxIter => AttemptOf(n) = "none"
    /\ task[n] = "waiting" => AttemptOf(n) = "Failed"
    /\ task[n] \in {"ok", "joined"} => AttemptOf(n) = "Completed"

StageInv == \A n \in Node : StageOf(n)

\* Writes of earlier supersteps belong to completed attempts.
CompletedInv ==
  HasStore => \A w \in state :
    w[1] < step => \E i \in Tries : attempt[<<w[1], w[2], i>>] = "Completed"

StoreInv ==
  /\ UnrecordedInv /\ FutureInv /\ OpenInv /\ StageInv /\ CompletedInv
  /\ RetryFollowsFailure

\* Layer 4: what the run returns and what is recorded of it.
Errors == {"failed", "cancelled", "interrupted"}

VerdictInv ==
  /\ \A n \in Node :
       task[n] \in {"failing", "rejected", "err"} => fault[n] \in Errors
  /\ phase = "draining" => result \in Errors
  /\ phase \in Closed => result \in Errors \cup {"ok"}
  /\ phase \notin Closed \cup {"draining"} => result = "none"
  /\ phase \in Closed /\ result = "ok" => superstep = {} /\ ~storeFailed
  /\ phase = "after" => Supersteps!Follow(superstep, targets)
  /\ storeFailed /\ phase \notin Closed \cup {"draining", "unwound"} =>
       /\ phase \in {"single", "spawning", "joining"}
       /\ \E n \in Node : task[n] = "err"
  /\ run \in {"Completed", "Failed"} => phase = "ended"
  /\ run = "Completed" => result = "ok"

-----------------------------------------------------------------------------
(* Facts about cardinalities. *)

\* A superstep has one member iff it is a singleton.
LEMMA SingleIsSingleton ==
  ASSUME EngineAssumption, TypeOK
  PROVE  Single <=> \E m \in Target : superstep = {m}
BY FS_Singleton, FS_Union, FS_Subset DEF EngineAssumption, TypeOK, Single, Target

\* active is finite, with room in it or not.
LEMMA ActiveIsFinite ==
  ASSUME EngineAssumption, TypeOK
  PROVE  IsFiniteSet(active) /\ Cardinality(active) \in Nat
BY FS_Subset, FS_CardinalityType DEF EngineAssumption, TypeOK

\* How spawning and joining change the number of active branches.
LEMMA OneMore ==
  ASSUME NEW S, IsFiniteSet(S), NEW n
  PROVE  /\ Cardinality(S \cup {n}) \in Nat
         /\ Cardinality(S \cup {n}) <= Cardinality(S) + 1
<1>1. Cardinality(S) \in Nat
  BY FS_CardinalityType
<1>2. Cardinality(S \cup {n}) = IF n \in S THEN Cardinality(S) ELSE Cardinality(S) + 1
  BY FS_AddElement
<1> QED
  BY <1>1, <1>2

LEMMA OneLess ==
  ASSUME NEW S, IsFiniteSet(S), NEW n
  PROVE  /\ IsFiniteSet(S \ {n})
         /\ Cardinality(S \ {n}) \in Nat
         /\ Cardinality(S \ {n}) <= Cardinality(S)
         /\ n \in S => Cardinality(S \ {n}) + 1 = Cardinality(S)
<1>1. IsFiniteSet(S \ {n})
  BY FS_RemoveElement
<1>2. Cardinality(S) \in Nat /\ Cardinality(S \ {n}) \in Nat
  BY <1>1, FS_CardinalityType
<1>3. Cardinality(S \ {n}) = IF n \in S THEN Cardinality(S) - 1 ELSE Cardinality(S)
  BY FS_RemoveElement
<1> QED
  BY <1>1, <1>2, <1>3

LEMMA OneForOne ==
  ASSUME NEW S, IsFiniteSet(S), NEW n \in S, NEW m
  PROVE  /\ Cardinality((S \ {n}) \cup {m}) \in Nat
         /\ Cardinality((S \ {n}) \cup {m}) <= Cardinality(S)
<1>1. IsFiniteSet(S \ {n}) /\ Cardinality(S \ {n}) + 1 = Cardinality(S)
  BY OneLess
<1> QED
  BY <1>1, OneMore

\* No branch is active before the first is spawned.
LEMMA NoBranches == Cardinality({}) = 0
BY FS_EmptySet

\* A recorded status keeps the table of attempts in its type.
LEMMA AttemptType ==
  ASSUME TypeOK, NEW key, NEW s \in {"none", "Running", "Completed", "Failed"}
  PROVE  [attempt EXCEPT ![key] = s] \in
           [Steps \X Node \X Tries -> {"none", "Running", "Completed", "Failed"}]
BY DEF TypeOK

-----------------------------------------------------------------------------
(* Layers 1 and 2. *)

\* Layer 1 is inductive by itself.
LEMMA ShapeStep ==
  ASSUME EngineAssumption, ShapeInv, [Next]_vars
  PROVE  ShapeInv'
<1>f. IsFiniteSet(active) /\ Cardinality(active) \in Nat
  BY ActiveIsFinite DEF ShapeInv
<1>g. \A k \in Node : /\ Cardinality(active \cup {k}) \in Nat
                      /\ Cardinality(active \cup {k}) <= Cardinality(active) + 1
  BY <1>f, OneMore
<1>l. \A k \in Node : /\ Cardinality(active \ {k}) \in Nat
                      /\ Cardinality(active \ {k}) <= Cardinality(active)
  BY <1>f, OneLess
<1>s. \A k \in active, m \in Node : /\ Cardinality((active \ {k}) \cup {m}) \in Nat
                                    /\ Cardinality((active \ {k}) \cup {m}) <= Cardinality(active)
  BY <1>f, OneForOne
<1>t. \A k \in Node :
        /\ [attempt EXCEPT ![Current(k)] = "Running"] \in [Steps \X Node \X Tries -> {"none", "Running", "Completed", "Failed"}]
        /\ [attempt EXCEPT ![Current(k)] = "Completed"] \in [Steps \X Node \X Tries -> {"none", "Running", "Completed", "Failed"}]
        /\ [attempt EXCEPT ![Current(k)] = "Failed"] \in [Steps \X Node \X Tries -> {"none", "Running", "Completed", "Failed"}]
  BY AttemptType DEF ShapeInv
<1> USE
      DEF ShapeInv, TypeOK, Idle, Live, Working, Single, Forking, Settled,
          engineVars, taskVars, storeVars, Steps, Tries, Target, EngineAssumption
<1>1. ASSUME NoNodesLeft PROVE ShapeInv'
  BY <1>1 DEF NoNodesLeft, Conclude
<1>2. ASSUME Stopped PROVE ShapeInv'
  BY <1>2 DEF Stopped, Conclude
<1>3. ASSUME TooManySteps PROVE ShapeInv'
  BY <1>3 DEF TooManySteps, Conclude
<1>4. ASSUME InterruptBefore PROVE ShapeInv'
  <2>1. /\ phase' = "closing" /\ result' \in {"failed", "interrupted"}
        /\ snapshot' \in {snapshot, state} /\ storeFailed' \in BOOLEAN
        /\ run' = run /\ attempt' = attempt
        /\ UNCHANGED <<superstep, step, targets>>
    BY <1>4 DEF InterruptBefore, Pause, Conclude, SaveSnapshot, NoStore, StoreFails
  <2> QED
    BY <1>4, <2>1 DEF InterruptBefore, CanStep
<1>5. ASSUME StartSingle PROVE ShapeInv'
  BY <1>5, SingleIsSingleton DEF StartSingle, CanStep, Ready, MoveTo
<1>6. ASSUME StartGhost PROVE ShapeInv'
  BY <1>6 DEF StartGhost, CanStep, Conclude
<1>7. ASSUME StartParallel PROVE ShapeInv'
  BY <1>7, SingleIsSingleton DEF StartParallel, CanStep, MoveTo
<1>8. ASSUME SpawnGhost PROVE ShapeInv'
  BY <1>8 DEF SpawnGhost, Pending, RoomForBranch, Conclude
<1>9. ASSUME SpawnDone PROVE ShapeInv'
  BY <1>9 DEF SpawnDone, Pending, RoomForBranch, MoveTo
<1>10. ASSUME Drained PROVE ShapeInv'
  BY <1>10 DEF Drained, MoveTo
<1>11. ASSUME Merge PROVE ShapeInv'
  BY <1>11 DEF Merge, AllJoined, MoveTo, Writes
<1>12. ASSUME MergeFails PROVE ShapeInv'
  BY <1>12 DEF MergeFails, AllJoined, Conclude, Writes
<1>13. ASSUME Resolve PROVE ShapeInv'
  BY <1>13 DEF Resolve
<1>14. ASSUME RouterFails PROVE ShapeInv'
  BY <1>14 DEF RouterFails, Conclude
<1>15. ASSUME InterruptAfter PROVE ShapeInv'
  <2>1. /\ phase' = "closing" /\ result' \in {"failed", "interrupted"}
        /\ snapshot' \in {snapshot, state} /\ storeFailed' \in BOOLEAN
        /\ run' = run /\ attempt' = attempt
        /\ UNCHANGED <<superstep, step, targets>>
    BY <1>15 DEF InterruptAfter, Pause, Conclude, SaveSnapshot, NoStore, StoreFails
  <2> QED
    BY <1>15, <2>1 DEF InterruptAfter
<1>16. ASSUME NextStep PROVE ShapeInv'
  BY <1>16, NoBranches DEF NextStep, SaveSnapshot, NoStore
<1>17. ASSUME SnapshotFails PROVE ShapeInv'
  BY <1>17 DEF SnapshotFails, StoreFails, Conclude
<1>18. ASSUME Close PROVE ShapeInv'
  <2>1. /\ result' \in {result, "failed"} /\ storeFailed' \in BOOLEAN
        /\ run' \in {run, "Completed", "Failed"}
        /\ attempt' = attempt /\ snapshot' = snapshot
    BY <1>18 DEF Close, NoStore, StoreFails
  <2> QED
    BY <1>18, <2>1 DEF Close
<1>19. ASSUME Cancel PROVE ShapeInv'
  BY <1>19 DEF Cancel
<1>20. ASSUME NEW n \in Node, Spawn(n) PROVE ShapeInv'
  <2>1. Cardinality(active') <= MaxParallelism
    <3>1. Cardinality(active \cup {n}) <= Cardinality(active) + 1
      BY <1>f, <1>g
    <3> QED
      BY <1>20, <3>1, <1>f, <1>g DEF Spawn, RoomForBranch
  <2> QED
    BY <1>20, <2>1 DEF Spawn, Pending, Ready
<1>21. ASSUME NEW n \in Node, Join(n) PROVE ShapeInv'
  <2>1. n \in active
    BY <1>21 DEF Join
  <2>2. CASE Pending = {} /\ task' = [task EXCEPT ![n] = "joined"] /\ active' = active \ {n}
    <3>1. Cardinality(active') <= MaxParallelism
      BY <2>2, <1>f, <1>l
    <3> QED
      BY <1>21, <2>2, <3>1 DEF Join
  <2>3. ASSUME NEW m \in Pending \cap Node,
               task' = [task EXCEPT ![n] = "joined", ![m] = "ready"],
               active' = (active \ {n}) \cup {m}
        PROVE  ShapeInv'
    <3>1. m \in Node /\ m \in superstep /\ task[m] = "idle"
      BY <2>3 DEF Pending
    <3>2. Cardinality(active') <= MaxParallelism
      BY <2>1, <2>3, <3>1, <1>f, <1>s
    <3> QED
      BY <1>21, <2>3, <3>1, <3>2 DEF Join
  <2> QED
    BY <1>21, <2>2, <2>3 DEF Join
<1>22. ASSUME NEW n \in Node, JoinGhost(n) PROVE ShapeInv'
  <2>1. Cardinality(active \ {n}) <= MaxParallelism
    BY <1>f, <1>l
  <2> QED
    BY <1>22, <2>1 DEF JoinGhost, Conclude
<1>23. ASSUME NEW n \in Node, JoinFailed(n) PROVE ShapeInv'
  BY <1>23 DEF JoinFailed
<1>24. ASSUME NEW n \in Node, SingleDone(n) PROVE ShapeInv'
  BY <1>24, SingleIsSingleton DEF SingleDone, MoveTo
<1>25. ASSUME NEW n \in Node, SingleFailed(n) PROVE ShapeInv'
  BY <1>25 DEF SingleFailed, Conclude
<1>26. ASSUME NEW n \in Node, BeginAttempt(n) PROVE ShapeInv'
  BY <1>26 DEF BeginAttempt
<1>27. ASSUME NEW n \in Node, AttemptCancelled(n) PROVE ShapeInv'
  BY <1>27 DEF AttemptCancelled, EndWith
<1>28. ASSUME NEW n \in Node, RecordAttempt(n) PROVE ShapeInv'
  <2>1. /\ attempt' \in [Steps \X Node \X Tries -> {"none", "Running", "Completed", "Failed"}]
        /\ run' = run /\ snapshot' = snapshot /\ storeFailed' \in BOOLEAN
    <3> HIDE DEF ShapeInv, Live, Working, Single, Forking, Settled
    <3>1. attempt \in [Steps \X Node \X Tries -> {"none", "Running", "Completed", "Failed"}]
          /\ storeFailed \in BOOLEAN
      BY DEF ShapeInv
    <3>2. CASE attempt' = [attempt EXCEPT ![Current(n)] = "Running"] /\ UNCHANGED <<run, snapshot, storeFailed>>
      BY <1>t, <3>1, <3>2
    <3>3. CASE NoStore
      BY <3>1, <3>3 DEF NoStore
    <3>4. CASE StoreFails("record")
      BY <3>1, <3>4 DEF StoreFails
    <3>5. QED
      BY <1>28, <3>2, <3>3, <3>4 DEF RecordAttempt
  <2>2. CASE task' = [task EXCEPT ![n] = "running"] /\ UNCHANGED <<fault, unended>>
    BY <1>28, <2>1, <2>2 DEF RecordAttempt
  <2>3. CASE EndWith(n, "failed")
    BY <1>28, <2>1, <2>3 DEF RecordAttempt, EndWith
  <2> QED
    BY <1>28, <2>2, <2>3 DEF RecordAttempt
<1>29. ASSUME NEW n \in Node, CompleteAttempt(n) PROVE ShapeInv'
  <2>1. /\ attempt' \in [Steps \X Node \X Tries -> {"none", "Running", "Completed", "Failed"}]
        /\ run' = run /\ snapshot' = snapshot /\ storeFailed' \in BOOLEAN
    BY <1>29, <1>t DEF CompleteAttempt, SetAttempt, NoStore, StoreFails
  <2>2. CASE /\ task' = [task EXCEPT ![n] = "ok"]
             /\ unended' = [unended EXCEPT ![n] = @ - 1]
             /\ UNCHANGED fault
    BY <1>29, <2>1, <2>2 DEF CompleteAttempt
  <2>3. CASE EndWith(n, "failed")
    BY <1>29, <2>1, <2>3 DEF CompleteAttempt, EndWith
  <2> QED
    BY <1>29, <2>2, <2>3 DEF CompleteAttempt
<1>30. ASSUME NEW n \in Node, FailAttempt(n) PROVE ShapeInv'
  <2>1. /\ attempt' \in [Steps \X Node \X Tries -> {"none", "Running", "Completed", "Failed"}]
        /\ run' = run /\ snapshot' = snapshot /\ storeFailed' \in BOOLEAN
    BY <1>30, <1>t DEF FailAttempt, SetAttempt, NoStore, StoreFails
  <2>2. CASE /\ MayRetry(n)
             /\ task' = [task EXCEPT ![n] = "waiting"]
             /\ unended' = [unended EXCEPT ![n] = @ - 1]
             /\ UNCHANGED fault
    BY <1>30, <2>1, <2>2 DEF FailAttempt, MayRetry
  <2>3. CASE EndWith(n, fault[n])
    BY <1>30, <2>1, <2>3 DEF FailAttempt, EndWith
  <2>4. CASE EndWith(n, "failed")
    BY <1>30, <2>1, <2>4 DEF FailAttempt, EndWith
  <2> QED
    BY <1>30, <2>2, <2>3, <2>4 DEF FailAttempt
<1>31. ASSUME NEW n \in Node, WaitCancelled(n) PROVE ShapeInv'
  BY <1>31 DEF WaitCancelled, EndWith
<1>32. ASSUME NEW n \in Node, WaitElapsed(n) PROVE ShapeInv'
  BY <1>32 DEF WaitElapsed, Ready
<1>33. ASSUME NEW n \in Node, Execute(n) PROVE ShapeInv'
  BY <1>33 DEF Execute, Write, Writes
<1>34. ASSUME NEW n \in Node, Panic(n) PROVE ShapeInv'
  BY <1>34 DEF Panic, MoveTo
<1>35. ASSUME NEW n \in Node, Reap(n) PROVE ShapeInv'
  BY <1>35 DEF Reap
<1>36. ASSUME UNCHANGED vars PROVE ShapeInv'
  BY <1>36 DEF vars
<1> QED
  BY <1>1, <1>2, <1>3, <1>4, <1>5, <1>6, <1>7, <1>8, <1>9, <1>10, <1>11, <1>12,
     <1>13, <1>14, <1>15, <1>16, <1>17, <1>18, <1>19, <1>20, <1>21, <1>22, <1>23,
     <1>24, <1>25, <1>26, <1>27, <1>28, <1>29, <1>30, <1>31, <1>32, <1>33, <1>34,
     <1>35, <1>36
  DEF Next, Engine, Attempt

\* Layer 2 is inductive relative to layer 1.
LEMMA EffectStep ==
  ASSUME EngineAssumption, ShapeInv, ShapeInv', EffectInv, [Next]_vars
  PROVE  EffectInv'
<1> USE
      DEF ShapeInv, EffectInv, SnapshotIsWhole, TypeOK, Idle, Live, Working,
          Single, Forking, Settled, Closed, AllJoined, Writes, engineVars,
          taskVars, storeVars, Steps, Tries, Target
<1>1. ASSUME NoNodesLeft PROVE EffectInv'
  BY <1>1 DEF NoNodesLeft, Conclude
<1>2. ASSUME Stopped PROVE EffectInv'
  BY <1>2 DEF Stopped, Conclude
<1>3. ASSUME TooManySteps PROVE EffectInv'
  BY <1>3 DEF TooManySteps, Conclude
<1>4. ASSUME InterruptBefore PROVE EffectInv'
  BY <1>4
  DEF InterruptBefore, CanStep, Pause, Conclude, SaveSnapshot, NoStore, StoreFails
<1>5. ASSUME StartSingle PROVE EffectInv'
  BY <1>5 DEF StartSingle, CanStep, Ready, MoveTo
<1>6. ASSUME StartGhost PROVE EffectInv'
  BY <1>6 DEF StartGhost, CanStep, Conclude
<1>7. ASSUME StartParallel PROVE EffectInv'
  BY <1>7 DEF StartParallel, CanStep, MoveTo
<1>8. ASSUME SpawnGhost PROVE EffectInv'
  BY <1>8 DEF SpawnGhost, Pending, RoomForBranch, Conclude
<1>9. ASSUME SpawnDone PROVE EffectInv'
  BY <1>9 DEF SpawnDone, Pending, RoomForBranch, MoveTo
<1>10. ASSUME Drained PROVE EffectInv'
  BY <1>10 DEF Drained, MoveTo
<1>11. ASSUME Merge PROVE EffectInv'
  BY <1>11 DEF Merge, AllJoined, MoveTo, Writes
<1>12. ASSUME MergeFails PROVE EffectInv'
  BY <1>12 DEF MergeFails, AllJoined, Conclude, Writes
<1>13. ASSUME Resolve PROVE EffectInv'
  BY <1>13 DEF Resolve
<1>14. ASSUME RouterFails PROVE EffectInv'
  BY <1>14 DEF RouterFails, Conclude
<1>15. ASSUME InterruptAfter PROVE EffectInv'
  BY <1>15 DEF InterruptAfter, Pause, Conclude, SaveSnapshot, NoStore, StoreFails
<1>16. ASSUME NextStep PROVE EffectInv'
  BY <1>16 DEF NextStep, SaveSnapshot, NoStore
<1>17. ASSUME SnapshotFails PROVE EffectInv'
  BY <1>17 DEF SnapshotFails, StoreFails, Conclude
<1>18. ASSUME Close PROVE EffectInv'
  BY <1>18 DEF Close, NoStore, StoreFails
<1>19. ASSUME Cancel PROVE EffectInv'
  BY <1>19 DEF Cancel
<1>20. ASSUME NEW n \in Node, Spawn(n) PROVE EffectInv'
  BY <1>20 DEF Spawn, Pending, RoomForBranch, Ready
<1>21. ASSUME NEW n \in Node, Join(n) PROVE EffectInv'
  BY <1>21 DEF Join, Pending
<1>22. ASSUME NEW n \in Node, JoinGhost(n) PROVE EffectInv'
  BY <1>22 DEF JoinGhost, Pending, Conclude
<1>23. ASSUME NEW n \in Node, JoinFailed(n) PROVE EffectInv'
  BY <1>23 DEF JoinFailed
<1>24. ASSUME NEW n \in Node, SingleDone(n) PROVE EffectInv'
  BY <1>24 DEF SingleDone, MoveTo
<1>25. ASSUME NEW n \in Node, SingleFailed(n) PROVE EffectInv'
  BY <1>25 DEF SingleFailed, Conclude
<1>26. ASSUME NEW n \in Node, BeginAttempt(n) PROVE EffectInv'
  BY <1>26 DEF BeginAttempt
<1>27. ASSUME NEW n \in Node, AttemptCancelled(n) PROVE EffectInv'
  BY <1>27 DEF AttemptCancelled, EndWith
<1>28. ASSUME NEW n \in Node, RecordAttempt(n) PROVE EffectInv'
  BY <1>28 DEF RecordAttempt, Current, NoStore, StoreFails, EndWith
<1>29. ASSUME NEW n \in Node, CompleteAttempt(n) PROVE EffectInv'
  BY <1>29 DEF CompleteAttempt, SetAttempt, Current, NoStore, StoreFails, EndWith
<1>30. ASSUME NEW n \in Node, FailAttempt(n) PROVE EffectInv'
  BY <1>30
  DEF FailAttempt, SetAttempt, Current, NoStore, StoreFails, EndWith, MayRetry
<1>31. ASSUME NEW n \in Node, WaitCancelled(n) PROVE EffectInv'
  BY <1>31 DEF WaitCancelled, EndWith
<1>32. ASSUME NEW n \in Node, WaitElapsed(n) PROVE EffectInv'
  BY <1>32 DEF WaitElapsed, Ready
<1>33. ASSUME NEW n \in Node, Execute(n) PROVE EffectInv'
  BY <1>33 DEF Execute, Write, Writes
<1>34. ASSUME NEW n \in Node, Panic(n) PROVE EffectInv'
  BY <1>34 DEF Panic, MoveTo
<1>35. ASSUME NEW n \in Node, Reap(n) PROVE EffectInv'
  BY <1>35 DEF Reap
<1>36. ASSUME UNCHANGED vars PROVE EffectInv'
  BY <1>36 DEF vars
<1> QED
  BY <1>1, <1>2, <1>3, <1>4, <1>5, <1>6, <1>7, <1>8, <1>9, <1>10, <1>11, <1>12,
     <1>13, <1>14, <1>15, <1>16, <1>17, <1>18, <1>19, <1>20, <1>21, <1>22, <1>23,
     <1>24, <1>25, <1>26, <1>27, <1>28, <1>29, <1>30, <1>31, <1>32, <1>33, <1>34,
     <1>35, <1>36
  DEF Next, Engine, Attempt

-----------------------------------------------------------------------------
(* Layer 3.  What a step can do to the record of attempts is one of five   *)
(* effects; each of them keeps the layer.                                  *)

\* The attempts are left alone, and no task enters a stage that shows in
\* them.
Moves(n) ==
  \/ task'[n] = task[n]
  \/ task'[n] \in {"err", "panicked", "dropped"}
  \/ task[n] = "idle" /\ task'[n] = "ready"
  \/ task[n] = "ready" /\ task'[n] = "recording"
  \/ task[n] = "running" /\ task'[n] \in {"completing", "failing", "rejected"}
  \/ task[n] = "ok" /\ task'[n] = "joined"
  \/ ~HasStore

Quiet ==
  /\ attempt' = attempt /\ tries' = tries /\ step' = step
  /\ \A n \in Node : Moves(n)
  /\ \A w \in state' : w[1] < step => w \in state
  /\ ~HasStore => run' = run /\ storeFailed' = storeFailed

\* The current attempt of n gets the status s, its task goes on to t.
Records(n, s, t) ==
  /\ HasStore
  /\ \A k \in Steps, m \in Node, i \in Tries :
       attempt'[<<k, m, i>>] =
         IF k = step /\ m = n /\ i = tries[n] THEN s ELSE attempt[<<k, m, i>>]
  /\ \A m \in Node : task'[m] = IF m = n THEN t ELSE task[m]
  /\ tries' = tries /\ step' = step /\ state' = state

Opens(n) == task[n] = "recording" /\ Records(n, "Running", "running")

Finishes(n) ==
  \/ task[n] = "completing" /\ Records(n, "Completed", "ok")
  \/ /\ task[n] \in {"failing", "rejected"}
     /\ Records(n, "Failed", "err") \/ Records(n, "Failed", "waiting")

Retries(n) ==
  /\ task[n] = "waiting" /\ task' = [task EXCEPT ![n] = "ready"]
  /\ tries' = [tries EXCEPT ![n] = @ + 1]
  /\ attempt' = attempt /\ step' = step /\ state' = state
  /\ run' = run /\ storeFailed' = storeFailed

\* Every step has one of these effects, or is NextStep.
LEMMA StepEffect ==
  ASSUME EngineAssumption, ShapeInv, [Next]_vars
  PROVE  \/ Quiet \/ NextStep
         \/ \E n \in Node : Opens(n) \/ Finishes(n) \/ Retries(n)
<1> USE DEF ShapeInv, TypeOK, engineVars, taskVars, storeVars, Quiet, Moves
<1>1. ASSUME NoNodesLeft PROVE Quiet
  BY <1>1 DEF NoNodesLeft, Conclude
<1>2. ASSUME Stopped PROVE Quiet
  BY <1>2 DEF Stopped, Conclude
<1>3. ASSUME TooManySteps PROVE Quiet
  BY <1>3 DEF TooManySteps, Conclude
<1>4. ASSUME InterruptBefore PROVE Quiet
  BY <1>4
  DEF InterruptBefore, CanStep, Pause, Conclude, SaveSnapshot, NoStore, StoreFails
<1>5. ASSUME StartSingle PROVE Quiet
  BY <1>5 DEF StartSingle, CanStep, Ready, MoveTo, Idle
<1>6. ASSUME StartGhost PROVE Quiet
  BY <1>6 DEF StartGhost, CanStep, Conclude
<1>7. ASSUME StartParallel PROVE Quiet
  BY <1>7 DEF StartParallel, CanStep, MoveTo
<1>8. ASSUME SpawnGhost PROVE Quiet
  BY <1>8 DEF SpawnGhost, Pending, RoomForBranch, Conclude
<1>9. ASSUME SpawnDone PROVE Quiet
  BY <1>9 DEF SpawnDone, Pending, RoomForBranch, MoveTo
<1>10. ASSUME Drained PROVE Quiet
  BY <1>10 DEF Drained, MoveTo
<1>11. ASSUME Merge PROVE Quiet
  BY <1>11 DEF Merge, AllJoined, MoveTo, Writes, Writes, Steps
<1>12. ASSUME MergeFails PROVE Quiet
  BY <1>12 DEF MergeFails, AllJoined, Conclude, Writes
<1>13. ASSUME Resolve PROVE Quiet
  BY <1>13 DEF Resolve
<1>14. ASSUME RouterFails PROVE Quiet
  BY <1>14 DEF RouterFails, Conclude
<1>15. ASSUME InterruptAfter PROVE Quiet
  BY <1>15 DEF InterruptAfter, Pause, Conclude, SaveSnapshot, NoStore, StoreFails
<1>16. ASSUME SnapshotFails PROVE Quiet
  BY <1>16 DEF SnapshotFails, StoreFails, Conclude
<1>17. ASSUME Close PROVE Quiet
  BY <1>17 DEF Close, NoStore, StoreFails
<1>18. ASSUME Cancel PROVE Quiet
  BY <1>18 DEF Cancel
<1>19. ASSUME NEW n \in Node, Spawn(n) PROVE Quiet
  BY <1>19 DEF Spawn, Pending, RoomForBranch, Ready
<1>20. ASSUME NEW n \in Node, Join(n) PROVE Quiet
  BY <1>20 DEF Join, Pending
<1>21. ASSUME NEW n \in Node, JoinGhost(n) PROVE Quiet
  BY <1>21 DEF JoinGhost, Pending, Conclude
<1>22. ASSUME NEW n \in Node, JoinFailed(n) PROVE Quiet
  BY <1>22 DEF JoinFailed
<1>23. ASSUME NEW n \in Node, SingleDone(n) PROVE Quiet
  BY <1>23 DEF SingleDone, MoveTo
<1>24. ASSUME NEW n \in Node, SingleFailed(n) PROVE Quiet
  BY <1>24 DEF SingleFailed, Conclude
<1>25. ASSUME NEW n \in Node, BeginAttempt(n) PROVE Quiet
  BY <1>25 DEF BeginAttempt
<1>26. ASSUME NEW n \in Node, AttemptCancelled(n) PROVE Quiet
  BY <1>26 DEF AttemptCancelled, EndWith
<1>27. ASSUME NEW n \in Node, RecordAttempt(n) PROVE Quiet \/ Opens(n)
  <2>1. CASE HasStore /\ attempt' = [attempt EXCEPT ![Current(n)] = "Running"]
             /\ task' = [task EXCEPT ![n] = "running"]
    BY <1>27, <2>1 DEF RecordAttempt, Current, Opens, Records
  <2>2. CASE NoStore
    BY <1>27, <2>2 DEF RecordAttempt, NoStore, StoreFails
  <2>3. CASE StoreFails("record") /\ EndWith(n, "failed")
    BY <1>27, <2>3 DEF RecordAttempt, StoreFails, EndWith
  <2> QED
    BY <1>27, <2>1, <2>2, <2>3 DEF RecordAttempt
<1>28. ASSUME NEW n \in Node, CompleteAttempt(n) PROVE Quiet \/ Finishes(n)
  <2>1. CASE /\ HasStore
             /\ attempt' = [attempt EXCEPT ![Current(n)] = "Completed"]
             /\ UNCHANGED <<run, snapshot, storeFailed>>
    <3>1. \A k \in Steps, m \in Node, i \in Tries :
            attempt'[<<k, m, i>>] =
              IF k = step /\ m = n /\ i = tries[n] THEN "Completed" ELSE attempt[<<k, m, i>>]
      BY <2>1 DEF Current
    <3> QED
      BY <1>28, <2>1, <3>1
      DEF CompleteAttempt, StoreFails, EndWith, Finishes, Records, SetAttempt,
          NoStore
  <2>2. CASE NoStore
    BY <1>28, <2>2 DEF CompleteAttempt, NoStore, StoreFails
  <2>3. CASE StoreFails("complete") /\ EndWith(n, "failed")
    BY <1>28, <2>3 DEF CompleteAttempt, StoreFails, EndWith
  <2> QED
    BY <1>28, <2>1, <2>2, <2>3 DEF CompleteAttempt, SetAttempt
<1>29. ASSUME NEW n \in Node, FailAttempt(n) PROVE Quiet \/ Finishes(n)
  <2>1. CASE /\ HasStore
             /\ attempt' = [attempt EXCEPT ![Current(n)] = "Failed"]
             /\ UNCHANGED <<run, snapshot, storeFailed>>
    <3>1. \A k \in Steps, m \in Node, i \in Tries :
            attempt'[<<k, m, i>>] =
              IF k = step /\ m = n /\ i = tries[n] THEN "Failed" ELSE attempt[<<k, m, i>>]
      BY <2>1 DEF Current
    <3> QED
      BY <1>29, <2>1, <3>1
      DEF FailAttempt, StoreFails, EndWith, Finishes, Records, SetAttempt, NoStore
  <2>2. CASE NoStore
    BY <1>29, <2>2 DEF FailAttempt, NoStore, StoreFails
  <2>3. CASE StoreFails("fail") /\ EndWith(n, "failed")
    BY <1>29, <2>3 DEF FailAttempt, StoreFails, EndWith
  <2> QED
    BY <1>29, <2>1, <2>2, <2>3 DEF FailAttempt, SetAttempt
<1>30. ASSUME NEW n \in Node, WaitCancelled(n) PROVE Quiet
  BY <1>30 DEF WaitCancelled, EndWith
<1>31. ASSUME NEW n \in Node, WaitElapsed(n) PROVE Retries(n)
  BY <1>31 DEF WaitElapsed, Ready, Retries
<1>32. ASSUME NEW n \in Node, Execute(n) PROVE Quiet
  BY <1>32 DEF Execute, Write, Writes
<1>33. ASSUME NEW n \in Node, Panic(n) PROVE Quiet
  BY <1>33 DEF Panic, MoveTo
<1>34. ASSUME NEW n \in Node, Reap(n) PROVE Quiet
  BY <1>34 DEF Reap, Live
<1>35. ASSUME UNCHANGED vars PROVE Quiet
  BY <1>35 DEF vars
<1> QED
  BY <1>1, <1>2, <1>3, <1>4, <1>5, <1>6, <1>7, <1>8, <1>9, <1>10, <1>11, <1>12,
     <1>13, <1>14, <1>15, <1>16, <1>17, <1>18, <1>19, <1>20, <1>21, <1>22, <1>23,
     <1>24, <1>25, <1>26, <1>27, <1>28, <1>29, <1>30, <1>31, <1>32, <1>33, <1>34,
     <1>35
  DEF Next, Engine, Attempt

\* Layer 3 is inductive relative to layers 1 and 2.
LEMMA StoreStep ==
  ASSUME EngineAssumption, ShapeInv, ShapeInv', EffectInv, StoreInv, [Next]_vars
  PROVE  StoreInv'
<1> DEFINE Attempts == [Steps \X Node \X Tries -> {"none", "Running", "Completed", "Failed"}]
<1>1. /\ step \in 0 .. MaxIter /\ MaxIter \in Nat /\ MaxAttempts \in Nat
      /\ tries \in [Node -> Tries]
      /\ task \in [Node -> Working \cup {"idle", "ok", "err", "panicked", "joined", "dropped"}]
      /\ attempt \in Attempts /\ state \subseteq Steps \X Node /\ state' \subseteq Steps \X Node
  BY DEF EngineAssumption, ShapeInv, TypeOK
<1>2. \A n \in Node : /\ task[n] = "waiting" => tries[n] + 1 < MaxAttempts
                      /\ task[n] = "idle" => tries[n] = 0
                      /\ task[n] \in Working => step \in Steps /\ step < MaxIter
  BY <1>1 DEF ShapeInv, Live, Steps
<1>3. UnrecordedInv /\ FutureInv /\ OpenInv /\ StageInv /\ CompletedInv /\ RetryFollowsFailure
  BY DEF StoreInv
<1>w. /\ \A w \in state : w[1] \in Steps /\ w[2] \in Node
      /\ \A w \in state' : w[1] \in Steps /\ w[2] \in Node
  BY <1>1
<1> HIDE DEF Attempts
<1> USE DEF Steps, Tries
<1>4. ASSUME Quiet PROVE StoreInv'
  <2>1. UnrecordedInv'
    BY <1>1, <1>2, <1>3, <1>4 DEF Quiet, Moves, UnrecordedInv, Working
  <2>2. FutureInv'
    BY <1>1, <1>2, <1>3, <1>4 DEF Quiet, Moves, FutureInv, UnrecordedInv, Working
  <2>3. OpenInv'
    BY <1>1, <1>2, <1>3, <1>4
    DEF Quiet, Moves, OpenInv, UnrecordedInv, StageInv, StageOf, Working
  <2>4. StageInv'
    BY <1>1, <1>2, <1>3, <1>4
    DEF Quiet, Moves, StageInv, StageOf, FutureInv, AttemptOf, Working
  <2>5. CompletedInv'
    BY <1>1, <1>2, <1>3, <1>4
    DEF Quiet, Moves, CompletedInv, StageInv, StageOf, AttemptOf, Working
  <2>6. RetryFollowsFailure'
    BY <1>1, <1>2, <1>3, <1>4 DEF Quiet, Moves, RetryFollowsFailure, Working
  <2> QED
    BY <2>1, <2>2, <2>3, <2>4, <2>5, <2>6 DEF StoreInv
<1>5. ASSUME NEW n \in Node, Opens(n) PROVE StoreInv'
  <2>1. UnrecordedInv'
    BY <1>1, <1>2, <1>3, <1>5 DEF Opens, Records, UnrecordedInv, Working
  <2>2. FutureInv'
    BY <1>1, <1>2, <1>3, <1>5 DEF Opens, Records, FutureInv, UnrecordedInv, Working
  <2>3. OpenInv'
    BY <1>1, <1>2, <1>3, <1>5
    DEF Opens, Records, OpenInv, UnrecordedInv, StageInv, StageOf, Working
  <2>4. StageInv'
    BY <1>1, <1>2, <1>3, <1>5
    DEF Opens, Records, StageInv, StageOf, FutureInv, AttemptOf, Working
  <2>5. CompletedInv'
    <3>1. SUFFICES ASSUME HasStore, NEW w \in state, w[1] < step
                   PROVE  \E i \in Tries : attempt'[<<w[1], w[2], i>>] = "Completed"
      BY <1>5 DEF Opens, Records, CompletedInv
    <3>2. PICK i \in Tries : attempt[<<w[1], w[2], i>>] = "Completed"
      BY <1>3, <3>1 DEF CompletedInv
    <3>3. attempt'[<<w[1], w[2], i>>] = attempt[<<w[1], w[2], i>>]
      BY <1>1, <1>w, <1>5, <3>1 DEF Opens, Records
    <3> QED
      BY <3>2, <3>3
  <2>6. RetryFollowsFailure'
    BY SMTT(20), <1>1, <1>2, <1>3, <1>5
    DEF Opens, Records, RetryFollowsFailure, FutureInv, StageInv, StageOf,
        AttemptOf, Working
  <2> QED
    BY <2>1, <2>2, <2>3, <2>4, <2>5, <2>6 DEF StoreInv
<1>6. ASSUME NEW n \in Node, Finishes(n) PROVE StoreInv'
  <2>a. AttemptOf(n) = "Running" /\ HasStore
    BY <1>6, <1>3 DEF Finishes, Records, StageInv, StageOf
  <2>b. PICK s \in {"Completed", "Failed"}, t \in {"ok", "err", "waiting"} :
          /\ Records(n, s, t)
          /\ t = "waiting" => s = "Failed"
          /\ t = "ok" => s = "Completed"
    BY <1>6 DEF Finishes
  <2>1. UnrecordedInv'
    BY <1>1, <1>2, <1>3, <2>a, <2>b DEF Records, AttemptOf, UnrecordedInv, Working
  <2>2. FutureInv'
    BY <1>1, <1>2, <1>3, <2>a, <2>b
    DEF Records, AttemptOf, FutureInv, UnrecordedInv, Working
  <2>3. OpenInv'
    BY <1>1, <1>2, <1>3, <2>a, <2>b
    DEF Records, AttemptOf, OpenInv, UnrecordedInv, StageInv, StageOf, Working
  <2>4. StageInv'
    <3>1. step \in Steps /\ tries[n] \in Tries /\ AttemptOf(n)' = s /\ task'[n] = t
      BY <1>1, <1>2, <1>6, <2>b DEF Finishes, Records, AttemptOf, Working
    <3>2. ASSUME NEW m \in Node, m # n
          PROVE  /\ AttemptOf(m)' = AttemptOf(m) /\ task'[m] = task[m]
                 /\ tries[m] > 0 =>
                      attempt'[<<step, m, tries[m] - 1>>] = attempt[<<step, m, tries[m] - 1>>]
      BY <1>1, <2>b, <3>1, <3>2 DEF Records, AttemptOf
    <3> QED
      BY <1>1, <1>3, <2>b, <3>1, <3>2 DEF Records, StageInv, StageOf
  <2>5. CompletedInv'
    <3>1. SUFFICES ASSUME HasStore, NEW w \in state, w[1] < step
                   PROVE  \E i \in Tries : attempt'[<<w[1], w[2], i>>] = "Completed"
      BY <2>b DEF Records, CompletedInv
    <3>2. PICK i \in Tries : attempt[<<w[1], w[2], i>>] = "Completed"
      BY <1>3, <3>1 DEF CompletedInv
    <3>3. attempt'[<<w[1], w[2], i>>] = attempt[<<w[1], w[2], i>>]
      BY <1>1, <1>w, <2>b, <3>1 DEF Records
    <3> QED
      BY <3>2, <3>3
  <2>6. RetryFollowsFailure'
    BY SMTT(20), <1>1, <1>2, <1>3, <2>a, <2>b
    DEF Records, AttemptOf, RetryFollowsFailure, FutureInv, StageInv, StageOf,
        Working
  <2> QED
    BY <2>1, <2>2, <2>3, <2>4, <2>5, <2>6 DEF StoreInv
<1>7. ASSUME NEW n \in Node, Retries(n) PROVE StoreInv'
  <2>1. UnrecordedInv'
    BY <1>1, <1>2, <1>3, <1>7 DEF Retries, UnrecordedInv, Working
  <2>2. FutureInv'
    BY <1>1, <1>2, <1>3, <1>7 DEF Retries, FutureInv, UnrecordedInv, Working
  <2>3. OpenInv'
    BY <1>1, <1>2, <1>3, <1>7
    DEF Retries, OpenInv, UnrecordedInv, StageInv, StageOf, Working
  <2>4. StageInv'
    <3>1. /\ task'[n] = "ready" /\ tries'[n] = tries[n] + 1 /\ tries'[n] \in Tries
          /\ tries[n] \in Tries /\ step \in Steps /\ tries'[n] - 1 = tries[n]
          /\ attempt' = attempt /\ step' = step
      BY <1>1, <1>2, <1>7 DEF Retries, Working
    <3>2. HasStore => attempt[<<step, n, tries[n]>>] = "Failed"
      BY <1>3, <1>7 DEF Retries, StageInv, StageOf, AttemptOf
    <3>4. attempt[<<step, n, tries'[n]>>] = "none"
      BY <1>1, <1>3, <3>1 DEF FutureInv
    <3>3. \A m \in Node : m # n => /\ task'[m] = task[m] /\ tries'[m] = tries[m]
                                   /\ AttemptOf(m)' = AttemptOf(m)
      BY <1>1, <1>7 DEF Retries, AttemptOf
    <3>5. StageOf(n)'
      BY <1>1, <3>1, <3>2, <3>4 DEF StageOf, AttemptOf
    <3>6. ASSUME NEW m \in Node, m # n PROVE StageOf(m)'
      <4>1. StageOf(m) /\ task'[m] = task[m] /\ tries'[m] = tries[m] /\ AttemptOf(m)' = AttemptOf(m)
        BY <1>3, <3>3, <3>6 DEF StageInv
      <4> QED
        BY <3>1, <4>1 DEF StageOf
    <3> QED
      BY <3>5, <3>6 DEF StageInv
  <2>5. CompletedInv'
    BY <1>1, <1>2, <1>3, <1>7
    DEF Retries, CompletedInv, StageInv, StageOf, AttemptOf, Working
  <2>6. RetryFollowsFailure'
    BY <1>1, <1>2, <1>3, <1>7
    DEF Retries, RetryFollowsFailure, FutureInv, StageInv, StageOf, AttemptOf,
        Working
  <2> QED
    BY <2>1, <2>2, <2>3, <2>4, <2>5, <2>6 DEF StoreInv
<1>8. ASSUME NextStep PROVE StoreInv'
  <2>a. /\ step \in Steps /\ attempt' = attempt /\ state' = state /\ step' = step + 1
        /\ \A m \in Node : task[m] \in {"idle", "ok", "joined"}
        /\ \A m \in superstep : m \in Node /\ task[m] \in {"ok", "joined"}
    BY <1>1, <1>8 DEF NextStep, SaveSnapshot, NoStore, storeVars, ShapeInv, Settled
  <2>b. \A w \in state : w[1] <= step /\ (w[1] = step => w[2] \in superstep)
    BY DEF EffectInv
  <2>1. UnrecordedInv'
    BY <1>1, <1>2, <1>3, <1>8, <2>a, <2>b
    DEF NextStep, SaveSnapshot, NoStore, storeVars, UnrecordedInv, Working
  <2>2. FutureInv'
    BY <1>1, <1>2, <1>3, <1>8, <2>a, <2>b
    DEF NextStep, SaveSnapshot, NoStore, storeVars, FutureInv, UnrecordedInv,
        Working
  <2>3. OpenInv'
    BY <1>1, <1>2, <1>3, <1>8, <2>a, <2>b
    DEF NextStep, SaveSnapshot, NoStore, storeVars, OpenInv, UnrecordedInv,
        StageInv, StageOf, Working
  <2>4. StageInv'
    BY <1>1, <1>2, <1>3, <1>8, <2>a, <2>b
    DEF NextStep, SaveSnapshot, NoStore, storeVars, StageInv, StageOf, FutureInv,
        AttemptOf, Working
  <2>5. CompletedInv'
    <3>1. SUFFICES ASSUME HasStore, NEW w \in state, w[1] <= step
                   PROVE  \E i \in Tries : attempt[<<w[1], w[2], i>>] = "Completed"
      BY <1>1, <1>w, <1>8, <2>a DEF NextStep, CompletedInv
    <3>2. CASE w[1] < step
      BY <1>3, <3>1, <3>2 DEF CompletedInv
    <3>3. CASE w[1] = step
      <4>1. w[2] \in Node /\ task[w[2]] \in {"ok", "joined"}
        BY <2>a, <2>b, <3>3
      <4> QED
        BY <1>1, <1>3, <3>1, <3>3, <4>1 DEF StageInv, StageOf, AttemptOf
    <3>4. w[1] \in Int /\ step \in Int
      BY <1>1, <1>w
    <3>5. w[1] < step \/ w[1] = step
      BY <3>1, <3>4
    <3> QED
      BY <3>2, <3>3, <3>5
  <2>6. RetryFollowsFailure'
    BY <1>1, <1>2, <1>3, <1>8, <2>a, <2>b
    DEF NextStep, SaveSnapshot, NoStore, storeVars, RetryFollowsFailure, Working
  <2> QED
    BY <2>1, <2>2, <2>3, <2>4, <2>5, <2>6 DEF StoreInv
<1> QED
  BY StepEffect, <1>4, <1>5, <1>6, <1>7, <1>8

-----------------------------------------------------------------------------
(* Layer 4. *)

\* Layer 4 is inductive relative to layers 1 and 3.
LEMMA VerdictStep ==
  ASSUME EngineAssumption, ShapeInv, ShapeInv', StoreInv, VerdictInv, [Next]_vars
  PROVE  VerdictInv'
<1> USE
      DEF ShapeInv, VerdictInv, Errors, TypeOK, Idle, Live, Working, Single,
          Forking, Settled, Closed, Supersteps!Follow, engineVars, taskVars,
          storeVars, Steps, Tries, Target, EngineAssumption
<1>1. ASSUME NoNodesLeft PROVE VerdictInv'
  BY <1>1 DEF NoNodesLeft, Conclude, StoreInv, UnrecordedInv
<1>2. ASSUME Stopped PROVE VerdictInv'
  BY <1>2 DEF Stopped, Conclude, StoreInv, UnrecordedInv
<1>3. ASSUME TooManySteps PROVE VerdictInv'
  BY <1>3 DEF TooManySteps, Conclude, StoreInv, UnrecordedInv
<1>4. ASSUME InterruptBefore PROVE VerdictInv'
  BY <1>4
  DEF InterruptBefore, CanStep, Pause, Conclude, SaveSnapshot, NoStore,
      StoreFails, StoreInv, UnrecordedInv
<1>5. ASSUME StartSingle PROVE VerdictInv'
  BY <1>5 DEF StartSingle, CanStep, Ready, MoveTo, StoreInv, UnrecordedInv
<1>6. ASSUME StartGhost PROVE VerdictInv'
  BY <1>6 DEF StartGhost, CanStep, Conclude, StoreInv, UnrecordedInv
<1>7. ASSUME StartParallel PROVE VerdictInv'
  BY <1>7 DEF StartParallel, CanStep, MoveTo, StoreInv, UnrecordedInv
<1>8. ASSUME SpawnGhost PROVE VerdictInv'
  BY <1>8 DEF SpawnGhost, Pending, RoomForBranch, Conclude, StoreInv, UnrecordedInv
<1>9. ASSUME SpawnDone PROVE VerdictInv'
  BY <1>9 DEF SpawnDone, Pending, RoomForBranch, MoveTo, StoreInv, UnrecordedInv
<1>10. ASSUME Drained PROVE VerdictInv'
  BY <1>10 DEF Drained, MoveTo, StoreInv, UnrecordedInv
<1>11. ASSUME Merge PROVE VerdictInv'
  BY <1>11 DEF Merge, AllJoined, MoveTo, Writes, StoreInv, UnrecordedInv
<1>12. ASSUME MergeFails PROVE VerdictInv'
  BY <1>12 DEF MergeFails, AllJoined, Conclude, Writes, StoreInv, UnrecordedInv
<1>13. ASSUME Resolve PROVE VerdictInv'
  BY <1>13 DEF Resolve, StoreInv, UnrecordedInv
<1>14. ASSUME RouterFails PROVE VerdictInv'
  BY <1>14 DEF RouterFails, Conclude, StoreInv, UnrecordedInv
<1>15. ASSUME InterruptAfter PROVE VerdictInv'
  BY <1>15
  DEF InterruptAfter, Pause, Conclude, SaveSnapshot, NoStore, StoreFails,
      StoreInv, UnrecordedInv
<1>16. ASSUME NextStep PROVE VerdictInv'
  BY <1>16 DEF NextStep, SaveSnapshot, NoStore, StoreInv, UnrecordedInv
<1>17. ASSUME SnapshotFails PROVE VerdictInv'
  BY <1>17 DEF SnapshotFails, StoreFails, Conclude, StoreInv, UnrecordedInv
<1>18. ASSUME Close PROVE VerdictInv'
  BY <1>18 DEF Close, NoStore, StoreFails, StoreInv, UnrecordedInv
<1>19. ASSUME Cancel PROVE VerdictInv'
  BY <1>19 DEF Cancel
<1>20. ASSUME NEW n \in Node, Spawn(n) PROVE VerdictInv'
  BY <1>20 DEF Spawn, Pending, RoomForBranch, Ready
<1>21. ASSUME NEW n \in Node, Join(n) PROVE VerdictInv'
  BY <1>21 DEF Join, Pending
<1>22. ASSUME NEW n \in Node, JoinGhost(n) PROVE VerdictInv'
  BY <1>22 DEF JoinGhost, Pending, Conclude
<1>23. ASSUME NEW n \in Node, JoinFailed(n) PROVE VerdictInv'
  BY <1>23 DEF JoinFailed
<1>24. ASSUME NEW n \in Node, SingleDone(n) PROVE VerdictInv'
  BY <1>24 DEF SingleDone, MoveTo
<1>25. ASSUME NEW n \in Node, SingleFailed(n) PROVE VerdictInv'
  BY <1>25 DEF SingleFailed, Conclude
<1>26. ASSUME NEW n \in Node, BeginAttempt(n) PROVE VerdictInv'
  BY <1>26 DEF BeginAttempt, StoreInv, UnrecordedInv
<1>27. ASSUME NEW n \in Node, AttemptCancelled(n) PROVE VerdictInv'
  BY <1>27 DEF AttemptCancelled, EndWith, StoreInv, UnrecordedInv
<1>28. ASSUME NEW n \in Node, RecordAttempt(n) PROVE VerdictInv'
  BY SMTT(20), <1>28
  DEF RecordAttempt, Current, NoStore, StoreFails, EndWith, StoreInv,
      UnrecordedInv
<1>29. ASSUME NEW n \in Node, CompleteAttempt(n) PROVE VerdictInv'
  BY <1>29
  DEF CompleteAttempt, SetAttempt, Current, NoStore, StoreFails, EndWith,
      StoreInv, UnrecordedInv
<1>30. ASSUME NEW n \in Node, FailAttempt(n) PROVE VerdictInv'
  BY <1>30
  DEF FailAttempt, SetAttempt, Current, NoStore, StoreFails, EndWith, MayRetry,
      StoreInv, UnrecordedInv
<1>31. ASSUME NEW n \in Node, WaitCancelled(n) PROVE VerdictInv'
  BY <1>31 DEF WaitCancelled, EndWith, StoreInv, UnrecordedInv
<1>32. ASSUME NEW n \in Node, WaitElapsed(n) PROVE VerdictInv'
  BY <1>32 DEF WaitElapsed, Ready, StoreInv, UnrecordedInv
<1>33. ASSUME NEW n \in Node, Execute(n) PROVE VerdictInv'
  BY <1>33 DEF Execute, Write, Writes, StoreInv, UnrecordedInv
<1>34. ASSUME NEW n \in Node, Panic(n) PROVE VerdictInv'
  BY <1>34 DEF Panic, MoveTo, StoreInv, UnrecordedInv
<1>35. ASSUME NEW n \in Node, Reap(n) PROVE VerdictInv'
  BY <1>35 DEF Reap, StoreInv, UnrecordedInv
<1>36. ASSUME UNCHANGED vars PROVE VerdictInv'
  BY <1>36 DEF vars
<1> QED
  BY <1>1, <1>2, <1>3, <1>4, <1>5, <1>6, <1>7, <1>8, <1>9, <1>10, <1>11, <1>12,
     <1>13, <1>14, <1>15, <1>16, <1>17, <1>18, <1>19, <1>20, <1>21, <1>22, <1>23,
     <1>24, <1>25, <1>26, <1>27, <1>28, <1>29, <1>30, <1>31, <1>32, <1>33, <1>34,
     <1>35, <1>36
  DEF Next, Engine, Attempt

-----------------------------------------------------------------------------
(* The invariant holds initially and is kept by every step. *)

IInv == ShapeInv /\ EffectInv /\ StoreInv /\ VerdictInv

LEMMA InitIInv ==
  ASSUME EngineAssumption, Init
  PROVE  IInv
<1> USE DEF Init, EngineAssumption, Target, Steps, Tries
<1>1. ShapeInv
  <2>1. TypeOK
    <3>1. 0 \in Tries /\ step \in 0 .. MaxIter
      OBVIOUS
    <3>2. /\ tries \in [Node -> Tries] /\ unended \in [Node -> Int]
          /\ attempt \in [Steps \X Node \X Tries -> {"none", "Running", "Completed", "Failed"}]
      BY <3>1
    <3> QED
      BY <3>1, <3>2 DEF TypeOK, Working
  <2>2. Cardinality(active) <= MaxParallelism
    BY NoBranches
  <2> QED
    BY <2>1, <2>2 DEF ShapeInv, Idle, Live, Working, Forking, Settled
<1>2. EffectInv
  BY DEF EffectInv, Writes, Settled, Closed, SnapshotIsWhole
<1>3. StoreInv
  BY DEF StoreInv, UnrecordedInv, FutureInv, OpenInv, StageInv, StageOf, AttemptOf,
         CompletedInv, RetryFollowsFailure
<1>4. VerdictInv
  BY DEF VerdictInv, Closed, Errors
<1> QED
  BY <1>1, <1>2, <1>3, <1>4 DEF IInv

LEMMA StepIInv ==
  ASSUME EngineAssumption, IInv, [Next]_vars
  PROVE  IInv'
BY ShapeStep, EffectStep, StoreStep, VerdictStep DEF IInv

\* The inductive invariant of the engine.
THEOREM EngineInvariant == Spec => []IInv
<1>1. Init => IInv
  BY InitIInv, EngineAssumption
<1>2. IInv /\ [Next]_vars => IInv'
  BY StepIInv, EngineAssumption
<1> QED
  BY <1>1, <1>2, PTL DEF Spec

-----------------------------------------------------------------------------
(* What follows from it, for every graph. *)

\* Every variable stays in its range.
THEOREM TypeCorrect == Spec => []TypeOK
<1>1. IInv => TypeOK
  BY DEF IInv, ShapeInv
<1> QED
  BY <1>1, EngineInvariant, PTL

\* Never more live branches than max_parallelism: they are among the active
\* branches, and a refill takes the place of a branch that was joined.
THEOREM BoundedParallelism == Spec => []ParallelismBounded
<1>1. ASSUME IInv PROVE ParallelismBounded
  <2>1. MaxParallelism \in Nat /\ MaxParallelism >= 1 /\ ShapeInv /\ TypeOK
    BY <1>1, EngineAssumption DEF EngineAssumption, IInv, ShapeInv
  <2>2. CASE phase = "single"
    <3>1. PICK n \in Node : superstep = {n}
      BY <2>1, <2>2 DEF ShapeInv
    <3>2. Live \subseteq {n}
      BY <2>1, <3>1 DEF ShapeInv, Live, Working
    <3>3. IsFiniteSet({n}) /\ Cardinality({n}) = 1
      BY FS_Singleton
    <3>4. Cardinality(Live) \in Nat /\ Cardinality(Live) <= 1
      BY <3>2, <3>3, FS_Subset, FS_CardinalityType
    <3> QED
      BY <2>1, <3>4 DEF ParallelismBounded
  <2>3. CASE phase # "single"
    <3>1. Live \subseteq active /\ Cardinality(active) <= MaxParallelism
      BY <2>1, <2>3 DEF ShapeInv
    <3>2. IsFiniteSet(active) /\ Cardinality(active) \in Nat
      BY <2>1, ActiveIsFinite, EngineAssumption
    <3>3. Cardinality(Live) \in Nat /\ Cardinality(Live) <= Cardinality(active)
      BY <3>1, <3>2, FS_Subset, FS_CardinalityType
    <3> QED
      BY <2>1, <3>1, <3>2, <3>3 DEF ParallelismBounded
  <2> QED
    BY <2>2, <2>3
<1> QED
  BY <1>1, EngineInvariant, PTL

\* A parallel superstep that fails leaves no writes of its branches behind.
THEOREM FailureIsolated == Spec => []FailedSuperstepLeavesNoWrites
<1>1. IInv => FailedSuperstepLeavesNoWrites
  BY DEF IInv, EffectInv, FailedSuperstepLeavesNoWrites, Single, Settled, Closed
<1> QED
  BY <1>1, EngineInvariant, PTL

\* A snapshot in the store never shows a part of a superstep.
THEOREM WholeSnapshots == Spec => []SnapshotIsWhole
<1>1. IInv => SnapshotIsWhole
  BY DEF IInv, EffectInv
<1> QED
  BY <1>1, EngineInvariant, PTL

\* An attempt is recorded only after the one before it failed.
THEOREM RetriesAreOrdered == Spec => []RetryFollowsFailure
<1>1. IInv => RetryFollowsFailure
  BY DEF IInv, StoreInv
<1> QED
  BY <1>1, EngineInvariant, PTL

\* A run recorded as completed has no open attempt and no write without a
\* completed one.
THEOREM CompletedRuns == Spec => []CompletedRunIsClosed
<1>1. ASSUME IInv, run = "Completed"
      PROVE  /\ \A a \in DOMAIN attempt : attempt[a] # "Running"
             /\ \A w \in state : \E i \in Tries : attempt[<<w[1], w[2], i>>] = "Completed"
  <2>1. HasStore /\ superstep = {}
    BY <1>1, EngineAssumption
    DEF EngineAssumption, IInv, StoreInv, UnrecordedInv, VerdictInv, Closed
  <2>2. \A n \in Node : task[n] = "idle"
    BY <1>1, <2>1 DEF IInv, ShapeInv
  <2>3. attempt \in [Steps \X Node \X Tries -> {"none", "Running", "Completed", "Failed"}]
    BY <1>1 DEF IInv, ShapeInv, TypeOK
  <2>4. ASSUME NEW a \in DOMAIN attempt PROVE attempt[a] # "Running"
    <3>1. PICK s \in Steps, n \in Node, i \in Tries : a = <<s, n, i>>
      BY <2>3
    <3> QED
      BY <1>1, <2>2, <3>1 DEF IInv, StoreInv, OpenInv
  <2>5. ASSUME NEW w \in state
        PROVE  \E i \in Tries : attempt[<<w[1], w[2], i>>] = "Completed"
    <3>1. step \in Int /\ w[1] \in Int
      BY <1>1, EngineAssumption DEF EngineAssumption, IInv, ShapeInv, TypeOK, Steps
    <3>2. w[1] < step
      BY <1>1, <2>1, <3>1 DEF IInv, EffectInv
    <3> QED
      BY <1>1, <2>1, <3>2 DEF IInv, StoreInv, CompletedInv
  <2> QED
    BY <2>4, <2>5
<1>2. IInv => CompletedRunIsClosed
  BY <1>1 DEF CompletedRunIsClosed
<1> QED
  BY <1>2, EngineInvariant, PTL

\* A failing store call is never reported as success.
THEOREM StoreFailuresReported == Spec => []StoreFailureIsReported
<1>1. IInv => StoreFailureIsReported
  BY DEF IInv, VerdictInv, Closed, StoreFailureIsReported
<1> QED
  BY <1>1, EngineInvariant, PTL

-----------------------------------------------------------------------------
(* Where no command or router names an unknown node, every task has ended  *)
(* when the superstep has: by joining, by draining or alone.               *)

QuietInv == phase \in Forking \cup {"single"} \/ Live = {}

\* QuietInv is kept by every step.
LEMMA QuietStep ==
  ASSUME EngineAssumption, ShapeInv, ShapeInv', QuietInv, Ghost = {}, [Next]_vars
  PROVE  QuietInv'
<1> USE
      DEF ShapeInv, QuietInv, TypeOK, Idle, Live, Working, Single, Forking,
          Settled, engineVars, taskVars, storeVars, Target
<1>1. ASSUME NoNodesLeft PROVE QuietInv'
  BY <1>1 DEF NoNodesLeft, Conclude
<1>2. ASSUME Stopped PROVE QuietInv'
  BY <1>2 DEF Stopped, Conclude
<1>3. ASSUME TooManySteps PROVE QuietInv'
  BY <1>3 DEF TooManySteps, Conclude
<1>4. ASSUME InterruptBefore PROVE QuietInv'
  BY <1>4
  DEF InterruptBefore, CanStep, Pause, Conclude, SaveSnapshot, NoStore, StoreFails
<1>5. ASSUME StartSingle PROVE QuietInv'
  BY <1>5 DEF StartSingle, CanStep, Ready, MoveTo
<1>6. ASSUME StartGhost PROVE QuietInv'
  BY <1>6 DEF StartGhost, CanStep, Conclude
<1>7. ASSUME StartParallel PROVE QuietInv'
  BY <1>7 DEF StartParallel, CanStep, MoveTo
<1>8. ASSUME SpawnGhost PROVE QuietInv'
  BY <1>8 DEF SpawnGhost, Pending, RoomForBranch, Conclude
<1>9. ASSUME SpawnDone PROVE QuietInv'
  BY <1>9 DEF SpawnDone, Pending, RoomForBranch, MoveTo
<1>10. ASSUME Drained PROVE QuietInv'
  BY <1>10 DEF Drained, MoveTo
<1>11. ASSUME Merge PROVE QuietInv'
  BY <1>11 DEF Merge, AllJoined, MoveTo, Writes
<1>12. ASSUME MergeFails PROVE QuietInv'
  BY <1>12 DEF MergeFails, AllJoined, Conclude, Writes
<1>13. ASSUME Resolve PROVE QuietInv'
  BY <1>13 DEF Resolve
<1>14. ASSUME RouterFails PROVE QuietInv'
  BY <1>14 DEF RouterFails, Conclude
<1>15. ASSUME InterruptAfter PROVE QuietInv'
  BY <1>15 DEF InterruptAfter, Pause, Conclude, SaveSnapshot, NoStore, StoreFails
<1>16. ASSUME NextStep PROVE QuietInv'
  BY <1>16 DEF NextStep, SaveSnapshot, NoStore
<1>17. ASSUME SnapshotFails PROVE QuietInv'
  BY <1>17 DEF SnapshotFails, StoreFails, Conclude
<1>18. ASSUME Close PROVE QuietInv'
  BY <1>18 DEF Close, NoStore, StoreFails
<1>19. ASSUME Cancel PROVE QuietInv'
  BY <1>19 DEF Cancel
<1>20. ASSUME NEW n \in Node, Spawn(n) PROVE QuietInv'
  BY <1>20 DEF Spawn, Pending, RoomForBranch, Ready
<1>21. ASSUME NEW n \in Node, Join(n) PROVE QuietInv'
  BY <1>21 DEF Join, Pending
<1>22. ASSUME NEW n \in Node, JoinGhost(n) PROVE QuietInv'
  BY <1>22 DEF JoinGhost, Pending, Conclude
<1>23. ASSUME NEW n \in Node, JoinFailed(n) PROVE QuietInv'
  BY <1>23 DEF JoinFailed
<1>24. ASSUME NEW n \in Node, SingleDone(n) PROVE QuietInv'
  BY <1>24 DEF SingleDone, MoveTo
<1>25. ASSUME NEW n \in Node, SingleFailed(n) PROVE QuietInv'
  BY <1>25 DEF SingleFailed, Conclude
<1>26. ASSUME NEW n \in Node, BeginAttempt(n) PROVE QuietInv'
  BY <1>26 DEF BeginAttempt
<1>27. ASSUME NEW n \in Node, AttemptCancelled(n) PROVE QuietInv'
  BY <1>27 DEF AttemptCancelled, EndWith
<1>28. ASSUME NEW n \in Node, RecordAttempt(n) PROVE QuietInv'
  BY <1>28 DEF RecordAttempt, Current, NoStore, StoreFails, EndWith
<1>29. ASSUME NEW n \in Node, CompleteAttempt(n) PROVE QuietInv'
  BY <1>29 DEF CompleteAttempt, SetAttempt, Current, NoStore, StoreFails, EndWith
<1>30. ASSUME NEW n \in Node, FailAttempt(n) PROVE QuietInv'
  BY <1>30
  DEF FailAttempt, SetAttempt, Current, NoStore, StoreFails, EndWith, MayRetry
<1>31. ASSUME NEW n \in Node, WaitCancelled(n) PROVE QuietInv'
  BY <1>31 DEF WaitCancelled, EndWith
<1>32. ASSUME NEW n \in Node, WaitElapsed(n) PROVE QuietInv'
  BY <1>32 DEF WaitElapsed, Ready
<1>33. ASSUME NEW n \in Node, Execute(n) PROVE QuietInv'
  BY <1>33 DEF Execute, Write, Writes
<1>34. ASSUME NEW n \in Node, Panic(n) PROVE QuietInv'
  BY <1>34 DEF Panic, MoveTo
<1>35. ASSUME NEW n \in Node, Reap(n) PROVE QuietInv'
  BY <1>35 DEF Reap
<1>36. ASSUME UNCHANGED vars PROVE QuietInv'
  BY <1>36 DEF vars
<1> QED
  BY <1>1, <1>2, <1>3, <1>4, <1>5, <1>6, <1>7, <1>8, <1>9, <1>10, <1>11, <1>12,
     <1>13, <1>14, <1>15, <1>16, <1>17, <1>18, <1>19, <1>20, <1>21, <1>22, <1>23,
     <1>24, <1>25, <1>26, <1>27, <1>28, <1>29, <1>30, <1>31, <1>32, <1>33, <1>34,
     <1>35, <1>36
  DEF Next, Engine, Attempt

LEMMA QuietAlways ==
  ASSUME Ghost = {}
  PROVE  Spec => [](IInv /\ QuietInv)
<1>1. Init => IInv /\ QuietInv
  BY InitIInv, EngineAssumption DEF Init, QuietInv, Live, Working
<1>2. IInv /\ QuietInv /\ [Next]_vars => IInv' /\ QuietInv'
  BY StepIInv, QuietStep, EngineAssumption DEF IInv
<1> QED
  BY <1>1, <1>2, PTL DEF Spec

\* When the run has ended every task of it has ended.
THEOREM RunsAreQuiet ==
  ASSUME Ghost = {}
  PROVE  Spec => []NothingOutlivesRun
<1>1. QuietInv => NothingOutlivesRun
  BY DEF QuietInv, NothingOutlivesRun, Forking
<1> QED
  BY <1>1, QuietAlways, PTL

\* The record of a run that was closed does not change any more.
THEOREM ClosedRunsAreFrozen ==
  ASSUME Ghost = {}
  PROVE  Spec => ClosedRunIsFrozen
<1>1. ASSUME IInv, QuietInv, [Next]_vars, run \in {"Completed", "Failed"}
      PROVE  UNCHANGED storeVars
  <2>1. phase = "ended" /\ Live = {}
    BY <1>1 DEF IInv, VerdictInv, QuietInv, Forking
  <2>2. \A n \in Node : task[n] \notin Working
    BY <2>1 DEF Live
  <2>3. ~NoNodesLeft
    BY <2>1 DEF NoNodesLeft, Conclude
  <2>4. ~Stopped
    BY <2>1 DEF Stopped, Conclude
  <2>5. ~TooManySteps
    BY <2>1 DEF TooManySteps, Conclude
  <2>6. ~InterruptBefore
    BY <2>1
    DEF InterruptBefore, CanStep, Pause, Conclude, SaveSnapshot, NoStore,
        StoreFails
  <2>7. ~StartSingle
    BY <2>1 DEF StartSingle, CanStep, Ready, MoveTo
  <2>8. ~StartGhost
    BY <2>1 DEF StartGhost, CanStep, Conclude
  <2>9. ~StartParallel
    BY <2>1 DEF StartParallel, CanStep, MoveTo
  <2>10. ~SpawnGhost
    BY <2>1 DEF SpawnGhost, Pending, RoomForBranch, Conclude
  <2>11. ~SpawnDone
    BY <2>1 DEF SpawnDone, Pending, RoomForBranch, MoveTo
  <2>12. ~Drained
    BY <2>1 DEF Drained, MoveTo
  <2>13. ~Merge
    BY <2>1 DEF Merge, AllJoined, MoveTo, Writes
  <2>14. ~MergeFails
    BY <2>1 DEF MergeFails, AllJoined, Conclude, Writes
  <2>15. ~Resolve
    BY <2>1 DEF Resolve
  <2>16. ~RouterFails
    BY <2>1 DEF RouterFails, Conclude
  <2>17. ~InterruptAfter
    BY <2>1 DEF InterruptAfter, Pause, Conclude, SaveSnapshot, NoStore, StoreFails
  <2>18. ~NextStep
    BY <2>1 DEF NextStep, SaveSnapshot, NoStore
  <2>19. ~SnapshotFails
    BY <2>1 DEF SnapshotFails, StoreFails, Conclude
  <2>20. ~Close
    BY <2>1 DEF Close, NoStore, StoreFails
  <2>21. ~Cancel \/ UNCHANGED storeVars
    BY <2>1 DEF Cancel
  <2>22. \A n \in Node : ~Spawn(n)
    BY <2>1, <2>2 DEF Spawn, Pending, RoomForBranch, Ready
  <2>23. \A n \in Node : ~Join(n)
    BY <2>1, <2>2 DEF Join, Pending
  <2>24. \A n \in Node : ~JoinGhost(n)
    BY <2>1, <2>2 DEF JoinGhost, Pending, Conclude
  <2>25. \A n \in Node : ~JoinFailed(n)
    BY <2>1, <2>2 DEF JoinFailed
  <2>26. \A n \in Node : ~SingleDone(n)
    BY <2>1, <2>2 DEF SingleDone, MoveTo
  <2>27. \A n \in Node : ~SingleFailed(n)
    BY <2>1, <2>2 DEF SingleFailed, Conclude
  <2>28. \A n \in Node : ~BeginAttempt(n)
    BY <2>1, <2>2 DEF BeginAttempt, Working
  <2>29. \A n \in Node : ~AttemptCancelled(n)
    BY <2>1, <2>2 DEF AttemptCancelled, EndWith, Working
  <2>30. \A n \in Node : ~RecordAttempt(n)
    BY <2>1, <2>2 DEF RecordAttempt, Current, NoStore, StoreFails, EndWith, Working
  <2>31. \A n \in Node : ~CompleteAttempt(n)
    BY <2>1, <2>2
    DEF CompleteAttempt, SetAttempt, Current, NoStore, StoreFails, EndWith,
        Working
  <2>32. \A n \in Node : ~FailAttempt(n)
    BY <2>1, <2>2
    DEF FailAttempt, SetAttempt, Current, NoStore, StoreFails, EndWith, MayRetry,
        Working
  <2>33. \A n \in Node : ~WaitCancelled(n)
    BY <2>1, <2>2 DEF WaitCancelled, EndWith, Working
  <2>34. \A n \in Node : ~WaitElapsed(n)
    BY <2>1, <2>2 DEF WaitElapsed, Ready, Working
  <2>35. \A n \in Node : ~Execute(n)
    BY <2>1, <2>2 DEF Execute, Write, Writes, Working
  <2>36. \A n \in Node : ~Panic(n)
    BY <2>1, <2>2 DEF Panic, MoveTo, Working
  <2>37. \A n \in Node : ~Reap(n)
    BY <2>1, <2>2 DEF Reap, Working, Live
  <2> QED
    BY <1>1, <2>3, <2>4, <2>5, <2>6, <2>7, <2>8, <2>9, <2>10, <2>11, <2>12, <2>13,
       <2>14, <2>15, <2>16, <2>17, <2>18, <2>19, <2>20, <2>21, <2>22, <2>23,
       <2>24, <2>25, <2>26, <2>27, <2>28, <2>29, <2>30, <2>31, <2>32, <2>33,
       <2>34, <2>35, <2>36, <2>37
    DEF Next, Engine, Attempt, vars
<1>2. IInv /\ QuietInv /\ [Next]_vars =>
        [(run \in {"Completed", "Failed"}) => UNCHANGED storeVars]_vars
  BY <1>1
<1> QED
  BY <1>2, QuietAlways, PTL DEF Spec, ClosedRunIsFrozen

-----------------------------------------------------------------------------
(* The engine implements SuperstepRun. *)

Effects == {w \in state : w[1] < step}
Verdict == IF phase = "ended" THEN result ELSE "none"
Mapped == <<superstep, step, Effects, Verdict>>

\* Every step but NextStep and Close is a stuttering step of SuperstepRun.
LEMMA Stutters ==
  ASSUME EngineAssumption, IInv, [Next]_vars, ~NextStep, ~Close
  PROVE  Mapped' = Mapped
<1>1. /\ \A w \in state : w[1] \in Int /\ w[1] <= step
      /\ step \in Int
  BY DEF EngineAssumption, IInv, EffectInv, ShapeInv, TypeOK, Steps
<1> USE DEF Effects, Verdict, Mapped, Writes, engineVars, taskVars, storeVars
<1>2. ASSUME NoNodesLeft PROVE Mapped' = Mapped
  BY <1>1, <1>2 DEF NoNodesLeft, Conclude
<1>3. ASSUME Stopped PROVE Mapped' = Mapped
  BY <1>1, <1>3 DEF Stopped, Conclude
<1>4. ASSUME TooManySteps PROVE Mapped' = Mapped
  BY <1>1, <1>4 DEF TooManySteps, Conclude
<1>5. ASSUME InterruptBefore PROVE Mapped' = Mapped
  BY <1>1, <1>5
  DEF InterruptBefore, CanStep, Pause, Conclude, SaveSnapshot, NoStore, StoreFails
<1>6. ASSUME StartSingle PROVE Mapped' = Mapped
  BY <1>1, <1>6 DEF StartSingle, CanStep, Ready, MoveTo
<1>7. ASSUME StartGhost PROVE Mapped' = Mapped
  BY <1>1, <1>7 DEF StartGhost, CanStep, Conclude
<1>8. ASSUME StartParallel PROVE Mapped' = Mapped
  BY <1>1, <1>8 DEF StartParallel, CanStep, MoveTo
<1>9. ASSUME SpawnGhost PROVE Mapped' = Mapped
  BY <1>1, <1>9 DEF SpawnGhost, Pending, RoomForBranch, Conclude
<1>10. ASSUME SpawnDone PROVE Mapped' = Mapped
  BY <1>1, <1>10 DEF SpawnDone, Pending, RoomForBranch, MoveTo
<1>11. ASSUME Drained PROVE Mapped' = Mapped
  BY <1>1, <1>11 DEF Drained, MoveTo
<1>12. ASSUME Merge PROVE Mapped' = Mapped
  BY <1>1, <1>12 DEF Merge, AllJoined, MoveTo, Writes
<1>13. ASSUME MergeFails PROVE Mapped' = Mapped
  BY <1>1, <1>13 DEF MergeFails, AllJoined, Conclude, Writes
<1>14. ASSUME Resolve PROVE Mapped' = Mapped
  BY <1>1, <1>14 DEF Resolve
<1>15. ASSUME RouterFails PROVE Mapped' = Mapped
  BY <1>1, <1>15 DEF RouterFails, Conclude
<1>16. ASSUME InterruptAfter PROVE Mapped' = Mapped
  BY <1>1, <1>16
  DEF InterruptAfter, Pause, Conclude, SaveSnapshot, NoStore, StoreFails
<1>17. ASSUME SnapshotFails PROVE Mapped' = Mapped
  BY <1>1, <1>17 DEF SnapshotFails, StoreFails, Conclude
<1>18. ASSUME Cancel PROVE Mapped' = Mapped
  BY <1>1, <1>18 DEF Cancel
<1>19. ASSUME NEW n \in Node, Spawn(n) PROVE Mapped' = Mapped
  BY <1>1, <1>19 DEF Spawn, Pending, RoomForBranch, Ready
<1>20. ASSUME NEW n \in Node, Join(n) PROVE Mapped' = Mapped
  BY <1>1, <1>20 DEF Join, Pending
<1>21. ASSUME NEW n \in Node, JoinGhost(n) PROVE Mapped' = Mapped
  BY <1>1, <1>21 DEF JoinGhost, Pending, Conclude
<1>22. ASSUME NEW n \in Node, JoinFailed(n) PROVE Mapped' = Mapped
  BY <1>1, <1>22 DEF JoinFailed
<1>23. ASSUME NEW n \in Node, SingleDone(n) PROVE Mapped' = Mapped
  BY <1>1, <1>23 DEF SingleDone, MoveTo
<1>24. ASSUME NEW n \in Node, SingleFailed(n) PROVE Mapped' = Mapped
  BY <1>1, <1>24 DEF SingleFailed, Conclude
<1>25. ASSUME NEW n \in Node, BeginAttempt(n) PROVE Mapped' = Mapped
  BY <1>1, <1>25 DEF BeginAttempt
<1>26. ASSUME NEW n \in Node, AttemptCancelled(n) PROVE Mapped' = Mapped
  BY <1>1, <1>26 DEF AttemptCancelled, EndWith
<1>27. ASSUME NEW n \in Node, RecordAttempt(n) PROVE Mapped' = Mapped
  BY <1>1, <1>27 DEF RecordAttempt, Current, NoStore, StoreFails, EndWith
<1>28. ASSUME NEW n \in Node, CompleteAttempt(n) PROVE Mapped' = Mapped
  BY <1>1, <1>28
  DEF CompleteAttempt, SetAttempt, Current, NoStore, StoreFails, EndWith
<1>29. ASSUME NEW n \in Node, FailAttempt(n) PROVE Mapped' = Mapped
  BY <1>1, <1>29
  DEF FailAttempt, SetAttempt, Current, NoStore, StoreFails, EndWith, MayRetry
<1>30. ASSUME NEW n \in Node, WaitCancelled(n) PROVE Mapped' = Mapped
  BY <1>1, <1>30 DEF WaitCancelled, EndWith
<1>31. ASSUME NEW n \in Node, WaitElapsed(n) PROVE Mapped' = Mapped
  BY <1>1, <1>31 DEF WaitElapsed, Ready
<1>32. ASSUME NEW n \in Node, Execute(n) PROVE Mapped' = Mapped
  BY <1>1, <1>32 DEF Execute, Write, Writes
<1>33. ASSUME NEW n \in Node, Panic(n) PROVE Mapped' = Mapped
  BY <1>1, <1>33 DEF Panic, MoveTo
<1>34. ASSUME NEW n \in Node, Reap(n) PROVE Mapped' = Mapped
  BY <1>1, <1>34 DEF Reap
<1>35. ASSUME UNCHANGED vars PROVE Mapped' = Mapped
  BY <1>35 DEF vars
<1> QED
  BY <1>2, <1>3, <1>4, <1>5, <1>6, <1>7, <1>8, <1>9, <1>10, <1>11, <1>12, <1>13,
     <1>14, <1>15, <1>16, <1>17, <1>18, <1>19, <1>20, <1>21, <1>22, <1>23, <1>24,
     <1>25, <1>26, <1>27, <1>28, <1>29, <1>30, <1>31, <1>32, <1>33, <1>34, <1>35
  DEF Next, Engine, Attempt

\* NextStep is a superstep: its effects are exactly the writes of its nodes.
LEMMA NextStepIsSuperstep ==
  ASSUME EngineAssumption, IInv, NextStep
  PROVE  Supersteps!Superstep
<1>1. /\ superstep \subseteq Node /\ superstep # {} /\ step < MaxIter
      /\ phase = "after" /\ Supersteps!Follow(superstep, targets)
  BY DEF IInv, ShapeInv, VerdictInv, NextStep, Settled
<1>2. {w \in state : w[1] < step + 1} = {w \in state : w[1] < step} \cup ({step} \X superstep)
  <2>1. /\ \A w \in state : /\ w \in Steps \X Node /\ w[1] \in Int
                            /\ w[1] <= step /\ (w[1] = step => w[2] \in superstep)
        /\ step \in Int /\ {step} \X superstep \subseteq state
    BY <1>1
    DEF EngineAssumption, IInv, EffectInv, ShapeInv, TypeOK, Steps, Settled,
        Writes
  <2> QED
    BY <2>1
<1> QED
  BY <1>1, <1>2 DEF NextStep, Supersteps!Superstep

\* Close gives the verdict.
LEMMA CloseIsVerdict ==
  ASSUME EngineAssumption, IInv, Close
  PROVE  Supersteps!Complete \/ Supersteps!GiveUp
BY DEF IInv, VerdictInv, Closed, Errors, Close, NoStore, StoreFails, storeVars,
       Supersteps!Complete, Supersteps!GiveUp

\* The run is a sequence of supersteps that take effect as a whole, and one
\* verdict.
THEOREM Refinement == Spec => ImplementsSupersteps
<1>1. Init => Supersteps!Init
  BY DEF Init, Supersteps!Init
<1>2. ASSUME IInv, [Next]_vars PROVE [Supersteps!Next]_Mapped
  BY <1>2, EngineAssumption, Stutters, NextStepIsSuperstep, CloseIsVerdict
  DEF Supersteps!Next
<1>3. IInv /\ [Next]_vars =>
        [Supersteps!Next]_<<superstep, step, {w \in state : w[1] < step},
                            IF phase = "ended" THEN result ELSE "none">>
  BY <1>2 DEF Mapped, Effects, Verdict
<1> QED
  BY <1>1, <1>3, EngineInvariant, PTL
  DEF Spec, ImplementsSupersteps, Supersteps!Spec

=============================================================================
