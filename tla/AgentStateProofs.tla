-------------------------- MODULE AgentStateProofs --------------------------
(***************************************************************************)
(* Proofs about AgentState, for any finite set of keys, any limits, tasks, *)
(* branches and calls.                                                     *)
(*                                                                         *)
(* The inductive invariant has four parts.  VersionInv says that a counter *)
(* has not fallen below what a transaction began with, and while it is     *)
(* still there the map is the one the transaction was given.  LimitsKept   *)
(* is inductive by itself.  MergeInv follows the merge through the ranks   *)
(* of the branches, and IsolationInv says that what a branch writes is in  *)
(* no value another task holds.                                            *)
(***************************************************************************)
EXTENDS AgentState, TLAPS, FiniteSetTheorems

-----------------------------------------------------------------------------
(* Types. *)

LEMMA Values ==
  /\ Empty \in Map
  /\ \A t \in Task : At(t) \in State
  /\ \A k \in Key, v, u \in Value : Reduce(k, v, u) \in Value
<1> USE DEF Empty, Map, Value, Write, At, State, Task, Reduce
<1>1. Empty \in Map
  OBVIOUS
<1>2. \A t \in Task : At(t) \in State
  OBVIOUS
<1>3. \A v, u \in Value : v \o u \in Value
  OBVIOUS
<1>4. \A k \in Key, v, u \in Value : Reduce(k, v, u) \in Value
  BY <1>3
<1>5. QED
  BY <1>1, <1>2, <1>4

LEMMA NewValue ==
  ASSUME TypeOK, NEW t \in Task
  PROVE  New(t) \in Value
BY DEF TypeOK, New, Value, Write

LEMMA GivenMaps == \A d \in Given \cup Outside : d \in Map
<1> SUFFICES ASSUME NEW d \in Given \cup Outside PROVE d \in Map
  OBVIOUS
<1>1. d \in [Key -> Seq({Shared} \X Nat)]
  BY StateAssumption
<1>2. \A v \in Seq({Shared} \X Nat) : v \in Seq(Write)
  BY DEF Write
<1>3. QED
  BY <1>1, <1>2 DEF Map, Value

LEMMA SnapshotMaps ==
  ASSUME TypeOK, NEW t \in Task
  PROVE  Snapshots(t) \subseteq Map
<1>1. \A i \in DOMAIN history[At(t)] : history[At(t)][i] \in Map
  BY Values DEF TypeOK
<1>2. QED
  BY <1>1, GivenMaps DEF Snapshots

LEMMA InitTypeOK == Init => TypeOK
<1> SUFFICES ASSUME Init PROVE TypeOK
  OBVIOUS
<1>1. <<>> \in Value /\ <<>> \in Seq(Map)
  BY DEF Value
<1>2. data \in [State -> Map]
  BY Values, GivenMaps DEF Init
<1>3. QED
  BY <1>1, <1>2, Values DEF Init, TypeOK, NoMerge

LEMMA TypeStep ==
  ASSUME TypeOK, [Next]_vars
  PROVE  TypeOK'
<1>e. /\ \A t \in Task : At(t) \in State
      /\ \A k \in Key, v, u \in Value : Reduce(k, v, u) \in Value
      /\ \A v, u \in Value : v \o u \in Value
      /\ \A t \in Task : New(t) \in Value
      /\ Empty \in Map /\ <<>> \in Value
  BY Values, NewValue DEF Value
<1>d. \A d \in Map, k \in Key, v \in Value : [d EXCEPT ![k] = v] \in Map /\ d[k] \in Value
  BY DEF Map
<1>i. \A s \in State, k \in Key, v \in Value :
        Insert(s, k, v) => data' \in [State -> Map] /\ version' \in [State -> Nat]
  <2> SUFFICES ASSUME NEW s \in State, NEW k \in Key, NEW v \in Value, Insert(s, k, v)
               PROVE data' \in [State -> Map] /\ version' \in [State -> Nat]
    OBVIOUS
  <2>1. data' = [data EXCEPT ![s] = [data[s] EXCEPT ![k] = v]]
    BY DEF Insert
  <2>2. [data[s] EXCEPT ![k] = v] \in Map
    BY <1>d DEF TypeOK
  <2>3. data' \in [State -> Map]
    BY <2>1, <2>2 DEF TypeOK
  <2>4. QED
    BY <2>3 DEF Insert, TypeOK
<1>r. \A s \in State, d \in Map :
        Replace(s, d) => data' \in [State -> Map] /\ version' \in [State -> Nat]
  <2> SUFFICES ASSUME NEW s \in State, NEW d \in Map, Replace(s, d)
               PROVE data' \in [State -> Map] /\ version' \in [State -> Nat]
    OBVIOUS
  <2>1. CASE /\ data' = [data EXCEPT ![s] = d]
             /\ version' = [version EXCEPT ![s] = @ + 1]
    BY <2>1 DEF TypeOK
  <2>2. CASE UNCHANGED dataVars
    BY <2>2 DEF TypeOK, dataVars
  <2>3. QED
    BY <2>1, <2>2 DEF Replace
<1>u. TypeOK /\ UNCHANGED dataVars => data' \in [State -> Map] /\ version' \in [State -> Nat]
  BY DEF TypeOK, dataVars
<1>x. \A s \in State : Exports(s) \subseteq Map
  BY <1>e DEF Exports, TypeOK
<1> USE DEF dataVars, txnVars, stepVars
<1>1. ASSUME NEW t \in Task, NEW k \in Key, SetRead(t, k) PROVE TypeOK'
  BY <1>1, <1>e, <1>d DEF SetRead, Goto, TypeOK
<1>2. ASSUME NEW t \in Task, NEW k \in Key, SetWrite(t, k) PROVE TypeOK'
  <2>1. NextValue(t, k) \in Value
    BY <1>e DEF NextValue, TypeOK
  <2>2. data' \in [State -> Map] /\ version' \in [State -> Nat]
    BY <1>2, <2>1, <1>e, <1>i, <1>u DEF SetWrite
  <2>3. QED
    BY SMTT(20), <1>2, <2>2, <1>e DEF SetWrite, Goto, Count, TypeOK
<1>3. ASSUME NEW t \in Task, NEW k \in Key, SetRaw(t, k) PROVE TypeOK'
  <2>1. data' \in [State -> Map] /\ version' \in [State -> Nat]
    BY <1>3, <1>e, <1>i DEF SetRaw
  <2>2. QED
    BY <1>3, <2>1 DEF SetRaw, Count, TypeOK
<1>4. ASSUME NEW t \in Task, NEW k \in Key, Update(t, k) PROVE TypeOK'
  <2>1. data[At(t)][k] \o New(t) \in Value
    BY <1>e, <1>d DEF TypeOK
  <2>2. data' \in [State -> Map] /\ version' \in [State -> Nat]
    BY <1>4, <2>1, <1>e, <1>i DEF Update
  <2>3. QED
    BY <1>4, <2>2 DEF Update, Count, TypeOK
<1>5. ASSUME NEW t \in Task, NEW k \in Key, Remove(t, k) PROVE TypeOK'
  <2>1. data' \in [State -> Map] /\ version' \in [State -> Nat]
    BY <1>5, <1>e, <1>i DEF Remove
  <2>2. QED
    BY <1>5, <2>1 DEF Remove, Count, TypeOK
<1>6. ASSUME NEW t \in Task, SaveSnapshot(t) PROVE TypeOK'
  BY <1>6, <1>e, <1>x DEF SaveSnapshot, Goto, Count, TypeOK
<1>7. ASSUME NEW t \in Task, SavePush(t) PROVE TypeOK'
  <2>1. Trimmed(history[At(t)]) \in Seq(Map)
    BY <1>e DEF Trimmed, TypeOK
  <2>2. Append(Trimmed(history[At(t)]), working[t]) \in Seq(Map)
    BY <2>1 DEF TypeOK
  <2>3. history' \in [State -> Seq(Map)]
    BY <1>7, <2>2, <1>e DEF SavePush, TypeOK
  <2>4. QED
    BY <1>7, <2>3, <1>e DEF SavePush, Goto, TypeOK
<1>8. ASSUME NEW t \in Task, NEW d \in Snapshots(t), Restore(t, d)
      PROVE TypeOK'
  <2>1. d \in Map
    BY SnapshotMaps
  <2>2. data' \in [State -> Map] /\ version' \in [State -> Nat]
    BY <1>8, <2>1, <1>e, <1>r DEF Restore
  <2>3. QED
    BY SMTT(20), <1>8, <2>2 DEF Restore, Count, TypeOK
<1>9. ASSUME NEW t \in Task, TransactionVersion(t) PROVE TypeOK'
  BY <1>9, <1>e DEF TransactionVersion, Goto, Count, TypeOK
<1>10. ASSUME NEW t \in Task, TransactionExport(t) PROVE TypeOK'
  BY <1>10, <1>e, <1>x DEF TransactionExport, Goto, TypeOK
<1>11. ASSUME NEW t \in Task, NEW k \in Key, Stage(t, k) PROVE TypeOK'
  <2>1. working[t] \in Map /\ Reduce(k, working[t][k], New(t)) \in Value
    BY <1>e, <1>d DEF TypeOK
  <2>2. working' = [working EXCEPT ![t] =
                      [working[t] EXCEPT ![k] = Reduce(k, working[t][k], New(t))]]
    BY <1>11 DEF Stage
  <2>3. working' \in [Task -> Map]
    BY <2>1, <2>2, <1>d DEF TypeOK
  <2>4. QED
    BY <1>11, <2>3 DEF Stage, Count, TypeOK
<1>12. ASSUME NEW t \in Task, Rollback(t) PROVE TypeOK'
  BY <1>12, <1>e DEF Rollback, Drop, Goto, TypeOK
<1>13. ASSUME NEW t \in Task, CommitCheck(t) PROVE TypeOK'
  <2>1. CASE version[At(t)] = begun[t]
    BY <1>13, <2>1, <1>e DEF CommitCheck, Goto, TypeOK
  <2>2. CASE version[At(t)] # begun[t]
    <3>1. Drop(t) /\ UNCHANGED <<dataVars, history, calls, target, seen, stepVars>>
      BY <1>13, <2>2 DEF CommitCheck
    <3>2. QED
      BY <3>1, <1>e DEF Drop, Goto, TypeOK
  <2>3. QED
    BY <2>1, <2>2
<1>14. ASSUME NEW t \in Task, CommitReplace(t) PROVE TypeOK'
  <2>1. data' \in [State -> Map] /\ version' \in [State -> Nat]
    BY <1>14, <1>e, <1>r DEF CommitReplace, TypeOK
  <2>2. QED
    BY <1>14, <2>1, <1>e DEF CommitReplace, Drop, Goto, TypeOK
<1>15. CASE Export
  BY <1>15, <1>x DEF Export, TypeOK, State
<1>16. CASE MergeDone
  BY <1>16 DEF MergeDone, TypeOK
<1>17. ASSUME NEW b \in Branch, Fork(b) PROVE TypeOK'
  BY <1>17, <1>x DEF Fork, Goto, TypeOK, State, Task
<1>18. ASSUME NEW b \in Branch, Finish(b) PROVE TypeOK'
  BY <1>18 DEF Finish, Goto, TypeOK, Task
<1>19. ASSUME NEW k \in Key, MergeKey(k) PROVE TypeOK'
  BY <1>19, <1>d DEF MergeKey, TypeOK
<1>20. ASSUME NEW k \in Key, MergeWrite(k) PROVE TypeOK'
  <2>1. data' \in [State -> Map] /\ version' \in [State -> Nat]
    BY <1>20, <1>i, <1>u DEF MergeWrite, TypeOK, State
  <2>2. merge' \in [done: SUBSET Key, key: SUBSET Key, from: SUBSET Branch, value: Value]
    BY <1>20, <1>e DEF MergeWrite, NoMerge, TypeOK
  <2>3. QED
    BY <1>20, <2>1, <2>2 DEF MergeWrite, TypeOK
<1>21. ASSUME NEW k \in Key, NEW b \in Branch, MergeValue(k, b) PROVE TypeOK'
  <2>1. Reduce(k, merge.value, data[b][k]) \in Value
    BY <1>e, <1>d DEF TypeOK, State
  <2>2. QED
    BY <1>21, <2>1 DEF MergeValue, TypeOK
<1>22. CASE UNCHANGED vars
  BY <1>22 DEF vars, TypeOK
<1>23. QED
  BY <1>1, <1>2, <1>3, <1>4, <1>5, <1>6, <1>7, <1>8, <1>9, <1>10, <1>11, <1>12, <1>13,
     <1>14, <1>15, <1>16, <1>17, <1>18, <1>19, <1>20, <1>21, <1>22
     DEF Next, Superstep, Calls

-----------------------------------------------------------------------------
(* Versions. *)

\* A step keeps the version of a state, and then its map, or counts it up.
LEMMA VersionStep ==
  ASSUME TypeOK, [Next]_vars
  PROVE  \A s \in State :
           /\ version'[s] >= version[s]
           /\ version'[s] = version[s] =>
                data'[s] = data[s] \/ (s \in Branch /\ pc[s] = "unborn")
<1> DEFINE P == \A s \in State :
           /\ version'[s] >= version[s]
           /\ version'[s] = version[s] =>
                data'[s] = data[s] \/ (s \in Branch /\ pc[s] = "unborn")
<1> SUFFICES P
  OBVIOUS
<1>i. \A s \in State, k \in Key : \A v : Insert(s, k, v) => P
  BY DEF Insert, TypeOK
<1>r. \A s \in State : \A d : Replace(s, d) => P
  <2> SUFFICES ASSUME NEW s \in State, NEW d, Replace(s, d) PROVE P
    OBVIOUS
  <2>1. CASE version' = [version EXCEPT ![s] = @ + 1] /\ data' = [data EXCEPT ![s] = d]
    BY <2>1 DEF TypeOK
  <2>2. CASE UNCHANGED dataVars
    BY <2>2 DEF TypeOK, dataVars
  <2>3. QED
    BY <2>1, <2>2 DEF Replace
<1>u. UNCHANGED dataVars => P
  BY DEF dataVars, TypeOK
<1>a. \A t \in Task : At(t) \in State
  BY Values
<1>h. Shared \in State
  BY DEF State
<1>f. ASSUME NEW b \in Branch, Fork(b) PROVE P
  <2>1. b \in State
    BY DEF State
  <2>2. QED
    BY <1>f, <2>1 DEF Fork, TypeOK
<1>1. ASSUME NEW t \in Task, NEW k \in Key, SetWrite(t, k) PROVE P
  BY <1>1, <1>i, <1>u, <1>a DEF SetWrite
<1>2. ASSUME NEW t \in Task, NEW k \in Key, SetRaw(t, k) \/ Update(t, k) \/ Remove(t, k) PROVE P
  BY <1>2, <1>i, <1>a DEF SetRaw, Update, Remove
<1>3. ASSUME NEW t \in Task, NEW d \in Snapshots(t), Restore(t, d) PROVE P
  BY <1>3, <1>r, <1>a DEF Restore
<1>4. ASSUME NEW t \in Task, CommitReplace(t) PROVE P
  BY <1>4, <1>r, <1>a DEF CommitReplace
<1>5. ASSUME NEW k \in Key, MergeWrite(k) PROVE P
  BY <1>5, <1>i, <1>u, <1>h DEF MergeWrite
<1>6. ASSUME NEW t \in Task, NEW k \in Key, SetRead(t, k) \/ Stage(t, k) PROVE P
  BY <1>6, <1>u DEF SetRead, Stage
<1>7. ASSUME NEW t \in Task,
             SaveSnapshot(t) \/ SavePush(t) \/ TransactionVersion(t) \/ TransactionExport(t)
               \/ CommitCheck(t) \/ Rollback(t)
      PROVE P
  BY <1>7, <1>u DEF SaveSnapshot, SavePush, TransactionVersion, TransactionExport,
     CommitCheck, Rollback
<1>8. CASE Export \/ MergeDone \/ UNCHANGED vars
  BY <1>8, <1>u DEF Export, MergeDone, vars
<1>9. ASSUME NEW b \in Branch, Finish(b) PROVE P
  BY <1>9, <1>u DEF Finish
<1>10. ASSUME NEW k \in Key, NEW b \in Branch, MergeKey(k) \/ MergeValue(k, b) PROVE P
  BY <1>10, <1>u DEF MergeKey, MergeValue
<1>10a. ASSUME NEW k \in Key, MergeKey(k) PROVE P
  BY <1>10a, <1>u DEF MergeKey
<1> HIDE DEF P
<1>11. QED
  BY <1>f, <1>1, <1>2, <1>3, <1>4, <1>5, <1>6, <1>7, <1>8, <1>9, <1>10, <1>10a
     DEF Next, Superstep, Calls

VersionInv ==
  \A t \in Task :
    pc[t] \in {"exporting", "staging", "committing"} =>
      /\ begun[t] <= version[At(t)]
      /\ Transaction(t) /\ version[At(t)] = begun[t] => data[At(t)] = base[t]

\* What a step does to the transaction of a task.
LEMMA TransactionStep ==
  ASSUME TypeOK, [Next]_vars, NEW t \in Task
  PROVE  \/ pc'[t] \notin {"exporting", "staging", "committing"}
         \/ pc'[t] = pc[t] /\ begun'[t] = begun[t] /\ base'[t] = base[t]
         \/ pc'[t] = "exporting" /\ begun'[t] = version[At(t)]
         \/ /\ pc[t] = "exporting" /\ pc'[t] = "staging"
            /\ begun'[t] = begun[t] /\ base'[t] = data[At(t)] /\ UNCHANGED dataVars
         \/ /\ pc[t] = "staging" /\ pc'[t] = "committing"
            /\ begun'[t] = begun[t] /\ base'[t] = base[t]
<1> DEFINE P ==
         \/ pc'[t] \notin {"exporting", "staging", "committing"}
         \/ pc'[t] = pc[t] /\ begun'[t] = begun[t] /\ base'[t] = base[t]
         \/ pc'[t] = "exporting" /\ begun'[t] = version[At(t)]
         \/ /\ pc[t] = "exporting" /\ pc'[t] = "staging"
            /\ begun'[t] = begun[t] /\ base'[t] = data[At(t)] /\ UNCHANGED dataVars
         \/ /\ pc[t] = "staging" /\ pc'[t] = "committing"
            /\ begun'[t] = begun[t] /\ base'[t] = base[t]
<1> SUFFICES P
  OBVIOUS
<1> USE DEF Goto, txnVars, TypeOK
<1>1. ASSUME NEW u \in Task, NEW k \in Key,
             SetRead(u, k) \/ SetWrite(u, k) \/ SetRaw(u, k) \/ Update(u, k) \/ Remove(u, k)
               \/ Stage(u, k)
      PROVE P
  BY <1>1 DEF SetRead, SetWrite, SetRaw, Update, Remove, Stage
<1>2. ASSUME NEW u \in Task, SaveSnapshot(u) \/ SavePush(u) PROVE P
  BY <1>2 DEF SaveSnapshot, SavePush
<1>3. ASSUME NEW u \in Task, NEW d \in Snapshots(u), Restore(u, d) PROVE P
  BY <1>3 DEF Restore
<1>4. ASSUME NEW u \in Task, TransactionVersion(u) PROVE P
  BY <1>4 DEF TransactionVersion
<1>5. ASSUME NEW u \in Task, TransactionExport(u) PROVE P
  BY <1>5 DEF TransactionExport
<1>6. ASSUME NEW u \in Task, CommitCheck(u) PROVE P
  <2>1. CASE version[At(u)] = begun[u]
    BY <1>6, <2>1 DEF CommitCheck
  <2>2. CASE version[At(u)] # begun[u]
    <3>1. Drop(u)
      BY <1>6, <2>2 DEF CommitCheck
    <3>2. QED
      BY <3>1 DEF Drop
  <2>3. QED
    BY <2>1, <2>2
<1>7. ASSUME NEW u \in Task, Rollback(u) \/ CommitReplace(u) PROVE P
  <2>1. Drop(u)
    BY <1>7 DEF Rollback, CommitReplace
  <2>2. QED
    BY <2>1 DEF Drop
<1>8. CASE Export \/ MergeDone \/ UNCHANGED vars
  BY <1>8 DEF Export, MergeDone, vars
<1>9. ASSUME NEW b \in Branch, Fork(b) \/ Finish(b) PROVE P
  BY <1>9 DEF Fork, Finish
<1>10. ASSUME NEW k \in Key, MergeKey(k) \/ MergeWrite(k) PROVE P
  BY <1>10 DEF MergeKey, MergeWrite
<1>10a. ASSUME NEW k \in Key, NEW b \in Branch, MergeValue(k, b) PROVE P
  BY <1>10a DEF MergeValue
<1> HIDE DEF P
<1>11. QED
  BY <1>1, <1>2, <1>3, <1>4, <1>5, <1>6, <1>7, <1>8, <1>9, <1>10, <1>10a
     DEF Next, Superstep, Calls

LEMMA VersionInvStep ==
  ASSUME TypeOK, VersionInv, [Next]_vars
  PROVE  VersionInv'
<1> SUFFICES ASSUME NEW t \in Task, pc'[t] \in {"exporting", "staging", "committing"}
             PROVE  /\ begun'[t] <= version'[At(t)]
                    /\ Transaction(t)' /\ version'[At(t)] = begun'[t] => data'[At(t)] = base'[t]
  BY DEF VersionInv, At
<1> DEFINE s == At(t)
<1>1. s \in State
  BY Values
<1>2. version[s] \in Nat /\ version'[s] \in Nat /\ begun[t] \in Nat
  <2>1. TypeOK'
    BY TypeStep
  <2>2. QED
    BY <1>1, <2>1 DEF TypeOK
<1>3. /\ version'[s] >= version[s]
      /\ version'[s] = version[s] => data'[s] = data[s] \/ (s \in Branch /\ pc[s] = "unborn")
  BY <1>1, VersionStep
<1>4. s \in Branch => s = t
  BY StateAssumption DEF At, Task
<1>5. CASE pc'[t] = pc[t] /\ begun'[t] = begun[t] /\ base'[t] = base[t]
  BY <1>2, <1>3, <1>4, <1>5 DEF VersionInv, Transaction
<1>6. CASE pc'[t] = "exporting" /\ begun'[t] = version[At(t)]
  BY <1>2, <1>3, <1>6 DEF Transaction
<1>7. CASE /\ pc[t] = "exporting" /\ pc'[t] = "staging"
           /\ begun'[t] = begun[t] /\ base'[t] = data[At(t)] /\ UNCHANGED dataVars
  BY <1>7 DEF VersionInv, dataVars
<1>8. CASE /\ pc[t] = "staging" /\ pc'[t] = "committing"
           /\ begun'[t] = begun[t] /\ base'[t] = base[t]
  BY <1>2, <1>3, <1>4, <1>8 DEF VersionInv, Transaction
<1>9. QED
  BY <1>5, <1>6, <1>7, <1>8, TransactionStep

-----------------------------------------------------------------------------
(* Limits. *)

\* A key that fits takes no map over the limit;
LEMMA InsertFits ==
  ASSUME NEW d \in Map, NEW k \in Key, NEW v \in Value, Within(d), Fits(d, k)
  PROVE  Within([d EXCEPT ![k] = v])
<1> DEFINE e == [d EXCEPT ![k] = v]
<1>1. Present(e) \subseteq Present(d) \cup {k}
  BY DEF Present, Map
<1>2. IsFiniteSet(Present(d))
  BY FS_Subset, StateAssumption DEF Present
<1>3. /\ IsFiniteSet(Present(d) \cup {k})
      /\ Cardinality(Present(d) \cup {k}) =
           IF k \in Present(d) THEN Cardinality(Present(d)) ELSE Cardinality(Present(d)) + 1
  BY <1>2, FS_AddElement
<1>4. Cardinality(Present(e)) <= Cardinality(Present(d) \cup {k})
  BY <1>1, <1>3, FS_Subset
<1>5. /\ Cardinality(Present(d)) \in Nat /\ Cardinality(Present(e)) \in Nat
      /\ Cardinality(Present(d) \cup {k}) \in Nat
  BY <1>1, <1>2, <1>3, FS_Subset, FS_CardinalityType
<1>6. CASE k \in Present(d) /\ ~MapFits(d)
  <2>1. PICK g \in Given : Present(d) \subseteq Present(g)
    BY <1>6 DEF Within
  <2>2. Present(e) \subseteq Present(g)
    BY <1>1, <1>6, <2>1
  <2>3. QED
    BY <2>2 DEF Within
<1>7. CASE k \notin Present(d) \/ MapFits(d)
  <2>1. Cardinality(Present(d) \cup {k}) <= MaxKeys
    BY <1>3, <1>5, <1>7, StateAssumption DEF MapFits, Fits
  <2>2. MapFits(e)
    BY <1>4, <1>5, <2>1, StateAssumption DEF MapFits
  <2>3. QED
    BY <2>2 DEF Within
<1>8. QED
  BY <1>6, <1>7

\* nor does the empty map.
LEMMA EmptyFits == MapFits(Empty) /\ Within(Empty)
<1>1. Present(Empty) = {}
  BY DEF Present, Empty
<1>2. MapFits(Empty)
  BY <1>1, FS_EmptySet, StateAssumption DEF MapFits
<1>3. QED
  BY <1>2 DEF Within

MapsFit == \A s \in State : Within(data[s])
HistoryFits ==
  \A s \in State :
    /\ Len(history[s]) <= IF MaxHistory = 0 THEN 1 ELSE MaxHistory
    /\ \A i \in DOMAIN history[s] : Within(history[s][i])
WorkingFits == \A t \in Task : Within(working[t])

LEMMA LimitsAre == LimitsKept <=> MapsFit /\ HistoryFits /\ WorkingFits
BY DEF LimitsKept, MapsFit, HistoryFits, WorkingFits

LEMMA MapsFitStep ==
  ASSUME TypeOK, LimitsKept, [Next]_vars
  PROVE  MapsFit'
<1> SUFFICES MapsFit'
  OBVIOUS
<1>m. MapsFit /\ HistoryFits /\ WorkingFits
  BY LimitsAre
<1>i. \A s \in State, k \in Key, v \in Value : Fits(data[s], k) /\ Insert(s, k, v) => MapsFit'
  <2> SUFFICES ASSUME NEW s \in State, NEW k \in Key, NEW v \in Value,
                      Fits(data[s], k), Insert(s, k, v)
               PROVE MapsFit'
    OBVIOUS
  <2>1. data' = [data EXCEPT ![s] = [data[s] EXCEPT ![k] = v]]
    BY DEF Insert
  <2>2. Within([data[s] EXCEPT ![k] = v])
    BY <1>m, InsertFits DEF TypeOK, MapsFit
  <2>3. QED
    BY <1>m, <2>1, <2>2 DEF TypeOK, MapsFit, Within, MapFits, Present
<1>r. \A s \in State : \A d : Replace(s, d) => MapsFit'
  <2> SUFFICES ASSUME NEW s \in State, NEW d, Replace(s, d) PROVE MapsFit'
    OBVIOUS
  <2>1. CASE MapFits(d) /\ data' = [data EXCEPT ![s] = d]
    <3>1. Within(d)
      BY <2>1 DEF Within
    <3>2. QED
      BY <1>m, <2>1, <3>1 DEF TypeOK, MapsFit, Within, MapFits, Present
  <2>2. CASE UNCHANGED dataVars
    BY <1>m, <2>2 DEF dataVars, MapsFit, Within, MapFits, Present
  <2>3. QED
    BY <2>1, <2>2 DEF Replace
<1>u. UNCHANGED dataVars => MapsFit'
  BY <1>m DEF dataVars, MapsFit, Within, MapFits, Present
<1>a. /\ \A t \in Task : At(t) \in State /\ New(t) \in Value
      /\ Shared \in State /\ <<>> \in Value
  BY Values, NewValue DEF State, Value
<1>c. \A v, u \in Value, k \in Key : v \o u \in Value /\ Reduce(k, v, u) \in Value
  BY Values DEF Value
<1>v. \A s \in State, k \in Key : data[s][k] \in Value
  BY DEF TypeOK, Map
<1>f. ASSUME NEW b \in Branch, Fork(b) PROVE MapsFit'
  <2>1. PICK d \in Exports(Shared) : data' = [data EXCEPT ![b] = d]
    BY <1>f DEF Fork
  <2>2. Within(d)
    BY <2>1, <1>m, <1>a, EmptyFits DEF Exports, MapsFit
  <2>3. QED
    BY <1>m, <2>1, <2>2 DEF TypeOK, MapsFit, Within, MapFits, Present
<1>1. ASSUME NEW t \in Task, NEW k \in Key, SetWrite(t, k) PROVE MapsFit'
  <2>1. NextValue(t, k) \in Value
    BY <1>a, <1>c DEF NextValue, TypeOK
  <2>2. CASE Fits(data[At(t)], k) /\ Insert(At(t), k, NextValue(t, k))
    BY <2>1, <2>2, <1>i, <1>a
  <2>3. CASE UNCHANGED dataVars
    BY <2>3, <1>u
  <2>4. QED
    BY <1>1, <2>2, <2>3 DEF SetWrite
<1>2. ASSUME NEW t \in Task, NEW k \in Key, SetRaw(t, k) PROVE MapsFit'
  BY <1>2, <1>i, <1>a DEF SetRaw
<1>3. ASSUME NEW t \in Task, NEW k \in Key, Update(t, k) PROVE MapsFit'
  BY <1>3, <1>i, <1>a, <1>c, <1>v DEF Update, Fits
<1>4. ASSUME NEW t \in Task, NEW k \in Key, Remove(t, k) PROVE MapsFit'
  BY <1>4, <1>i, <1>a DEF Remove, Fits
<1>5. ASSUME NEW t \in Task, NEW d \in Snapshots(t), Restore(t, d)
      PROVE MapsFit'
  BY <1>5, <1>r, <1>a DEF Restore
<1>6. ASSUME NEW t \in Task, CommitReplace(t) PROVE MapsFit'
  BY <1>6, <1>r, <1>a DEF CommitReplace
<1>7. ASSUME NEW k \in Key, MergeWrite(k) PROVE MapsFit'
  <2>1. merge.value \in Value
    BY DEF TypeOK
  <2>2. QED
    BY <1>7, <2>1, <1>i, <1>u, <1>a DEF MergeWrite
<1>8. ASSUME NEW t \in Task, NEW k \in Key, SetRead(t, k) \/ Stage(t, k) PROVE MapsFit'
  BY <1>8, <1>u DEF SetRead, Stage
<1>9. ASSUME NEW t \in Task,
             SaveSnapshot(t) \/ SavePush(t) \/ TransactionVersion(t) \/ TransactionExport(t)
               \/ CommitCheck(t) \/ Rollback(t)
      PROVE MapsFit'
  BY <1>9, <1>u DEF SaveSnapshot, SavePush, TransactionVersion, TransactionExport,
     CommitCheck, Rollback
<1>10. CASE Export \/ MergeDone \/ UNCHANGED vars
  BY <1>10, <1>u DEF Export, MergeDone, vars
<1>11. ASSUME NEW b \in Branch, Finish(b) PROVE MapsFit'
  BY <1>11, <1>u DEF Finish
<1>12. ASSUME NEW k \in Key, MergeKey(k) PROVE MapsFit'
  BY <1>12, <1>u DEF MergeKey
<1>13. ASSUME NEW k \in Key, NEW b \in Branch, MergeValue(k, b) PROVE MapsFit'
  BY <1>13, <1>u DEF MergeValue
<1>14. QED
  BY <1>f, <1>1, <1>2, <1>3, <1>4, <1>5, <1>6, <1>7, <1>8, <1>9, <1>10, <1>11, <1>12, <1>13
     DEF Next, Superstep, Calls

\* What a step does to histories and working copies.
HistoryEffect ==
  \/ UNCHANGED history
  \/ \E t \in Task : history' = [history EXCEPT ![At(t)] = Append(Trimmed(@), working[t])]
WorkingEffect ==
  \A t \in Task :
    \/ working'[t] \in {working[t], Empty, data[At(t)]}
    \/ \E k \in Key :
         /\ pc[t] = "staging" /\ Fits(working[t], k)
         /\ working'[t] = [working[t] EXCEPT ![k] = Reduce(k, @, New(t))]

LEMMA CopyStep ==
  ASSUME TypeOK, [Next]_vars
  PROVE  HistoryEffect /\ WorkingEffect
<1> DEFINE P == HistoryEffect /\ WorkingEffect
<1> SUFFICES P
  OBVIOUS
<1> USE DEF HistoryEffect, WorkingEffect
<1> USE DEF txnVars, TypeOK
<1>1. ASSUME NEW u \in Task, NEW k \in Key,
             SetRead(u, k) \/ SetWrite(u, k) \/ SetRaw(u, k) \/ Update(u, k) \/ Remove(u, k)
      PROVE P
  BY <1>1 DEF SetRead, SetWrite, SetRaw, Update, Remove
<1>s. ASSUME NEW u \in Task, NEW k \in Key, Stage(u, k) PROVE P
  <2>1. working' = [working EXCEPT ![u] = [working[u] EXCEPT ![k] = Reduce(k, @, New(u))]]
    BY <1>s DEF Stage
  <2>2. QED
    BY <1>s, <2>1 DEF Stage
<1>2. ASSUME NEW u \in Task, SaveSnapshot(u) PROVE P
  BY <1>2 DEF SaveSnapshot, Exports
<1>2a. ASSUME NEW u \in Task, SavePush(u) PROVE P
  BY <1>2a DEF SavePush
<1>3. ASSUME NEW u \in Task, NEW d \in Snapshots(u), Restore(u, d) PROVE P
  BY <1>3 DEF Restore
<1>4. ASSUME NEW u \in Task, TransactionVersion(u) PROVE P
  BY <1>4 DEF TransactionVersion
<1>5. ASSUME NEW u \in Task, TransactionExport(u) PROVE P
  BY <1>5 DEF TransactionExport, Exports
<1>6. ASSUME NEW u \in Task, CommitCheck(u) PROVE P
  <2>1. UNCHANGED history /\ (UNCHANGED txnVars \/ Drop(u))
    BY <1>6 DEF CommitCheck
  <2>2. QED
    BY <2>1 DEF Drop
<1>7. ASSUME NEW u \in Task, Rollback(u) \/ CommitReplace(u) PROVE P
  <2>1. Drop(u) /\ UNCHANGED history
    BY <1>7 DEF Rollback, CommitReplace
  <2>2. QED
    BY <2>1 DEF Drop
<1>8. CASE Export \/ MergeDone \/ UNCHANGED vars
  BY <1>8 DEF Export, MergeDone, vars
<1>9. ASSUME NEW b \in Branch, Fork(b) \/ Finish(b) PROVE P
  BY <1>9 DEF Fork, Finish
<1>10. ASSUME NEW k \in Key, MergeKey(k) \/ MergeWrite(k) PROVE P
  BY <1>10 DEF MergeKey, MergeWrite
<1>10a. ASSUME NEW k \in Key, NEW b \in Branch, MergeValue(k, b) PROVE P
  BY <1>10a DEF MergeValue
<1> HIDE DEF P
<1>11. QED
  BY <1>1, <1>s, <1>2, <1>2a, <1>3, <1>4, <1>5, <1>6, <1>7, <1>8, <1>9, <1>10, <1>10a
     DEF Next, Superstep, Calls

LEMMA TrimmedIs ==
  ASSUME NEW h \in Seq(Map), NEW d \in Map, Within(d),
         Len(h) <= IF MaxHistory = 0 THEN 1 ELSE MaxHistory,
         \A i \in DOMAIN h : Within(h[i])
  PROVE  /\ Len(Append(Trimmed(h), d)) <= IF MaxHistory = 0 THEN 1 ELSE MaxHistory
         /\ \A i \in DOMAIN Append(Trimmed(h), d) : Within(Append(Trimmed(h), d)[i])
<1> DEFINE g == Trimmed(h)
<1>1. g \in Seq(Map) /\ \A i \in DOMAIN g : Within(g[i])
  BY DEF Trimmed
<1>2. Len(g) + 1 <= IF MaxHistory = 0 THEN 1 ELSE MaxHistory
  BY StateAssumption DEF Trimmed
<1> HIDE DEF g
<1>3. Len(Append(g, d)) = Len(g) + 1 /\ DOMAIN Append(g, d) = 1 .. Len(g) + 1
  BY <1>1
<1>4. \A i \in DOMAIN Append(g, d) : Within(Append(g, d)[i])
  <2> SUFFICES ASSUME NEW i \in DOMAIN Append(g, d) PROVE Within(Append(g, d)[i])
    OBVIOUS
  <2>1. CASE i = Len(g) + 1
    BY <1>1, <2>1
  <2>2. CASE i # Len(g) + 1
    <3>1. i \in DOMAIN g /\ Append(g, d)[i] = g[i]
      BY <1>1, <1>3, <2>2
    <3>2. QED
      BY <1>1, <3>1
  <2>3. QED
    BY <2>1, <2>2
<1>5. QED
  BY <1>2, <1>3, <1>4 DEF g

LEMMA LimitsStep ==
  ASSUME TypeOK, LimitsKept, [Next]_vars
  PROVE  LimitsKept'
<1>m. MapsFit /\ HistoryFits /\ WorkingFits
  BY LimitsAre
<1>1. MapsFit'
  BY MapsFitStep
<1>2. HistoryFits'
  <2>1. CASE UNCHANGED history
    <3>1. ASSUME NEW s \in State
          PROVE  /\ Len(history'[s]) <= IF MaxHistory = 0 THEN 1 ELSE MaxHistory
                 /\ \A i \in DOMAIN history'[s] : Within(history'[s][i])
      BY <1>m, <2>1 DEF HistoryFits
    <3>2. QED
      BY <3>1 DEF HistoryFits, Within, MapFits, Present
  <2>2. ASSUME NEW t \in Task,
               history' = [history EXCEPT ![At(t)] = Append(Trimmed(@), working[t])]
        PROVE HistoryFits'
    <3>1. /\ Len(Append(Trimmed(history[At(t)]), working[t]))
               <= IF MaxHistory = 0 THEN 1 ELSE MaxHistory
          /\ \A i \in DOMAIN Append(Trimmed(history[At(t)]), working[t]) :
               Within(Append(Trimmed(history[At(t)]), working[t])[i])
      BY <1>m, TrimmedIs, Values DEF HistoryFits, WorkingFits, TypeOK
    <3>2. \A s \in State : s # At(t) => history'[s] = history[s]
      BY <2>2 DEF TypeOK
    <3>3. history'[At(t)] = Append(Trimmed(history[At(t)]), working[t])
      BY <2>2, Values DEF TypeOK
    <3>4. ASSUME NEW s \in State
          PROVE  /\ Len(history'[s]) <= IF MaxHistory = 0 THEN 1 ELSE MaxHistory
                 /\ \A i \in DOMAIN history'[s] : Within(history'[s][i])
      <4>1. CASE s = At(t)
        BY <3>1, <3>3, <4>1
      <4>2. CASE s # At(t)
        BY <1>m, <3>2, <4>2 DEF HistoryFits
      <4>3. QED
        BY <4>1, <4>2
    <3>5. QED
      BY <3>4 DEF HistoryFits, Within, MapFits, Present
  <2>3. QED
    BY <2>1, <2>2, CopyStep DEF HistoryEffect
<1>3. WorkingFits'
  <2> SUFFICES ASSUME NEW t \in Task PROVE Within(working'[t])
    BY DEF WorkingFits, Within, MapFits, Present
  <2>1. Within(working[t]) /\ Within(Empty) /\ Within(data[At(t)])
    BY <1>m, EmptyFits, Values DEF WorkingFits, MapsFit
  <2>2. ASSUME NEW k \in Key, Fits(working[t], k),
               working'[t] = [working[t] EXCEPT ![k] = Reduce(k, @, New(t))]
        PROVE Within(working'[t])
    <3>1. working[t] \in Map /\ Reduce(k, working[t][k], New(t)) \in Value
      BY Values, NewValue DEF TypeOK, Map
    <3>2. QED
      BY <2>1, <2>2, <3>1, InsertFits
  <2>3. QED
    BY <2>1, <2>2, CopyStep DEF WorkingEffect
<1>4. QED
  BY <1>1, <1>2, <1>3 DEF LimitsKept, MapsFit, HistoryFits, WorkingFits

-----------------------------------------------------------------------------
(* The merge. *)

MergeInv ==
  /\ merge.key # {} => AllJoined
  /\ merge.key = {} => merge.from = {}
  /\ \A k, l \in merge.key : k = l
  /\ \A k \in merge.key :
       /\ merge.from \subseteq Changed(k)
       /\ \A b \in merge.from, c \in Changed(k) \ merge.from : Rank[b] <= Rank[c]
  /\ LastBranchWins

\* Once all branches are joined nothing touches their forks.
LEMMA JoinedStay ==
  ASSUME TypeOK, AllJoined, [Next]_vars
  PROVE  \A b \in Branch : pc'[b] = "finished" /\ data'[b] = data[b]
<1> DEFINE P == \A b \in Branch : pc'[b] = "finished" /\ data'[b] = data[b]
<1> SUFFICES P
  OBVIOUS
<1>a. /\ \A b \in Branch : pc[b] = "finished" /\ b # Shared /\ b \in Task /\ b \in State
      /\ \A t \in Task : pc[t] # "finished" => At(t) = Shared
      /\ Shared \in State
  BY StateAssumption DEF AllJoined, At, Task, State
<1>i. \A k \in Key : \A v : Insert(Shared, k, v) => \A b \in Branch : data'[b] = data[b]
  BY <1>a DEF Insert, TypeOK
<1>r. \A d : Replace(Shared, d) => \A b \in Branch : data'[b] = data[b]
  BY <1>a DEF Replace, TypeOK, dataVars
<1>g. \A t \in Task : \A l : pc[t] # "finished" /\ Goto(t, l) => \A b \in Branch : pc'[b] = "finished"
  BY <1>a DEF Goto, TypeOK
<1> USE DEF dataVars
<1>1. ASSUME NEW t \in Task, NEW k \in Key, SetRead(t, k) \/ SetWrite(t, k) PROVE P
  BY <1>1, <1>a, <1>i, <1>g DEF SetRead, SetWrite, May
<1>2. ASSUME NEW t \in Task, NEW k \in Key, SetRaw(t, k) \/ Update(t, k) \/ Remove(t, k) \/ Stage(t, k)
      PROVE P
  BY <1>2, <1>a, <1>i DEF SetRaw, Update, Remove, Stage, May
<1>3. ASSUME NEW t \in Task,
             SaveSnapshot(t) \/ SavePush(t) \/ TransactionVersion(t) \/ TransactionExport(t)
      PROVE P
  BY <1>3, <1>a, <1>g DEF SaveSnapshot, SavePush, TransactionVersion, TransactionExport, May
<1>4. ASSUME NEW t \in Task, NEW d \in Snapshots(t), Restore(t, d) PROVE P
  BY <1>4, <1>a, <1>r DEF Restore, May
<1>5. ASSUME NEW t \in Task, CommitCheck(t) \/ CommitReplace(t) \/ Rollback(t) PROVE P
  BY <1>5, <1>a, <1>g, <1>r DEF CommitCheck, CommitReplace, Rollback, Drop
<1>6. CASE Export \/ MergeDone \/ UNCHANGED vars
  BY <1>6, <1>a DEF Export, MergeDone, vars
<1>7. ASSUME NEW b \in Branch, Fork(b) \/ Finish(b) PROVE P
  BY <1>7, <1>a DEF Fork, Finish
<1>8. ASSUME NEW k \in Key, MergeKey(k) \/ MergeWrite(k) PROVE P
  BY <1>8, <1>a, <1>i DEF MergeKey, MergeWrite
<1>9. ASSUME NEW k \in Key, NEW b \in Branch, MergeValue(k, b) PROVE P
  BY <1>9, <1>a DEF MergeValue
<1>10. QED
  BY <1>1, <1>2, <1>3, <1>4, <1>5, <1>6, <1>7, <1>8, <1>9 DEF Next, Superstep, Calls

\* A call of a task leaves the superstep alone.
LEMMA CallStep ==
  ASSUME NEW t \in Task, Calls(t)
  PROVE  UNCHANGED stepVars
BY DEF Calls, SetRead, SetWrite, SetRaw, Update, Remove, Stage, SaveSnapshot, SavePush, Restore,
   TransactionVersion, TransactionExport, CommitCheck, CommitReplace, Rollback

LEMMA ReduceEnds ==
  ASSUME NEW k \in Key, NEW v \in Value, NEW u \in Value
  PROVE  EndsWith(Reduce(k, v, u), u)
<1>1. CASE k \in Appends
  <2>1. Len(v) \in 0 .. Len(v \o u) /\ Len(v \o u) = Len(v) + Len(u)
    BY DEF Value
  <2>2. u = SubSeq(v \o u, Len(v) + 1, Len(v \o u))
    BY <2>1 DEF Value
  <2>3. QED
    BY <1>1, <2>1, <2>2 DEF Reduce, EndsWith
<1>2. CASE k \notin Appends
  <2>1. 0 \in 0 .. Len(u) /\ u = SubSeq(u, 0 + 1, Len(u))
    BY DEF Value
  <2>2. QED
    BY <1>2, <2>1 DEF Reduce, EndsWith
<1>3. QED
  BY <1>1, <1>2

LEMMA MergeStep ==
  ASSUME TypeOK, MergeInv, [Next]_vars
  PROVE  MergeInv'
<1>j. AllJoined => \A b \in Branch : pc'[b] = "finished" /\ data'[b] = data[b]
  BY JoinedStay
<1>u. UNCHANGED stepVars => MergeInv'
  <2> SUFFICES ASSUME UNCHANGED stepVars PROVE MergeInv'
    OBVIOUS
  <2>1. phase' = phase /\ snapshot' = snapshot /\ merge' = merge
    BY DEF stepVars
  <2>2. CASE merge.key = {}
    BY <2>1, <2>2 DEF MergeInv, LastBranchWins
  <2>3. CASE AllJoined
    <3>1. AllJoined'
      BY <2>1, <2>3, <1>j DEF AllJoined
    <3>2. \A k \in Key : Changed(k)' = Changed(k)
      BY <2>1, <2>3, <1>j DEF Changed
    <3>3. merge.key \subseteq Key /\ merge.from \subseteq Branch
      BY DEF TypeOK
    <3>4. LastBranchWins'
      BY <2>1, <2>3, <3>3, <1>j DEF MergeInv, LastBranchWins
    <3>5. QED
      BY <2>1, <3>1, <3>2, <3>3, <3>4 DEF MergeInv
  <2>4. QED
    BY <2>2, <2>3 DEF MergeInv
<1>1. ASSUME NEW t \in Task, Calls(t) PROVE MergeInv'
  BY <1>1, <1>u, CallStep
<1>2. CASE Export \/ MergeDone
  <2>1. merge' = merge /\ merge.key = {}
    BY <1>2 DEF Export, MergeDone, MergeInv, AllJoined
  <2>2. QED
    BY <2>1 DEF MergeInv, LastBranchWins
<1>3. ASSUME NEW b \in Branch, Fork(b) \/ Finish(b) PROVE MergeInv'
  BY <1>3, <1>u DEF Fork, Finish
<1>4. ASSUME NEW k \in Key, MergeKey(k) PROVE MergeInv'
  <2>1. merge'.key = {k} /\ merge'.from = {}
    BY <1>4 DEF MergeKey, MergeInv, TypeOK
  <2>2. AllJoined'
    BY <1>4, <1>j DEF MergeKey, AllJoined
  <2>3. QED
    BY <2>1, <2>2 DEF MergeInv, LastBranchWins
<1>5. ASSUME NEW k \in Key, MergeWrite(k) PROVE MergeInv'
  <2>1. merge'.key = {} /\ merge'.from = {}
    BY <1>5 DEF MergeWrite, NoMerge
  <2>2. QED
    BY <2>1 DEF MergeInv, LastBranchWins
<1>6. ASSUME NEW k \in Key, NEW b \in Branch, MergeValue(k, b) PROVE MergeInv'
  <2>1. /\ AllJoined /\ merge.key = {k} /\ b \in Changed(k) \ merge.from
        /\ \A c \in Changed(k) \ merge.from : Rank[b] <= Rank[c]
        /\ snapshot' = snapshot /\ phase' = phase
    BY <1>6 DEF MergeValue
  <2>2. /\ merge'.key = {k} /\ merge'.from = merge.from \cup {b}
        /\ merge'.value = Reduce(k, merge.value, data[b][k])
    BY <1>6 DEF MergeValue, TypeOK
  <2>3. AllJoined'
    BY <2>1, <1>j DEF AllJoined
  <2>4. Changed(k)' = Changed(k)
    BY <2>1, <1>j DEF Changed
  <2>5. \A c \in merge.from : Rank[c] \in Nat /\ Rank[b] \in Nat /\ Rank[c] <= Rank[b] /\ Rank[c] # Rank[b]
    BY <2>1, StateAssumption DEF MergeInv, TypeOK
  <2>6. EndsWith(merge'.value, data'[b][k])
    <3>1. data[b][k] \in Value /\ merge.value \in Value /\ data'[b] = data[b]
      BY <2>1, <1>j DEF TypeOK, State, Map
    <3>2. QED
      BY <3>1, <2>2, ReduceEnds
  <2>7. LastBranchWins'
    <3> SUFFICES ASSUME NEW a \in merge'.from, \A c \in merge'.from : Rank[c] <= Rank[a]
                 PROVE EndsWith(merge'.value, data'[a][k])
      BY <2>2 DEF LastBranchWins, EndsWith
    <3>1. a = b
      BY <2>2, <2>5
    <3>2. QED
      BY <3>1, <2>6
  <2>8. /\ merge'.from \subseteq Changed(k)
        /\ \A a \in merge'.from, c \in Changed(k) \ merge'.from : Rank[a] <= Rank[c]
    BY <2>1, <2>2 DEF MergeInv
  <2>9. QED
    BY <2>2, <2>3, <2>4, <2>7, <2>8 DEF MergeInv
<1>7. CASE UNCHANGED vars
  BY <1>7, <1>u DEF vars
<1>8. QED
  BY <1>1, <1>2, <1>3, <1>4, <1>5, <1>6, <1>7 DEF Next, Superstep

-----------------------------------------------------------------------------
(* Isolation. *)

\* Nothing of a branch is in a value, in a map.
Clean(v, b) == \A i \in DOMAIN v : v[i][1] # b
CleanMap(d, b) == \A k \in Key : Clean(d[k], b)

\* A map nobody's writes are in but those of the state it comes from.
LEMMA GivenClean == \A d \in Given \cup Outside, b \in Branch : CleanMap(d, b)
<1> SUFFICES ASSUME NEW d \in Given \cup Outside, NEW b \in Branch, NEW k \in Key
             PROVE  Clean(d[k], b)
  BY DEF CleanMap
<1>1. d[k] \in Seq({Shared} \X Nat) /\ b # Shared
  BY StateAssumption DEF Task
<1>2. \A i \in DOMAIN d[k] : d[k][i] \in {Shared} \X Nat
  BY <1>1
<1>3. QED
  BY <1>1, <1>2 DEF Clean

IsolationInv ==
  merge.done = {} =>
    \A b \in Branch :
      /\ \A s \in State \ {b} :
           CleanMap(data[s], b) /\ \A i \in DOMAIN history[s] : CleanMap(history[s][i], b)
      /\ \A t \in Task \ {b} : Clean(seen[t], b) /\ CleanMap(working[t], b)

LEMMA CleanValues ==
  /\ \A v, u \in Value : \A b : Clean(v, b) /\ Clean(u, b) => Clean(v \o u, b)
  /\ \A k, v, u : \A b : v \in Value /\ u \in Value /\ Clean(v, b) /\ Clean(u, b)
                         => Clean(Reduce(k, v, u), b)
  /\ \A t \in Task : \A b : t # b => Clean(New(t), b)
  /\ \A b : Clean(<<>>, b) /\ CleanMap(Empty, b)
<1>1. ASSUME NEW v \in Value, NEW u \in Value, NEW b, Clean(v, b), Clean(u, b)
      PROVE Clean(v \o u, b)
  <2> SUFFICES ASSUME NEW i \in DOMAIN (v \o u) PROVE (v \o u)[i][1] # b
    BY DEF Clean
  <2>1. CASE i \in DOMAIN v
    <3>1. (v \o u)[i] = v[i]
      BY <2>1 DEF Value
    <3>2. QED
      BY <1>1, <2>1, <3>1 DEF Clean
  <2>2. CASE i \notin DOMAIN v
    <3>1. i - Len(v) \in DOMAIN u /\ (v \o u)[i] = u[i - Len(v)]
      BY <2>2 DEF Value
    <3>2. QED
      BY <1>1, <3>1 DEF Clean
  <2>3. QED
    BY <2>1, <2>2
<1>2. \A t \in Task : \A b : t # b => Clean(New(t), b)
  BY DEF Clean, New
<1>3. \A b : Clean(<<>>, b) /\ CleanMap(Empty, b)
  BY DEF Clean, CleanMap, Empty
<1>4. QED
  BY <1>1, <1>2, <1>3 DEF Reduce

LEMMA IsolationStep ==
  ASSUME TypeOK, IsolationInv, [Next]_vars
  PROVE  IsolationInv'
<1> SUFFICES ASSUME merge'.done = {}, NEW b \in Branch
             PROVE  /\ \A s \in State \ {b} :
                         /\ CleanMap(data'[s], b)
                         /\ \A i \in DOMAIN history'[s] : CleanMap(history'[s][i], b)
                    /\ \A t \in Task \ {b} : Clean(seen'[t], b) /\ CleanMap(working'[t], b)
  BY DEF IsolationInv, CleanMap, Clean
<1> DEFINE D == \A s \in State \ {b} : CleanMap(data'[s], b)
           H == \A s \in State \ {b} : \A i \in DOMAIN history'[s] : CleanMap(history'[s][i], b)
           S == \A t \in Task \ {b} : Clean(seen'[t], b)
           W == \A t \in Task \ {b} : CleanMap(working'[t], b)
<1> SUFFICES D /\ H /\ S /\ W
  OBVIOUS
<1>0. merge.done = {}
  <2>1. ASSUME NEW t \in Task, Calls(t) PROVE merge.done = {}
    BY <2>1, CallStep DEF stepVars
  <2>2. CASE Superstep
    BY <2>2 DEF Superstep, Export, MergeDone, Fork, Finish, MergeKey, MergeWrite, MergeValue,
       NoMerge, TypeOK, stepVars
  <2>3. QED
    BY <2>1, <2>2 DEF Next, vars, stepVars
<1>b. /\ \A s \in State \ {b} :
           CleanMap(data[s], b) /\ \A i \in DOMAIN history[s] : CleanMap(history[s][i], b)
      /\ \A t \in Task \ {b} : Clean(seen[t], b) /\ CleanMap(working[t], b)
  BY <1>0 DEF IsolationInv
<1>a. /\ b \in Task /\ b \in State
      /\ \A t \in Task : At(t) \in State /\ (At(t) = b <=> t = b)
      /\ \A t \in Task : New(t) \in Value
      /\ \A s \in State, k \in Key : data[s][k] \in Value
  BY SMTT(20), Values, NewValue, StateAssumption DEF Task, State, At, TypeOK, Map
<1>i. \A s \in State, k \in Key : \A v : Insert(s, k, v) /\ (s = b \/ Clean(v, b)) => D
  <2> SUFFICES ASSUME NEW s \in State, NEW k \in Key, NEW v, Insert(s, k, v), s = b \/ Clean(v, b),
                      NEW r \in State \ {b}
               PROVE CleanMap(data'[r], b)
    OBVIOUS
  <2>1. data' = [data EXCEPT ![s] = [data[s] EXCEPT ![k] = v]]
    BY DEF Insert
  <2>2. \A l \in Key : data'[r][l] \in {data[r][l], v} /\ (r # s => data'[r][l] = data[r][l])
    BY <2>1 DEF TypeOK, Map
  <2>3. QED
    BY <1>b, <2>2 DEF CleanMap
<1>r. \A s \in State : \A d : Replace(s, d) /\ (s = b \/ CleanMap(d, b)) => D
  <2> SUFFICES ASSUME NEW s \in State, NEW d, Replace(s, d), s = b \/ CleanMap(d, b) PROVE D
    OBVIOUS
  <2>1. data' = [data EXCEPT ![s] = d] \/ data' = data
    BY DEF Replace, dataVars
  <2>2. QED
    BY <1>b, <2>1 DEF TypeOK
<1>u. UNCHANGED dataVars => D
  BY <1>b DEF dataVars
<1>1. D
  <2>1. ASSUME NEW t \in Task, NEW k \in Key, SetWrite(t, k) PROVE D
    <3>1. At(t) = b \/ Clean(NextValue(t, k), b)
      BY <1>a, <1>b, CleanValues DEF NextValue, TypeOK
    <3>2. QED
      BY <2>1, <3>1, <1>i, <1>u, <1>a DEF SetWrite
  <2>2. ASSUME NEW t \in Task, NEW k \in Key, SetRaw(t, k) PROVE D
    BY <2>2, <1>i, <1>a, CleanValues DEF SetRaw
  <2>3. ASSUME NEW t \in Task, NEW k \in Key, Update(t, k) PROVE D
    <3>1. At(t) = b \/ Clean(data[At(t)][k] \o New(t), b)
      BY <1>a, <1>b, CleanValues DEF CleanMap
    <3>2. QED
      BY <2>3, <3>1, <1>i, <1>a DEF Update
  <2>4. ASSUME NEW t \in Task, NEW k \in Key, Remove(t, k) PROVE D
    BY <2>4, <1>i, <1>a, CleanValues DEF Remove
  <2>5. ASSUME NEW t \in Task, NEW d \in Snapshots(t), Restore(t, d) PROVE D
    <3>1. At(t) = b \/ CleanMap(d, b)
      BY <1>a, <1>b, GivenClean DEF Snapshots
    <3>2. QED
      BY <2>5, <3>1, <1>r, <1>a DEF Restore
  <2>6. ASSUME NEW t \in Task, CommitReplace(t) PROVE D
    BY <2>6, <1>r, <1>a, <1>b DEF CommitReplace
  <2>7. ASSUME NEW k \in Key, MergeWrite(k) PROVE D
    BY <2>7 DEF MergeWrite, NoMerge, TypeOK
  <2>8. ASSUME NEW t \in Task, NEW k \in Key, SetRead(t, k) \/ Stage(t, k) PROVE D
    BY <2>8, <1>u DEF SetRead, Stage
  <2>9. ASSUME NEW t \in Task,
             SaveSnapshot(t) \/ SavePush(t) \/ TransactionVersion(t) \/ TransactionExport(t)
               \/ CommitCheck(t) \/ Rollback(t)
        PROVE D
    BY <2>9, <1>u DEF SaveSnapshot, SavePush, TransactionVersion, TransactionExport,
       CommitCheck, Rollback
  <2>10. CASE Export \/ MergeDone \/ UNCHANGED vars
    BY <2>10, <1>u DEF Export, MergeDone, vars
  <2>11. ASSUME NEW c \in Branch, Fork(c) PROVE D
    <3>1. Shared \in State \ {b}
      BY StateAssumption DEF State, Task
    <3>2. PICK d \in Exports(Shared) : data' = [data EXCEPT ![c] = d]
      BY <2>11 DEF Fork
    <3>3. CleanMap(d, b)
      BY <1>b, <3>1, CleanValues DEF Exports
    <3>4. QED
      BY <1>b, <3>2, <3>3 DEF TypeOK
  <2>12. ASSUME NEW c \in Branch, Finish(c) PROVE D
    BY <2>12, <1>u DEF Finish
  <2>13. ASSUME NEW k \in Key, MergeKey(k) PROVE D
    BY <2>13, <1>u DEF MergeKey
  <2>14. ASSUME NEW k \in Key, NEW c \in Branch, MergeValue(k, c) PROVE D
    BY <2>14, <1>u DEF MergeValue
  <2> HIDE DEF D
  <2>15. QED
    BY <2>1, <2>2, <2>3, <2>4, <2>5, <2>6, <2>7, <2>8, <2>9, <2>10, <2>11, <2>12, <2>13, <2>14
       DEF Next, Superstep, Calls
<1>2. H
  <2>1. CASE UNCHANGED history
    BY <1>b, <2>1
  <2>2. ASSUME NEW t \in Task,
               history' = [history EXCEPT ![At(t)] = Append(Trimmed(@), working[t])]
        PROVE H
    <3> SUFFICES ASSUME NEW s \in State \ {b}, NEW i \in DOMAIN history'[s]
                 PROVE CleanMap(history'[s][i], b)
      OBVIOUS
    <3> DEFINE g == Trimmed(history[s])
    <3>1. CASE s # At(t)
      BY <1>b, <2>2, <3>1 DEF TypeOK
    <3>2. CASE s = At(t)
      <4>1. t # b /\ CleanMap(working[t], b) /\ working[t] \in Map
        BY <1>a, <1>b, <3>2 DEF At, TypeOK
      <4>2. g \in Seq(Map) /\ \A j \in DOMAIN g : CleanMap(g[j], b)
        BY <1>b DEF Trimmed, TypeOK
      <4>3. history'[s] = Append(g, working[t])
        BY <2>2, <3>2, <1>a DEF TypeOK
      <4> HIDE DEF g
      <4>4. CASE i = Len(g) + 1
        BY <4>1, <4>2, <4>3, <4>4
      <4>5. CASE i # Len(g) + 1
        <5>1. i \in DOMAIN g /\ history'[s][i] = g[i]
          BY <4>1, <4>2, <4>3, <4>5
        <5>2. QED
          BY <4>2, <5>1
      <4>6. QED
        BY <4>4, <4>5
    <3>3. QED
      BY <3>1, <3>2
  <2>3. QED
    BY <2>1, <2>2, CopyStep DEF HistoryEffect
<1>3. W
  <2> SUFFICES ASSUME NEW t \in Task \ {b} PROVE CleanMap(working'[t], b)
    OBVIOUS
  <2>1. CleanMap(working[t], b) /\ CleanMap(Empty, b) /\ CleanMap(data[At(t)], b)
    BY <1>a, <1>b, CleanValues
  <2>2. ASSUME NEW k \in Key,
               working'[t] = [working[t] EXCEPT ![k] = Reduce(k, @, New(t))]
        PROVE CleanMap(working'[t], b)
    <3>1. working[t] \in Map /\ working[t][k] \in Value /\ Clean(working[t][k], b)
      BY <2>1 DEF TypeOK, Map, CleanMap
    <3>2. Clean(Reduce(k, working[t][k], New(t)), b)
      BY <3>1, <1>a, CleanValues
    <3>3. QED
      BY <2>1, <2>2, <3>1, <3>2 DEF CleanMap, Map
  <2>3. QED
    BY <2>1, <2>2, CopyStep DEF WorkingEffect
<1>4. S
  <2> USE DEF TypeOK
  <2>1. ASSUME NEW t \in Task, NEW k \in Key, SetRead(t, k) PROVE S
    BY <2>1, <1>a, <1>b DEF SetRead, CleanMap
  <2>2. ASSUME NEW t \in Task, NEW k \in Key, SetWrite(t, k) PROVE S
    BY <2>2, <1>b, CleanValues DEF SetWrite
  <2>3. ASSUME NEW t \in Task, NEW k \in Key,
               SetRaw(t, k) \/ Update(t, k) \/ Remove(t, k) \/ Stage(t, k)
        PROVE S
    BY <2>3, <1>b DEF SetRaw, Update, Remove, Stage
  <2>4. ASSUME NEW t \in Task,
               SaveSnapshot(t) \/ SavePush(t) \/ TransactionVersion(t) \/ TransactionExport(t)
                 \/ CommitCheck(t) \/ CommitReplace(t) \/ Rollback(t)
        PROVE S
    BY <2>4, <1>b DEF SaveSnapshot, SavePush, TransactionVersion, TransactionExport,
       CommitCheck, CommitReplace, Rollback
  <2>5. ASSUME NEW t \in Task, NEW d \in Snapshots(t), Restore(t, d) PROVE S
    BY <2>5, <1>b DEF Restore
  <2>6. CASE Superstep \/ UNCHANGED vars
    BY <2>6, <1>b DEF Superstep, Export, MergeDone, Fork, Finish, MergeKey, MergeWrite,
       MergeValue, vars
  <2> HIDE DEF S
  <2>7. QED
    BY <2>1, <2>2, <2>3, <2>4, <2>5, <2>6 DEF Next, Calls
<1>5. QED
  BY <1>1, <1>2, <1>3, <1>4

-----------------------------------------------------------------------------
(* Theorems. *)

IInv == TypeOK /\ VersionInv /\ LimitsKept /\ MergeInv /\ IsolationInv

LEMMA InitIInv == Init => IInv
<1> SUFFICES ASSUME Init PROVE IInv
  OBVIOUS
<1>1. TypeOK
  BY InitTypeOK
<1>2. VersionInv
  BY DEF Init, VersionInv
<1>3. LimitsKept
  <2>1. \A g \in Given : Within(g)
    BY DEF Within
  <2>2. QED
    BY <2>1, EmptyFits, StateAssumption DEF Init, LimitsKept
<1>4. MergeInv
  BY DEF Init, NoMerge, MergeInv, LastBranchWins
<1>5. IsolationInv
  BY CleanValues, GivenClean DEF Init, IsolationInv
<1>6. QED
  BY <1>1, <1>2, <1>3, <1>4, <1>5 DEF IInv

LEMMA StepIInv == IInv /\ [Next]_vars => IInv'
BY TypeStep, VersionInvStep, LimitsStep, MergeStep, IsolationStep DEF IInv

LEMMA Invariance == Spec => []IInv
BY InitIInv, StepIInv, PTL DEF Spec

(* Every reachable state has the shape TypeOK gives. *)
THEOREM TypeCorrect == Spec => []TypeOK
<1>1. IInv => TypeOK
  BY DEF IInv
<1>2. QED
  BY <1>1, Invariance, PTL

(* The counter that commit compares identifies the map: no call, merge or
   restore of any number of tasks changes a map and leaves its version. *)
THEOREM VersionsAreSound == Spec => []VersionIdentifiesMap
<1>1. IInv => VersionIdentifiesMap
  BY DEF IInv, VersionInv, VersionIdentifiesMap, Transaction
<1>2. QED
  BY <1>1, Invariance, PTL

(* max_keys and max_history_len hold for every map, snapshot and working copy; over
   max_keys there is nothing but what a state was created with, and no call, restore of any
   snapshot, commit or merge adds a key to it.  Whether replace_data drops the map of a
   commit is another matter: it does when the state was created over the limit. *)
THEOREM LimitsHold == Spec => []LimitsKept
<1>1. IInv => LimitsKept
  BY DEF IInv
<1>2. QED
  BY <1>1, Invariance, PTL

(* max_keys holds for every state when the shared state is created within it, as an empty
   one is, whatever snapshots are restored. *)
THEOREM StatesStayFit ==
  ASSUME \A g \in Given : MapFits(g)
  PROVE  Spec => []StatesFit
<1>1. \A d : Within(d) => MapFits(d)
  <2> SUFFICES ASSUME NEW d, NEW g \in Given, Present(d) \subseteq Present(g) PROVE MapFits(d)
    BY DEF Within
  <2>1. IsFiniteSet(Present(g)) /\ Cardinality(Present(g)) <= MaxKeys
    BY FS_Subset, StateAssumption DEF Present, MapFits
  <2>2. Cardinality(Present(d)) <= Cardinality(Present(g)) /\ IsFiniteSet(Present(d))
    BY <2>1, FS_Subset
  <2>3. Cardinality(Present(d)) \in Nat /\ Cardinality(Present(g)) \in Nat
    BY <2>1, <2>2, FS_CardinalityType
  <2>4. QED
    BY <2>1, <2>2, <2>3, StateAssumption DEF MapFits
<1>2. IInv => StatesFit
  BY <1>1 DEF IInv, LimitsKept, StatesFit
<1>3. QED
  BY <1>2, Invariance, PTL

(* Forks are isolated until the merge, whatever their tasks and the writers of
   the shared state do. *)
THEOREM Isolation == Spec => []BranchesIsolated
<1>1. IInv => BranchesIsolated
  <2>1. \A d, b : ~Holds(d, b) <=> CleanMap(d, b)
    BY DEF Holds, CleanMap, Clean
  <2>2. QED
    BY <2>1 DEF IInv, IsolationInv, BranchesIsolated
<1>2. QED
  BY <1>1, Invariance, PTL

(* The value of the last changed branch in the order of the superstep is what a
   merged value ends with, for any number of branches. *)
THEOREM MergeIsOrdered == Spec => []LastBranchWins
<1>1. IInv => LastBranchWins
  BY DEF IInv, MergeInv
<1>2. QED
  BY <1>1, Invariance, PTL

=============================================================================
