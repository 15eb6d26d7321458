----------------------------- MODULE AgentState -----------------------------
(***************************************************************************)
(* The state of a graph run: a map behind a lock with a version counter    *)
(* beside it, transactions on a working copy, and the forks that the       *)
(* branches of a parallel superstep work on until the engine merges them.  *)
(*                                                                         *)
(* A task makes one call after the other.  Writers are tasks that share    *)
(* the state: whoever holds a clone of it.  A branch is a task with a fork *)
(* of its own.  A value is the sequence of the writes it is made of, so    *)
(* that what is lost or counted twice shows; an absent key has the empty   *)
(* sequence.                                                               *)
(***************************************************************************)
EXTENDS Naturals, Sequences, FiniteSets

CONSTANTS
  Key,
  Writer,       (* tasks on the shared state                                *)
  Branch,       (* the branches of the superstep                            *)
  Rank,         (* their places in it                                       *)
  Shared,       (* the name of the shared state                             *)
  Given,        (* the maps it may be created with, which nobody validates  *)
  Outside,      (* the maps of snapshots of other states                    *)
  Slow,         (* the locks that may time out: "read", "write"             *)
  Appends,      (* keys with an AppendReducer or an AddReducer              *)
  MaxKeys,      (* limits.max_keys                                          *)
  MaxHistory,   (* limits.max_history_len                                   *)
  MaxCalls,     (* counted calls of a task: a bound of the instance          *)
  Allowed       (* the calls each task may make                             *)

Task == Writer \cup Branch
State == {Shared} \cup Branch
Call == {"set", "raw", "update", "remove", "save", "restore", "transaction"}

ASSUME StateAssumption ==
  /\ IsFiniteSet(Key) /\ Appends \subseteq Key
  /\ Writer \cap Branch = {} /\ Shared \notin Task
  /\ Given \cup Outside \subseteq [Key -> Seq({Shared} \X Nat)]
  /\ Slow \subseteq {"read", "write"}
  /\ Rank \in [Branch -> Nat]
  /\ \A b, c \in Branch : Rank[b] = Rank[c] => b = c
  /\ MaxKeys \in Nat /\ MaxHistory \in Nat
  /\ MaxCalls \in [Task -> Nat]
  /\ Allowed \in [Task -> SUBSET Call]

VARIABLES
  data,      (* the map of every state                                      *)
  version,   (* its counter                                                 *)
  history,   (* its saved snapshots                                         *)
  pc,        (* where a task is in its call                                 *)
  calls,     (* the number of counted calls a task has made                 *)
  target,    (* the key of a set                                            *)
  seen,      (* the value a set has read                                    *)
  working,   (* the map a transaction or a save works on                    *)
  begun,     (* the version a transaction began with                        *)
  base,      (* the map when a transaction exported it: not in the code     *)
  phase,     (* of the superstep                                            *)
  snapshot,  (* the map before the superstep                                *)
  merge      (* its keys done, the key in work, branches in it, its value   *)

dataVars  == <<data, version>>
txnVars   == <<working, begun, base>>
stepVars  == <<phase, snapshot, merge>>
vars == <<dataVars, history, pc, calls, target, seen, txnVars, stepVars>>

Empty == [k \in Key |-> <<>>]
NoMerge == [done |-> {}, key |-> {}, from |-> {}, value |-> <<>>]

\* Deviation: a branch is given a clone of the state.
AtShared(t) == Shared

\* The state a task works on.
At(t) == IF t \in Branch THEN t ELSE Shared

\* What a reducer makes of a value and an update; nothing is a unit of both.
Reduce(k, current, update) == IF k \in Appends THEN current \o update ELSE update

Present(d) == {k \in Key : d[k] # <<>>}

\* validate_insert and validate_state_map
Fits(d, k) == k \in Present(d) \/ Cardinality(Present(d)) < MaxKeys
MapFits(d) == Cardinality(Present(d)) <= MaxKeys

\* with_data_and_limits takes any map; with_limits an empty one.
Init ==
  /\ \E g \in Given : data = [s \in State |-> IF s = Shared THEN g ELSE Empty]
  /\ version = [s \in State |-> 0]
  /\ history = [s \in State |-> <<>>]
  /\ pc = [t \in Task |-> IF t \in Branch THEN "unborn" ELSE "idle"]
  /\ calls = [t \in Task |-> 0]
  /\ target = [t \in Task |-> {}]
  /\ seen = [t \in Task |-> <<>>]
  /\ working = [t \in Task |-> Empty]
  /\ begun = [t \in Task |-> 0]
  /\ base = [t \in Task |-> Empty]
  /\ phase = "before"
  /\ snapshot = Empty
  /\ merge = NoMerge

-----------------------------------------------------------------------------
(* Calls on a state. *)

May(t, call) == pc[t] = "idle" /\ call \in Allowed[t]

Goto(t, l) == pc' = [pc EXCEPT ![t] = l]

\* The write of the next call of a task, and its count.
New(t) == <<<<t, calls[t] + 1>>>>
Count(t) == calls[t] < MaxCalls[t] /\ calls' = [calls EXCEPT ![t] = @ + 1]

\* Under the write lock of a state.
Insert(s, k, v) ==
  /\ data' = [data EXCEPT ![s][k] = v]
  /\ version' = [version EXCEPT ![s] = @ + 1]

\* replace_data: a map that is too large, or whose lock times out, is dropped, and no
\* error returned.
Replace(s, d) ==
  \/ /\ MapFits(d)
     /\ data' = [data EXCEPT ![s] = d]
     /\ version' = [version EXCEPT ![s] = @ + 1]
  \/ ~MapFits(d) /\ UNCHANGED dataVars
  \/ "write" \in Slow /\ UNCHANGED dataVars

\* export and snapshot: an empty map when the lock times out.
Exports(s) == {data[s]} \cup {d \in {Empty} : "read" \in Slow}

\* set: the value is read before the write lock is taken.
SetRead(t, k) ==
  /\ May(t, "set") /\ calls[t] < MaxCalls[t]
  /\ Goto(t, "setting")
  /\ target' = [target EXCEPT ![t] = {k}]
  /\ seen' = [seen EXCEPT ![t] = data[At(t)][k]]
  /\ UNCHANGED <<dataVars, history, calls, txnVars, stepVars>>

NextValue(t, k) == Reduce(k, seen[t], New(t))

SetWrite(t, k) ==
  /\ pc[t] = "setting" /\ target[t] = {k}
  /\ Goto(t, "idle")
  /\ Count(t)
  /\ \/ Fits(data[At(t)], k) /\ Insert(At(t), k, NextValue(t, k))
     \/ (~Fits(data[At(t)], k) \/ Slow # {}) /\ UNCHANGED dataVars
  /\ target' = [target EXCEPT ![t] = {}]
  /\ seen' = [seen EXCEPT ![t] = <<>>]
  /\ UNCHANGED <<history, txnVars, stepVars>>

SetRaw(t, k) ==
  /\ May(t, "raw")
  /\ Count(t)
  /\ Fits(data[At(t)], k)
  /\ Insert(At(t), k, New(t))
  /\ UNCHANGED <<history, pc, target, seen, txnVars, stepVars>>

\* update, with a closure that adds to what it is given.
Update(t, k) ==
  /\ May(t, "update")
  /\ Count(t)
  /\ k \in Present(data[At(t)])
  /\ Insert(At(t), k, data[At(t)][k] \o New(t))
  /\ UNCHANGED <<history, pc, target, seen, txnVars, stepVars>>

Remove(t, k) ==
  /\ May(t, "remove")
  /\ Count(t)
  /\ k \in Present(data[At(t)])
  /\ Insert(At(t), k, <<>>)
  /\ UNCHANGED <<history, pc, target, seen, txnVars, stepVars>>

\* save_to_history: a snapshot, then the lock of the history.
SaveSnapshot(t) ==
  /\ May(t, "save")
  /\ Count(t)
  /\ Goto(t, "saving")
  /\ \E d \in Exports(At(t)) : working' = [working EXCEPT ![t] = d]
  /\ UNCHANGED <<dataVars, history, target, seen, begun, base, stepVars>>

Trimmed(h) == IF Len(h) >= MaxHistory /\ h # <<>> THEN Tail(h) ELSE h

SavePush(t) ==
  /\ pc[t] = "saving"
  /\ Goto(t, "idle")
  /\ \/ history' = [history EXCEPT ![At(t)] = Append(Trimmed(@), working[t])]
     \/ "write" \in Slow /\ UNCHANGED history
  /\ working' = [working EXCEPT ![t] = Empty]
  /\ UNCHANGED <<dataVars, calls, target, seen, begun, base, stepVars>>

Snapshots(t) == {history[At(t)][i] : i \in DOMAIN history[At(t)]} \cup Outside

Restore(t, d) ==
  /\ May(t, "restore")
  /\ Count(t)
  /\ d \in Snapshots(t)
  /\ Replace(At(t), d)
  /\ UNCHANGED <<history, pc, target, seen, txnVars, stepVars>>

-----------------------------------------------------------------------------
(* Transactions. *)

\* transaction: the version, then the map.
TransactionVersion(t) ==
  /\ May(t, "transaction")
  /\ Count(t)
  /\ Goto(t, "exporting")
  /\ begun' = [begun EXCEPT ![t] = version[At(t)]]
  /\ UNCHANGED <<dataVars, history, target, seen, working, base, stepVars>>

TransactionExport(t) ==
  /\ pc[t] = "exporting"
  /\ Goto(t, "staging")
  /\ \E d \in Exports(At(t)) : working' = [working EXCEPT ![t] = d]
  /\ base' = [base EXCEPT ![t] = data[At(t)]]
  /\ UNCHANGED <<dataVars, history, calls, target, seen, begun, stepVars>>

\* StateTransaction::set
Stage(t, k) ==
  /\ pc[t] = "staging"
  /\ Count(t)
  /\ Fits(working[t], k)
  /\ working' = [working EXCEPT ![t][k] = Reduce(k, @, New(t))]
  /\ UNCHANGED <<dataVars, history, pc, target, seen, begun, base, stepVars>>

\* rollback, or commit with a conflict: the transaction is dropped.
Drop(t) ==
  /\ Goto(t, "idle")
  /\ working' = [working EXCEPT ![t] = Empty]
  /\ begun' = [begun EXCEPT ![t] = 0]
  /\ base' = [base EXCEPT ![t] = Empty]

Rollback(t) ==
  /\ pc[t] = "staging"
  /\ Drop(t)
  /\ UNCHANGED <<dataVars, history, calls, target, seen, stepVars>>

\* commit: the versions are compared, then the map is replaced under the lock.
CommitCheck(t) ==
  /\ pc[t] = "staging"
  /\ IF version[At(t)] = begun[t]
     THEN Goto(t, "committing") /\ UNCHANGED txnVars
     ELSE Drop(t)
  /\ UNCHANGED <<dataVars, history, calls, target, seen, stepVars>>

CommitReplace(t) ==
  /\ pc[t] = "committing"
  /\ Replace(At(t), working[t])
  /\ Drop(t)
  /\ UNCHANGED <<history, calls, target, seen, stepVars>>

-----------------------------------------------------------------------------
(* A parallel superstep. *)

\* The engine exports the state before it spawns the branches.
Export ==
  /\ phase = "before"
  /\ phase' = "forked"
  /\ snapshot' \in Exports(Shared)
  /\ UNCHANGED <<dataVars, history, pc, calls, target, seen, txnVars, merge>>

\* fork, when the branch is spawned.
Fork(b) ==
  /\ phase = "forked" /\ pc[b] = "unborn"
  /\ Goto(b, "idle")
  /\ \E d \in Exports(Shared) : data' = [data EXCEPT ![b] = d]
  /\ UNCHANGED <<version, history, calls, target, seen, txnVars, stepVars>>

Finish(b) ==
  /\ pc[b] = "idle"
  /\ Goto(b, "finished")
  /\ UNCHANGED <<dataVars, history, calls, target, seen, txnVars, stepVars>>

AllJoined == phase = "forked" /\ \A b \in Branch : pc[b] = "finished"

\* The branches that have changed a key; what a branch removes it does not change.
Changed(k) == {b \in Branch : data[b][k] # <<>> /\ data[b][k] # snapshot[k]}

\* merge_parallel_states goes through the changed keys, in any order;
MergeKey(k) ==
  /\ AllJoined
  /\ merge.key = {} /\ k \notin merge.done /\ Changed(k) # {}
  /\ merge' = [merge EXCEPT !.key = {k}, !.value = snapshot[k]]
  /\ UNCHANGED <<dataVars, history, pc, calls, target, seen, txnVars, phase, snapshot>>

\* Deviation: in the order in which the branches finished, which may be any.
MergeValueUnsorted(k, b) ==
  /\ AllJoined
  /\ merge.key = {k} /\ b \in Changed(k) \ merge.from
  /\ merge' = [merge EXCEPT !.from = @ \cup {b}, !.value = Reduce(k, @, data[b][k])]
  /\ UNCHANGED <<dataVars, history, pc, calls, target, seen, txnVars, phase, snapshot>>

\* through the branches in the order of the superstep, however they finished.
MergeValue(k, b) ==
  /\ AllJoined
  /\ merge.key = {k} /\ b \in Changed(k) \ merge.from
  /\ \A c \in Changed(k) \ merge.from : Rank[b] <= Rank[c]
  /\ merge' = [merge EXCEPT !.from = @ \cup {b}, !.value = Reduce(k, @, data[b][k])]
  /\ UNCHANGED <<dataVars, history, pc, calls, target, seen, txnVars, phase, snapshot>>

\* set_raw of the merged value; the run fails when it does not fit, or a lock times out.
MergeWrite(k) ==
  /\ AllJoined
  /\ merge.key = {k} /\ merge.from = Changed(k)
  /\ \/ Fits(data[Shared], k) /\ Insert(Shared, k, merge.value) /\ UNCHANGED phase
     \/ (~Fits(data[Shared], k) \/ Slow # {}) /\ phase' = "failed" /\ UNCHANGED dataVars
  /\ merge' = [NoMerge EXCEPT !.done = merge.done \cup {k}]
  /\ UNCHANGED <<history, pc, calls, target, seen, txnVars, snapshot>>

MergeDone ==
  /\ AllJoined
  /\ merge.key = {}
  /\ \A k \in Key : Changed(k) = {} \/ k \in merge.done
  /\ phase' = "merged"
  /\ UNCHANGED <<dataVars, history, pc, calls, target, seen, txnVars, snapshot, merge>>

-----------------------------------------------------------------------------

Calls(t) ==
  \/ \E k \in Key :
       \/ SetRead(t, k) \/ SetWrite(t, k) \/ SetRaw(t, k)
       \/ Update(t, k) \/ Remove(t, k) \/ Stage(t, k)
  \/ SaveSnapshot(t)
  \/ SavePush(t)
  \/ \E d \in Snapshots(t) : Restore(t, d)
  \/ TransactionVersion(t)
  \/ TransactionExport(t)
  \/ CommitCheck(t)
  \/ CommitReplace(t)
  \/ Rollback(t)

Superstep ==
  \/ Export
  \/ MergeDone
  \/ \E b \in Branch : Fork(b) \/ Finish(b)
  \/ \E k \in Key : MergeKey(k) \/ MergeWrite(k) \/ \E b \in Branch : MergeValue(k, b)

Next == Superstep \/ \E t \in Task : Calls(t)

Spec == Init /\ [][Next]_vars

-----------------------------------------------------------------------------
(* Properties. *)

\* What a state is given is written by nobody: it is the state's own.
Write == (Task \cup {Shared}) \X Nat
Value == Seq(Write)
Map == [Key -> Value]

\* Shapes of the variables.
TypeOK ==
  /\ data \in [State -> Map]
  /\ version \in [State -> Nat]
  /\ history \in [State -> Seq(Map)]
  /\ pc \in [Task -> {"unborn", "idle", "setting", "saving", "exporting", "staging",
                      "committing", "finished"}]
  /\ calls \in [Task -> Nat]
  /\ target \in [Task -> SUBSET Key]
  /\ seen \in [Task -> Value]
  /\ working \in [Task -> Map]
  /\ begun \in [Task -> Nat]
  /\ base \in [Task -> Map]
  /\ phase \in {"before", "forked", "merged", "failed"}
  /\ snapshot \in Map
  /\ merge \in [done: SUBSET Key, key: SUBSET Key, from: SUBSET Branch, value: Value]

Transaction(t) == pc[t] \in {"staging", "committing"}

(* A version says which map it is the version of: while the counter has the
   value a transaction began with, the state holds the map it held when the
   transaction exported it, whatever was set, removed, restored or merged in between.  commit
   relies on it when it compares versions (state.rs:86). *)
VersionIdentifiesMap ==
  \A t \in Task : Transaction(t) /\ version[At(t)] = begun[t] => data[At(t)] = base[t]

\* Within max_keys, or with no other keys than a map the state was created with.
Within(d) == MapFits(d) \/ \E g \in Given : Present(d) \subseteq Present(g)

(* Nothing but the map a state is created with, which nobody validates (state.rs:157-167),
   takes it over max_keys: no call, restore of any snapshot, commit or merge adds a key to
   a map that is at the limit or over it, although sets validate their insertion some time
   after they read and a merge writes the keys of all branches.  Forks, snapshots and
   working copies are no larger, and no history is longer than max_history_len (or one,
   when that is zero). *)
LimitsKept ==
  /\ \A s \in State :
       /\ Within(data[s])
       /\ Len(history[s]) <= IF MaxHistory = 0 THEN 1 ELSE MaxHistory
       /\ \A i \in DOMAIN history[s] : Within(history[s][i])
  /\ \A t \in Task : Within(working[t])

\* The same of a state that is created within the limit.
StatesFit == \A s \in State : MapFits(data[s])

Holds(d, t) == \E k \in Key : \E i \in DOMAIN d[k] : d[k][i][1] = t

(* Until the merge writes, what a branch writes is nowhere but in its fork. *)
BranchesIsolated ==
  merge.done = {} =>
    \A b \in Branch : \A s \in State \ {b} :
      /\ ~Holds(data[s], b)
      /\ \A i \in DOMAIN history[s] : ~Holds(history[s][i], b)

EndsWith(v, u) == \E n \in 0 .. Len(v) : u = SubSeq(v, n + 1, Len(v))

(* The merged value of a key is or ends with the value of that branch which is
   the last of the superstep among those merged, whichever finished last: "a
   JoinNode (or registered Reducers) merges results deterministically"
   (ARCHITECTURE.md:19). *)
LastBranchWins ==
  \A k \in merge.key, b \in merge.from :
    (\A c \in merge.from : Rank[c] <= Rank[b]) => EndsWith(merge.value, data[b][k])

(* A commit that returns has replaced the map: "After this call, staged changes are
   applied atomically" (state.rs:81). *)
CommitApplies ==
  [][\A t \in Task : pc[t] = "committing" /\ pc'[t] # "committing" =>
       data'[At(t)] = working[t]]_vars

(* A commit replaces the map its transaction was given: "Returns an error if the
   underlying state was modified concurrently since this transaction was
   created" (state.rs:83-84). *)
CommitSeesEveryWrite ==
  [][\A t \in Task : pc[t] = "committing" /\ pc'[t] # "committing" => data[At(t)] = base[t]]_vars

(* A set reduces its value with the one it replaces: "When `set()` is called on
   this key and a value already exists, the reducer is used to combine old and
   new values" (state.rs:162-163). *)
SetReducesWhatItReplaces ==
  [][\A t \in Task : pc[t] = "setting" /\ pc'[t] = "idle" =>
       \A k \in target[t] \cap Appends : data[At(t)][k] = seen[t]]_vars

(* A merge counts a write once: "With AddReducer: 0 (snapshot) + 1 (add_one diff)
   + 2 (add_two diff) = 3" (tests/parallel_tests.rs:208). *)
WritesCountOnce ==
  \A k \in merge.key : \A i, j \in DOMAIN merge.value :
    merge.value[i] = merge.value[j] => i = j

=============================================================================
