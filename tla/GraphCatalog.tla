---------------------------- MODULE GraphCatalog ----------------------------
(***************************************************************************)
(* Registered graphs and idempotency keys: a server for each connection,   *)
(* with a map of graphs of its own, on one SQLite store.  Handlers of one  *)
(* server run at the same time and lock `graphs` and `runs`; the servers   *)
(* share the store only, one statement or one transaction at a time.       *)
(*                                                                         *)
(* A version is the digest of a specification and stands for both; a       *)
(* server can hold one under the label of another (see Load).              *)
(***************************************************************************)
EXTENDS Integers, FiniteSets

CONSTANTS
  Server, Client, Name, Version, Key,
  None,       (* no graph, no key, nobody, no version                      *)
  MaxGraphs,  (* MAX_GRAPHS                                                *)
  MaxCalls,   (* bound: calls made                                         *)
  MaxRuns,    (* bound: runs started                                       *)
  MaxLives,   (* bound: servers started, per connection                    *)
  Faults      (* writes that may fail: "execution", "key"; "read" of a key *)

Graph == [version : Version, spec : Version]

\* What a key is bound to, and what is saved under it.
Requests == [op : {"create", "execute"}, name : Name, overwrite : BOOLEAN, graph : Graph]

Saved == [request : Requests, answer : 0 .. MaxRuns]

ASSUME CatalogAssumption ==
  /\ None \notin Server \cup Client \cup Name \cup Version \cup Key \cup Graph \cup Saved
  /\ {MaxGraphs, MaxCalls, MaxRuns, MaxLives} \subseteq Nat
  /\ Faults \subseteq {"execution", "key", "read"}

VARIABLES
  phase,       (* of a server: down, listing, loading, up                  *)
  listed,      (* names and hashes list_graphs gave, not yet loaded        *)
  life,        (* how often a server was started                           *)
  memory,      (* graphs: a version label and a specification per name     *)
  graphsLock,  (* who holds the mutex of `graphs`                          *)
  runsLock,    (* who holds the mutex of `runs`                            *)
  graphs,      (* table graphs: a version per name                         *)
  versions,    (* table graph_versions                                     *)
  executions,  (* table executions: the graph and version of every row     *)
  keys,        (* table idempotency_keys                                   *)
  call,        (* what every client is doing                               *)
  calls,       (* calls made                                               *)
  runs,        (* history: runs started                                    *)
  answers,     (* history: answers with a result to calls with a key       *)
  lost,        (* history: keys whose save failed, or whose row was missed *)
  unread       (* history: keys whose winner the loser could not read      *)

serverVars == <<phase, listed, life, memory>>
lockVars   == <<graphsLock, runsLock>>
storeVars  == <<graphs, versions, executions, keys>>
pastVars   == <<runs, answers, lost, unread>>
vars == <<serverVars, lockVars, storeVars, call, calls, pastVars>>

\* The answer of a create; that of an execute is the run's number.
Created == 0

Idle == [pc |-> "idle", op |-> "none", server |-> None, name |-> None, version |-> None,
         overwrite |-> FALSE, key |-> None, graph |-> None, answer |-> None]

Init ==
  /\ phase = [s \in Server |-> "down"] /\ listed = [s \in Server |-> {}]
  /\ life = [s \in Server |-> 0]
  /\ memory = [s \in Server |-> [n \in Name |-> None]]
  /\ graphsLock = [s \in Server |-> None] /\ runsLock = [s \in Server |-> None]
  /\ graphs = [n \in Name |-> None] /\ versions = {} /\ executions = {}
  /\ keys = [k \in Key |-> None]
  /\ call = [c \in Client |-> Idle] /\ calls = 0
  /\ runs = {} /\ answers = {} /\ lost = {} /\ unread = {}

\* The request material of a call.
Request(c) ==
  [op |-> call[c].op, name |-> call[c].name, overwrite |-> call[c].overwrite,
   graph |-> IF call[c].op = "execute" THEN call[c].graph
             ELSE [version |-> call[c].version, spec |-> call[c].version]]

-----------------------------------------------------------------------------
(* A connection: its server reads the stored graphs before it serves. *)

ServerUnchanged == UNCHANGED <<lockVars, storeVars, call, calls, pastVars>>

Connect(s) ==
  /\ phase[s] = "down" /\ life[s] < MaxLives
  /\ phase' = [phase EXCEPT ![s] = "listing"] /\ life' = [life EXCEPT ![s] = @ + 1]
  /\ UNCHANGED <<listed, memory>> /\ ServerUnchanged

\* list_graphs
List(s) ==
  /\ phase[s] = "listing"
  /\ phase' = [phase EXCEPT ![s] = "loading"]
  /\ listed' = [listed EXCEPT ![s] = {[name |-> n, version |-> graphs[n]] :
                                        n \in {m \in Name : graphs[m] # None}}]
  /\ UNCHANGED <<life, memory>> /\ ServerUnchanged

\* load_graph: the specification is read now, its label was read by list_graphs.
Load(s) ==
  /\ phase[s] = "loading"
  /\ \E g \in listed[s] :
       /\ listed' = [listed EXCEPT ![s] = @ \ {g}]
       /\ memory' = IF graphs[g.name] = None THEN memory
                    ELSE [memory EXCEPT ![s][g.name] = [version |-> g.version, spec |-> graphs[g.name]]]
  /\ UNCHANGED <<phase, life>> /\ ServerUnchanged

Serve(s) ==
  /\ phase[s] = "loading" /\ listed[s] = {}
  /\ phase' = [phase EXCEPT ![s] = "up"]
  /\ UNCHANGED <<listed, life, memory>> /\ ServerUnchanged

\* The process dies: every server and every call with it.
Crash ==
  /\ phase' = [s \in Server |-> "down"] /\ listed' = [s \in Server |-> {}]
  /\ memory' = [s \in Server |-> [n \in Name |-> None]]
  /\ graphsLock' = [s \in Server |-> None] /\ runsLock' = [s \in Server |-> None]
  /\ call' = [c \in Client |-> Idle]
  /\ phase # phase'
  /\ UNCHANGED <<life, storeVars, calls, pastVars>>

-----------------------------------------------------------------------------
(* Calls *)

At(c, pc) == call[c].pc = pc

GoTo(c, pc) == call' = [call EXCEPT ![c].pc = pc]

Return(c) == call' = [call EXCEPT ![c] = Idle]

Free(lock, c) == lock[call[c].server] = None

Take(lock, c) == [lock EXCEPT ![call[c].server] = c]

Drop(lock, c) == [lock EXCEPT ![call[c].server] = None]

NoLocks == UNCHANGED lockVars

Registered(c) == memory[call[c].server][call[c].name]

Begin(c, request) ==
  /\ At(c, "idle") /\ calls < MaxCalls
  /\ calls' = calls + 1
  /\ call' = [call EXCEPT ![c] = request]
  /\ UNCHANGED <<serverVars, lockVars, storeVars, pastVars>>

CallCreate(c, s, n, v, overwrite, k) ==
  /\ phase[s] = "up"
  /\ Begin(c, [Idle EXCEPT !.pc = "checkKey", !.op = "create", !.server = s, !.name = n,
                           !.version = v, !.overwrite = overwrite, !.key = k])

CallDelete(c, s, n) ==
  /\ phase[s] = "up"
  /\ Begin(c, [Idle EXCEPT !.pc = "find", !.op = "delete", !.server = s, !.name = n])

CallExecute(c, s, n, v, k) ==
  /\ phase[s] = "up"
  /\ Begin(c, [Idle EXCEPT !.pc = "resolve", !.op = "execute", !.server = s, !.name = n,
                           !.version = v, !.key = k])

CallUnchanged == UNCHANGED <<serverVars, calls>>

-----------------------------------------------------------------------------
(* Idempotency keys *)

Answered(c, answer) ==
  answers' = IF call[c].key = None THEN answers
             ELSE answers \cup {[key |-> call[c].key, request |-> Request(c), answer |-> answer]}

\* check_idempotency: the stored answer of the same request, a refusal of another one.
Known(c) == call[c].key # None /\ keys[call[c].key] # None

Replay(c) ==
  /\ Known(c)
  /\ Return(c)
  /\ IF keys[call[c].key].request = Request(c)
       THEN Answered(c, keys[call[c].key].answer)
       ELSE UNCHANGED answers
  /\ UNCHANGED <<runs, lost, unread>>

\* A row that cannot be read is taken for no row.
NotFound(c) ==
  /\ \/ ~Known(c) /\ UNCHANGED lost
     \/ Known(c) /\ "read" \in Faults /\ lost' = lost \cup {call[c].key}
  /\ UNCHANGED <<runs, answers, unread>>

\* The first insert of a key wins.
SaveFirst(c) ==
  /\ call[c].key # None /\ ~Known(c)
  /\ keys' = [keys EXCEPT ![call[c].key] = [request |-> Request(c), answer |-> call[c].answer]]
  /\ Answered(c, call[c].answer)
  /\ UNCHANGED <<lost, unread>>

SaveFails(c) ==
  /\ call[c].key # None /\ "key" \in Faults
  /\ lost' = lost \cup {call[c].key} /\ UNCHANGED <<keys, answers, unread>>

\* Deviation: the loser of the insert answers with its own result.
SaveKeyOwnAnswer(c) ==
  /\ \/ call[c].key = None /\ UNCHANGED <<keys, answers, lost, unread>>
     \/ SaveFirst(c)
     \/ Known(c) /\ Answered(c, call[c].answer) /\ UNCHANGED <<keys, lost, unread>>
     \/ SaveFails(c)
  /\ Return(c)

\* persist_idempotency: the loser returns what is stored, or its own when it cannot read it.
SaveKey(c) ==
  /\ \/ call[c].key = None /\ UNCHANGED <<keys, answers, lost, unread>>
     \/ SaveFirst(c)
     \/ /\ Known(c)
        /\ IF keys[call[c].key].request = Request(c)
             THEN Answered(c, keys[call[c].key].answer)
             ELSE UNCHANGED answers
        /\ UNCHANGED <<keys, lost, unread>>
     \/ /\ Known(c) /\ "read" \in Faults
        /\ Answered(c, call[c].answer)
        /\ unread' = unread \cup {call[c].key} /\ UNCHANGED <<keys, lost>>
     \/ SaveFails(c)
  /\ Return(c)

-----------------------------------------------------------------------------
(* graph_create *)

CheckKey(c) ==
  /\ At(c, "checkKey")
  /\ Replay(c) \/ (NotFound(c) /\ GoTo(c, "register"))
  /\ CallUnchanged /\ NoLocks /\ UNCHANGED storeVars

Full(c) ==
  /\ ~call[c].overwrite /\ Registered(c) = None
  /\ Cardinality({n \in Name : memory[call[c].server][n] # None}) >= MaxGraphs

Referenced(n, v) == [name |-> n, version |-> v] \in executions

\* save_graph, its first statements: a referenced version is replaced only on request.
Conflict(c) ==
  LET current == graphs[call[c].name]
  IN  /\ current \notin {None, call[c].version}
      /\ Referenced(call[c].name, current) /\ ~call[c].overwrite

\* The mutex of `graphs` is taken and, unless the call is refused, kept over save_graph.
Register(c) ==
  /\ At(c, "register") /\ Free(graphsLock, c)
  /\ \/ (Full(c) \/ Conflict(c)) /\ Return(c) /\ NoLocks
     \/ /\ ~Full(c) /\ ~Conflict(c)
        /\ GoTo(c, "insertVersion")
        /\ graphsLock' = Take(graphsLock, c) /\ UNCHANGED runsLock
  /\ CallUnchanged /\ UNCHANGED <<storeVars, pastVars>>

\* Deviation: graph_versions keeps one row for a name.
InsertVersionReplacing(c) ==
  /\ At(c, "insertVersion")
  /\ versions' = {r \in versions : r.name # call[c].name}
                   \cup {[name |-> call[c].name, version |-> call[c].version]}
  /\ GoTo(c, "upsert")
  /\ CallUnchanged /\ NoLocks /\ UNCHANGED <<graphs, executions, keys, pastVars>>

\* INSERT OR IGNORE INTO graph_versions
InsertVersion(c) ==
  /\ At(c, "insertVersion")
  /\ versions' = versions \cup {[name |-> call[c].name, version |-> call[c].version]}
  /\ GoTo(c, "upsert")
  /\ CallUnchanged /\ NoLocks /\ UNCHANGED <<graphs, executions, keys, pastVars>>

\* INSERT INTO graphs ... ON CONFLICT DO UPDATE, then the entry in memory.
Upsert(c) ==
  /\ At(c, "upsert")
  /\ graphs' = [graphs EXCEPT ![call[c].name] = call[c].version]
  /\ memory' = [memory EXCEPT ![call[c].server][call[c].name] =
                  [version |-> call[c].version, spec |-> call[c].version]]
  /\ graphsLock' = Drop(graphsLock, c)
  /\ call' = [call EXCEPT ![c].pc = "saveCreated", ![c].answer = Created]
  /\ UNCHANGED <<phase, listed, life, calls, runsLock, versions, executions, keys, pastVars>>

SaveCreated(c) ==
  /\ At(c, "saveCreated")
  /\ SaveKey(c)
  /\ CallUnchanged /\ NoLocks /\ UNCHANGED <<graphs, versions, executions, runs>>

-----------------------------------------------------------------------------
(* delete: three steps, the mutex of `graphs` only in the first and the last *)

Find(c) ==
  /\ At(c, "find") /\ Free(graphsLock, c)
  /\ IF Registered(c) = None THEN Return(c) ELSE GoTo(c, "deleteStored")
  /\ CallUnchanged /\ NoLocks /\ UNCHANGED <<storeVars, pastVars>>

\* EXISTS(SELECT 1 FROM executions WHERE graph_name = ?1); the foreign key of executions
\* would refuse the same deletes.
InUse(n) == \E v \in Version : Referenced(n, v)

\* delete_graph: one transaction.
DeleteStored(c) ==
  /\ At(c, "deleteStored")
  /\ \/ /\ InUse(call[c].name) \/ graphs[call[c].name] = None
        /\ Return(c) /\ UNCHANGED storeVars
     \/ /\ ~InUse(call[c].name) /\ graphs[call[c].name] # None
        /\ graphs' = [graphs EXCEPT ![call[c].name] = None]
        /\ versions' = {r \in versions : r.name # call[c].name}
        /\ GoTo(c, "forget") /\ UNCHANGED <<executions, keys>>
  /\ CallUnchanged /\ NoLocks /\ UNCHANGED pastVars

Forget(c) ==
  /\ At(c, "forget") /\ Free(graphsLock, c)
  /\ memory' = [memory EXCEPT ![call[c].server][call[c].name] = None]
  /\ Return(c)
  /\ UNCHANGED <<phase, listed, life, calls, storeVars, pastVars>> /\ NoLocks

-----------------------------------------------------------------------------
(* graph_execute and graph_run_start *)

\* resolve_graph: the entry in memory, unless another version is asked for.
Resolve(c) ==
  /\ At(c, "resolve") /\ Free(graphsLock, c)
  /\ \/ Registered(c) = None /\ Return(c)
     \/ /\ Registered(c) # None /\ call[c].version \in {None, Registered(c).version}
        /\ call' = [call EXCEPT ![c].pc = "enter", ![c].graph = Registered(c)]
     \/ /\ Registered(c) # None /\ call[c].version \notin {None, Registered(c).version}
        /\ GoTo(c, "resolveVersion")
  /\ CallUnchanged /\ NoLocks /\ UNCHANGED <<storeVars, pastVars>>

ResolveVersion(c) ==
  /\ At(c, "resolveVersion")
  /\ IF [name |-> call[c].name, version |-> call[c].version] \in versions
       THEN call' = [call EXCEPT ![c].pc = "enter",
                                 ![c].graph = [version |-> call[c].version, spec |-> call[c].version]]
       ELSE Return(c)
  /\ CallUnchanged /\ NoLocks /\ UNCHANGED <<storeVars, pastVars>>

\* Deviation: the key is looked up before the mutex of `runs` is taken.
EnterUnlocked(c) ==
  /\ At(c, "enter")
  /\ Replay(c) \/ (NotFound(c) /\ GoTo(c, "record"))
  /\ CallUnchanged /\ NoLocks /\ UNCHANGED storeVars

\* The mutex of `runs` is taken first and kept until the key is saved.
Enter(c) ==
  /\ At(c, "enter") /\ Free(runsLock, c)
  /\ \/ Replay(c) /\ NoLocks
     \/ /\ NotFound(c) /\ GoTo(c, "record")
        /\ runsLock' = Take(runsLock, c) /\ UNCHANGED graphsLock
  /\ CallUnchanged /\ UNCHANGED storeVars

\* A run that finds no room is refused: nothing is started and no key is saved.
Refuse(c) ==
  /\ At(c, "record")
  /\ Return(c) /\ runsLock' = Drop(runsLock, c)
  /\ CallUnchanged /\ UNCHANGED <<graphsLock, storeVars, pastVars>>

\* save_execution, whose error is ignored, and the start of the run.  The foreign key of
\* executions refuses the row of a graph that is no longer stored.
StartRun(c) ==
  /\ At(c, "record") /\ Cardinality(runs) < MaxRuns
  /\ LET id == Cardinality(runs) + 1
     IN  /\ runs' = runs \cup {[id |-> id, key |-> call[c].key, request |-> Request(c),
                                server |-> call[c].server, life |-> life[call[c].server]]}
         /\ call' = [call EXCEPT ![c].pc = "saveRun", ![c].answer = id]
  /\ \/ /\ graphs[call[c].name] # None
        /\ executions' = executions \cup {[name |-> call[c].name, version |-> call[c].graph.version]}
     \/ (graphs[call[c].name] = None \/ "execution" \in Faults) /\ UNCHANGED executions
  /\ CallUnchanged /\ NoLocks /\ UNCHANGED <<graphs, versions, keys, answers, lost, unread>>

SaveRun(c) ==
  /\ At(c, "saveRun")
  /\ SaveKey(c)
  /\ runsLock' = Drop(runsLock, c)
  /\ CallUnchanged /\ UNCHANGED <<graphsLock, graphs, versions, executions, runs>>

-----------------------------------------------------------------------------
Calling(c) ==
  \E s \in Server, n \in Name :
    \/ \E v \in Version, overwrite \in BOOLEAN, k \in Key \cup {None} :
         CallCreate(c, s, n, v, overwrite, k)
    \/ CallDelete(c, s, n)
    \/ \E v \in Version \cup {None}, k \in Key \cup {None} : CallExecute(c, s, n, v, k)

Handling(c) ==
  \/ CheckKey(c) \/ Register(c) \/ InsertVersion(c) \/ Upsert(c) \/ SaveCreated(c)
  \/ Find(c) \/ DeleteStored(c) \/ Forget(c)
  \/ Resolve(c) \/ ResolveVersion(c) \/ Enter(c) \/ Refuse(c) \/ StartRun(c) \/ SaveRun(c)

Next ==
  \/ \E s \in Server : Connect(s) \/ List(s) \/ Load(s) \/ Serve(s)
  \/ \E c \in Client : Calling(c) \/ Handling(c)
  \/ Crash

Spec == Init /\ [][Next]_vars

-----------------------------------------------------------------------------
(* Properties *)

\* Every variable has its type.
TypeOK ==
  /\ phase \in [Server -> {"down", "listing", "loading", "up"}]
  /\ life \in [Server -> 0 .. MaxLives]
  /\ memory \in [Server -> [Name -> Graph \cup {None}]]
  /\ graphsLock \in [Server -> Client \cup {None}] /\ runsLock \in [Server -> Client \cup {None}]
  /\ graphs \in [Name -> Version \cup {None}]
  /\ versions \subseteq [name : Name, version : Version]
  /\ executions \subseteq [name : Name, version : Version]
  /\ \A c \in Client : call[c].server \in Server \cup {None}

\* What a recorded run may be replayed from is never taken away: as long as an execution
\* names a graph, no call removes a version of it, whatever version the execution names.
ReferencedGraphStays ==
  [][\A r \in versions : (\E x \in executions : x.name = r.name) => r \in versions']_vars

\* Two callers that used one key for one request were given one answer, also when they
\* raced on different connections, the server restarted in between, or the second missed
\* the row and did the work again.  Only a loser of the insert that cannot read the row of
\* the winner answers for itself.
OneAnswerPerKey ==
  \A a, b \in answers :
    a.key = b.key /\ a.request = b.request /\ a.key \notin unread => a.answer = b.answer

\* On one server a key starts one run for a request, unless saving the key failed or its
\* row was missed: the second caller waits for the mutex of `runs` and finds the key.
OneRunPerKey ==
  \A a, b \in runs :
    (/\ a.key # None /\ a.key = b.key /\ a.request = b.request
     /\ a.server = b.server /\ a.life = b.life /\ a.key \notin lost) => a = b

-----------------------------------------------------------------------------
(* Stated, and refuted on the instance of the run *)

\* The specification a server runs under a version is the one the version names: a
\* graph that is overwritten between list_graphs and load_graph is kept under the
\* old label (server.rs:240-250).
VersionNamesSpec ==
  \A s \in Server, n \in Name : memory[s][n] # None => memory[s][n].version = memory[s][n].spec

\* A recorded run's version is stored: a delete between resolve_graph and save_execution
\* finds no reference, and when the graph is created again with another version the
\* execution is written after it.
ExecutedVersionIsStored == executions \subseteq versions

\* A stored graph's version is among its versions: save_graph is three statements, and
\* another connection's delete can fall between the last two.
StoredVersionIsListed ==
  \A n \in Name : graphs[n] # None => [name |-> n, version |-> graphs[n]] \in versions

\* "a concurrent same-key caller cannot observe a result that was not stored"
\* (server.rs:111-112): it can when the read of the winner's row fails (store.rs:1926-1928).
AnswersAreStored ==
  \A a \in answers : keys[a.key] # None /\ keys[a.key].answer = a.answer
=============================================================================
