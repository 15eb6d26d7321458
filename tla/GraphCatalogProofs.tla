------------------------- MODULE GraphCatalogProofs -------------------------
(***************************************************************************)
(* Proofs about GraphCatalog, for any sets of connections, callers, names, *)
(* versions and keys, any limits and faults.                               *)
(*                                                                         *)
(* Typed says what every call under way has: a server, a name, and a graph *)
(* once it was resolved.  KeyInv: an answer that was given is the stored   *)
(* one, unless the row could not be read (unread).                         *)
(* LockInv: a call between the look-up of its key and its save has         *)
(* the mutex of `runs` of its server.  RunInv: the answer of every run is  *)
(* stored, or about to be, or lost, or its server is gone.  RecordInv: a   *)
(* call about to start a run has no run of its key before it; this is what *)
(* RunInv and the mutex give when the call finds no answer.                *)
(***************************************************************************)
EXTENDS GraphCatalog, FiniteSetTheorems, TLAPS

PCs ==
  {"idle", "checkKey", "register", "insertVersion", "upsert", "saveCreated", "find",
   "deleteStored", "forget", "resolve", "resolveVersion", "enter", "record", "saveRun"}

Calls ==
  [pc : PCs, op : {"none", "create", "delete", "execute"}, server : Server \cup {None},
   name : Name \cup {None}, version : Version \cup {None}, overwrite : BOOLEAN,
   key : Key \cup {None}, graph : Graph \cup {None}, answer : (0 .. MaxRuns) \cup {None}]

Runs == [id : Nat, key : Key \cup {None}, request : Requests, server : Server, life : Nat]

Answers == [key : Key, request : Requests, answer : 0 .. MaxRuns]

Creating == {"checkKey", "register", "insertVersion", "upsert", "saveCreated"}

Executing == {"resolve", "resolveVersion", "enter", "record", "saveRun"}

Resolved == {"enter", "record", "saveRun"}

\* What the program counter of a call says of its fields.
CallOk(x) ==
  /\ x.pc # "idle" => x.server \in Server /\ x.name \in Name
  /\ x.pc \in Creating => x.op = "create" /\ x.version \in Version
  /\ x.pc \in Executing => x.op = "execute"
  /\ x.pc = "resolveVersion" => x.version \in Version
  /\ x.pc \in Resolved => x.graph \in Graph
  /\ x.pc \in {"saveCreated", "saveRun"} => x.answer \in 0 .. MaxRuns

CallsTyped == call \in [Client -> Calls] /\ \A c \in Client : CallOk(call[c])

ServersTyped ==
  /\ phase \in [Server -> {"down", "listing", "loading", "up"}]
  /\ life \in [Server -> 0 .. MaxLives]
  /\ listed \in [Server -> SUBSET [name : Name, version : Version]]
  /\ memory \in [Server -> [Name -> Graph \cup {None}]]

LocksTyped ==
  /\ graphsLock \in [Server -> Client \cup {None}]
  /\ runsLock \in [Server -> Client \cup {None}]

TablesTyped ==
  /\ graphs \in [Name -> Version \cup {None}]
  /\ versions \subseteq [name : Name, version : Version]
  /\ executions \subseteq [name : Name, version : Version]
  /\ keys \in [Key -> Saved \cup {None}]

PastTyped ==
  /\ runs \subseteq Runs /\ IsFiniteSet(runs)
  /\ answers \subseteq Answers
  /\ lost \subseteq Key /\ unread \subseteq Key

Typed == CallsTyped /\ ServersTyped /\ LocksTyped /\ TablesTyped /\ PastTyped

-----------------------------------------------------------------------------
(* Calls *)

USE CatalogAssumption

LEMMA IdleTyped == Idle \in Calls /\ CallOk(Idle)
BY DEF Idle, Calls, PCs, CallOk, Creating, Executing, Resolved

LEMMA RequestTyped ==
  ASSUME CallsTyped, NEW c \in Client, call[c].pc \in Creating \cup Resolved
  PROVE  Request(c) \in Requests
<1>1. call[c] \in Calls /\ CallOk(call[c])
  BY DEF CallsTyped
<1>2. CASE call[c].pc \in Creating
  BY <1>1, <1>2 DEF CallOk, Calls, Request, Requests, Graph, Creating
<1>3. CASE call[c].pc \in Resolved
  BY <1>1, <1>3 DEF CallOk, Calls, Request, Requests, Resolved, Executing
<1>4. QED
  BY <1>2, <1>3

\* Only the call of c changes, and it is well formed.
Moves(c) ==
  /\ call' \in [Client -> Calls]
  /\ CallOk(call'[c])
  /\ \A d \in Client \ {c} : call'[d] = call[d]

LEMMA MovesTyped ==
  ASSUME CallsTyped, NEW c \in Client, Moves(c)
  PROVE  CallsTyped'
BY DEF CallsTyped, Moves

LEMMA ReturnMoves ==
  ASSUME CallsTyped, NEW c \in Client, Return(c)
  PROVE  Moves(c) /\ call'[c].pc = "idle"
BY IdleTyped DEF CallsTyped, Moves, Return, Idle

\* A step to another control point of the same program keeps the fields.
LEMMA GoToMoves ==
  ASSUME CallsTyped, NEW c \in Client, NEW pc \in PCs, GoTo(c, pc),
         CallOk([call[c] EXCEPT !.pc = pc])
  PROVE  Moves(c) /\ call'[c] = [call[c] EXCEPT !.pc = pc]
<1>1. [call[c] EXCEPT !.pc = pc] \in Calls
  BY DEF CallsTyped, Calls
<1>2. QED
  BY <1>1 DEF CallsTyped, Moves, GoTo

LEMMA AnsweredTyped ==
  ASSUME CallsTyped, answers \subseteq Answers, NEW c \in Client, NEW answer \in 0 .. MaxRuns,
         call[c].pc \in Creating \cup Resolved, Answered(c, answer)
  PROVE  answers' \subseteq Answers
<1>1. Request(c) \in Requests /\ call[c].key \in Key \cup {None}
  BY RequestTyped DEF CallsTyped, Calls
<1>2. QED
  BY <1>1 DEF Answered, Answers

LEMMA ReplayTyped ==
  ASSUME Typed, NEW c \in Client, call[c].pc \in {"checkKey", "enter"}, Replay(c)
  PROVE  /\ Moves(c) /\ call'[c].pc = "idle"
         /\ answers' \subseteq Answers /\ UNCHANGED <<runs, lost, unread>>
<1>1. Moves(c) /\ call'[c].pc = "idle"
  BY ReturnMoves DEF Typed, Replay
<1>2. call[c].key \in Key
  BY DEF Typed, CallsTyped, Calls, Known, Replay
<1>3. keys[call[c].key] \in Saved
  BY <1>2 DEF Typed, TablesTyped, Known, Replay
<1>4. keys[call[c].key].answer \in 0 .. MaxRuns
  BY <1>3 DEF Saved
<1>5. answers' \subseteq Answers
  <2>1. CASE keys[call[c].key].request = Request(c)
    BY <1>4, <2>1, AnsweredTyped DEF Replay, Typed, PastTyped, Creating, Resolved
  <2>2. CASE keys[call[c].key].request # Request(c)
    BY <2>2 DEF Replay, Typed, PastTyped
  <2>3. QED
    BY <2>1, <2>2
<1>6. QED
  BY <1>1, <1>5 DEF Replay

LEMMA NotFoundTyped ==
  ASSUME Typed, NEW c \in Client, NotFound(c)
  PROVE  PastTyped' /\ lost \subseteq lost'
<1>1. Known(c) => call[c].key \in Key
  BY DEF Typed, CallsTyped, Calls, Known
<1>2. QED
  BY <1>1 DEF NotFound, Typed, PastTyped

\* The outcomes of saving a key, beside SaveFirst.
NoKey(c) == call[c].key = None /\ UNCHANGED <<keys, answers, lost, unread>>

LateSave(c) ==
  /\ Known(c)
  /\ IF keys[call[c].key].request = Request(c)
       THEN Answered(c, keys[call[c].key].answer)
       ELSE UNCHANGED answers
  /\ UNCHANGED <<keys, lost, unread>>

UnreadSave(c) ==
  /\ Known(c)
  /\ Answered(c, call[c].answer)
  /\ unread' = unread \cup {call[c].key} /\ UNCHANGED <<keys, lost>>

LostSave(c) ==
  /\ call[c].key # None
  /\ lost' = lost \cup {call[c].key} /\ UNCHANGED <<keys, answers, unread>>

LEMMA SaveKeyCases ==
  ASSUME NEW c \in Client, SaveKey(c)
  PROVE  Return(c) /\ (NoKey(c) \/ SaveFirst(c) \/ LateSave(c) \/ UnreadSave(c) \/ LostSave(c))
BY DEF SaveKey, SaveFails, NoKey, LateSave, UnreadSave, LostSave

LEMMA SaveKeyTyped ==
  ASSUME Typed, NEW c \in Client, call[c].pc \in {"saveCreated", "saveRun"}, SaveKey(c)
  PROVE  /\ Moves(c) /\ call'[c].pc = "idle"
         /\ keys' \in [Key -> Saved \cup {None}]
         /\ answers' \subseteq Answers /\ lost' \subseteq Key /\ unread' \subseteq Key
<1>1. Moves(c) /\ call'[c].pc = "idle"
  BY ReturnMoves, SaveKeyCases DEF Typed
<1>2. /\ call[c].answer \in 0 .. MaxRuns /\ Request(c) \in Requests
      /\ call[c].key \in Key \cup {None}
      /\ call[c].pc \in Creating \cup Resolved
  <2>1. call[c].pc \in Creating \cup Resolved
    BY DEF Creating, Resolved
  <2>2. QED
    BY <2>1, RequestTyped DEF Typed, CallsTyped, Calls, CallOk
<1>3. CallsTyped /\ keys \in [Key -> Saved \cup {None}] /\ answers \subseteq Answers
      /\ lost \subseteq Key /\ unread \subseteq Key
  BY DEF Typed, TablesTyped, PastTyped
<1>4. CASE NoKey(c)
  BY <1>1, <1>3, <1>4 DEF NoKey
<1>5. CASE SaveFirst(c)
  <2>1. answers' \subseteq Answers
    BY <1>2, <1>3, <1>5, AnsweredTyped DEF SaveFirst
  <2>2. [request |-> Request(c), answer |-> call[c].answer] \in Saved
    BY <1>2 DEF Saved
  <2>3. QED
    BY <1>1, <1>2, <1>3, <1>5, <2>1, <2>2 DEF SaveFirst
<1>6. CASE LateSave(c)
  <2>1. keys[call[c].key] \in Saved
    BY <1>2, <1>3, <1>6 DEF LateSave, Known
  <2>2. keys[call[c].key].answer \in 0 .. MaxRuns
    BY <2>1 DEF Saved
  <2>3. answers' \subseteq Answers
    <3>1. CASE keys[call[c].key].request = Request(c)
      BY <1>2, <1>3, <1>6, <2>2, <3>1, AnsweredTyped DEF LateSave
    <3>2. CASE keys[call[c].key].request # Request(c)
      BY <1>3, <1>6, <3>2 DEF LateSave
    <3>3. QED
      BY <3>1, <3>2
  <2>4. QED
    BY <1>1, <1>3, <1>6, <2>3 DEF LateSave
<1>7. CASE LostSave(c)
  BY <1>1, <1>2, <1>3, <1>7 DEF LostSave
<1>8. CASE UnreadSave(c)
  <2>1. answers' \subseteq Answers
    BY <1>2, <1>3, <1>8, AnsweredTyped DEF UnreadSave
  <2>2. QED
    BY <1>1, <1>2, <1>3, <1>8, <2>1 DEF UnreadSave, Known
<1>9. QED
  BY <1>4, <1>5, <1>6, <1>7, <1>8, SaveKeyCases

-----------------------------------------------------------------------------
(* Every step keeps the types. *)

LEMMA InitTyped == Init => Typed
BY IdleTyped, FS_EmptySet
   DEF Init, Typed, CallsTyped, ServersTyped, LocksTyped, TablesTyped, PastTyped

\* The steps of an execute between the look-up of its key and its save.
Holding == {"record", "saveRun"}

\* A call that begins has the fields of its first step.
LEMMA CallingBegins ==
  ASSUME NEW c \in Client, Calling(c)
  PROVE  \E request \in Calls :
           /\ Begin(c, request) /\ CallOk(request)
           /\ request.pc \notin Holding /\ phase[request.server] = "up"
<1> USE DEF Idle, Calls, PCs, CallOk, Creating, Executing, Resolved, Holding
<1>1. PICK s \in Server, n \in Name :
        \/ \E v \in Version, overwrite \in BOOLEAN, k \in Key \cup {None} :
             CallCreate(c, s, n, v, overwrite, k)
        \/ CallDelete(c, s, n)
        \/ \E v \in Version \cup {None}, k \in Key \cup {None} : CallExecute(c, s, n, v, k)
  BY DEF Calling
<1>2. CASE CallDelete(c, s, n)
  <2> DEFINE request == [Idle EXCEPT !.pc = "find", !.op = "delete", !.server = s, !.name = n]
  <2>1. /\ request \in Calls /\ CallOk(request)
        /\ request.pc \notin Holding /\ request.server = s
    OBVIOUS
  <2>2. Begin(c, request) /\ phase[s] = "up"
    BY <1>2 DEF CallDelete
  <2> HIDE DEF request, Idle, Calls, CallOk, Holding
  <2>3. QED
    BY <2>1, <2>2
<1>3. CASE \E v \in Version, overwrite \in BOOLEAN, k \in Key \cup {None} :
             CallCreate(c, s, n, v, overwrite, k)
  <2>0. PICK v \in Version, overwrite \in BOOLEAN, k \in Key \cup {None} :
          CallCreate(c, s, n, v, overwrite, k)
    BY <1>3
  <2> DEFINE request == [Idle EXCEPT !.pc = "checkKey", !.op = "create", !.server = s, !.name = n,
                                     !.version = v, !.overwrite = overwrite, !.key = k]
  <2>1. /\ request \in Calls /\ CallOk(request)
        /\ request.pc \notin Holding /\ request.server = s
    OBVIOUS
  <2>2. Begin(c, request) /\ phase[s] = "up"
    BY <2>0 DEF CallCreate
  <2> HIDE DEF request, Idle, Calls, CallOk, Holding
  <2>3. QED
    BY <2>1, <2>2
<1>4. CASE \E v \in Version \cup {None}, k \in Key \cup {None} : CallExecute(c, s, n, v, k)
  <2>0. PICK v \in Version \cup {None}, k \in Key \cup {None} : CallExecute(c, s, n, v, k)
    BY <1>4
  <2> DEFINE request == [Idle EXCEPT !.pc = "resolve", !.op = "execute", !.server = s, !.name = n,
                                     !.version = v, !.key = k]
  <2>1. /\ request \in Calls /\ CallOk(request)
        /\ request.pc \notin Holding /\ request.server = s
    OBVIOUS
  <2>2. Begin(c, request) /\ phase[s] = "up"
    BY <2>0 DEF CallExecute
  <2> HIDE DEF request, Idle, Calls, CallOk, Holding
  <2>3. QED
    BY <2>1, <2>2
<1>5. QED
  BY <1>1, <1>2, <1>3, <1>4

LEMMA CallingTyped ==
  ASSUME Typed, NEW c \in Client, Calling(c)
  PROVE  Typed'
<1>1. PICK request \in Calls : CallOk(request) /\ Begin(c, request)
  BY CallingBegins
<1>2. CallsTyped'
  BY <1>1 DEF Begin, Typed, CallsTyped
<1>3. QED
  BY <1>1, <1>2 DEF Begin, serverVars, lockVars, storeVars, pastVars, Typed, ServersTyped, LocksTyped,
     TablesTyped, PastTyped

LEMMA ServingTyped ==
  ASSUME Typed, NEW s \in Server, Connect(s) \/ List(s) \/ Load(s) \/ Serve(s)
  PROVE  Typed'
<1>1. CallsTyped' /\ LocksTyped' /\ TablesTyped' /\ PastTyped'
  BY DEF Connect, List, Load, Serve, ServerUnchanged, lockVars, storeVars, pastVars, Typed, CallsTyped,
     LocksTyped, TablesTyped, PastTyped
<1>2. ServersTyped'
  <2>1. CASE Connect(s)
    BY <2>1 DEF Connect, Typed, ServersTyped
  <2>2. CASE List(s)
    BY <2>2 DEF List, Typed, ServersTyped, TablesTyped
  <2>3. CASE Load(s)
    <3>1. PICK g \in listed[s] :
            /\ listed' = [listed EXCEPT ![s] = @ \ {g}]
            /\ memory' = IF graphs[g.name] = None THEN memory
                         ELSE [memory EXCEPT ![s][g.name] =
                                 [version |-> g.version, spec |-> graphs[g.name]]]
      BY <2>3 DEF Load
    <3>2. g \in [name : Name, version : Version]
      BY DEF Typed, ServersTyped
    <3>3. g.name \in Name /\ g.version \in Version
      BY <3>2
    <3>4. memory' \in [Server -> [Name -> Graph \cup {None}]]
      <4>1. CASE graphs[g.name] = None
        BY <3>1, <4>1 DEF Typed, ServersTyped
      <4>2. CASE graphs[g.name] # None
        <5>1. [version |-> g.version, spec |-> graphs[g.name]] \in Graph
          BY <3>3, <4>2 DEF Graph, Typed, TablesTyped
        <5>2. QED
          BY <3>1, <3>3, <4>2, <5>1 DEF Typed, ServersTyped
      <4>3. QED
        BY <4>1, <4>2
    <3>5. QED
      BY <2>3, <3>1, <3>4 DEF Load, Typed, ServersTyped
  <2>4. CASE Serve(s)
    BY <2>4 DEF Serve, Typed, ServersTyped
  <2>5. QED
    BY <2>1, <2>2, <2>3, <2>4
<1>3. QED
  BY <1>1, <1>2 DEF Typed

LEMMA CrashTyped ==
  ASSUME Typed, Crash
  PROVE  Typed'
BY IdleTyped DEF Crash, storeVars, pastVars, Typed, CallsTyped, ServersTyped, LocksTyped, TablesTyped, PastTyped

\* The mutexes stay typed when a caller takes or drops one.
LEMMA LocksStay ==
  ASSUME Typed, NEW c \in Client, call[c].server \in Server
  PROVE  /\ Take(graphsLock, c) \in [Server -> Client \cup {None}]
         /\ Drop(graphsLock, c) \in [Server -> Client \cup {None}]
         /\ Take(runsLock, c) \in [Server -> Client \cup {None}]
         /\ Drop(runsLock, c) \in [Server -> Client \cup {None}]
BY DEF Typed, LocksTyped, Take, Drop

LEMMA CreateTyped ==
  ASSUME Typed, NEW c \in Client,
         CheckKey(c) \/ Register(c) \/ InsertVersion(c) \/ Upsert(c) \/ SaveCreated(c)
  PROVE  Typed' /\ Moves(c)
<1> USE DEF CallUnchanged, NoLocks, serverVars, lockVars, storeVars, pastVars
<1>0. CallsTyped /\ call[c] \in Calls /\ CallOk(call[c])
  BY DEF Typed, CallsTyped
<1>1. CASE CheckKey(c)
  <2>1. CASE Replay(c)
    <3>1. Moves(c) /\ answers' \subseteq Answers /\ UNCHANGED <<runs, lost, unread>>
      BY <1>1, <2>1, ReplayTyped DEF CheckKey, At
    <3>2. QED
      BY <1>0, <1>1, <3>1, MovesTyped DEF CheckKey, Typed, ServersTyped, LocksTyped, TablesTyped, PastTyped
  <2>2. CASE NotFound(c) /\ GoTo(c, "register")
    <3>1. Moves(c)
      <4>1. CallOk([call[c] EXCEPT !.pc = "register"])
        BY <1>0, <1>1 DEF CheckKey, At, Calls, CallOk, PCs, Creating, Executing, Resolved
      <4>2. QED
        BY <1>0, <2>2, <4>1, GoToMoves DEF PCs, Creating, Executing, Resolved
    <3>2. QED
      BY <1>0, <1>1, <2>2, <3>1, MovesTyped, NotFoundTyped
         DEF CheckKey, Typed, ServersTyped, LocksTyped, TablesTyped
  <2>3. QED
    BY <1>1, <2>1, <2>2 DEF CheckKey
<1>2. CASE Register(c)
  <2>1. Moves(c)
    <3>1. CASE Return(c)
      BY <1>0, <3>1, ReturnMoves
    <3>2. CASE GoTo(c, "insertVersion")
      <4>1. CallOk([call[c] EXCEPT !.pc = "insertVersion"])
        BY <1>0, <1>2 DEF Register, At, Calls, CallOk, PCs, Creating, Executing, Resolved
      <4>2. QED
        BY <1>0, <3>2, <4>1, GoToMoves DEF PCs, Creating, Executing, Resolved
    <3>3. QED
      BY <1>2, <3>1, <3>2 DEF Register
  <2>2. call[c].server \in Server
    BY <1>0, <1>2 DEF Register, At, CallOk
  <2>3. LocksTyped'
    BY <1>2, <2>2, LocksStay DEF Register, Typed, LocksTyped
  <2>4. QED
    BY <1>0, <1>2, <2>1, <2>3, MovesTyped DEF Register, Typed, ServersTyped, TablesTyped, PastTyped
<1>3. CASE InsertVersion(c)
  <2>1. Moves(c)
    BY <1>0, <1>3, GoToMoves DEF InsertVersion, At, Calls, CallOk, PCs, Creating, Executing, Resolved
  <2>2. call[c].name \in Name /\ call[c].version \in Version
    BY <1>0, <1>3 DEF InsertVersion, At, CallOk, Creating
  <2>3. QED
    BY <1>0, <1>3, <2>1, <2>2, MovesTyped
       DEF InsertVersion, Typed, ServersTyped, LocksTyped, TablesTyped, PastTyped
<1>4. CASE Upsert(c)
  <2>1. /\ call[c].name \in Name /\ call[c].version \in Version
        /\ call[c].server \in Server /\ call[c].op = "create"
    BY <1>0, <1>4 DEF Upsert, At, CallOk, Creating
  <2>2. /\ [call[c] EXCEPT !.pc = "saveCreated", !.answer = Created] \in Calls
        /\ CallOk([call[c] EXCEPT !.pc = "saveCreated", !.answer = Created])
    <3>1. Created \in 0 .. MaxRuns /\ "saveCreated" \in PCs
      BY DEF Created, PCs
    <3>2. [call[c] EXCEPT !.pc = "saveCreated", !.answer = Created] \in Calls
      BY <1>0, <3>1 DEF Calls
    <3>3. CallOk([call[c] EXCEPT !.pc = "saveCreated", !.answer = Created])
      BY <1>0, <2>1, <3>1 DEF Calls, CallOk, Creating, Executing, Resolved
    <3>4. QED
      BY <3>2, <3>3
  <2>3. call' = [call EXCEPT ![c] = [call[c] EXCEPT !.pc = "saveCreated", !.answer = Created]]
    BY <1>0, <1>4 DEF Upsert, CallsTyped
  <2>4. Moves(c)
    BY <1>0, <2>2, <2>3 DEF Moves, CallsTyped
  <2>5. [version |-> call[c].version, spec |-> call[c].version] \in Graph
    BY <2>1 DEF Graph
  <2>6. memory' \in [Server -> [Name -> Graph \cup {None}]]
    BY <1>4, <2>1, <2>5 DEF Upsert, Typed, ServersTyped
  <2>7. LocksTyped'
    BY <1>4, <2>1, LocksStay DEF Upsert, Typed, LocksTyped
  <2>8. graphs' \in [Name -> Version \cup {None}]
    BY <1>4, <2>1 DEF Upsert, Typed, TablesTyped
  <2>9. QED
    BY <1>0, <1>4, <2>4, <2>6, <2>7, <2>8, MovesTyped
       DEF Upsert, Typed, ServersTyped, TablesTyped, PastTyped
<1>5. CASE SaveCreated(c)
  <2>1. /\ Moves(c) /\ keys' \in [Key -> Saved \cup {None}]
        /\ answers' \subseteq Answers /\ lost' \subseteq Key /\ unread' \subseteq Key
    BY <1>5, SaveKeyTyped DEF SaveCreated, At
  <2>2. QED
    BY <1>0, <1>5, <2>1, MovesTyped
       DEF SaveCreated, Typed, ServersTyped, LocksTyped, TablesTyped, PastTyped
<1>6. QED
  BY <1>1, <1>2, <1>3, <1>4, <1>5

LEMMA DeleteTyped ==
  ASSUME Typed, NEW c \in Client, Find(c) \/ DeleteStored(c) \/ Forget(c)
  PROVE  Typed' /\ Moves(c)
<1> USE DEF CallUnchanged, NoLocks, serverVars, lockVars, storeVars, pastVars
<1>0. CallsTyped /\ call[c] \in Calls /\ CallOk(call[c])
  BY DEF Typed, CallsTyped
<1>1. CASE Find(c)
  <2>1. Moves(c)
    <3>1. CASE Return(c)
      BY <1>0, <3>1, ReturnMoves
    <3>2. CASE GoTo(c, "deleteStored")
      <4>1. CallOk([call[c] EXCEPT !.pc = "deleteStored"])
        BY <1>0, <1>1 DEF Find, At, Calls, CallOk, PCs, Creating, Executing, Resolved
      <4>2. QED
        BY <1>0, <3>2, <4>1, GoToMoves DEF PCs, Creating, Executing, Resolved
    <3>3. QED
      BY <1>1, <3>1, <3>2 DEF Find
  <2>2. QED
    BY <1>0, <1>1, <2>1, MovesTyped DEF Find, Typed, ServersTyped, LocksTyped, TablesTyped, PastTyped
<1>2. CASE DeleteStored(c)
  <2>1. Moves(c)
    <3>1. CASE Return(c)
      BY <1>0, <3>1, ReturnMoves
    <3>2. CASE GoTo(c, "forget")
      <4>1. CallOk([call[c] EXCEPT !.pc = "forget"])
        BY <1>0, <1>2 DEF DeleteStored, At, Calls, CallOk, PCs, Creating, Executing, Resolved
      <4>2. QED
        BY <1>0, <3>2, <4>1, GoToMoves DEF PCs, Creating, Executing, Resolved
    <3>3. QED
      BY <1>2, <3>1, <3>2 DEF DeleteStored
  <2>2. call[c].name \in Name
    BY <1>0, <1>2 DEF DeleteStored, At, CallOk
  <2>3. TablesTyped'
    BY <1>2, <2>2 DEF DeleteStored, Typed, TablesTyped
  <2>4. QED
    BY <1>0, <1>2, <2>1, <2>3, MovesTyped DEF DeleteStored, Typed, ServersTyped, LocksTyped, PastTyped
<1>3. CASE Forget(c)
  <2>1. Moves(c)
    BY <1>0, <1>3, ReturnMoves DEF Forget
  <2>2. call[c].name \in Name /\ call[c].server \in Server
    BY <1>0, <1>3 DEF Forget, At, CallOk
  <2>3. memory' \in [Server -> [Name -> Graph \cup {None}]]
    BY <1>3, <2>2 DEF Forget, Typed, ServersTyped
  <2>4. QED
    BY <1>0, <1>3, <2>1, <2>3, MovesTyped
       DEF Forget, Typed, ServersTyped, LocksTyped, TablesTyped, PastTyped
<1>4. QED
  BY <1>1, <1>2, <1>3

\* A run is started: what the step does, by name.
Starts(c, id) ==
  /\ id \in 1 .. MaxRuns
  /\ runs' = runs \cup {[id |-> id, key |-> call[c].key, request |-> Request(c),
                         server |-> call[c].server, life |-> life[call[c].server]]}
  /\ call' = [call EXCEPT ![c] = [call[c] EXCEPT !.pc = "saveRun", !.answer = id]]

LEMMA StartRunStarts ==
  ASSUME Typed, NEW c \in Client, StartRun(c)
  PROVE  \E id \in 1 .. MaxRuns : Starts(c, id)
<1>1. Cardinality(runs) \in Nat
  BY FS_CardinalityType DEF Typed, PastTyped
<1>2. Cardinality(runs) + 1 \in 1 .. MaxRuns
  BY <1>1 DEF StartRun
<1>3. call' = [call EXCEPT ![c] = [call[c] EXCEPT !.pc = "saveRun", !.answer = Cardinality(runs) + 1]]
  BY DEF StartRun, Typed, CallsTyped
<1>4. Starts(c, Cardinality(runs) + 1)
  BY <1>2, <1>3 DEF StartRun, Starts
<1>5. QED
  BY <1>2, <1>4

LEMMA ExecuteTyped ==
  ASSUME Typed, NEW c \in Client,
         Resolve(c) \/ ResolveVersion(c) \/ Enter(c) \/ Refuse(c) \/ StartRun(c) \/ SaveRun(c)
  PROVE  Typed' /\ Moves(c)
<1> USE DEF CallUnchanged, NoLocks, serverVars, lockVars, storeVars, pastVars
<1>0. CallsTyped /\ call[c] \in Calls /\ CallOk(call[c])
  BY DEF Typed, CallsTyped
\* What resolving a graph does to the call.
<1>a. ASSUME NEW graph \in Graph, call[c].pc \in {"resolve", "resolveVersion"},
             call' = [call EXCEPT ![c].pc = "enter", ![c].graph = graph]
      PROVE  Moves(c)
  <2>1. call' = [call EXCEPT ![c] = [call[c] EXCEPT !.pc = "enter", !.graph = graph]]
    BY <1>0, <1>a DEF CallsTyped
  <2>2. /\ [call[c] EXCEPT !.pc = "enter", !.graph = graph] \in Calls
        /\ CallOk([call[c] EXCEPT !.pc = "enter", !.graph = graph])
    BY <1>0, <1>a DEF Calls, PCs, CallOk, Creating, Executing, Resolved
  <2>3. QED
    BY <1>0, <2>1, <2>2 DEF Moves, CallsTyped
<1>1. CASE Resolve(c)
  <2>1. /\ call[c].pc = "resolve" /\ call[c].server \in Server /\ call[c].name \in Name
        /\ Registered(c) \in Graph \cup {None}
    <3>1. call[c].pc = "resolve"
      BY <1>1 DEF Resolve, At
    <3>2. call[c].server \in Server /\ call[c].name \in Name
      BY <1>0, <3>1 DEF CallOk
    <3>3. QED
      BY <3>1, <3>2 DEF Registered, Typed, ServersTyped
  <2>2. CASE Return(c)
    BY <1>0, <1>1, <2>2, ReturnMoves, MovesTyped
       DEF Resolve, Typed, ServersTyped, LocksTyped, TablesTyped, PastTyped
  <2>3. CASE /\ Registered(c) # None
             /\ call' = [call EXCEPT ![c].pc = "enter", ![c].graph = Registered(c)]
    <3>1. Moves(c)
      BY <1>a, <2>1, <2>3
    <3>2. QED
      BY <1>0, <1>1, <3>1, MovesTyped
         DEF Resolve, Typed, ServersTyped, LocksTyped, TablesTyped, PastTyped
  <2>4. CASE Registered(c) # None /\ call[c].version \notin {None, Registered(c).version}
             /\ GoTo(c, "resolveVersion")
    <3>1. call[c].version \in Version
      BY <1>0, <2>4 DEF Calls
    <3>2. Moves(c)
      BY <1>0, <1>1, <2>1, <2>4, <3>1, GoToMoves DEF Calls, CallOk, PCs, Creating, Executing, Resolved
    <3>3. QED
      BY <1>0, <1>1, <3>2, MovesTyped
         DEF Resolve, Typed, ServersTyped, LocksTyped, TablesTyped, PastTyped
  <2>5. QED
    BY <1>1, <2>2, <2>3, <2>4 DEF Resolve
<1>2. CASE ResolveVersion(c)
  <2>1. call[c].pc = "resolveVersion" /\ call[c].version \in Version
    BY <1>0, <1>2 DEF ResolveVersion, At, CallOk
  <2>2. [version |-> call[c].version, spec |-> call[c].version] \in Graph
    BY <2>1 DEF Graph
  <2>3. Moves(c)
    BY <1>0, <1>2, <1>a, <2>1, <2>2, ReturnMoves DEF ResolveVersion
  <2>4. QED
    BY <1>0, <1>2, <2>3, MovesTyped
       DEF ResolveVersion, Typed, ServersTyped, LocksTyped, TablesTyped, PastTyped
<1>3. CASE Enter(c)
  <2>1. call[c].pc = "enter" /\ call[c].server \in Server
    BY <1>0, <1>3 DEF Enter, At, CallOk
  <2>2. LocksTyped'
    BY <1>3, <2>1, LocksStay DEF Enter, Typed, LocksTyped
  <2>3. CASE Replay(c)
    <3>1. Moves(c) /\ answers' \subseteq Answers /\ UNCHANGED <<runs, lost, unread>>
      BY <2>1, <2>3, ReplayTyped
    <3>2. QED
      BY <1>0, <1>3, <2>2, <3>1, MovesTyped DEF Enter, Typed, ServersTyped, TablesTyped, PastTyped
  <2>4. CASE NotFound(c) /\ GoTo(c, "record")
    <3>1. Moves(c)
      BY <1>0, <2>1, <2>4, GoToMoves DEF Calls, CallOk, PCs, Creating, Executing, Resolved
    <3>2. QED
      BY <1>0, <1>3, <2>2, <2>4, <3>1, MovesTyped, NotFoundTyped
         DEF Enter, Typed, ServersTyped, TablesTyped
  <2>5. QED
    BY <1>3, <2>3, <2>4 DEF Enter
<1>4. CASE Refuse(c)
  <2>1. call[c].server \in Server
    BY <1>0, <1>4 DEF Refuse, At, CallOk
  <2>2. Moves(c)
    BY <1>0, <1>4, ReturnMoves DEF Refuse
  <2>3. LocksTyped'
    BY <1>4, <2>1, LocksStay DEF Refuse, Typed, LocksTyped
  <2>4. QED
    BY <1>0, <1>4, <2>2, <2>3, MovesTyped DEF Refuse, Typed, ServersTyped, TablesTyped, PastTyped
<1>5. CASE StartRun(c)
  <2>1. PICK id \in 1 .. MaxRuns : Starts(c, id)
    BY <1>5, StartRunStarts
  <2>2. /\ call[c].pc = "record" /\ call[c].server \in Server /\ call[c].name \in Name
        /\ call[c].op = "execute" /\ call[c].graph \in Graph /\ call[c].key \in Key \cup {None}
    BY <1>0, <1>5 DEF StartRun, At, CallOk, Executing, Resolved, Calls
  <2>3. /\ [call[c] EXCEPT !.pc = "saveRun", !.answer = id] \in Calls
        /\ CallOk([call[c] EXCEPT !.pc = "saveRun", !.answer = id])
    <3>1. id \in 0 .. MaxRuns /\ "saveRun" \in PCs
      BY DEF PCs
    <3>2. [call[c] EXCEPT !.pc = "saveRun", !.answer = id] \in Calls
      BY <1>0, <3>1 DEF Calls
    <3>3. CallOk([call[c] EXCEPT !.pc = "saveRun", !.answer = id])
      BY <1>0, <2>2, <3>1 DEF Calls, CallOk, Creating, Executing, Resolved
    <3>4. QED
      BY <3>2, <3>3
  <2>4. Moves(c)
    BY <1>0, <2>1, <2>3 DEF Moves, CallsTyped, Starts
  <2>5. Request(c) \in Requests /\ life[call[c].server] \in Nat
    BY <1>0, <2>2, RequestTyped DEF Resolved, Typed, ServersTyped
  <2>6. runs' \subseteq Runs /\ IsFiniteSet(runs')
    <3>1. [id |-> id, key |-> call[c].key, request |-> Request(c),
           server |-> call[c].server, life |-> life[call[c].server]] \in Runs
      BY <2>2, <2>5 DEF Runs
    <3>2. runs \subseteq Runs /\ IsFiniteSet(runs)
      BY DEF Typed, PastTyped
    <3>3. QED
      BY <2>1, <3>1, <3>2, FS_AddElement DEF Starts
  <2>7. call[c].graph.version \in Version
    BY <2>2 DEF Graph
  <2>8. executions' \subseteq [name : Name, version : Version]
    BY <1>5, <2>2, <2>7 DEF StartRun, Typed, TablesTyped
  <2>9. QED
    BY <1>0, <1>5, <2>4, <2>6, <2>8, MovesTyped
       DEF StartRun, Typed, ServersTyped, LocksTyped, TablesTyped, PastTyped
<1>6. CASE SaveRun(c)
  <2>1. /\ Moves(c) /\ keys' \in [Key -> Saved \cup {None}]
        /\ answers' \subseteq Answers /\ lost' \subseteq Key /\ unread' \subseteq Key
    BY <1>6, SaveKeyTyped DEF SaveRun, At
  <2>2. call[c].server \in Server
    BY <1>0, <1>6 DEF SaveRun, At, CallOk
  <2>3. LocksTyped'
    BY <1>6, <2>2, LocksStay DEF SaveRun, Typed, LocksTyped
  <2>4. QED
    BY <1>0, <1>6, <2>1, <2>3, MovesTyped DEF SaveRun, Typed, ServersTyped, TablesTyped, PastTyped
<1>7. QED
  BY <1>1, <1>2, <1>3, <1>4, <1>5, <1>6

LEMMA NextTyped ==
  ASSUME Typed, [Next]_vars
  PROVE  Typed'
<1>1. CASE UNCHANGED vars
  BY <1>1 DEF vars, serverVars, lockVars, storeVars, pastVars, Typed, CallsTyped, ServersTyped, LocksTyped,
     TablesTyped, PastTyped
<1>2. CASE Next
  BY <1>2, CallingTyped, ServingTyped, CrashTyped, CreateTyped, DeleteTyped, ExecuteTyped
     DEF Next, Handling
<1>3. QED
  BY <1>1, <1>2

\* The typing invariant: what every call under way has, and the shape of the store.
THEOREM CatalogTyped == Spec => []Typed
<1>1. QED
  BY InitTyped, NextTyped, PTL DEF Spec

\* Every variable has its type.
THEOREM TypeCorrect == Spec => []TypeOK
<1>1. Typed => TypeOK
  BY DEF Typed, CallsTyped, ServersTyped, LocksTyped, TablesTyped, PastTyped, TypeOK, Calls
<1>2. QED
  BY <1>1, CatalogTyped, PTL

-----------------------------------------------------------------------------
(* A graph that an execution names keeps its versions. *)

LEMMA DeleteKeepsReferenced ==
  ASSUME Typed, NEW c \in Client, DeleteStored(c),
         NEW r \in versions, NEW x \in executions, x.name = r.name
  PROVE  r \in versions'
<1>1. CASE UNCHANGED storeVars
  BY <1>1 DEF storeVars
<1>2. CASE /\ ~InUse(call[c].name)
           /\ versions' = {v \in versions : v.name # call[c].name}
  <2>1. x \in [name : Name, version : Version]
    BY DEF Typed, TablesTyped
  <2>2. x.version \in Version /\ x = [name |-> x.name, version |-> x.version]
    BY <2>1
  <2>3. x.name # call[c].name
    BY <1>2, <2>2 DEF InUse, Referenced
  <2>4. QED
    BY <1>2, <2>3
<1>3. QED
  BY <1>1, <1>2 DEF DeleteStored

\* A call that begins changes nothing but itself.
LEMMA CallingKeeps ==
  ASSUME NEW c \in Client, Calling(c)
  PROVE  UNCHANGED <<versions, graphs, executions, keys, runs, answers, lost, unread>>
<1>1. ASSUME NEW request, Begin(c, request)
      PROVE  UNCHANGED <<versions, graphs, executions, keys, runs, answers, lost, unread>>
  BY <1>1 DEF Begin, storeVars, pastVars
<1>2. PICK s \in Server, n \in Name :
        \/ \E v \in Version, overwrite \in BOOLEAN, k \in Key \cup {None} :
             CallCreate(c, s, n, v, overwrite, k)
        \/ CallDelete(c, s, n)
        \/ \E v \in Version \cup {None}, k \in Key \cup {None} : CallExecute(c, s, n, v, k)
  BY DEF Calling
<1>3. ASSUME NEW v \in Version, NEW overwrite \in BOOLEAN, NEW k \in Key \cup {None},
             CallCreate(c, s, n, v, overwrite, k)
      PROVE  UNCHANGED <<versions, graphs, executions, keys, runs, answers, lost, unread>>
  BY <1>1, <1>3 DEF CallCreate
<1>4. CASE CallDelete(c, s, n)
  BY <1>1, <1>4 DEF CallDelete
<1>5. ASSUME NEW v \in Version \cup {None}, NEW k \in Key \cup {None}, CallExecute(c, s, n, v, k)
      PROVE  UNCHANGED <<versions, graphs, executions, keys, runs, answers, lost, unread>>
  BY <1>1, <1>5 DEF CallExecute
<1>6. QED
  BY <1>2, <1>3, <1>4, <1>5

LEMMA OthersKeepVersions ==
  ASSUME Next, \A c \in Client : ~DeleteStored(c)
  PROVE  versions \subseteq versions'
<1> USE DEF storeVars
<1>1. CASE \E s \in Server : Connect(s) \/ List(s) \/ Load(s) \/ Serve(s)
  BY <1>1 DEF Connect, List, Load, Serve, ServerUnchanged
<1>2. CASE Crash
  BY <1>2 DEF Crash
<1>3. CASE \E c \in Client : Calling(c)
  BY <1>3, CallingKeeps
<1>4. ASSUME NEW c \in Client,
             \/ CheckKey(c) \/ Register(c) \/ InsertVersion(c) \/ Upsert(c) \/ SaveCreated(c)
             \/ Find(c) \/ Forget(c)
      PROVE  versions \subseteq versions'
  <2>1. CASE InsertVersion(c)
    BY <2>1 DEF InsertVersion
  <2>2. CASE CheckKey(c) \/ Register(c) \/ Find(c)
    BY <2>2 DEF CheckKey, Register, Find
  <2>3. CASE Upsert(c) \/ SaveCreated(c) \/ Forget(c)
    BY <2>3 DEF Upsert, SaveCreated, Forget
  <2>4. QED
    BY <1>4, <2>1, <2>2, <2>3
<1>5. ASSUME NEW c \in Client,
             \/ Resolve(c) \/ ResolveVersion(c) \/ Enter(c) \/ Refuse(c) \/ StartRun(c) \/ SaveRun(c)
      PROVE  versions \subseteq versions'
  BY <1>5 DEF Resolve, ResolveVersion, Enter, Refuse, StartRun, SaveRun
<1>6. QED
  BY <1>1, <1>2, <1>3, <1>4, <1>5 DEF Next, Handling

\* No call removes a version of a graph that a recorded run names.
THEOREM ReferencedStays == Spec => ReferencedGraphStays
<1>1. ASSUME Typed, [Next]_vars
      PROVE  [\A r \in versions : (\E x \in executions : x.name = r.name) => r \in versions']_vars
  <2>1. CASE \E c \in Client : DeleteStored(c)
    BY <1>1, <2>1, DeleteKeepsReferenced
  <2>2. CASE \A c \in Client : ~DeleteStored(c)
    BY <1>1, <2>2, OthersKeepVersions
  <2>3. QED
    BY <2>1, <2>2
<1>2. QED
  BY <1>1, CatalogTyped, PTL DEF Spec, ReferencedGraphStays

-----------------------------------------------------------------------------
(* What was answered under a key is what is stored under it. *)

KeyInv ==
  \A a \in answers :
    /\ keys[a.key] # None
    /\ a.key \notin unread => keys[a.key].request = a.request /\ keys[a.key].answer = a.answer

LEMMA ReplayKeepsAnswers ==
  ASSUME Typed, KeyInv, NEW c \in Client, Replay(c), UNCHANGED keys
  PROVE  KeyInv'
BY DEF KeyInv, Known, Replay, Answered

LEMMA SaveKeepsAnswers ==
  ASSUME Typed, KeyInv, NEW c \in Client, call[c].pc \in {"saveCreated", "saveRun"}, SaveKey(c)
  PROVE  /\ KeyInv'
         /\ \A k \in Key : keys[k] # None => keys'[k] # None
         /\ lost \subseteq lost'
         /\ call[c].key \in {None} \cup lost' \/ keys'[call[c].key] # None
<1>1. CASE NoKey(c) \/ LostSave(c)
  BY <1>1 DEF NoKey, LostSave, KeyInv
<1>2. CASE LateSave(c)
  BY <1>2 DEF LateSave, KeyInv, Known, Answered
<1>3. CASE SaveFirst(c)
  <2>1. call[c].key \in Key /\ keys[call[c].key] = None
    BY <1>3 DEF SaveFirst, Known, Typed, CallsTyped, Calls
  <2>2. call[c].pc \in Creating \cup Resolved /\ call[c].answer \in 0 .. MaxRuns
    BY DEF Typed, CallsTyped, CallOk, Creating, Resolved
  <2>3. [request |-> Request(c), answer |-> call[c].answer] \in Saved
    BY <2>2, RequestTyped DEF Typed, Saved
  <2>4. /\ keys'[call[c].key] = [request |-> Request(c), answer |-> call[c].answer]
        /\ keys'[call[c].key] # None
        /\ \A k \in Key : keys[k] # None => keys'[k] = keys[k]
    BY <1>3, <2>1, <2>3 DEF SaveFirst, Typed, TablesTyped
  <2>5. answers' = answers \cup {[key |-> call[c].key, request |-> Request(c), answer |-> call[c].answer]}
    BY <1>3 DEF SaveFirst, Answered
  <2>6. \A a \in answers : a.key \in Key
    BY DEF Typed, PastTyped, Answers
  <2>7. KeyInv'
    BY <1>3, <2>4, <2>5, <2>6 DEF KeyInv, SaveFirst
  <2>8. QED
    BY <1>3, <2>4, <2>7 DEF SaveFirst
<1>4. CASE UnreadSave(c)
  BY <1>4 DEF UnreadSave, KeyInv, Known, Answered
<1>5. QED
  BY <1>1, <1>2, <1>3, <1>4, SaveKeyCases

LEMMA KeyInvNext ==
  ASSUME Typed, KeyInv, [Next]_vars
  PROVE  KeyInv'
<1> USE DEF storeVars, pastVars
<1>1. ASSUME UNCHANGED <<keys, answers, unread>> PROVE KeyInv'
  BY <1>1 DEF KeyInv
<1>2. CASE UNCHANGED vars
  BY <1>1, <1>2 DEF vars
<1>3. CASE \E s \in Server : Connect(s) \/ List(s) \/ Load(s) \/ Serve(s)
  BY <1>1, <1>3 DEF Connect, List, Load, Serve, ServerUnchanged
<1>4. CASE Crash
  BY <1>1, <1>4 DEF Crash
<1>5. CASE \E c \in Client : Calling(c)
  <2>1. UNCHANGED <<keys, answers, unread>>
    BY <1>5, CallingKeeps
  <2>2. QED
    BY <1>1, <2>1
<1>6. ASSUME NEW c \in Client, CheckKey(c) \/ Enter(c) PROVE KeyInv'
  <2>1. CASE NotFound(c)
    BY <1>1, <1>6, <2>1 DEF CheckKey, Enter, NotFound
  <2>2. CASE Replay(c)
    BY <1>6, <2>2, ReplayKeepsAnswers DEF CheckKey, Enter
  <2>3. QED
    BY <1>6, <2>1, <2>2 DEF CheckKey, Enter
<1>7. ASSUME NEW c \in Client, SaveCreated(c) \/ SaveRun(c) PROVE KeyInv'
  BY <1>7, SaveKeepsAnswers DEF SaveCreated, SaveRun, At
<1>8. ASSUME NEW c \in Client,
             \/ Register(c) \/ InsertVersion(c) \/ Upsert(c) \/ Find(c) \/ DeleteStored(c) \/ Forget(c)
             \/ Resolve(c) \/ ResolveVersion(c) \/ Refuse(c) \/ StartRun(c)
      PROVE  KeyInv'
  BY <1>1, <1>8 DEF Register, InsertVersion, Upsert, Find, DeleteStored, Forget, Resolve,
     ResolveVersion, Refuse, StartRun
<1>9. QED
  BY <1>2, <1>3, <1>4, <1>5, <1>6, <1>7, <1>8 DEF Next, Handling

\* One key and one request get one answer, over races, connections, restarts and missed
\* look-ups, unless a loser of the insert cannot read the row of the winner.
THEOREM OneAnswer == Spec => []OneAnswerPerKey
<1>1. Init => KeyInv
  BY DEF Init, KeyInv
<1>2. KeyInv => OneAnswerPerKey
  BY DEF KeyInv, OneAnswerPerKey
<1>3. QED
  BY <1>1, <1>2, KeyInvNext, CatalogTyped, PTL DEF Spec

-----------------------------------------------------------------------------
(* A key starts one run on one server. *)

\* Between the look-up of its key and its save a call holds the mutex of `runs`.
LockInv ==
  \A c \in Client :
    /\ call[c].pc # "idle" => phase[call[c].server] = "up"
    /\ call[c].pc \in Holding => runsLock[call[c].server] = c

\* A run's answer is stored, or about to be, or lost, or its server is gone.
Accounted(r) ==
  \/ r.key \in {None} \cup lost
  \/ keys[r.key] # None
  \/ life[r.server] > r.life \/ phase[r.server] = "down"
  \/ \E c \in Client : call[c].pc = "saveRun" /\ call[c].key = r.key /\ call[c].server = r.server

RunInv == \A r \in runs : r.life <= life[r.server] /\ Accounted(r)

\* Before a call starts its run there is none under its key.
RecordInv ==
  \A c \in Client : call[c].pc = "record" =>
    \A r \in runs :
      r.key = call[c].key /\ r.server = call[c].server /\ r.life = life[r.server]
        => r.key \in {None} \cup lost

OneRunInv == LockInv /\ RunInv /\ RecordInv /\ OneRunPerKey

\* A step of a call that is not in the locked part and stays out of it.
Outside(c) ==
  /\ Moves(c)
  /\ call[c].pc \notin Holding /\ call'[c].pc \notin Holding
  /\ call'[c].pc # "idle" => phase[call'[c].server] = "up"
  /\ UNCHANGED <<phase, life, runs, runsLock>>
  /\ \A k \in Key : keys[k] # None => keys'[k] # None
  /\ lost \subseteq lost'

LEMMA OutsideKeeps ==
  ASSUME Typed, OneRunInv, NEW c \in Client, Outside(c)
  PROVE  OneRunInv'
<1>1. \A r \in runs : r.key \in Key \cup {None}
  BY DEF Typed, PastTyped, Runs
<1>2. \A d \in Client : call'[d].pc \in Holding => call[d] = call'[d]
  BY DEF Outside, Moves
<1>3. \A d \in Client : call[d].pc \in Holding => call'[d] = call[d]
  BY DEF Outside, Moves
<1>4. LockInv'
  <2>1. \A d \in Client : d = c \/ call'[d] = call[d]
    BY DEF Outside, Moves
  <2>2. QED
    BY <2>1 DEF Outside, OneRunInv, LockInv
<1>5. RunInv'
  BY <1>1, <1>3 DEF Outside, OneRunInv, RunInv, Accounted, Holding
<1>6. RecordInv'
  BY <1>2 DEF Outside, OneRunInv, RecordInv, Holding
<1>7. OneRunPerKey'
  BY DEF Outside, OneRunInv, OneRunPerKey
<1>8. QED
  BY <1>4, <1>5, <1>6, <1>7 DEF OneRunInv

LEMMA HandlingOutside ==
  ASSUME Typed, OneRunInv, KeyInv, NEW c \in Client,
         \/ CheckKey(c) \/ Register(c) \/ InsertVersion(c) \/ Upsert(c) \/ SaveCreated(c)
         \/ Find(c) \/ DeleteStored(c) \/ Forget(c) \/ Resolve(c) \/ ResolveVersion(c)
  PROVE  Outside(c)
<1>1. Moves(c)
  BY CreateTyped, DeleteTyped, ExecuteTyped
<1>2. call[c] \in Calls /\ call \in [Client -> Calls]
  BY DEF Typed, CallsTyped
<1>3. call[c].pc # "idle" => phase[call[c].server] = "up"
  BY DEF OneRunInv, LockInv
<1>4. CASE SaveCreated(c)
  <2>1. /\ \A k \in Key : keys[k] # None => keys'[k] # None
        /\ lost \subseteq lost' /\ call'[c].pc = "idle"
    BY <1>4, SaveKeepsAnswers, SaveKeyTyped DEF SaveCreated, At
  <2>2. QED
    BY <1>1, <1>4, <2>1 DEF Outside, Holding, SaveCreated, At, CallUnchanged, NoLocks, serverVars, lockVars
\* Where the call goes: it returns, or is at another step on the same server.
<1>5. ASSUME NEW pc, GoTo(c, pc)
      PROVE  call'[c].pc = pc /\ call'[c].server = call[c].server
  <2>1. call'[c] = [call[c] EXCEPT !.pc = pc]
    BY <1>2, <1>5 DEF GoTo
  <2>2. QED
    BY <1>2, <2>1 DEF Calls
<1>6. ASSUME NEW graph, call' = [call EXCEPT ![c].pc = "enter", ![c].graph = graph]
      PROVE  call'[c].pc = "enter" /\ call'[c].server = call[c].server
  <2>1. call'[c] = [call[c] EXCEPT !.pc = "enter", !.graph = graph]
    BY <1>2, <1>6
  <2>2. QED
    BY <1>2, <2>1 DEF Calls
<1>7. ASSUME call' = [call EXCEPT ![c].pc = "saveCreated", ![c].answer = Created]
      PROVE  call'[c].pc = "saveCreated" /\ call'[c].server = call[c].server
  <2>1. call'[c] = [call[c] EXCEPT !.pc = "saveCreated", !.answer = Created]
    BY <1>2, <1>7
  <2>2. QED
    BY <1>2, <2>1 DEF Calls
<1>8. Return(c) => call'[c].pc = "idle"
  BY <1>2 DEF Return, Idle
<1>9. ASSUME ~SaveCreated(c)
      PROVE  /\ call[c].pc \notin Holding \cup {"idle"}
             /\ \/ call'[c].pc = "idle"
                \/ call'[c].pc \notin Holding /\ call'[c].server = call[c].server
             /\ UNCHANGED <<phase, life, runs, runsLock, keys>> /\ lost \subseteq lost'
  <2> USE DEF Holding, At, CallUnchanged, NoLocks, serverVars, lockVars, storeVars, pastVars
  <2>1. CASE CheckKey(c)
    BY <1>5, <1>8, <2>1 DEF CheckKey, Replay, NotFound
  <2>2. CASE Register(c)
    BY <1>5, <1>8, <2>2 DEF Register
  <2>3. CASE InsertVersion(c)
    BY <1>5, <2>3 DEF InsertVersion
  <2>4. CASE Upsert(c)
    BY <1>7, <2>4 DEF Upsert
  <2>5. CASE Find(c)
    BY <1>5, <1>8, <2>5 DEF Find
  <2>6. CASE DeleteStored(c)
    BY <1>5, <1>8, <2>6 DEF DeleteStored
  <2>7. CASE Forget(c)
    BY <1>8, <2>7 DEF Forget
  <2>8. CASE Resolve(c)
    BY <1>5, <1>6, <1>8, <2>8 DEF Resolve
  <2>9. CASE ResolveVersion(c)
    BY <1>6, <1>8, <2>9 DEF ResolveVersion
  <2>10. QED
    BY <1>9, <2>1, <2>2, <2>3, <2>4, <2>5, <2>6, <2>7, <2>8, <2>9
<1>10. CASE ~SaveCreated(c)
  <2>1. /\ call[c].pc \notin Holding \cup {"idle"}
        /\ \/ call'[c].pc = "idle"
           \/ call'[c].pc \notin Holding /\ call'[c].server = call[c].server
        /\ UNCHANGED <<phase, life, runs, runsLock, keys>> /\ lost \subseteq lost'
    BY <1>9, <1>10
  <2>2. call'[c].pc \notin Holding
    BY <2>1 DEF Holding
  <2>3. call'[c].pc # "idle" => phase[call'[c].server] = "up"
    BY <1>3, <2>1
  <2>4. QED
    BY <1>1, <2>1, <2>2, <2>3 DEF Outside
<1>11. QED
  BY <1>4, <1>10

LEMMA CallingOutside ==
  ASSUME Typed, NEW c \in Client, Calling(c)
  PROVE  Outside(c)
<1>1. PICK request \in Calls :
        /\ Begin(c, request) /\ CallOk(request)
        /\ request.pc \notin Holding /\ phase[request.server] = "up"
  BY CallingBegins
<1>2. call[c].pc = "idle" /\ UNCHANGED <<serverVars, lockVars, storeVars, pastVars>>
  BY <1>1 DEF Begin, At
<1>3. call' = [call EXCEPT ![c] = request]
  BY <1>1 DEF Begin
<1>4. Moves(c) /\ call'[c] = request
  BY <1>1, <1>3 DEF Moves, Typed, CallsTyped
<1>5. QED
  BY <1>1, <1>2, <1>4 DEF Outside, Holding, serverVars, lockVars, storeVars, pastVars

\* A call that finds no answer takes the mutex: no call of its server is about to save one.
LEMMA EnterKeeps ==
  ASSUME Typed, OneRunInv, NEW c \in Client, Enter(c)
  PROVE  OneRunInv'
<1>1. /\ Moves(c) /\ call[c].pc = "enter" /\ call[c].server \in Server /\ call[c] \in Calls
      /\ runsLock[call[c].server] = None /\ phase[call[c].server] = "up"
      /\ UNCHANGED <<phase, life, runs, keys>> /\ lost \subseteq lost'
  <2>1. Moves(c) /\ call[c] \in Calls /\ CallOk(call[c])
    BY ExecuteTyped DEF Typed, CallsTyped
  <2>2. call[c].pc = "enter"
    BY DEF Enter, At
  <2>3. /\ UNCHANGED <<phase, life, runs, keys>> /\ lost \subseteq lost'
        /\ runsLock[call[c].server] = None
    BY DEF Enter, Replay, NotFound, CallUnchanged, Free, serverVars, storeVars
  <2>4. QED
    BY <2>1, <2>2, <2>3 DEF CallOk, OneRunInv, LockInv
<1>2. CASE Replay(c) /\ NoLocks
  <2>1. Outside(c)
    BY <1>1, <1>2 DEF Outside, Holding, Replay, Return, Moves, Idle, NoLocks, lockVars, Typed, CallsTyped
  <2>2. QED
    BY <2>1, OutsideKeeps
<1>3. CASE NotFound(c) /\ GoTo(c, "record") /\ runsLock' = Take(runsLock, c)
  <2>1. /\ call'[c] = [call[c] EXCEPT !.pc = "record"]
        /\ \A d \in Client \ {c} : call'[d] = call[d]
    BY <1>3 DEF GoTo, Typed, CallsTyped
  <2>2. /\ call'[c].pc = "record" /\ call'[c].key = call[c].key /\ call'[c].server = call[c].server
    BY <1>1, <2>1 DEF Calls
  <2>3. /\ runsLock'[call[c].server] = c
        /\ \A s \in Server : s # call[c].server => runsLock'[s] = runsLock[s]
    BY <1>1, <1>3 DEF Take, Typed, LocksTyped
  <2>4. \A d \in Client : call[d].pc \in Holding => d # c /\ call[d].server # call[c].server
    BY <1>1 DEF OneRunInv, LockInv, Holding
  <2>5. LockInv'
    <3>1. \A d \in Client \ {c} : call[d].pc \in Holding => call[d].server \in Server
      BY DEF Typed, CallsTyped, CallOk, Holding
    <3>2. ASSUME NEW d \in Client
          PROVE  /\ call'[d].pc # "idle" => phase'[call'[d].server] = "up"
                 /\ call'[d].pc \in Holding => runsLock'[call'[d].server] = d
      <4>1. CASE d = c
        BY <1>1, <2>2, <2>3, <4>1
      <4>2. CASE d # c
        BY <1>1, <2>1, <2>3, <2>4, <3>1, <4>2 DEF OneRunInv, LockInv
      <4>3. QED
        BY <4>1, <4>2
    <3>3. QED
      BY <3>2 DEF LockInv
  <2>6. RunInv'
    BY <1>1, <2>1, <2>4 DEF OneRunInv, RunInv, Accounted, Holding
  <2>7. \A r \in runs : r.key = call[c].key /\ r.server = call[c].server /\ r.life = life[r.server]
                          => r.key \in {None} \cup lost'
    <3>1. SUFFICES ASSUME NEW r \in runs, r.key = call[c].key, r.server = call[c].server,
                          r.life = life[r.server], r.key # None
                   PROVE  r.key \in lost'
      OBVIOUS
    <3>2. keys[r.key] = None \/ r.key \in lost'
      BY <1>3, <3>1 DEF Known, NotFound
    <3>3. r.life \in Nat
      BY DEF Typed, PastTyped, Runs
    <3>4. Accounted(r)
      BY DEF OneRunInv, RunInv
    <3>5. QED
      BY <1>1, <2>4, <3>1, <3>2, <3>3, <3>4 DEF Accounted, Holding
  <2>8. RecordInv'
    <3>1. SUFFICES ASSUME NEW d \in Client, call'[d].pc = "record", NEW r \in runs,
                          r.key = call'[d].key, r.server = call'[d].server, r.life = life[r.server]
                   PROVE  r.key \in {None} \cup lost'
      BY <1>1 DEF RecordInv
    <3>2. CASE d = c
      BY <2>2, <2>7, <3>1, <3>2
    <3>3. CASE d # c
      BY <1>1, <2>1, <3>1, <3>3 DEF OneRunInv, RecordInv
    <3>4. QED
      BY <3>2, <3>3
  <2>9. QED
    BY <1>1, <2>5, <2>6, <2>8 DEF OneRunInv, OneRunPerKey
<1>4. QED
  BY <1>2, <1>3 DEF Enter

\* The end of the locked part: the mutex is dropped and no other call of the server had it.
Leaves(c) ==
  /\ call[c].pc \in Holding
  /\ call' = [call EXCEPT ![c] = Idle]
  /\ runsLock' = Drop(runsLock, c)
  /\ UNCHANGED <<phase, life, runs>>
  /\ \A k \in Key : keys[k] # None => keys'[k] # None
  /\ lost \subseteq lost'
  /\ call[c].pc = "saveRun" => call[c].key \in {None} \cup lost' \/ keys'[call[c].key] # None

LEMMA LeavesKeeps ==
  ASSUME Typed, OneRunInv, NEW c \in Client, Leaves(c)
  PROVE  OneRunInv'
<1>1. call'[c] = Idle /\ \A d \in Client \ {c} : call'[d] = call[d]
  BY DEF Leaves, Typed, CallsTyped
<1>2. \A d \in Client : call[d].pc \in Holding => call[d].server \in Server
  BY DEF Typed, CallsTyped, CallOk, Holding
<1>3. \A d \in Client \ {c} : call[d].pc \in Holding => call[d].server # call[c].server
  BY DEF OneRunInv, LockInv, Leaves
<1>4. \A s \in Server : s # call[c].server => runsLock'[s] = runsLock[s]
  BY DEF Leaves, Drop, Typed, LocksTyped
<1>5. LockInv'
  BY <1>1, <1>2, <1>3, <1>4 DEF Leaves, OneRunInv, LockInv, Idle, Holding
<1>6. RunInv'
  <2>1. \A r \in runs : r.key \in Key \cup {None}
    BY DEF Typed, PastTyped, Runs
  <2>2. QED
    BY <1>1, <2>1 DEF Leaves, OneRunInv, RunInv, Accounted
<1>7. RecordInv'
  BY <1>1 DEF Leaves, OneRunInv, RecordInv, Idle
<1>8. OneRunPerKey'
  BY DEF Leaves, OneRunInv, OneRunPerKey
<1>9. QED
  BY <1>5, <1>6, <1>7, <1>8 DEF OneRunInv

LEMMA RefuseLeaves ==
  ASSUME NEW c \in Client, Refuse(c)
  PROVE  Leaves(c)
BY DEF Refuse, At, Return, Leaves, Holding, CallUnchanged, serverVars, storeVars, pastVars

LEMMA SaveRunLeaves ==
  ASSUME Typed, KeyInv, NEW c \in Client, SaveRun(c)
  PROVE  Leaves(c)
<1>1. /\ \A k \in Key : keys[k] # None => keys'[k] # None
      /\ lost \subseteq lost'
      /\ call[c].key \in {None} \cup lost' \/ keys'[call[c].key] # None
      /\ Return(c)
  BY SaveKeepsAnswers, SaveKeyCases DEF SaveRun, At
<1>2. QED
  BY <1>1 DEF SaveRun, At, Return, Leaves, Holding, CallUnchanged, serverVars

\* The run that is started is the only one of its key, server and life.
LEMMA StartRunKeeps ==
  ASSUME Typed, OneRunInv, NEW c \in Client, StartRun(c)
  PROVE  OneRunInv'
<1>1. PICK id \in 1 .. MaxRuns : Starts(c, id)
  BY StartRunStarts
<1>2. /\ call[c].pc = "record" /\ call[c] \in Calls /\ call[c].server \in Server
      /\ runsLock[call[c].server] = c /\ phase[call[c].server] = "up"
      /\ life[call[c].server] \in Nat
      /\ UNCHANGED <<phase, life, runsLock, keys, lost>>
  <2>1. call[c].pc = "record" /\ UNCHANGED <<phase, life, runsLock, keys, lost>>
    BY DEF StartRun, At, CallUnchanged, NoLocks, serverVars, lockVars
  <2>2. call[c] \in Calls /\ call[c].server \in Server
    BY <2>1 DEF Typed, CallsTyped, CallOk
  <2>3. life[call[c].server] \in Nat
    BY <2>2 DEF Typed, ServersTyped
  <2>4. QED
    BY <2>1, <2>2, <2>3 DEF OneRunInv, LockInv, Holding
<1>3. PICK new :
        /\ runs' = runs \cup {new}
        /\ new.key = call[c].key /\ new.server = call[c].server /\ new.life = life[call[c].server]
  <2> DEFINE run == [id |-> id, key |-> call[c].key, request |-> Request(c),
                     server |-> call[c].server, life |-> life[call[c].server]]
  <2>1. runs' = runs \cup {run}
    BY <1>1 DEF Starts
  <2>2. run.key = call[c].key /\ run.server = call[c].server /\ run.life = life[call[c].server]
    OBVIOUS
  <2> HIDE DEF run
  <2>3. QED
    BY <2>1, <2>2
<1>4. /\ call'[c] = [call[c] EXCEPT !.pc = "saveRun", !.answer = id]
      /\ \A d \in Client \ {c} : call'[d] = call[d]
  BY <1>1 DEF Starts, Typed, CallsTyped
<1>5. call'[c].pc = "saveRun" /\ call'[c].key = call[c].key /\ call'[c].server = call[c].server
  BY <1>2, <1>4 DEF Calls
<1>6. LockInv'
  <2>1. SUFFICES ASSUME NEW d \in Client
                 PROVE  /\ call'[d].pc # "idle" => phase'[call'[d].server] = "up"
                        /\ call'[d].pc \in Holding => runsLock'[call'[d].server] = d
    BY DEF LockInv
  <2>2. CASE d = c
    BY <1>2, <1>5, <2>2
  <2>3. CASE d # c
    BY <1>2, <1>4, <2>3 DEF OneRunInv, LockInv
  <2>4. QED
    BY <2>2, <2>3
<1>7. RunInv'
  <2>1. Accounted(new)'
    BY <1>3, <1>5 DEF Accounted
  <2>2. \A r \in runs : r.life <= life'[r.server] /\ Accounted(r)'
    BY <1>2, <1>4, <1>5 DEF OneRunInv, RunInv, Accounted
  <2>3. new.life <= life'[new.server]
    BY <1>2, <1>3
  <2>4. QED
    BY <1>3, <2>1, <2>2, <2>3 DEF RunInv
<1>8. RecordInv'
  <2>1. \A d \in Client \ {c} : call[d].pc = "record" => call[d].server # call[c].server
    BY <1>2 DEF OneRunInv, LockInv, Holding
  <2>2. SUFFICES ASSUME NEW d \in Client, call'[d].pc = "record", NEW r \in runs',
                        r.key = call'[d].key, r.server = call'[d].server, r.life = life[r.server]
                 PROVE  r.key \in {None} \cup lost
    BY <1>2 DEF RecordInv
  <2>3. d # c /\ call'[d] = call[d]
    BY <1>4, <1>5, <2>2
  <2>4. CASE r = new
    BY <1>3, <2>1, <2>2, <2>3, <2>4
  <2>5. CASE r \in runs
    BY <2>2, <2>3, <2>5 DEF OneRunInv, RecordInv
  <2>6. QED
    BY <1>3, <2>4, <2>5
<1>9. OneRunPerKey'
  <2>1. \A r \in runs : ~(/\ r.key # None /\ r.key = new.key /\ r.server = new.server
                          /\ r.life = new.life /\ r.key \notin lost)
    BY <1>2, <1>3 DEF OneRunInv, RecordInv
  <2>2. QED
    BY <1>2, <1>3, <2>1 DEF OneRunInv, OneRunPerKey
<1>10. QED
  BY <1>6, <1>7, <1>8, <1>9 DEF OneRunInv

LEMMA ServingKeeps ==
  ASSUME Typed, OneRunInv, NEW s \in Server, Connect(s) \/ List(s) \/ Load(s) \/ Serve(s)
  PROVE  OneRunInv'
<1>1. /\ UNCHANGED <<call, runs, runsLock, keys, lost>>
      /\ \A t \in Server : phase[t] = "up" => phase'[t] = "up" /\ life'[t] = life[t]
      /\ \A t \in Server : \/ life'[t] = life[t] /\ (phase[t] = "down" => phase'[t] = "down")
                           \/ life'[t] = life[t] + 1
      /\ life \in [Server -> 0 .. MaxLives]
  BY DEF Connect, List, Load, Serve, ServerUnchanged, lockVars, storeVars, pastVars, Typed, ServersTyped
<1>2. \A c \in Client : call[c].pc # "idle" => call[c].server \in Server
  BY DEF Typed, CallsTyped, CallOk
<1>3. LockInv'
  BY <1>1, <1>2 DEF OneRunInv, LockInv
<1>4. \A r \in runs : r.server \in Server /\ r.life \in Nat
  BY DEF Typed, PastTyped, Runs
<1>5. RunInv'
  <2>1. SUFFICES ASSUME NEW r \in runs
                 PROVE  r.life <= life'[r.server] /\ Accounted(r)'
    BY <1>1 DEF RunInv
  <2>2. r.life <= life[r.server] /\ Accounted(r) /\ life[r.server] \in Nat
    BY <1>1, <1>4 DEF OneRunInv, RunInv
  <2>3. CASE life'[r.server] = life[r.server] + 1
    BY <1>4, <2>2, <2>3 DEF Accounted
  <2>4. CASE life'[r.server] = life[r.server] /\ (phase[r.server] = "down" => phase'[r.server] = "down")
    BY <1>1, <1>4, <2>2, <2>4 DEF Accounted
  <2>5. QED
    BY <1>1, <1>4, <2>3, <2>4
<1>6. RecordInv'
  BY <1>1, <1>2 DEF OneRunInv, RecordInv, LockInv
<1>7. QED
  BY <1>1, <1>3, <1>5, <1>6 DEF OneRunInv, OneRunPerKey

LEMMA OneRunNext ==
  ASSUME Typed, KeyInv, OneRunInv, [Next]_vars
  PROVE  OneRunInv'
<1>1. CASE UNCHANGED vars
  BY <1>1 DEF vars, serverVars, lockVars, storeVars, pastVars, OneRunInv, LockInv, RunInv, Accounted,
     RecordInv, OneRunPerKey
<1>2. CASE Crash
  BY <1>2 DEF Crash, Idle, storeVars, pastVars, OneRunInv, LockInv, RunInv, Accounted,
     RecordInv, OneRunPerKey, Holding, Typed, PastTyped, Runs
<1>3. ASSUME NEW s \in Server, Connect(s) \/ List(s) \/ Load(s) \/ Serve(s) PROVE OneRunInv'
  BY <1>3, ServingKeeps
<1>4. ASSUME NEW c \in Client, Calling(c) PROVE OneRunInv'
  BY <1>4, CallingOutside, OutsideKeeps
<1>5. ASSUME NEW c \in Client, Handling(c) PROVE OneRunInv'
  <2>1. CASE Enter(c)
    BY <2>1, EnterKeeps
  <2>2. CASE Refuse(c) \/ SaveRun(c)
    BY <2>2, RefuseLeaves, SaveRunLeaves, LeavesKeeps
  <2>3. CASE StartRun(c)
    BY <2>3, StartRunKeeps
  <2>4. CASE \/ CheckKey(c) \/ Register(c) \/ InsertVersion(c) \/ Upsert(c) \/ SaveCreated(c)
             \/ Find(c) \/ DeleteStored(c) \/ Forget(c) \/ Resolve(c) \/ ResolveVersion(c)
    BY <2>4, HandlingOutside, OutsideKeeps
  <2>5. QED
    BY <1>5, <2>1, <2>2, <2>3, <2>4 DEF Handling
<1>6. QED
  BY <1>1, <1>2, <1>3, <1>4, <1>5 DEF Next

\* On one server a key starts one run, as long as saving the key did not fail
\* and its row was not missed.
THEOREM OneRun == Spec => []OneRunPerKey
<1>1. Init => KeyInv /\ OneRunInv
  BY DEF Init, KeyInv, Idle, OneRunInv, LockInv, RunInv, RecordInv, OneRunPerKey, Holding
<1>2. OneRunInv => OneRunPerKey
  BY DEF OneRunInv
<1>3. QED
  BY <1>1, <1>2, KeyInvNext, OneRunNext, CatalogTyped, PTL DEF Spec
=============================================================================
