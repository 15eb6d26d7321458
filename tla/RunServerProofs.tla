-------------------------- MODULE RunServerProofs --------------------------
(***************************************************************************)
(* Proofs about RunServer for every number of runs, clients, slots and     *)
(* retained records, every set of tools and every choice of faults.        *)
(*                                                                         *)
(* The argument: a handler that is building or resuming a run owns it      *)
(* until the worker is spawned.  Ownership is exclusive for three          *)
(* different reasons (the server's mutex, the counter that issues ids, the *)
(* compare-and-set on the checkpoint), and OwnInv, ApartInv and CkptInv    *)
(* say which one holds at which point of a handler.                        *)
(*                                                                         *)
(* What is stored follows in the last two parts: ClaimInv about claims of  *)
(* durability, RowInv about terminal rows.                                 *)
(***************************************************************************)
EXTENDS RunServer, TLAPS, FiniteSetTheorems

-----------------------------------------------------------------------------
(* The inductive invariant. *)

\* Handlers of a run that has never had a worker, before and after the spawn.
FreshPC == {"allocated", "admitted", "refused", "saved", "rowed", "checkpointing"}
PollPC == {"polling", "expired", "polled"}

\* Handlers that consumed a checkpoint and have not spawned the worker yet.
ResumedPC == {"consumed", "replacing", "relisted", "activated", "launching"}

LockPC == FreshPC \cup PollPC \cup {"replacing", "relisted", "activated", "launching"}
AcceptedPC == {"allocated", "refused", "rowed", "checkpointing", "relisted"}
RunningPC == {"admitted", "saved", "activated", "launching"}
ActiveWorker == {"spawned", "engine", "publishing", "erring"}

MutexInv == \A c \in Client : outer = c <=> pc[c] \in LockPC

ArgInv ==
  \A c \in Client : IF pc[c] = "idle" THEN arg[c] = Nobody ELSE arg[c] \in issued

IssuedInv ==
  \A r \in RunId :
    r \notin issued => status[r] = "absent" /\ worker[r] = "none" /\ ckpt[r] = "none"

OwnInv ==
  \A c \in Client :
    /\ pc[c] \in FreshPC \cup ResumedPC => worker[arg[c]] = "none"
    /\ pc[c] \in FreshPC \ {"checkpointing"} => ckpt[arg[c]] = "none"
    /\ pc[c] = "checkpointing" => ckpt[arg[c]] = "available"
    /\ pc[c] \in ResumedPC => ckpt[arg[c]] = "consumed"
    /\ pc[c] \in {"validated", "reserved"} => ckpt[arg[c]] # "none"

ApartInv ==
  \A c, d \in Client :
    c # d /\ arg[c] = arg[d] =>
      /\ ~(pc[c] \in ResumedPC /\ pc[d] \in ResumedPC)
      /\ ~(pc[c] = "checkpointing" /\ pc[d] = "reserved")

StatusInv ==
  \A c \in Client :
    /\ pc[c] \in AcceptedPC => status[arg[c]] = "accepted"
    /\ pc[c] \in RunningPC => status[arg[c]] = "running"
    /\ pc[c] = "replacing" => status[arg[c]] = "absent"
    /\ pc[c] = "consumed" => status[arg[c]] \in {"checkpointed", "absent"}
    /\ pc[c] \in PollPC => status[arg[c]] \in Done \cup {"running"}
    /\ pc[c] \in {"expired", "polled", "waited"} => seen[c] \in Done \cup {"running"}

WorkerInv ==
  \A r \in RunId :
    /\ worker[r] \in ActiveWorker => status[r] = "running"
    /\ worker[r] \notin ActiveWorker \cup {"none"} => status[r] \in Done \cup {"absent"}
    /\ worker[r] = "persisting" => rec[r] \in Done

CkptInv ==
  \A r \in RunId :
    ckpt[r] = "available" =>
      /\ worker[r] = "none"
      /\ \/ status[r] \in {"checkpointed", "absent"}
         \/ \E c \in Client : pc[c] = "checkpointing" /\ arg[c] = r

IInv ==
  /\ TypeOK /\ MutexInv /\ ArgInv /\ IssuedInv /\ OwnInv /\ ApartInv
  /\ StatusInv /\ WorkerInv /\ CkptInv /\ RunningIsOwned /\ CancelNeverCompletes

-----------------------------------------------------------------------------
(* The registry's operators. *)

LEMMA DropTyped ==
  ASSUME NEW s \in Seq(RunId), NEW k \in 1 .. Len(s)
  PROVE  /\ DropAt(s, k) \in Seq(RunId)
         /\ Len(DropAt(s, k)) = Len(s) - 1
         /\ \A i \in 1 .. (Len(s) - 1) :
              DropAt(s, k)[i] = IF i < k THEN s[i] ELSE s[i + 1]
  BY DEF DropAt

LEMMA AppendTyped ==
  ASSUME NEW s \in Seq(RunId), NEW r \in RunId
  PROVE  /\ Append(s, r) \in Seq(RunId)
         /\ Len(Append(s, r)) = Len(s) + 1
         /\ \A i \in 1 .. Len(s) : Append(s, r)[i] = s[i]
         /\ Append(s, r)[Len(s) + 1] = r
  OBVIOUS

\* insert_record accepts its run and takes at most one terminal record away.
LEMMA InsertEffect ==
  ASSUME TypeOK, NEW r \in RunId, InsertRecord(r)
  PROVE  /\ order' \in Seq(RunId)
         /\ status' \in [RunId -> Status]
         /\ status'[r] = "accepted"
         /\ \A q \in RunId \ {r} :
              \/ status'[q] = status[q]
              \/ status[q] \in Terminal /\ status'[q] = "absent"
         /\ cancelled' = cancelled \ {r}
         /\ reserved' = reserved
<1>1. CASE Len(order) # MaxRuns
  <2>1. order' = Append(order, r) /\ status' = [status EXCEPT ![r] = "accepted"]
    BY <1>1 DEF InsertRecord
  <2>2. order' \in Seq(RunId)
    BY <2>1, AppendTyped DEF TypeOK
  <2> QED BY <2>1, <2>2 DEF InsertRecord, TypeOK, Status
<1>2. CASE Len(order) = MaxRuns
  <2>1. PICK k \in 1 .. Len(order) :
          /\ OldestTerminalAt(k)
          /\ order' = Append(DropAt(order, k), r)
          /\ status' = [status EXCEPT ![order[k]] = "absent", ![r] = "accepted"]
    BY <1>2 DEF InsertRecord
  <2>2. order[k] \in RunId /\ status[order[k]] \in Terminal
    BY <2>1 DEF OldestTerminalAt, TypeOK
  <2>3. DropAt(order, k) \in Seq(RunId)
    BY DropTyped DEF TypeOK
  <2>4. order' \in Seq(RunId)
    BY <2>1, <2>3, AppendTyped
  <2> QED BY <2>1, <2>2, <2>4 DEF InsertRecord, TypeOK, Status
<1> QED BY <1>1, <1>2

\* remove forgets the record of its run unless it is running.
LEMMA RemoveEffect ==
  ASSUME TypeOK, NEW r \in RunId, RemoveRecord(r)
  PROVE  /\ order' \in Seq(RunId)
         /\ status' \in [RunId -> Status]
         /\ status'[r] = IF status[r] = "running" THEN "running" ELSE "absent"
         /\ \A q \in RunId \ {r} : status'[q] = status[q]
         /\ UNCHANGED <<reserved, cancelled>>
<1>1. order' \in Seq(RunId)
  BY DropTyped DEF RemoveRecord, TypeOK
<1> QED BY SMTT(20), <1>1 DEF RemoveRecord, TypeOK, Status

-----------------------------------------------------------------------------
(* Every step keeps the inductive invariant. *)

\* A call that starts.
LEMMA CallInv ==
  ASSUME IInv, NEW c \in Client, Call(c)
  PROVE  IInv'
<1> USE ServerAssumption
        DEF IInv, TypeOK, MutexInv, ArgInv, IssuedInv, OwnInv, ApartInv, StatusInv,
            WorkerInv, CkptInv, RunningIsOwned, CancelNeverCompletes, Running, FreshPC,
            PollPC, ResumedPC, LockPC, AcceptedPC, RunningPC, ActiveWorker, Done,
            Terminal, Status, ClientPC, WorkerPC
<1>1. ASSUME NEW r \in RunId, NEW k \in Kinds, Allocate(c, r, k) PROVE IInv'
  <2>1. TypeOK'
    BY <1>1, InsertEffect DEF Allocate, Kinds, workerVars
  <2>2. MutexInv'
    BY <1>1, InsertEffect DEF Allocate, Kinds, workerVars
  <2>3. ArgInv'
    BY <1>1, InsertEffect DEF Allocate, Kinds, workerVars
  <2>4. IssuedInv'
    BY <1>1, InsertEffect DEF Allocate, Kinds, workerVars
  <2>5. OwnInv'
    BY <1>1, InsertEffect DEF Allocate, Kinds, workerVars
  <2>6. ApartInv'
    BY <1>1, InsertEffect DEF Allocate, Kinds, workerVars
  <2>7. StatusInv'
    BY <1>1, InsertEffect DEF Allocate, Kinds, workerVars
  <2>8. WorkerInv'
    <3>1. worker' = worker /\ worker[r] = "none" /\ rec' = rec
      BY <1>1 DEF Allocate, workerVars
    <3> QED BY <1>1, <3>1, InsertEffect DEF Allocate
  <2>9. CkptInv'
    BY <1>1, InsertEffect DEF Allocate, Kinds, workerVars
  <2>10. RunningIsOwned'
    BY <1>1, InsertEffect DEF Allocate, Kinds, workerVars
  <2>11. CancelNeverCompletes'
    BY <1>1, InsertEffect DEF Allocate, Kinds, workerVars
  <2> QED BY <2>1, <2>2, <2>3, <2>4, <2>5, <2>6, <2>7, <2>8, <2>9, <2>10, <2>11
<1>2. ASSUME NEW r \in RunId, AllocateRefused(c, r) PROVE IInv'
  BY <1>2 DEF AllocateRefused, registryVars, workerVars, storeVars
<1>3. ASSUME NEW r \in RunId, "resume" \in Calls, ResumeLoad(c, r) PROVE IInv'
  BY <1>3 DEF ResumeLoad, registryVars, workerVars, storeVars
<1>4. ASSUME NEW r \in RunId, Cancel(c, r) PROVE IInv'
  BY <1>4 DEF Cancel, RequestCancel, CanCancel, clientVars, workerVars,
    storeVars
<1>5. ASSUME NEW r \in RunId, "wait" \in Calls, WaitRead(c, r) PROVE IInv'
  BY <1>5 DEF WaitRead, registryVars, workerVars, storeVars
<1> HIDE ServerAssumption
         DEF IInv, TypeOK, MutexInv, ArgInv, IssuedInv, OwnInv, ApartInv, StatusInv,
             WorkerInv, CkptInv, RunningIsOwned, CancelNeverCompletes, Running, FreshPC,
             PollPC, ResumedPC, LockPC, AcceptedPC, RunningPC, ActiveWorker, Done,
             Terminal, Status, ClientPC, WorkerPC
<1> QED
  BY <1>1, <1>2, <1>3, <1>4, <1>5 DEF Call

\* A handler that goes on.
LEMMA HandleInv ==
  ASSUME IInv, NEW c \in Client, Handle(c)
  PROVE  IInv'
<1> USE ServerAssumption
        DEF IInv, TypeOK, MutexInv, ArgInv, IssuedInv, OwnInv, ApartInv, StatusInv,
            WorkerInv, CkptInv, RunningIsOwned, CancelNeverCompletes, Running, FreshPC,
            PollPC, ResumedPC, LockPC, AcceptedPC, RunningPC, ActiveWorker, Done,
            Terminal, Status, ClientPC, WorkerPC
<1>1. CASE Admit(c)
  BY <1>1 DEF Admit, MoveTo, AdmitAsync, CanAdmit, workerVars, storeVars
<1>2. CASE AdmitRefused(c)
  BY <1>2 DEF AdmitRefused, MoveTo, registryVars, workerVars, storeVars
<1>3. CASE Refuse(c)
  <2>1. TypeOK'
    BY <1>3, RemoveEffect DEF Refuse, Return, workerVars, storeVars
  <2>2. MutexInv'
    BY <1>3, RemoveEffect DEF Refuse, Return, workerVars, storeVars
  <2>3. ArgInv'
    BY <1>3, RemoveEffect DEF Refuse, Return, workerVars, storeVars
  <2>4. IssuedInv'
    BY <1>3, RemoveEffect DEF Refuse, Return, workerVars, storeVars
  <2>5. OwnInv'
    BY <1>3, RemoveEffect DEF Refuse, Return, workerVars, storeVars
  <2>6. ApartInv'
    BY <1>3, RemoveEffect DEF Refuse, Return, workerVars, storeVars
  <2>7. StatusInv'
    BY <1>3, RemoveEffect DEF Refuse, Return, workerVars, storeVars
  <2>8. WorkerInv'
    BY SMTT(20), <1>3, RemoveEffect DEF Refuse, Return, workerVars, storeVars
  <2>9. CkptInv'
    BY <1>3, RemoveEffect DEF Refuse, Return, workerVars, storeVars
  <2>10. RunningIsOwned'
    BY SMTT(20), <1>3, RemoveEffect DEF Refuse, Return, workerVars, storeVars
  <2>11. CancelNeverCompletes'
    BY <1>3, RemoveEffect DEF Refuse, Return, workerVars, storeVars
  <2> QED BY <2>1, <2>2, <2>3, <2>4, <2>5, <2>6, <2>7, <2>8, <2>9, <2>10, <2>11
<1>4. CASE SaveRow(c)
  BY <1>4 DEF SaveRow, MoveTo, registryVars, workerVars
<1>5. CASE StartAsync(c)
  BY <1>5 DEF StartAsync, Spawn, Return, registryVars, storeVars
<1>6. CASE StartSync(c)
  BY <1>6 DEF StartSync, Spawn, MoveTo, registryVars, storeVars
<1>7. CASE PollTerminal(c)
  BY <1>7 DEF PollTerminal, MoveTo, registryVars, workerVars, storeVars
<1>8. CASE PollDeadline(c)
  BY <1>8 DEF PollDeadline, MoveTo, registryVars, workerVars, storeVars
<1>9. CASE DeadlineCancel(c)
  BY <1>9 DEF DeadlineCancel, MoveTo, RequestCancel, CanCancel, registryVars,
    workerVars, storeVars
<1>10. CASE SyncReturn(c)
  BY <1>10 DEF SyncReturn, Return, registryVars, workerVars
<1>11. CASE SaveCheckpointRow(c)
  <2>1. TypeOK'
    <3>1. CASE /\ row' = [row EXCEPT ![arg[c]] = "checkpointed"]
               /\ pc' = [pc EXCEPT ![c] = "rowed"]
      BY <1>11, <3>1 DEF SaveCheckpointRow, registryVars, workerVars
    <3>2. CASE UNCHANGED row /\ pc' = [pc EXCEPT ![c] = "refused"]
      BY <1>11, <3>2 DEF SaveCheckpointRow, registryVars, workerVars
    <3> QED
      BY <1>11, <3>1, <3>2 DEF SaveCheckpointRow
  <2>2. MutexInv'
    BY <1>11 DEF SaveCheckpointRow, registryVars, workerVars
  <2>3. ArgInv'
    BY <1>11 DEF SaveCheckpointRow, registryVars, workerVars
  <2>4. IssuedInv'
    BY <1>11 DEF SaveCheckpointRow, registryVars, workerVars
  <2>5. OwnInv'
    BY <1>11 DEF SaveCheckpointRow, registryVars, workerVars
  <2>6. ApartInv'
    BY <1>11 DEF SaveCheckpointRow, registryVars, workerVars
  <2>7. StatusInv'
    BY <1>11 DEF SaveCheckpointRow, registryVars, workerVars
  <2>8. WorkerInv'
    BY <1>11 DEF SaveCheckpointRow, registryVars, workerVars
  <2>9. CkptInv'
    BY <1>11 DEF SaveCheckpointRow, registryVars, workerVars
  <2>10. RunningIsOwned'
    BY <1>11 DEF SaveCheckpointRow, registryVars, workerVars
  <2>11. CancelNeverCompletes'
    BY <1>11 DEF SaveCheckpointRow, registryVars, workerVars
  <2> QED BY <2>1, <2>2, <2>3, <2>4, <2>5, <2>6, <2>7, <2>8, <2>9, <2>10, <2>11
<1>12. CASE CreateCheckpoint(c)
  <2>1. TypeOK'
    <3>1. CASE pc' = [pc EXCEPT ![c] = "checkpointing"]
      BY <1>12, <3>1 DEF CreateCheckpoint, registryVars, workerVars
    <3>2. CASE pc' = [pc EXCEPT ![c] = "refused"]
      BY <1>12, <3>2 DEF CreateCheckpoint, registryVars, workerVars
    <3> QED
      BY <1>12, <3>1, <3>2 DEF CreateCheckpoint
  <2>2. MutexInv'
    BY <1>12 DEF CreateCheckpoint, registryVars, workerVars
  <2>3. ArgInv'
    BY <1>12 DEF CreateCheckpoint, registryVars, workerVars
  <2>4. IssuedInv'
    BY <1>12 DEF CreateCheckpoint, registryVars, workerVars
  <2>5. OwnInv'
    BY <1>12 DEF CreateCheckpoint, registryVars, workerVars
  <2>6. ApartInv'
    BY <1>12 DEF CreateCheckpoint, registryVars, workerVars
  <2>7. StatusInv'
    BY <1>12 DEF CreateCheckpoint, registryVars, workerVars
  <2>8. WorkerInv'
    BY <1>12 DEF CreateCheckpoint, registryVars, workerVars
  <2>9. CkptInv'
    BY <1>12 DEF CreateCheckpoint, registryVars, workerVars
  <2>10. RunningIsOwned'
    BY <1>12 DEF CreateCheckpoint, registryVars, workerVars
  <2>11. CancelNeverCompletes'
    BY <1>12 DEF CreateCheckpoint, registryVars, workerVars
  <2> QED BY <2>1, <2>2, <2>3, <2>4, <2>5, <2>6, <2>7, <2>8, <2>9, <2>10, <2>11
<1>13. CASE MarkCheckpointed(c)
  BY SMTT(20), <1>13 DEF MarkCheckpointed, SetStatus, Return, workerVars, storeVars
<1>14. CASE Reserve(c)
  BY SMTT(20), <1>14 DEF Reserve, MoveTo, ReserveAsyncSlot, workerVars, storeVars
<1>15. CASE ReserveRefused(c)
  BY SMTT(20), <1>15 DEF ReserveRefused, Return, registryVars, workerVars, storeVars
<1>16. CASE Consume(c)
  BY SMTT(20), <1>16 DEF Consume, MoveTo, registryVars, workerVars
<1>17. CASE ConsumeRefused(c)
  BY SMTT(20), <1>17 DEF ConsumeRefused, MoveTo, registryVars, workerVars, storeVars
<1>18. CASE Release(c)
  BY SMTT(20), <1>18 DEF Release, ReleaseAsyncSlot, Return, workerVars, storeVars
<1>19. CASE LaunchReplace(c)
  <2>1. TypeOK'
    BY <1>19, RemoveEffect DEF LaunchReplace, MoveTo, workerVars, storeVars
  <2>2. MutexInv'
    BY <1>19, RemoveEffect DEF LaunchReplace, MoveTo, workerVars, storeVars
  <2>3. ArgInv'
    BY <1>19, RemoveEffect DEF LaunchReplace, MoveTo, workerVars, storeVars
  <2>4. IssuedInv'
    BY <1>19, RemoveEffect DEF LaunchReplace, MoveTo, workerVars, storeVars
  <2>5. OwnInv'
    BY <1>19, RemoveEffect DEF LaunchReplace, MoveTo, workerVars, storeVars
  <2>6. ApartInv'
    BY <1>19, RemoveEffect DEF LaunchReplace, MoveTo, workerVars, storeVars
  <2>7. StatusInv'
    BY <1>19, RemoveEffect DEF LaunchReplace, MoveTo, workerVars, storeVars
  <2>8. WorkerInv'
    BY <1>19, RemoveEffect DEF LaunchReplace, MoveTo, workerVars, storeVars
  <2>9. CkptInv'
    BY <1>19, RemoveEffect DEF LaunchReplace, MoveTo, workerVars, storeVars
  <2>10. RunningIsOwned'
    BY <1>19, RemoveEffect DEF LaunchReplace, MoveTo, workerVars, storeVars
  <2>11. CancelNeverCompletes'
    BY <1>19, RemoveEffect DEF LaunchReplace, MoveTo, workerVars, storeVars
  <2> QED BY <2>1, <2>2, <2>3, <2>4, <2>5, <2>6, <2>7, <2>8, <2>9, <2>10, <2>11
<1>20. CASE LaunchAllocate(c)
  <2>1. TypeOK'
    BY <1>20, InsertEffect DEF LaunchAllocate, MoveTo, workerVars
  <2>2. MutexInv'
    BY <1>20, InsertEffect DEF LaunchAllocate, MoveTo, workerVars
  <2>3. ArgInv'
    BY <1>20, InsertEffect DEF LaunchAllocate, MoveTo, workerVars
  <2>4. IssuedInv'
    BY <1>20, InsertEffect DEF LaunchAllocate, MoveTo, workerVars
  <2>5. OwnInv'
    BY <1>20, InsertEffect DEF LaunchAllocate, MoveTo, workerVars
  <2>6. ApartInv'
    BY <1>20, InsertEffect DEF LaunchAllocate, MoveTo, workerVars
  <2>7. StatusInv'
    BY <1>20, InsertEffect DEF LaunchAllocate, MoveTo, workerVars
  <2>8. WorkerInv'
    BY <1>20, InsertEffect DEF LaunchAllocate, MoveTo, workerVars
  <2>9. CkptInv'
    <3>1. /\ ckpt' = ckpt /\ worker' = worker
          /\ arg' = arg /\ pc' = [pc EXCEPT ![c] = "relisted"] /\ pc[c] = "replacing"
          /\ arg[c] \in RunId /\ ckpt[arg[c]] = "consumed"
      BY <1>20 DEF LaunchAllocate, MoveTo, workerVars
    <3> QED BY <1>20, <3>1, InsertEffect DEF LaunchAllocate
  <2>10. RunningIsOwned'
    BY SMTT(20), <1>20, InsertEffect DEF LaunchAllocate, MoveTo, workerVars
  <2>11. CancelNeverCompletes'
    BY <1>20, InsertEffect DEF LaunchAllocate, MoveTo, workerVars
  <2> QED BY <2>1, <2>2, <2>3, <2>4, <2>5, <2>6, <2>7, <2>8, <2>9, <2>10, <2>11
<1>21. CASE LaunchRefused(c)
  BY SMTT(20), <1>21 DEF LaunchRefused, ReleaseAsyncSlot, Return, workerVars, storeVars
<1>22. CASE LaunchAdmit(c)
  BY SMTT(20), <1>22 DEF LaunchAdmit, MoveTo, AdmitReservedAsync, CanAdmitReserved,
    workerVars, storeVars
<1>23. CASE LaunchSaveRow(c)
  BY <1>23 DEF LaunchSaveRow, MoveTo, registryVars, workerVars
<1>24. CASE LaunchSaveFails(c)
  BY SMTT(20), <1>24 DEF LaunchSaveFails, Return, registryVars, workerVars
<1>25. CASE LaunchStart(c)
  BY SMTT(20), <1>25 DEF LaunchStart, Spawn, Return, registryVars, storeVars
<1>26. CASE WaitPersist(c)
  <2>1. TypeOK'
    <3>1. CASE PersistRow(arg[c], seen[c]) /\ MoveTo(c, "waited", "marking")
      BY <1>26, <3>1 DEF WaitPersist, MoveTo, PersistRow, registryVars,
        workerVars
    <3>2. CASE UNCHANGED row /\ MoveTo(c, "waited", "unmarking")
      BY <1>26, <3>2 DEF WaitPersist, MoveTo, PersistRow, registryVars,
        workerVars
    <3> QED
      BY <1>26, <3>1, <3>2 DEF WaitPersist
  <2>2. MutexInv'
    BY <1>26 DEF WaitPersist, MoveTo, PersistRow, registryVars, workerVars
  <2>3. ArgInv'
    BY <1>26 DEF WaitPersist, MoveTo, PersistRow, registryVars, workerVars
  <2>4. IssuedInv'
    BY <1>26 DEF WaitPersist, MoveTo, PersistRow, registryVars, workerVars
  <2>5. OwnInv'
    BY <1>26 DEF WaitPersist, MoveTo, PersistRow, registryVars, workerVars
  <2>6. ApartInv'
    BY <1>26 DEF WaitPersist, MoveTo, PersistRow, registryVars, workerVars
  <2>7. StatusInv'
    BY <1>26 DEF WaitPersist, MoveTo, PersistRow, registryVars, workerVars
  <2>8. WorkerInv'
    BY <1>26 DEF WaitPersist, MoveTo, PersistRow, registryVars, workerVars
  <2>9. CkptInv'
    BY <1>26 DEF WaitPersist, MoveTo, PersistRow, registryVars, workerVars
  <2>10. RunningIsOwned'
    BY <1>26 DEF WaitPersist, MoveTo, PersistRow, registryVars, workerVars
  <2>11. CancelNeverCompletes'
    BY <1>26 DEF WaitPersist, MoveTo, PersistRow, registryVars, workerVars
  <2> QED BY <2>1, <2>2, <2>3, <2>4, <2>5, <2>6, <2>7, <2>8, <2>9, <2>10, <2>11
<1>27. CASE WaitMark(c)
  BY <1>27 DEF WaitMark, MarkPersistence, Return, registryVars, workerVars
<1> HIDE ServerAssumption
         DEF IInv, TypeOK, MutexInv, ArgInv, IssuedInv, OwnInv, ApartInv, StatusInv,
             WorkerInv, CkptInv, RunningIsOwned, CancelNeverCompletes, Running, FreshPC,
             PollPC, ResumedPC, LockPC, AcceptedPC, RunningPC, ActiveWorker, Done,
             Terminal, Status, ClientPC, WorkerPC
<1> QED
  BY <1>1, <1>2, <1>3, <1>4, <1>5, <1>6, <1>7, <1>8, <1>9, <1>10, <1>11, <1>12,
  <1>13, <1>14, <1>15, <1>16, <1>17, <1>18, <1>19, <1>20, <1>21, <1>22, <1>23,
  <1>24, <1>25, <1>26, <1>27 DEF Handle

\* A worker.
LEMMA WorkInv ==
  ASSUME IInv, NEW r \in RunId, Work(r) \/ EngineReturns(r)
  PROVE  IInv'
<1> USE ServerAssumption
        DEF IInv, TypeOK, MutexInv, ArgInv, IssuedInv, OwnInv, ApartInv, StatusInv,
            WorkerInv, CkptInv, RunningIsOwned, CancelNeverCompletes, Running, FreshPC,
            PollPC, ResumedPC, LockPC, AcceptedPC, RunningPC, ActiveWorker, Done,
            Terminal, Status, ClientPC, WorkerPC
<1>1. CASE WorkerBegin(r)
  <2>1. TypeOK'
    BY <1>1 DEF WorkerBegin, Advance, SetStatus, clientVars, storeVars
  <2>2. MutexInv'
    BY <1>1 DEF WorkerBegin, Advance, SetStatus, clientVars, storeVars
  <2>3. ArgInv'
    BY <1>1 DEF WorkerBegin, Advance, SetStatus, clientVars, storeVars
  <2>4. IssuedInv'
    BY <1>1 DEF WorkerBegin, Advance, SetStatus, clientVars, storeVars
  <2>5. OwnInv'
    BY <1>1 DEF WorkerBegin, Advance, SetStatus, clientVars, storeVars
  <2>6. ApartInv'
    BY <1>1 DEF WorkerBegin, Advance, SetStatus, clientVars, storeVars
  <2>7. StatusInv'
    BY <1>1 DEF WorkerBegin, Advance, SetStatus, clientVars, storeVars
  <2>8. WorkerInv'
    BY <1>1 DEF WorkerBegin, Advance, SetStatus, clientVars, storeVars
  <2>9. CkptInv'
    BY <1>1 DEF WorkerBegin, Advance, SetStatus, clientVars, storeVars
  <2>10. RunningIsOwned'
    BY <1>1 DEF WorkerBegin, Advance, SetStatus, clientVars, storeVars
  <2>11. CancelNeverCompletes'
    BY <1>1 DEF WorkerBegin, Advance, SetStatus, clientVars, storeVars
  <2> QED BY <2>1, <2>2, <2>3, <2>4, <2>5, <2>6, <2>7, <2>8, <2>9, <2>10, <2>11
<1>2. CASE EngineReturns(r)
  <2>1. TypeOK'
    <3>1. CASE Advance(r, "engine", "publishing")
      BY <1>2, <3>1 DEF EngineReturns, Advance, registryVars, clientVars,
        storeVars
    <3>2. CASE Advance(r, "engine", "erring")
      BY <1>2, <3>2 DEF EngineReturns, Advance, registryVars, clientVars,
        storeVars
    <3> QED
      BY <1>2, <3>1, <3>2 DEF EngineReturns
  <2>2. MutexInv'
    BY <1>2 DEF EngineReturns, Advance, registryVars, clientVars, storeVars
  <2>3. ArgInv'
    BY <1>2 DEF EngineReturns, Advance, registryVars, clientVars, storeVars
  <2>4. IssuedInv'
    BY <1>2 DEF EngineReturns, Advance, registryVars, clientVars, storeVars
  <2>5. OwnInv'
    BY <1>2 DEF EngineReturns, Advance, registryVars, clientVars, storeVars
  <2>6. ApartInv'
    BY <1>2 DEF EngineReturns, Advance, registryVars, clientVars, storeVars
  <2>7. StatusInv'
    BY <1>2 DEF EngineReturns, Advance, registryVars, clientVars, storeVars
  <2>8. WorkerInv'
    BY <1>2 DEF EngineReturns, Advance, registryVars, clientVars, storeVars
  <2>9. CkptInv'
    BY <1>2 DEF EngineReturns, Advance, registryVars, clientVars, storeVars
  <2>10. RunningIsOwned'
    BY <1>2 DEF EngineReturns, Advance, registryVars, clientVars, storeVars
  <2>11. CancelNeverCompletes'
    BY <1>2 DEF EngineReturns, Advance, registryVars, clientVars, storeVars
  <2> QED BY <2>1, <2>2, <2>3, <2>4, <2>5, <2>6, <2>7, <2>8, <2>9, <2>10, <2>11
<1>3. CASE Publish(r)
  BY <1>3 DEF Publish, Advance, SetStatus, TerminalOutcome, MarkPersistence,
    clientVars
<1>4. CASE WorkerFails(r)
  BY <1>4 DEF WorkerFails, Advance, SetStatus, clientVars, storeVars
<1>5. CASE FetchRecord(r)
  <2>1. TypeOK'
    <3>1. CASE status[r] = "absent"
      BY <1>5, <3>1 DEF FetchRecord, registryVars, clientVars, storeVars
    <3>2. CASE status[r] # "absent"
      <4>1. worker' = [worker EXCEPT ![r] = "persisting"] /\ rec' = [rec EXCEPT ![r] = status[r]]
        BY <1>5, <3>2 DEF FetchRecord
      <4>2. worker' \in [RunId -> WorkerPC] /\ rec' \in [RunId -> Status \cup {"none"}]
        BY <4>1
      <4> QED
        BY <1>5, <4>2 DEF FetchRecord, registryVars, clientVars, storeVars
    <3> QED
      BY <3>1, <3>2
  <2>2. MutexInv'
    BY <1>5 DEF FetchRecord, registryVars, clientVars, storeVars
  <2>3. ArgInv'
    BY <1>5 DEF FetchRecord, registryVars, clientVars, storeVars
  <2>4. IssuedInv'
    BY <1>5 DEF FetchRecord, registryVars, clientVars, storeVars
  <2>5. OwnInv'
    BY <1>5 DEF FetchRecord, registryVars, clientVars, storeVars
  <2>6. ApartInv'
    BY <1>5 DEF FetchRecord, registryVars, clientVars, storeVars
  <2>7. StatusInv'
    BY <1>5 DEF FetchRecord, registryVars, clientVars, storeVars
  <2>8. WorkerInv'
    BY <1>5 DEF FetchRecord, registryVars, clientVars, storeVars
  <2>9. CkptInv'
    BY <1>5 DEF FetchRecord, registryVars, clientVars, storeVars
  <2>10. RunningIsOwned'
    BY SMTT(20), <1>5 DEF FetchRecord, registryVars, clientVars, storeVars
  <2>11. CancelNeverCompletes'
    BY <1>5 DEF FetchRecord, registryVars, clientVars, storeVars
  <2> QED BY <2>1, <2>2, <2>3, <2>4, <2>5, <2>6, <2>7, <2>8, <2>9, <2>10, <2>11
<1>6. CASE PersistTerminal(r)
  <2>1. TypeOK'
    <3>1. CASE Advance(r, "persisting", "marking")
      BY <1>6, <3>1 DEF PersistTerminal, Advance, PersistRow, registryVars,
        clientVars
    <3>2. CASE Advance(r, "persisting", "unmarking")
      BY <1>6, <3>2 DEF PersistTerminal, Advance, PersistRow, registryVars,
        clientVars
    <3> QED
      BY <1>6, <3>1, <3>2 DEF PersistTerminal
  <2>2. MutexInv'
    BY <1>6 DEF PersistTerminal, Advance, PersistRow, registryVars, clientVars
  <2>3. ArgInv'
    BY <1>6 DEF PersistTerminal, Advance, PersistRow, registryVars, clientVars
  <2>4. IssuedInv'
    BY <1>6 DEF PersistTerminal, Advance, PersistRow, registryVars, clientVars
  <2>5. OwnInv'
    BY <1>6 DEF PersistTerminal, Advance, PersistRow, registryVars, clientVars
  <2>6. ApartInv'
    BY <1>6 DEF PersistTerminal, Advance, PersistRow, registryVars, clientVars
  <2>7. StatusInv'
    BY <1>6 DEF PersistTerminal, Advance, PersistRow, registryVars, clientVars
  <2>8. WorkerInv'
    BY <1>6 DEF PersistTerminal, Advance, PersistRow, registryVars, clientVars
  <2>9. CkptInv'
    BY <1>6 DEF PersistTerminal, Advance, PersistRow, registryVars, clientVars
  <2>10. RunningIsOwned'
    BY <1>6 DEF PersistTerminal, Advance, PersistRow, registryVars, clientVars
  <2>11. CancelNeverCompletes'
    BY <1>6 DEF PersistTerminal, Advance, PersistRow, registryVars, clientVars
  <2> QED BY <2>1, <2>2, <2>3, <2>4, <2>5, <2>6, <2>7, <2>8, <2>9, <2>10, <2>11
<1>7. CASE WorkerMark(r)
  <2>1. TypeOK'
    <3>1. CASE Advance(r, "marking", "done") /\ MarkPersistence(r, "durable")
      BY <1>7, <3>1 DEF WorkerMark, Advance, MarkPersistence, registryVars,
        clientVars
    <3>2. CASE Advance(r, "unmarking", "done") /\ MarkPersistence(r, "failed")
      BY <1>7, <3>2 DEF WorkerMark, Advance, MarkPersistence, registryVars,
        clientVars
    <3> QED
      BY <1>7, <3>1, <3>2 DEF WorkerMark
  <2>2. MutexInv'
    BY <1>7 DEF WorkerMark, Advance, MarkPersistence, registryVars, clientVars
  <2>3. ArgInv'
    BY <1>7 DEF WorkerMark, Advance, MarkPersistence, registryVars, clientVars
  <2>4. IssuedInv'
    BY <1>7 DEF WorkerMark, Advance, MarkPersistence, registryVars, clientVars
  <2>5. OwnInv'
    BY <1>7 DEF WorkerMark, Advance, MarkPersistence, registryVars, clientVars
  <2>6. ApartInv'
    BY <1>7 DEF WorkerMark, Advance, MarkPersistence, registryVars, clientVars
  <2>7. StatusInv'
    BY <1>7 DEF WorkerMark, Advance, MarkPersistence, registryVars, clientVars
  <2>8. WorkerInv'
    BY <1>7 DEF WorkerMark, Advance, MarkPersistence, registryVars, clientVars
  <2>9. CkptInv'
    BY <1>7 DEF WorkerMark, Advance, MarkPersistence, registryVars, clientVars
  <2>10. RunningIsOwned'
    BY SMTT(20), <1>7 DEF WorkerMark, Advance, MarkPersistence, registryVars, clientVars
  <2>11. CancelNeverCompletes'
    BY <1>7 DEF WorkerMark, Advance, MarkPersistence, registryVars, clientVars
  <2> QED BY <2>1, <2>2, <2>3, <2>4, <2>5, <2>6, <2>7, <2>8, <2>9, <2>10, <2>11
<1> HIDE ServerAssumption
         DEF IInv, TypeOK, MutexInv, ArgInv, IssuedInv, OwnInv, ApartInv, StatusInv,
             WorkerInv, CkptInv, RunningIsOwned, CancelNeverCompletes, Running, FreshPC,
             PollPC, ResumedPC, LockPC, AcceptedPC, RunningPC, ActiveWorker, Done,
             Terminal, Status, ClientPC, WorkerPC
<1> QED
  BY <1>1, <1>2, <1>3, <1>4, <1>5, <1>6, <1>7 DEF Work

-----------------------------------------------------------------------------
(* What a step of the server does to the registry: one of nine effects.      *)

SameHolders == Holders' = Holders

Quiet == UNCHANGED <<status, order, reserved>> /\ SameHolders

Inserts(r) == status[r] = "absent" /\ InsertRecord(r) /\ SameHolders

Removes(r) == status[r] # "running" /\ RemoveRecord(r) /\ SameHolders

Admits(r) == AdmitAsync(r) /\ SameHolders

Parks(r) == status[r] = "accepted" /\ SetStatus(r, "checkpointed") /\ SameHolders

Ends(r) ==
  /\ status[r] = "running"
  /\ \E s \in Done : SetStatus(r, s)
  /\ SameHolders

Takes(c) == ReserveAsyncSlot /\ c \notin Holders /\ Holders' = Holders \cup {c}

Gives(c) == ReleaseAsyncSlot /\ c \in Holders /\ Holders' = Holders \ {c}

Activates(c, r) == AdmitReservedAsync(r) /\ c \in Holders /\ Holders' = Holders \ {c}

RegistryStep ==
  \/ Quiet
  \/ \E r \in RunId : Inserts(r) \/ Removes(r) \/ Admits(r) \/ Parks(r) \/ Ends(r)
  \/ \E c \in Client : Takes(c) \/ Gives(c) \/ (\E r \in RunId : Activates(c, r))

\* A call that starts.
LEMMA CallEffect ==
  ASSUME IInv, NEW c \in Client, Call(c)
  PROVE  RegistryStep
<1> USE ServerAssumption
        DEF IInv, TypeOK, ArgInv, IssuedInv, StatusInv, WorkerInv, AcceptedPC,
            ActiveWorker, ClientPC, Holders, SameHolders
<1>1. ASSUME NEW r \in RunId, NEW k \in Kinds, Allocate(c, r, k) PROVE Inserts(r)
  BY <1>1 DEF Allocate, workerVars, Inserts
<1>2. ASSUME NEW r \in RunId, AllocateRefused(c, r) PROVE Quiet
  BY <1>2 DEF AllocateRefused, registryVars, workerVars, storeVars, Quiet
<1>3. ASSUME NEW r \in RunId, "resume" \in Calls, ResumeLoad(c, r) PROVE Quiet
  BY <1>3 DEF ResumeLoad, registryVars, workerVars, storeVars, Quiet
<1>4. ASSUME NEW r \in RunId, Cancel(c, r) PROVE Quiet
  BY <1>4 DEF Cancel, RequestCancel, CanCancel, clientVars, workerVars,
    storeVars, Quiet
<1>5. ASSUME NEW r \in RunId, "wait" \in Calls, WaitRead(c, r) PROVE Quiet
  BY <1>5 DEF WaitRead, registryVars, workerVars, storeVars, Quiet
<1> HIDE ServerAssumption
         DEF IInv, TypeOK, ArgInv, IssuedInv, StatusInv, WorkerInv, AcceptedPC,
             ActiveWorker, ClientPC, Holders, SameHolders
<1> QED
  BY <1>1, <1>2, <1>3, <1>4, <1>5 DEF Call, RegistryStep

\* A handler that goes on.
LEMMA HandleEffect ==
  ASSUME IInv, NEW c \in Client, Handle(c)
  PROVE  RegistryStep
<1> USE ServerAssumption
        DEF IInv, TypeOK, ArgInv, IssuedInv, StatusInv, WorkerInv, AcceptedPC,
            ActiveWorker, ClientPC, Holders, SameHolders
<1>1. ASSUME Admit(c) PROVE arg[c] \in RunId /\ Admits(arg[c])
  BY <1>1 DEF Admit, MoveTo, workerVars, storeVars, Admits
<1>2. ASSUME AdmitRefused(c) PROVE Quiet
  BY <1>2 DEF AdmitRefused, MoveTo, registryVars, workerVars, storeVars, Quiet
<1>3. ASSUME Refuse(c) PROVE arg[c] \in RunId /\ Removes(arg[c])
  BY <1>3 DEF Refuse, Return, workerVars, storeVars, Removes
<1>4. ASSUME SaveRow(c) PROVE Quiet
  BY <1>4 DEF SaveRow, MoveTo, registryVars, workerVars, Quiet
<1>5. ASSUME StartAsync(c) PROVE Quiet
  BY <1>5 DEF StartAsync, Spawn, Return, registryVars, storeVars, Quiet
<1>6. ASSUME StartSync(c) PROVE Quiet
  BY <1>6 DEF StartSync, Spawn, MoveTo, registryVars, storeVars, Quiet
<1>7. ASSUME PollTerminal(c) PROVE Quiet
  BY <1>7 DEF PollTerminal, MoveTo, registryVars, workerVars, storeVars, Quiet
<1>8. ASSUME PollDeadline(c) PROVE Quiet
  BY <1>8 DEF PollDeadline, MoveTo, registryVars, workerVars, storeVars, Quiet
<1>9. ASSUME DeadlineCancel(c) PROVE Quiet
  BY <1>9 DEF DeadlineCancel, MoveTo, RequestCancel, CanCancel, registryVars,
    workerVars, storeVars, Quiet
<1>10. ASSUME SyncReturn(c) PROVE Quiet
  BY <1>10 DEF SyncReturn, Return, registryVars, workerVars, Quiet
<1>11. ASSUME SaveCheckpointRow(c) PROVE Quiet
  BY <1>11 DEF SaveCheckpointRow, registryVars, workerVars, Quiet
<1>12. ASSUME CreateCheckpoint(c) PROVE Quiet
  BY <1>12 DEF CreateCheckpoint, registryVars, workerVars, Quiet
<1>13. ASSUME MarkCheckpointed(c) PROVE arg[c] \in RunId /\ Parks(arg[c])
  BY <1>13 DEF MarkCheckpointed, SetStatus, Return, workerVars, storeVars,
    Parks
<1>14. ASSUME Reserve(c) PROVE Takes(c)
  BY <1>14 DEF Reserve, MoveTo, workerVars, storeVars, Takes
<1>15. ASSUME ReserveRefused(c) PROVE Quiet
  BY <1>15 DEF ReserveRefused, Return, registryVars, workerVars, storeVars,
    Quiet
<1>16. ASSUME Consume(c) PROVE Quiet
  BY <1>16 DEF Consume, MoveTo, registryVars, workerVars, Quiet
<1>17. ASSUME ConsumeRefused(c) PROVE Quiet
  BY <1>17 DEF ConsumeRefused, MoveTo, registryVars, workerVars, storeVars,
    Quiet
<1>18. ASSUME Release(c) PROVE Gives(c)
  BY <1>18 DEF Release, Return, workerVars, storeVars, Gives
<1>19. ASSUME LaunchReplace(c) PROVE arg[c] \in RunId /\ Removes(arg[c])
  BY <1>19 DEF LaunchReplace, MoveTo, workerVars, storeVars, Removes
<1>20. ASSUME LaunchAllocate(c) PROVE arg[c] \in RunId /\ Inserts(arg[c])
  BY <1>20 DEF LaunchAllocate, MoveTo, workerVars, Inserts
<1>21. ASSUME LaunchRefused(c) PROVE Gives(c)
  BY <1>21 DEF LaunchRefused, Return, workerVars, storeVars, Gives
<1>22. ASSUME LaunchAdmit(c) PROVE arg[c] \in RunId /\ Activates(c, arg[c])
  BY <1>22 DEF LaunchAdmit, MoveTo, CanAdmitReserved, workerVars, storeVars,
    Activates
<1>23. ASSUME LaunchSaveRow(c) PROVE Quiet
  BY <1>23 DEF LaunchSaveRow, MoveTo, registryVars, workerVars, Quiet
<1>24. ASSUME LaunchSaveFails(c) PROVE Quiet
  BY <1>24 DEF LaunchSaveFails, Return, registryVars, workerVars, Quiet
<1>25. ASSUME LaunchStart(c) PROVE Quiet
  BY <1>25 DEF LaunchStart, Spawn, Return, registryVars, storeVars, Quiet
<1>26. ASSUME WaitPersist(c) PROVE Quiet
  BY <1>26 DEF WaitPersist, MoveTo, PersistRow, registryVars, workerVars, Quiet
<1>27. ASSUME WaitMark(c) PROVE Quiet
  BY <1>27 DEF WaitMark, MarkPersistence, Return, registryVars, workerVars,
    Quiet
<1> HIDE ServerAssumption
         DEF IInv, TypeOK, ArgInv, IssuedInv, StatusInv, WorkerInv, AcceptedPC,
             ActiveWorker, ClientPC, Holders, SameHolders
<1> QED
  BY <1>1, <1>2, <1>3, <1>4, <1>5, <1>6, <1>7, <1>8, <1>9, <1>10, <1>11, <1>12,
  <1>13, <1>14, <1>15, <1>16, <1>17, <1>18, <1>19, <1>20, <1>21, <1>22, <1>23,
  <1>24, <1>25, <1>26, <1>27 DEF Handle, RegistryStep

\* A worker.
LEMMA WorkEffect ==
  ASSUME IInv, NEW r \in RunId, Work(r) \/ EngineReturns(r)
  PROVE  RegistryStep
<1> USE ServerAssumption
        DEF IInv, TypeOK, ArgInv, IssuedInv, StatusInv, WorkerInv, AcceptedPC,
            ActiveWorker, ClientPC, Holders, SameHolders
<1>1. ASSUME WorkerBegin(r) PROVE Quiet
  BY <1>1 DEF WorkerBegin, Advance, SetStatus, clientVars, storeVars, Quiet
<1>2. ASSUME EngineReturns(r) PROVE Quiet
  BY <1>2 DEF EngineReturns, Advance, registryVars, clientVars, storeVars,
    Quiet
<1>3. ASSUME Publish(r) PROVE Ends(r)
  <2>1. status[r] = "running" /\ SameHolders
    BY <1>3 DEF Publish, Advance, clientVars
  <2>2. TerminalOutcome(r \in cancelled, outcome[r] = "error") \in Done
    BY DEF TerminalOutcome, Done
  <2> QED BY <1>3, <2>1, <2>2 DEF Publish, Ends
<1>4. ASSUME WorkerFails(r) PROVE Ends(r)
  BY <1>4 DEF WorkerFails, Advance, SetStatus, clientVars, storeVars, Ends,
    Done
<1>5. ASSUME FetchRecord(r) PROVE Quiet
  BY <1>5 DEF FetchRecord, registryVars, clientVars, storeVars, Quiet
<1>6. ASSUME PersistTerminal(r) PROVE Quiet
  BY <1>6 DEF PersistTerminal, Advance, PersistRow, registryVars, clientVars,
    Quiet
<1>7. ASSUME WorkerMark(r) PROVE Quiet
  BY <1>7 DEF WorkerMark, Advance, MarkPersistence, registryVars, clientVars,
    Quiet
<1> HIDE ServerAssumption
         DEF IInv, TypeOK, ArgInv, IssuedInv, StatusInv, WorkerInv, AcceptedPC,
             ActiveWorker, ClientPC, Holders, SameHolders
<1> QED
  BY <1>1, <1>2, <1>3, <1>4, <1>5, <1>6, <1>7 DEF Work, RegistryStep

LEMMA StepEffect ==
  ASSUME IInv, [Next]_vars
  PROVE  RegistryStep
<1>1. CASE UNCHANGED vars
  BY <1>1 DEF vars, registryVars, clientVars, RegistryStep, Quiet, SameHolders, Holders
<1> QED BY <1>1, CallEffect, HandleEffect, WorkEffect DEF Next

-----------------------------------------------------------------------------
(* The slots. *)

Slots == ReservationsHeld /\ CapacityBound

LEMMA FiniteCounts ==
  ASSUME TypeOK
  PROVE  /\ IsFiniteSet(Holders) /\ Cardinality(Holders) \in Nat
         /\ IsFiniteSet(Running) /\ Cardinality(Running) \in Nat
  BY FS_Subset, FS_CardinalityType, ServerAssumption, RegistryAssumption
     DEF Holders, Running

\* A holder shows that a slot is reserved: release and activation find one.
LEMMA HolderHasSlot ==
  ASSUME TypeOK, ReservationsHeld, NEW c \in Holders
  PROVE  reserved > 0
<1>1. Cardinality(Holders) # 0
  BY FiniteCounts, FS_EmptySet
<1> QED BY <1>1, FiniteCounts DEF ReservationsHeld

\* A record that starts or stops running changes their number by one.
LEMMA RunningGrows ==
  ASSUME TypeOK, NEW r \in RunId, status[r] # "running",
         status' = [status EXCEPT ![r] = "running"]
  PROVE  Cardinality(Running') = Cardinality(Running) + 1
<1>1. Running' = Running \cup {r} /\ r \notin Running
  BY DEF Running, TypeOK
<1> QED BY <1>1, FiniteCounts, FS_AddElement

LEMMA RunningShrinks ==
  ASSUME TypeOK, NEW r \in RunId, status[r] = "running",
         NEW s \in Done, status' = [status EXCEPT ![r] = s]
  PROVE  Cardinality(Running') = Cardinality(Running) - 1
<1>1. Running' = Running \ {r} /\ r \in Running
  BY DEF Running, TypeOK, Done
<1> QED BY <1>1, FiniteCounts, FS_RemoveElement

\* The nine effects keep the number of reservations and the bound.
LEMMA SlotsStep ==
  ASSUME TypeOK, Slots, RegistryStep
  PROVE  Slots'
<1> USE FiniteCounts, RegistryAssumption DEF Slots, ReservationsHeld, CapacityBound
<1>1. CASE Quiet
  <2>1. Running' = Running
    BY <1>1 DEF Quiet, Running
  <2> QED BY <1>1, <2>1 DEF Quiet, SameHolders
<1>2. ASSUME NEW r \in RunId, Inserts(r) PROVE Slots'
  <2>1. Running' = Running
    BY <1>2, InsertEffect DEF Inserts, Running, Terminal
  <2> QED BY <1>2, <2>1, InsertEffect DEF Inserts, SameHolders
<1>3. ASSUME NEW r \in RunId, Removes(r) PROVE Slots'
  <2>1. Running' = Running
    BY <1>3, RemoveEffect DEF Removes, Running
  <2> QED BY <1>3, <2>1, RemoveEffect DEF Removes, SameHolders
<1>4. ASSUME NEW r \in RunId, Admits(r) PROVE Slots'
  <2>1. status[r] # "running" /\ status' = [status EXCEPT ![r] = "running"]
    BY <1>4 DEF Admits, AdmitAsync, CanAdmit
  <2>2. Cardinality(Running') = Cardinality(Running) + 1
    BY <2>1, RunningGrows
  <2> QED BY <1>4, <2>2 DEF Admits, AdmitAsync, CanAdmit, SlotFree, SameHolders, TypeOK
<1>5. ASSUME NEW r \in RunId, Parks(r) PROVE Slots'
  <2>1. status[r] # "running" /\ status' = [status EXCEPT ![r] = "checkpointed"]
    BY <1>5 DEF Parks, SetStatus
  <2>2. Running' = Running
    BY <2>1 DEF Running, TypeOK
  <2> QED BY <1>5, <2>2 DEF Parks, SetStatus, SameHolders
<1>6. ASSUME NEW r \in RunId, Ends(r) PROVE Slots'
  <2>1. PICK s \in Done : status[r] = "running" /\ status' = [status EXCEPT ![r] = s]
    BY <1>6 DEF Ends, SetStatus
  <2>2. Cardinality(Running') = Cardinality(Running) - 1
    BY <2>1, RunningShrinks
  <2> QED BY <1>6, <2>2 DEF Ends, SetStatus, SameHolders, TypeOK
<1>7. ASSUME NEW c \in Client, Takes(c) PROVE Slots'
  <2>1. Cardinality(Holders') = Cardinality(Holders) + 1
    BY <1>7, FS_AddElement DEF Takes
  <2>2. Running' = Running
    BY <1>7 DEF Takes, ReserveAsyncSlot, Running
  <2> QED BY <1>7, <2>1, <2>2 DEF Takes, ReserveAsyncSlot, SlotFree, TypeOK
<1>8. ASSUME NEW c \in Client, Gives(c) PROVE Slots'
  <2>1. Cardinality(Holders') = Cardinality(Holders) - 1
    BY <1>8, FS_RemoveElement DEF Gives
  <2>2. Running' = Running
    BY <1>8 DEF Gives, ReleaseAsyncSlot, Running
  <2>3. reserved' = reserved - 1
    BY <1>8, HolderHasSlot DEF Gives, ReleaseAsyncSlot, TypeOK
  <2> QED BY <2>1, <2>2, <2>3 DEF TypeOK
<1>9. ASSUME NEW c \in Client, NEW r \in RunId, Activates(c, r) PROVE Slots'
  <2>1. Cardinality(Holders') = Cardinality(Holders) - 1
    BY <1>9, FS_RemoveElement DEF Activates
  <2>2. status[r] # "running" /\ status' = [status EXCEPT ![r] = "running"]
    BY <1>9 DEF Activates, AdmitReservedAsync, CanAdmitReserved
  <2>3. Cardinality(Running') = Cardinality(Running) + 1
    BY <2>2, RunningGrows
  <2> QED BY <1>9, <2>1, <2>3 DEF Activates, AdmitReservedAsync, TypeOK
<1> QED
  BY <1>1, <1>2, <1>3, <1>4, <1>5, <1>6, <1>7, <1>8, <1>9 DEF RegistryStep

-----------------------------------------------------------------------------
(* The retention order. *)

Listed(s) == {s[i] : i \in 1 .. Len(s)}
Distinct(s) == \A i, j \in 1 .. Len(s) : s[i] = s[j] => i = j

LEMMA DropListed ==
  ASSUME NEW s \in Seq(RunId), Distinct(s), NEW k \in 1 .. Len(s)
  PROVE  Listed(DropAt(s, k)) = Listed(s) \ {s[k]} /\ Distinct(DropAt(s, k))
<1> DEFINE t == DropAt(s, k)
<1>1. /\ Len(t) = Len(s) - 1
      /\ \A i \in 1 .. Len(t) : t[i] = IF i < k THEN s[i] ELSE s[i + 1]
  BY DropTyped
<1> HIDE DEF t
<1>2. ASSUME NEW i \in 1 .. Len(t) PROVE t[i] \in Listed(s) \ {s[k]}
  BY <1>1, <1>2 DEF Listed, Distinct
<1>3. ASSUME NEW i \in 1 .. Len(s), i # k PROVE s[i] \in Listed(t)
  <2>1. CASE i < k
    BY <1>1, <1>3, <2>1 DEF Listed
  <2>2. CASE i > k
    <3>1. i - 1 \in 1 .. Len(t) /\ t[i - 1] = s[i]
      BY <1>1, <1>3, <2>2
    <3> QED BY <3>1 DEF Listed
  <2> QED BY <1>3, <2>1, <2>2
<1>4. Listed(t) = Listed(s) \ {s[k]}
  BY <1>2, <1>3 DEF Listed
<1>5. Distinct(t)
  BY <1>1 DEF Distinct
<1> QED BY <1>4, <1>5 DEF t

LEMMA AppendListed ==
  ASSUME NEW s \in Seq(RunId), Distinct(s), NEW r \in RunId \ Listed(s)
  PROVE  Listed(Append(s, r)) = Listed(s) \cup {r} /\ Distinct(Append(s, r))
<1> DEFINE t == Append(s, r)
<1>1. /\ Len(t) = Len(s) + 1
      /\ \A i \in 1 .. Len(s) : t[i] = s[i]
      /\ t[Len(s) + 1] = r
  BY AppendTyped
<1> HIDE DEF t
<1>2. Listed(t) = Listed(s) \cup {r}
  <2>1. ASSUME NEW i \in 1 .. Len(t) PROVE t[i] \in Listed(s) \cup {r}
    BY <1>1, <2>1 DEF Listed
  <2>2. ASSUME NEW i \in 1 .. Len(s) PROVE s[i] \in Listed(t)
    BY <1>1, <2>2 DEF Listed
  <2>3. r \in Listed(t)
    BY <1>1 DEF Listed
  <2> QED BY <2>1, <2>2, <2>3 DEF Listed
<1>3. Distinct(t)
  BY <1>1 DEF Distinct, Listed
<1> QED BY <1>2, <1>3 DEF t

\* insert_record keeps order and map in step.
LEMMA InsertConsistent ==
  ASSUME TypeOK, RegistryConsistent, NEW r \in RunId, status[r] = "absent", InsertRecord(r)
  PROVE  RegistryConsistent'
<1>1. r \notin Listed(order) /\ Distinct(order) /\ Listed(order) = Present
  BY DEF RegistryConsistent, Present, Listed, Distinct
<1>2. CASE Len(order) # MaxRuns
  <2>1. order' = Append(order, r) /\ status' = [status EXCEPT ![r] = "accepted"]
    BY <1>2 DEF InsertRecord
  <2>2. Present' = Present \cup {r}
    BY <2>1 DEF Present, TypeOK
  <2>3. Len(order') <= MaxRuns
    BY <1>2, <2>1, AppendTyped, RegistryAssumption DEF TypeOK, RegistryConsistent
  <2>4. Listed(order') = Listed(order) \cup {r} /\ Distinct(order')
    BY <1>1, <2>1, AppendListed DEF TypeOK
  <2> QED BY <1>1, <2>2, <2>3, <2>4 DEF RegistryConsistent, Listed, Distinct
<1>3. CASE Len(order) = MaxRuns
  <2>1. PICK k \in 1 .. Len(order) :
          /\ OldestTerminalAt(k)
          /\ order' = Append(DropAt(order, k), r)
          /\ status' = [status EXCEPT ![order[k]] = "absent", ![r] = "accepted"]
    BY <1>3 DEF InsertRecord
  <2> DEFINE t == DropAt(order, k)
  <2>2. t \in Seq(RunId) /\ Len(t) = Len(order) - 1
    BY DropTyped DEF TypeOK
  <2>3. Listed(t) = Listed(order) \ {order[k]} /\ Distinct(t)
    BY <1>1, DropListed DEF TypeOK
  <2> HIDE DEF t
  <2>4. r \in RunId \ Listed(t)
    BY <1>1, <2>3
  <2>5. Listed(order') = Listed(t) \cup {r} /\ Distinct(order')
    BY <2>1, <2>2, <2>3, <2>4, AppendListed DEF t
  <2>6. Present' = (Present \ {order[k]}) \cup {r}
    BY <2>1 DEF Present, TypeOK
  <2>7. Len(order') <= MaxRuns
    <3>1. Len(order') = Len(t) + 1
      BY <2>1, <2>2, AppendTyped DEF t
    <3> QED BY <3>1, <2>2, <1>3, RegistryAssumption DEF TypeOK
  <2> QED BY <1>1, <2>3, <2>5, <2>6, <2>7 DEF RegistryConsistent, Listed, Distinct
<1> QED BY <1>2, <1>3

\* remove keeps order and map in step.
LEMMA RemoveConsistent ==
  ASSUME TypeOK, RegistryConsistent, NEW r \in RunId, RemoveRecord(r)
  PROVE  RegistryConsistent'
<1>1. CASE status[r] \in {"running", "absent"}
  BY <1>1 DEF RemoveRecord, RegistryConsistent, Present
<1>2. CASE status[r] \notin {"running", "absent"}
  <2>1. PICK k \in 1 .. Len(order) : order[k] = r /\ order' = DropAt(order, k)
    BY <1>2 DEF RemoveRecord
  <2>2. Distinct(order) /\ Listed(order) = Present
    BY DEF RegistryConsistent, Listed, Distinct
  <2>3. Len(order') = Len(order) - 1
    BY <2>1, DropTyped DEF TypeOK
  <2>4. Listed(order') = Listed(order) \ {r} /\ Distinct(order')
    BY <2>1, <2>2, DropListed DEF TypeOK
  <2>5. Present' = Present \ {r}
    BY <1>2 DEF RemoveRecord, Present, TypeOK
  <2>6. Len(order') <= MaxRuns
    BY <2>3, RegistryAssumption DEF TypeOK, RegistryConsistent
  <2> QED BY <2>2, <2>4, <2>5, <2>6 DEF RegistryConsistent, Listed, Distinct
<1> QED BY <1>1, <1>2

LEMMA OrderStep ==
  ASSUME TypeOK, RegistryConsistent, RegistryStep
  PROVE  RegistryConsistent'
<1>1. ASSUME NEW r \in RunId, Inserts(r) PROVE RegistryConsistent'
  BY <1>1, InsertConsistent DEF Inserts
<1>2. ASSUME NEW r \in RunId, Removes(r) PROVE RegistryConsistent'
  BY <1>2, RemoveConsistent DEF Removes
<1>3. ASSUME order' = order, Present' = Present PROVE RegistryConsistent'
  BY <1>3 DEF RegistryConsistent
<1>4. CASE Quiet
  BY <1>3, <1>4 DEF Quiet, Present
<1>5. ASSUME NEW r \in RunId, Admits(r) \/ Parks(r) \/ Ends(r) PROVE RegistryConsistent'
  BY <1>3, <1>5
     DEF Admits, AdmitAsync, CanAdmit, Parks, Ends, SetStatus, Done, Present, TypeOK
<1>6. ASSUME NEW c \in Client, Takes(c) \/ Gives(c) PROVE RegistryConsistent'
  BY <1>3, <1>6 DEF Takes, ReserveAsyncSlot, Gives, ReleaseAsyncSlot, Present
<1>7. ASSUME NEW c \in Client, NEW r \in RunId, Activates(c, r) PROVE RegistryConsistent'
  BY <1>3, <1>7 DEF Activates, AdmitReservedAsync, CanAdmitReserved, Present, TypeOK
<1> QED BY <1>1, <1>2, <1>4, <1>5, <1>6, <1>7 DEF RegistryStep

-----------------------------------------------------------------------------
(* The theorems. *)

Inv == IInv /\ Slots /\ RegistryConsistent

LEMMA InvInit == Init => Inv
<1> SUFFICES ASSUME Init PROVE Inv
  OBVIOUS
<1>1. IInv
  BY ServerAssumption
     DEF Init, RegistryInit, IInv, TypeOK, MutexInv, ArgInv, IssuedInv, OwnInv, ApartInv,
         StatusInv, WorkerInv, CkptInv, RunningIsOwned, CancelNeverCompletes, Running,
         FreshPC, PollPC, ResumedPC, LockPC, AcceptedPC, RunningPC, ActiveWorker, Status,
         Terminal, Done, ClientPC, WorkerPC
<1>2. Holders = {} /\ Running = {} /\ Present = {}
  BY DEF Init, RegistryInit, Holders, Running, Present
<1>3. Slots
  BY <1>2, FS_EmptySet, RegistryAssumption
     DEF Init, RegistryInit, Slots, ReservationsHeld, CapacityBound
<1>4. RegistryConsistent
  BY <1>2, RegistryAssumption DEF Init, RegistryInit, RegistryConsistent
<1> QED BY <1>1, <1>3, <1>4 DEF Inv

LEMMA InvStep == Inv /\ [Next]_vars => Inv'
<1> SUFFICES ASSUME Inv, [Next]_vars PROVE Inv'
  OBVIOUS
<1>1. IInv'
  <2>1. CASE UNCHANGED vars
    BY <2>1
       DEF Inv, vars, registryVars, clientVars, workerVars, storeVars, IInv, TypeOK,
           MutexInv, ArgInv, IssuedInv, OwnInv, ApartInv, StatusInv, WorkerInv, CkptInv,
           RunningIsOwned, CancelNeverCompletes, Running
  <2> QED BY <2>1, CallInv, HandleInv, WorkInv DEF Inv, Next
<1>2. RegistryStep
  BY StepEffect DEF Inv
<1> QED BY <1>1, <1>2, SlotsStep, OrderStep DEF Inv, IInv

\* Inv is an invariant of the server.
THEOREM Invariance == Spec => []Inv
  BY InvInit, InvStep, PTL DEF Spec

\* Every variable stays in its range.
THEOREM TypeCorrect == Spec => []TypeOK
<1>1. Inv => TypeOK
  BY DEF Inv, IInv
<1> QED BY <1>1, Invariance, PTL

\* Running and reserved slots never exceed MAX_ACTIVE_RUNS, and a slot is
\* reserved exactly as long as a resume holds it (run_manager.rs admission).
THEOREM SlotsRespected == Spec => []CapacityBound /\ []ReservationsHeld
<1>1. Inv => CapacityBound /\ ReservationsHeld
  BY DEF Inv, Slots
<1> QED BY <1>1, Invariance, PTL

\* Retention order and record map list the same runs, each once, within
\* MAX_RUNS (run_manager.rs insert_record, remove).
THEOREM OrderConsistent == Spec => []RegistryConsistent
<1>1. Inv => RegistryConsistent
  BY DEF Inv
<1> QED BY <1>1, Invariance, PTL

\* No running record is orphaned, except by a launch that fails between
\* admission and spawn (server.rs launch_resumed).
THEOREM RunningOwned == Spec => []RunningIsOwned
<1>1. Inv => RunningIsOwned
  BY DEF Inv, IInv
<1> QED BY <1>1, Invariance, PTL

\* A run whose cancellation was accepted is never reported completed
\* (run_manager.rs cancel, terminal_outcome).
THEOREM CancelWins == Spec => []CancelNeverCompletes
<1>1. Inv => CancelNeverCompletes
  BY DEF Inv, IInv
<1> QED BY <1>1, Invariance, PTL

\* The record a synchronous call polls is neither evicted nor removed while
\* it polls (server.rs graph_execute).
THEOREM PolledPresent == Spec => []PolledRunPresent
<1>1. Inv => PolledRunPresent
  BY DEF Inv, IInv, StatusInv, PolledRunPresent, PollPC, Done
<1> QED BY <1>1, Invariance, PTL

\* A resume that consumed its checkpoint is never turned away for want of a
\* slot (run_manager.rs reserve_async_slot, admit_reserved_async).
THEOREM ActivationSucceeds == Spec => []ActivationNeverRefused
<1>1. Inv => ActivationNeverRefused
  <2> SUFFICES ASSUME Inv, NEW c \in Client, pc[c] = "relisted" PROVE CanAdmitReserved(arg[c])
    BY DEF ActivationNeverRefused
  <2>1. c \in Holders /\ status[arg[c]] = "accepted"
    BY DEF Inv, IInv, StatusInv, AcceptedPC, Holders
  <2>2. reserved > 0
    BY <2>1, HolderHasSlot DEF Inv, IInv, Slots
  <2> QED BY <2>1, <2>2 DEF CanAdmitReserved
<1> QED BY <1>1, Invariance, PTL

\* A run is executed by at most one worker thread in its life, however often
\* its checkpoint is resumed (store.rs consume_resume_checkpoint).
THEOREM ExecutedOnce == Spec => OneWorkerPerRun
<1>1. ASSUME Inv, [Next]_vars
      PROVE  \A r \in RunId : worker[r] # "none" /\ worker'[r] # worker[r] => worker'[r] # "spawned"
  <2> USE DEF Inv, IInv, TypeOK, OwnInv, ArgInv, FreshPC, ResumedPC
  <2>1. ASSUME NEW c \in Client, StartAsync(c) \/ StartSync(c) \/ LaunchStart(c)
        PROVE  worker[arg[c]] = "none" /\ worker' = [worker EXCEPT ![arg[c]] = "spawned"]
    BY <1>1, <2>1 DEF StartAsync, StartSync, LaunchStart, Spawn, MoveTo
  <2>2. ASSUME NEW c \in Client, Call(c) PROVE UNCHANGED worker
    BY <2>2
       DEF Call, Allocate, AllocateRefused, ResumeLoad, Cancel, WaitRead, workerVars
  <2>3. ASSUME NEW c \in Client, Handle(c),
               ~(StartAsync(c) \/ StartSync(c) \/ LaunchStart(c))
        PROVE  UNCHANGED worker
    BY <2>3
       DEF Handle, Admit, AdmitRefused, Refuse, SaveRow, PollTerminal, PollDeadline,
           DeadlineCancel, SyncReturn, SaveCheckpointRow, CreateCheckpoint, MarkCheckpointed,
           Reserve, ReserveRefused, Consume, ConsumeRefused, Release, LaunchReplace,
           LaunchAllocate, LaunchRefused, LaunchAdmit, LaunchSaveRow, LaunchSaveFails,
           WaitPersist, WaitMark, workerVars
  <2>4. ASSUME NEW r \in RunId, Work(r) \/ EngineReturns(r)
        PROVE  \E to \in WorkerPC \ {"spawned"} : worker' = [worker EXCEPT ![r] = to]
    BY <2>4
       DEF Work, WorkerBegin, EngineReturns, Publish, WorkerFails, FetchRecord,
           PersistTerminal, WorkerMark, Advance, WorkerPC
  <2>5. CASE UNCHANGED vars
    BY <2>5 DEF vars, workerVars
  <2> QED BY <1>1, <2>1, <2>2, <2>3, <2>4, <2>5 DEF Next
<1> QED BY <1>1, Invariance, PTL DEF Spec, OneWorkerPerRun

-----------------------------------------------------------------------------
(* The server implements the abstract life cycle. *)

\* insert_record is the abstract acceptance of a run.
LEMMA InsertAccepts ==
  ASSUME TypeOK, NEW r \in RunId, status[r] = "absent", InsertRecord(r)
  PROVE  Lifecycle!Accept(r)
<1>1. CASE Len(order) # MaxRuns
  BY <1>1 DEF InsertRecord, Lifecycle!Accept
<1>2. CASE Len(order) = MaxRuns
  <2>1. PICK k \in 1 .. Len(order) :
          /\ OldestTerminalAt(k)
          /\ status' = [status EXCEPT ![order[k]] = "absent", ![r] = "accepted"]
    BY <1>2 DEF InsertRecord
  <2>2. order[k] \in RunId /\ status[order[k]] \in Terminal
    BY <2>1 DEF OldestTerminalAt, TypeOK
  <2>3. status[order[k]] \in Lifecycle!Ended \cup {"checkpointed"}
    BY <2>2 DEF Terminal, Lifecycle!Ended
  <2> QED BY <2>1, <2>2, <2>3 DEF InsertRecord, Lifecycle!Accept
<1> QED BY <1>1, <1>2

LEMMA SlotMaps == Lifecycle!SlotLeft <=> SlotFree
<1>1. Lifecycle!Executing = Running
  BY DEF Lifecycle!Executing, Running
<1>2. Lifecycle!Cardinality(Running) = Cardinality(Running)
  BY DEF Lifecycle!Cardinality, Cardinality
<1> QED BY <1>1, <1>2 DEF Lifecycle!SlotLeft, SlotFree

LEMMA EffectRefines ==
  ASSUME TypeOK, Slots, RegistryStep
  PROVE  [Lifecycle!Next]_<<status, reserved>>
<1>1. CASE Quiet
  BY <1>1 DEF Quiet
<1>2. ASSUME NEW r \in RunId, Inserts(r) PROVE Lifecycle!Accept(r)
  BY <1>2, InsertAccepts DEF Inserts
<1>3. ASSUME NEW r \in RunId, Removes(r) PROVE Lifecycle!Forget(r)
  BY <1>3 DEF Removes, RemoveRecord, Lifecycle!Forget, TypeOK
<1>4. ASSUME NEW r \in RunId, Admits(r) PROVE Lifecycle!Start(r)
  BY <1>4, SlotMaps DEF Admits, AdmitAsync, CanAdmit, Lifecycle!Start
<1>5. ASSUME NEW r \in RunId, Parks(r) PROVE Lifecycle!Park(r)
  BY <1>5 DEF Parks, SetStatus, Lifecycle!Park
<1>6. ASSUME NEW r \in RunId, Ends(r) PROVE Lifecycle!End(r)
  BY <1>6 DEF Ends, SetStatus, Lifecycle!End, Lifecycle!Ended, Done
<1>7. ASSUME NEW c \in Client, Takes(c) PROVE Lifecycle!Hold
  BY <1>7, SlotMaps DEF Takes, ReserveAsyncSlot, Lifecycle!Hold
<1>8. ASSUME NEW c \in Client, Gives(c) PROVE Lifecycle!Drop
  BY <1>8, HolderHasSlot DEF Gives, ReleaseAsyncSlot, Lifecycle!Drop, Slots, TypeOK
<1>9. ASSUME NEW c \in Client, NEW r \in RunId, Activates(c, r) PROVE Lifecycle!StartHeld(r)
  BY <1>9 DEF Activates, AdmitReservedAsync, CanAdmitReserved, Lifecycle!StartHeld
<1> QED
  BY <1>1, <1>2, <1>3, <1>4, <1>5, <1>6, <1>7, <1>8, <1>9
     DEF RegistryStep, Lifecycle!Next

\* Whatever handlers and workers interleave, the registry shows runs that are
\* accepted, execute in a bounded number of slots and end once.
THEOREM Refinement == Spec => ImplementsLifecycle
<1>1. Init => Lifecycle!Init
  BY DEF Init, RegistryInit, Lifecycle!Init
<1>2. Inv /\ [Next]_vars => [Lifecycle!Next]_<<status, reserved>>
  BY StepEffect, EffectRefines DEF Inv, IInv
<1> QED BY <1>1, <1>2, Invariance, PTL DEF Spec, ImplementsLifecycle, Lifecycle!Spec

-----------------------------------------------------------------------------
(* Durability claims.  A worker that has published its status gives its run  *)
(* to the completion: from then on the record keeps the status until it is   *)
(* evicted, and whoever writes the row (the worker, a wait, a synchronous    *)
(* call) writes that status.  A synchronous call whose deadline passed may   *)
(* write an older one, so there are no deadlines here.                       *)

PublishedPC == WorkerPC \ (ActiveWorker \cup {"none"})
ReadingPC == {"polled", "waited", "marking", "unmarking"}

Published(r) == worker[r] \in PublishedPC

\* The row says what the record says, if there is one.
Agrees(r) == status[r] # "absent" => row[r] = status[r]

\* What is written to a run's row, by its worker and by a handler.
RunClaims(r) ==
  /\ status[r] \in Done => Published(r)
  /\ worker[r] \in {"persisting", "marking", "unmarking"} =>
       rec[r] \in Done /\ status[r] \in {rec[r], "absent"}
  /\ worker[r] = "marking" => Agrees(r)
  /\ claim[r] = "durable" => Published(r) /\ Agrees(r)

ReaderClaims(c) ==
  /\ pc[c] # "expired"
  /\ pc[c] \in ReadingPC =>
       /\ arg[c] \in RunId /\ Published(arg[c])
       /\ seen[c] \in Done /\ status[arg[c]] \in {seen[c], "absent"}
  /\ pc[c] = "marking" => Agrees(arg[c])

ClaimInv == (\A r \in RunId : RunClaims(r)) /\ (\A c \in Client : ReaderClaims(c))

\* A step that is about runs which are not published yet.
Early ==
  /\ \A r \in RunId : Published(r) =>
       /\ worker'[r] = worker[r] /\ status'[r] \in {status[r], "absent"}
       /\ row'[r] = row[r] /\ claim'[r] = claim[r] /\ rec'[r] = rec[r]
  /\ \A r \in RunId : ~Published(r) =>
       ~Published(r)' /\ status'[r] \notin Done /\ claim'[r] # "durable"
  /\ \A c \in Client : pc'[c] \in ReadingPC \cup {"expired"} =>
       \/ pc'[c] = pc[c] /\ arg'[c] = arg[c] /\ seen'[c] = seen[c]
       \/ /\ pc'[c] \in {"polled", "waited"} /\ arg'[c] \in RunId
          /\ status[arg'[c]] \in Done /\ seen'[c] = status[arg'[c]]

LEMMA EarlyKeepsClaims ==
  ASSUME TypeOK, ClaimInv, Early
  PROVE  ClaimInv'
<1>1. ASSUME NEW r \in RunId PROVE RunClaims(r)'
  <2>1. RunClaims(r)
    BY DEF ClaimInv
  <2>2. CASE Published(r)
    BY <2>1, <2>2 DEF RunClaims, Early, Agrees, Published, Done
  <2>3. CASE ~Published(r)
    <3>1. ~Published(r)' /\ status'[r] \notin Done /\ claim'[r] # "durable"
      BY <2>3 DEF Early
    <3>2. worker'[r] \notin {"persisting", "marking", "unmarking"}
      BY <3>1 DEF Published, PublishedPC, WorkerPC, ActiveWorker
    <3> QED
      BY <3>1, <3>2 DEF RunClaims
  <2> QED
    BY <2>2, <2>3
<1>2. ASSUME NEW c \in Client PROVE ReaderClaims(c)'
  <2>1. CASE pc'[c] \notin ReadingPC \cup {"expired"}
    BY <2>1 DEF ReaderClaims, ReadingPC
  <2>2. CASE pc'[c] = pc[c] /\ arg'[c] = arg[c] /\ seen'[c] = seen[c]
    <3>1. ReaderClaims(c)
      BY DEF ClaimInv
    <3> QED
      BY <2>2, <3>1 DEF ReaderClaims, Early, Agrees, Published, Done, ReadingPC
  <2>3. CASE /\ pc'[c] \in {"polled", "waited"} /\ arg'[c] \in RunId
             /\ status[arg'[c]] \in Done /\ seen'[c] = status[arg'[c]]
    <3>1. Published(arg'[c])
      BY <2>3 DEF ClaimInv, RunClaims
    <3> QED
      BY <2>3, <3>1 DEF ReaderClaims, Early, Published
  <2> QED
    BY <2>1, <2>2, <2>3 DEF Early
<1> QED
  BY <1>1, <1>2 DEF ClaimInv

\* A call that starts is about no published run, or reads a terminal status.
LEMMA CallClaims ==
  ASSUME IInv, ClaimInv, NEW c \in Client, Call(c)
  PROVE  Early
<1> USE DEF TypeOK, Early, Published, PublishedPC, ReadingPC, ActiveWorker, Done, Terminal
<1>t. TypeOK
  BY DEF IInv
<1>p. \A r \in RunId : ~Published(r) => status[r] \notin Done /\ claim[r] # "durable"
  BY DEF ClaimInv, RunClaims
<1>1. ASSUME NEW r \in RunId, NEW k \in Kinds, Allocate(c, r, k) PROVE Early
  <2>1. worker[r] = "none"
    BY <1>1 DEF Allocate, IInv, IssuedInv
  <2> QED
    BY <1>1, <1>t, <1>p, <2>1, InsertEffect DEF Allocate, workerVars
<1>2. ASSUME NEW r \in RunId, AllocateRefused(c, r) PROVE Early
  BY <1>2, <1>t, <1>p DEF AllocateRefused, registryVars, workerVars, storeVars
<1>3. ASSUME NEW r \in RunId, ResumeLoad(c, r) PROVE Early
  BY <1>3, <1>t, <1>p DEF ResumeLoad, registryVars, workerVars, storeVars
<1>4. ASSUME NEW r \in RunId, Cancel(c, r) PROVE Early
  BY <1>4, <1>t, <1>p DEF Cancel, RequestCancel, clientVars, workerVars, storeVars
<1>5. ASSUME NEW r \in RunId, WaitRead(c, r) PROVE Early
  BY <1>5, <1>t, <1>p DEF WaitRead, registryVars, workerVars, storeVars
<1> HIDE DEF TypeOK, Early, Published, PublishedPC, ReadingPC, ActiveWorker, Done, Terminal
<1> QED
  BY <1>1, <1>2, <1>3, <1>4, <1>5 DEF Call

\* A handler that neither returns a result nor persists one is about a run
\* that is not published, reads a terminal status, or forgets a record.
LEMMA HandleClaims ==
  ASSUME IInv, ClaimInv, NEW c \in Client, Handle(c), "deadline" \notin Events,
         ~SyncReturn(c), ~WaitPersist(c), ~WaitMark(c)
  PROVE  Early
<1> USE DEF TypeOK, Early, Published, PublishedPC, ReadingPC, ActiveWorker, Done, Terminal
<1>t. TypeOK
  BY DEF IInv
<1>p. \A r \in RunId : ~Published(r) => status[r] \notin Done /\ claim[r] # "durable"
  BY DEF ClaimInv, RunClaims
<1>o. pc[c] \in FreshPC \cup ResumedPC => arg[c] \in RunId /\ worker[arg[c]] = "none"
  BY DEF IInv, OwnInv, ArgInv, TypeOK, FreshPC, ResumedPC
<1>a. pc[c] # "idle" => arg[c] \in RunId
  BY DEF IInv, ArgInv, TypeOK
<1>1. CASE Admit(c)
  BY <1>1, <1>t, <1>p, <1>o DEF Admit, MoveTo, AdmitAsync, workerVars, storeVars, FreshPC,
     ResumedPC
<1>2. CASE AdmitRefused(c)
  BY <1>2, <1>t, <1>p DEF AdmitRefused, MoveTo, registryVars, workerVars, storeVars
<1>3. CASE Refuse(c)
  <2>1. arg[c] \in RunId /\ RemoveRecord(arg[c])
    BY <1>3, <1>o DEF Refuse, FreshPC
  <2>2. \A r \in RunId : status'[r] \in {status[r], "absent"}
    BY <1>t, <2>1, RemoveEffect
  <2> QED
    BY <1>3, <1>t, <1>p, <2>2 DEF Refuse, Return, workerVars, storeVars
<1>4. CASE SaveRow(c)
  BY <1>4, <1>t, <1>p, <1>o DEF SaveRow, MoveTo, registryVars, workerVars, FreshPC, ResumedPC
<1>5. CASE StartAsync(c)
  BY <1>5, <1>t, <1>p, <1>o DEF StartAsync, Spawn, Return, registryVars, storeVars, FreshPC,
     ResumedPC
<1>6. CASE StartSync(c)
  BY <1>6, <1>t, <1>p, <1>o DEF StartSync, Spawn, MoveTo, registryVars, storeVars, FreshPC,
     ResumedPC
<1>7. CASE PollTerminal(c)
  BY <1>7, <1>t, <1>p, <1>a DEF PollTerminal, MoveTo, registryVars, workerVars, storeVars
<1>8. CASE PollDeadline(c)
  BY <1>8 DEF PollDeadline
<1>9. CASE DeadlineCancel(c)
  BY <1>9, <1>t, <1>p DEF DeadlineCancel, MoveTo, ClaimInv, ReaderClaims
<1>10. CASE SaveCheckpointRow(c)
  BY <1>10, <1>t, <1>p, <1>o DEF SaveCheckpointRow, registryVars, workerVars, FreshPC, ResumedPC
<1>11. CASE CreateCheckpoint(c)
  BY <1>11, <1>t, <1>p, <1>o DEF CreateCheckpoint, registryVars, workerVars, FreshPC, ResumedPC
<1>12. CASE MarkCheckpointed(c)
  BY <1>12, <1>t, <1>p, <1>o DEF MarkCheckpointed, SetStatus, Return, workerVars, storeVars,
     FreshPC, ResumedPC
<1>13. CASE Reserve(c)
  BY <1>13, <1>t, <1>p DEF Reserve, MoveTo, ReserveAsyncSlot, workerVars, storeVars
<1>14. CASE ReserveRefused(c)
  BY <1>14, <1>t, <1>p DEF ReserveRefused, Return, registryVars, workerVars, storeVars
<1>15. CASE Consume(c)
  BY <1>15, <1>t, <1>p DEF Consume, MoveTo, registryVars, workerVars
<1>16. CASE ConsumeRefused(c)
  BY <1>16, <1>t, <1>p DEF ConsumeRefused, MoveTo, registryVars, workerVars, storeVars
<1>17. CASE Release(c)
  BY <1>17, <1>t, <1>p DEF Release, ReleaseAsyncSlot, Return, workerVars, storeVars
<1>18. CASE LaunchReplace(c)
  BY <1>18, <1>t, <1>p, <1>o, RemoveEffect DEF LaunchReplace, MoveTo, workerVars, storeVars,
     FreshPC, ResumedPC
<1>19. CASE LaunchAllocate(c)
  <2>1. arg[c] \in RunId /\ worker[arg[c]] = "none" /\ InsertRecord(arg[c])
    BY <1>19, <1>o DEF LaunchAllocate, MoveTo, ResumedPC
  <2>2. /\ status'[arg[c]] = "accepted"
        /\ \A r \in RunId \ {arg[c]} : status'[r] \in {status[r], "absent"}
    BY <1>t, <2>1, InsertEffect
  <2> QED
    BY <1>19, <1>t, <1>p, <2>1, <2>2 DEF LaunchAllocate, MoveTo, workerVars
<1>20. CASE LaunchRefused(c)
  BY <1>20, <1>t, <1>p DEF LaunchRefused, ReleaseAsyncSlot, Return, workerVars, storeVars
<1>21. CASE LaunchAdmit(c)
  BY <1>21, <1>t, <1>p, <1>o DEF LaunchAdmit, MoveTo, AdmitReservedAsync, workerVars,
     storeVars, FreshPC, ResumedPC
<1>22. CASE LaunchSaveRow(c)
  BY <1>22, <1>t, <1>p, <1>o DEF LaunchSaveRow, MoveTo, registryVars, workerVars, FreshPC,
     ResumedPC
<1>23. CASE LaunchSaveFails(c)
  BY <1>23, <1>t, <1>p DEF LaunchSaveFails, Return, registryVars, workerVars
<1>24. CASE LaunchStart(c)
  BY <1>24, <1>t, <1>p, <1>o DEF LaunchStart, Spawn, Return, registryVars, storeVars,
     FreshPC, ResumedPC
<1> HIDE DEF TypeOK, Early, Published, PublishedPC, ReadingPC, ActiveWorker, Done, Terminal
<1> QED
  BY <1>1, <1>2, <1>3, <1>4, <1>5, <1>6, <1>7, <1>8, <1>9, <1>10, <1>11, <1>12, <1>13,
     <1>14, <1>15, <1>16, <1>17, <1>18, <1>19, <1>20, <1>21, <1>22, <1>23, <1>24 DEF Handle

\* Whoever writes a terminal row writes the status of the record, and whoever
\* claims durability has written it.
LEMMA PersistClaims ==
  ASSUME IInv, ClaimInv, NEW c \in Client,
         SyncReturn(c) \/ WaitPersist(c) \/ WaitMark(c)
  PROVE  ClaimInv'
<1>t. TypeOK
  BY DEF IInv
<1>1. \A r \in RunId : RunClaims(r)
  BY DEF ClaimInv
<1>2. \A d \in Client : ReaderClaims(d)
  BY DEF ClaimInv
<1>3. arg[c] \in RunId /\ Published(arg[c]) /\ status[arg[c]] \in {seen[c], "absent"}
  BY <1>2 DEF SyncReturn, WaitPersist, WaitMark, MoveTo, ReaderClaims, ReadingPC
<1>4. CASE SyncReturn(c)
  <2>1. \A r \in RunId : RunClaims(r)'
    BY <1>t, <1>1, <1>3, <1>4
       DEF SyncReturn, Return, registryVars, workerVars, TypeOK, RunClaims, Agrees, Published
  <2>2. \A d \in Client : ReaderClaims(d)'
    BY <1>t, <1>2, <1>3, <1>4
       DEF SyncReturn, Return, registryVars, workerVars, TypeOK, ReaderClaims, ReadingPC,
           Agrees, Published
  <2> QED
    BY <2>1, <2>2 DEF ClaimInv
<1>5. CASE WaitPersist(c)
  <2>1. \A r \in RunId : RunClaims(r)'
    BY <1>t, <1>1, <1>3, <1>5
       DEF WaitPersist, PersistRow, MoveTo, registryVars, workerVars, TypeOK, RunClaims,
           Agrees, Published
  <2>2. \A d \in Client : ReaderClaims(d)'
    BY <1>t, <1>2, <1>3, <1>5
       DEF WaitPersist, PersistRow, MoveTo, registryVars, workerVars, TypeOK, ReaderClaims,
           ReadingPC, Agrees, Published
  <2> QED
    BY <2>1, <2>2 DEF ClaimInv
<1>6. CASE WaitMark(c)
  <2>1. \A r \in RunId : RunClaims(r)'
    <3>1. pc[c] = "marking" => Agrees(arg[c])
      BY <1>2 DEF ReaderClaims
    <3> QED
      BY <1>t, <1>1, <1>3, <1>6, <3>1
         DEF WaitMark, MarkPersistence, Return, registryVars, workerVars, TypeOK, RunClaims,
             Agrees, Published
  <2>2. \A d \in Client : ReaderClaims(d)'
    BY <1>t, <1>2, <1>6
       DEF WaitMark, Return, registryVars, workerVars, TypeOK, ReaderClaims, ReadingPC,
           Agrees, Published
  <2> QED
    BY <2>1, <2>2 DEF ClaimInv
<1> QED
  BY <1>4, <1>5, <1>6

\* A worker publishes before it persists, and persists what it published.
LEMMA WorkClaims ==
  ASSUME IInv, ClaimInv, NEW r \in RunId, Work(r) \/ EngineReturns(r)
  PROVE  ClaimInv'
<1>t. TypeOK
  BY DEF IInv
<1>w. /\ worker[r] \in ActiveWorker => status[r] = "running"
      /\ worker[r] = "published" => status[r] \in Done \cup {"absent"}
  BY DEF IInv, WorkerInv, ActiveWorker
<1>1. \A q \in RunId : RunClaims(q)
  BY DEF ClaimInv
<1>2. \A d \in Client : ReaderClaims(d)
  BY DEF ClaimInv
<1>3. CASE WorkerBegin(r) \/ EngineReturns(r)
  <2>1. /\ ~Published(r) /\ ~Published(r)' /\ status'[r] \notin Done
        /\ \A q \in RunId \ {r} : worker'[q] = worker[q] /\ status'[q] = status[q]
        /\ UNCHANGED <<clientVars, rec, storeVars>>
    BY <1>t, <1>w, <1>3
       DEF WorkerBegin, EngineReturns, Advance, SetStatus, registryVars, TypeOK, Published,
           PublishedPC, ActiveWorker, Done
  <2>2. \A q \in RunId : ~Published(q) => status[q] \notin Done /\ claim[q] # "durable"
    BY <1>1 DEF RunClaims
  <2>3. Early
    BY <2>1, <2>2 DEF Early, Published, clientVars, storeVars
  <2> QED
    BY <1>t, <2>3, EarlyKeepsClaims
<1>4. CASE Publish(r) \/ WorkerFails(r)
  <2>1. /\ ~Published(r) /\ worker'[r] = "published" /\ status'[r] \in Done
        /\ \A q \in RunId \ {r} : worker'[q] = worker[q] /\ status'[q] = status[q]
                                   /\ claim'[q] = claim[q]
        /\ claim'[r] \in {"pending", claim[r]}
        /\ UNCHANGED <<clientVars, rec, row>>
    BY <1>t, <1>w, <1>4
       DEF Publish, WorkerFails, Advance, SetStatus, MarkPersistence, TerminalOutcome,
           storeVars, TypeOK, Published, PublishedPC, WorkerPC, ActiveWorker, Done
  <2>2. \A q \in RunId : RunClaims(q)'
    BY <1>1, <2>1 DEF RunClaims, Agrees, Published, PublishedPC, WorkerPC, ActiveWorker
  <2>3. \A d \in Client : ReaderClaims(d)'
    BY <1>2, <2>1
       DEF clientVars, ReaderClaims, ReadingPC, Agrees, Published, PublishedPC, WorkerPC,
           ActiveWorker
  <2> QED
    BY <2>2, <2>3 DEF ClaimInv
<1>5. CASE FetchRecord(r)
  <2>1. /\ worker[r] = "published"
        /\ \/ worker'[r] = "dead"
           \/ worker'[r] = "persisting" /\ rec'[r] = status[r] /\ status[r] \in Done
        /\ \A q \in RunId \ {r} : worker'[q] = worker[q] /\ rec'[q] = rec[q]
        /\ UNCHANGED <<status, clientVars, row, claim>>
    BY <1>t, <1>w, <1>5 DEF FetchRecord, registryVars, storeVars, TypeOK
  <2>2. \A q \in RunId : RunClaims(q)'
    BY <1>1, <2>1 DEF RunClaims, Agrees, Published, PublishedPC, WorkerPC, ActiveWorker
  <2>3. \A d \in Client : ReaderClaims(d)'
    BY <1>2, <2>1
       DEF clientVars, ReaderClaims, ReadingPC, Agrees, Published, PublishedPC, WorkerPC,
           ActiveWorker
  <2> QED
    BY <2>2, <2>3 DEF ClaimInv
<1>6. CASE PersistTerminal(r)
  <2>1. /\ worker[r] = "persisting"
        /\ \/ worker'[r] = "marking" /\ row' = [row EXCEPT ![r] = rec[r]]
           \/ worker'[r] = "unmarking" /\ row' = row
        /\ \A q \in RunId \ {r} : worker'[q] = worker[q]
        /\ UNCHANGED <<status, clientVars, rec, claim>>
    BY <1>t, <1>6 DEF PersistTerminal, PersistRow, Advance, registryVars, TypeOK
  <2>2. status[r] \in {rec[r], "absent"}
    BY <1>1, <2>1 DEF RunClaims
  <2>3. \A q \in RunId : RunClaims(q)'
    BY <1>t, <1>1, <2>1, <2>2
       DEF TypeOK, RunClaims, Agrees, Published, PublishedPC, WorkerPC, ActiveWorker
  <2>4. \A d \in Client : ReaderClaims(d)'
    BY <1>t, <1>2, <2>1, <2>2
       DEF TypeOK, clientVars, ReaderClaims, ReadingPC, Agrees, Published, PublishedPC,
           WorkerPC, ActiveWorker
  <2> QED
    BY <2>3, <2>4 DEF ClaimInv
<1>7. CASE WorkerMark(r)
  <2>1. /\ worker[r] \in {"marking", "unmarking"} /\ worker'[r] = "done"
        /\ \/ claim'[r] \in {claim[r], "failed"}
           \/ claim'[r] = "durable" /\ worker[r] = "marking"
        /\ \A q \in RunId \ {r} : worker'[q] = worker[q] /\ rec'[q] = rec[q]
                                   /\ claim'[q] = claim[q]
        /\ UNCHANGED <<status, clientVars, row>>
    <3>1. CASE worker[r] = "marking"
      BY <1>t, <1>7, <3>1 DEF WorkerMark, MarkPersistence, Advance, registryVars, TypeOK
    <3>2. CASE worker[r] # "marking"
      BY <1>t, <1>7, <3>2 DEF WorkerMark, MarkPersistence, Advance, registryVars, TypeOK
    <3> QED
      BY <3>1, <3>2
  <2>2. \A q \in RunId : RunClaims(q)'
    BY <1>1, <2>1 DEF RunClaims, Agrees, Published, PublishedPC, WorkerPC, ActiveWorker
  <2>3. \A d \in Client : ReaderClaims(d)'
    BY <1>2, <2>1
       DEF clientVars, ReaderClaims, ReadingPC, Agrees, Published, PublishedPC, WorkerPC,
           ActiveWorker
  <2> QED
    BY <2>2, <2>3 DEF ClaimInv
<1> QED
  BY <1>3, <1>4, <1>5, <1>6, <1>7 DEF Work

LEMMA ClaimStep ==
  ASSUME "deadline" \notin Events, IInv, ClaimInv, [Next]_vars
  PROVE  ClaimInv'
<1>1. ASSUME NEW c \in Client, Call(c) PROVE ClaimInv'
  BY <1>1, CallClaims, EarlyKeepsClaims DEF IInv
<1>2. ASSUME NEW c \in Client, Handle(c) PROVE ClaimInv'
  <2>1. CASE SyncReturn(c) \/ WaitPersist(c) \/ WaitMark(c)
    BY <2>1, PersistClaims
  <2>2. CASE ~(SyncReturn(c) \/ WaitPersist(c) \/ WaitMark(c))
    BY <1>2, <2>2, HandleClaims, EarlyKeepsClaims DEF IInv
  <2> QED
    BY <2>1, <2>2
<1>3. ASSUME NEW r \in RunId, Work(r) \/ EngineReturns(r) PROVE ClaimInv'
  BY <1>3, WorkClaims
<1>4. CASE UNCHANGED vars
  BY <1>4 DEF vars, registryVars, clientVars, workerVars, storeVars, ClaimInv, RunClaims,
              ReaderClaims, Agrees, Published
<1> QED
  BY <1>1, <1>2, <1>3, <1>4 DEF Next

\* What the registry reports as durable is what SQLite holds, whichever of the
\* worker, a wait or a synchronous call writes the row, whatever store call
\* fails and whichever record is evicted in between (run_manager.rs
\* mark_persistence, server.rs persist_terminal_projection).  No deadline of a
\* synchronous call passes: the row such a call writes may be out of date.
THEOREM DurableClaims ==
  ASSUME "deadline" \notin Events
  PROVE  Spec => []DurableClaimIsTrue
<1>1. Init => ClaimInv
  BY ServerAssumption
     DEF Init, RegistryInit, ClaimInv, RunClaims, ReaderClaims, Agrees, ReadingPC, Done
<1>2. IInv /\ ClaimInv /\ [Next]_vars => ClaimInv'
  BY ClaimStep
<1>3. ClaimInv => DurableClaimIsTrue
  BY DEF ClaimInv, RunClaims, Agrees, DurableClaimIsTrue, Present
<1>4. Inv => IInv
  BY DEF Inv
<1> QED
  BY <1>1, <1>2, <1>3, <1>4, Invariance, PTL DEF Spec

-----------------------------------------------------------------------------
(* Terminal rows.  A run whose worker has published has one terminal status, *)
(* and all that is written to its row is that.  A run without a worker has a *)
(* terminal row only when its checkpoint could not be saved: its handler     *)
(* gives it up, and nobody can resume it.                                    *)

\* Nothing that writes the row of a run given up is ahead of anybody.
IdlePC == {"refused", "validated", "reserved", "releasing"}

GivenUp(r) ==
  /\ r \in issued /\ worker[r] = "none" /\ ckpt[r] = "none"
  /\ \A c \in Client : arg[c] = r => pc[c] \in IdlePC

\* All that is known of the end of a run is one verdict.
Verdict(r, v) ==
  /\ status[r] \in {v, "absent"}
  /\ worker[r] = "persisting" => rec[r] = v
  /\ \A c \in Client : pc[c] \in ReadingPC /\ arg[c] = r => seen[c] = v
  /\ row[r] \in Done => row[r] = v

RowInv ==
  \A r \in RunId :
    IF Published(r) THEN \E v \in Done : Verdict(r, v) ELSE row[r] \in Done => GivenUp(r)

\* What a step leaves of the rows of runs that were not published.
RowKept(r) ==
  /\ row'[r] = row[r] \/ row'[r] \notin Done \/ GivenUp(r)'
  /\ GivenUp(r) => GivenUp(r)' /\ row'[r] = row[r]

LEMMA CallRows ==
  ASSUME IInv, ClaimInv, NEW c \in Client, Call(c), NEW r \in RunId
  PROVE  RowKept(r)
<1> USE DEF GivenUp, IdlePC
<1>t. TypeOK
  BY DEF IInv
<1>1. row' = row /\ ckpt' = ckpt /\ worker' = worker /\ issued \subseteq issued'
  BY DEF Call, Allocate, AllocateRefused, ResumeLoad, Cancel, WaitRead, workerVars, storeVars,
         clientVars
<1>2. ASSUME GivenUp(r), NEW d \in Client, arg'[d] = r PROVE pc'[d] \in IdlePC
  <2>1. ASSUME NEW q \in RunId, NEW k \in Kinds, Allocate(c, q, k) PROVE pc'[d] \in IdlePC
    BY <1>t, <1>2, <2>1 DEF Allocate, TypeOK
  <2>2. ASSUME NEW q \in RunId, AllocateRefused(c, q) \/ Cancel(c, q) PROVE pc'[d] \in IdlePC
    BY <1>2, <2>2 DEF AllocateRefused, Cancel, clientVars
  <2>3. ASSUME NEW q \in RunId, ResumeLoad(c, q) PROVE pc'[d] \in IdlePC
    BY <1>t, <1>2, <2>3 DEF ResumeLoad, TypeOK
  <2>4. ASSUME NEW q \in RunId, WaitRead(c, q) PROVE pc'[d] \in IdlePC
    <3>1. q # r
      BY <1>2, <2>4 DEF WaitRead, ClaimInv, RunClaims, Published, PublishedPC
    <3> QED
      BY <1>t, <1>2, <2>4, <3>1 DEF WaitRead, TypeOK
  <2> QED
    BY <2>1, <2>2, <2>3, <2>4 DEF Call
<1> QED
  BY <1>1, <1>2 DEF RowKept

\* A handler touches its own run only.
HandlesOwn(c) ==
  /\ arg'[c] \in {arg[c], Nobody} /\ issued' = issued
  /\ \A d \in Client \ {c} : arg'[d] = arg[d] /\ pc'[d] = pc[d]
  /\ \A r \in RunId \ {arg[c]} :
       row'[r] = row[r] /\ ckpt'[r] = ckpt[r] /\ worker'[r] = worker[r]

LEMMA HandleIsLocal ==
  ASSUME TypeOK, NEW c \in Client, Handle(c)
  PROVE  HandlesOwn(c)
<1> USE DEF TypeOK, HandlesOwn
<1>1. CASE Admit(c)
  BY <1>1 DEF Admit, MoveTo, storeVars, workerVars
<1>2. CASE AdmitRefused(c)
  BY <1>2 DEF AdmitRefused, MoveTo, storeVars, workerVars
<1>3. CASE Refuse(c)
  BY <1>3 DEF Refuse, Return, storeVars, workerVars
<1>4. CASE SaveRow(c)
  BY <1>4 DEF SaveRow, MoveTo, workerVars
<1>5. CASE StartAsync(c)
  BY <1>5 DEF StartAsync, Spawn, Return, storeVars
<1>6. CASE StartSync(c)
  BY <1>6 DEF StartSync, Spawn, MoveTo, storeVars
<1>7. CASE PollTerminal(c)
  BY <1>7 DEF PollTerminal, MoveTo, storeVars, workerVars
<1>8. CASE PollDeadline(c)
  BY <1>8 DEF PollDeadline, MoveTo, storeVars, workerVars
<1>9. CASE DeadlineCancel(c)
  BY <1>9 DEF DeadlineCancel, MoveTo, storeVars, workerVars
<1>10. CASE SyncReturn(c)
  BY <1>10 DEF SyncReturn, Return, workerVars
<1>11. CASE SaveCheckpointRow(c)
  BY <1>11 DEF SaveCheckpointRow, workerVars
<1>12. CASE CreateCheckpoint(c)
  BY <1>12 DEF CreateCheckpoint, workerVars
<1>13. CASE MarkCheckpointed(c)
  BY <1>13 DEF MarkCheckpointed, Return, storeVars, workerVars
<1>14. CASE Reserve(c)
  BY <1>14 DEF Reserve, MoveTo, storeVars, workerVars
<1>15. CASE ReserveRefused(c)
  BY <1>15 DEF ReserveRefused, Return, storeVars, workerVars
<1>16. CASE Consume(c)
  BY <1>16 DEF Consume, MoveTo, workerVars
<1>17. CASE ConsumeRefused(c)
  BY <1>17 DEF ConsumeRefused, MoveTo, storeVars, workerVars
<1>18. CASE Release(c)
  BY <1>18 DEF Release, Return, storeVars, workerVars
<1>19. CASE LaunchReplace(c)
  BY <1>19 DEF LaunchReplace, MoveTo, storeVars, workerVars
<1>20. CASE LaunchAllocate(c)
  BY <1>20 DEF LaunchAllocate, MoveTo, workerVars
<1>21. CASE LaunchRefused(c)
  BY <1>21 DEF LaunchRefused, Return, storeVars, workerVars
<1>22. CASE LaunchAdmit(c)
  BY <1>22 DEF LaunchAdmit, MoveTo, storeVars, workerVars
<1>23. CASE LaunchSaveRow(c)
  BY <1>23 DEF LaunchSaveRow, MoveTo, workerVars
<1>24. CASE LaunchSaveFails(c)
  BY <1>24 DEF LaunchSaveFails, Return, workerVars
<1>25. CASE LaunchStart(c)
  BY <1>25 DEF LaunchStart, Spawn, Return, storeVars
<1>26. CASE WaitPersist(c)
  BY <1>26 DEF WaitPersist, PersistRow, MoveTo, workerVars
<1>27. CASE WaitMark(c)
  BY <1>27 DEF WaitMark, Return, workerVars
<1> HIDE DEF TypeOK, HandlesOwn
<1> QED
  BY <1>1, <1>2, <1>3, <1>4, <1>5, <1>6, <1>7, <1>8, <1>9, <1>10, <1>11, <1>12,
     <1>13, <1>14, <1>15, <1>16, <1>17, <1>18, <1>19, <1>20, <1>21, <1>22, <1>23,
     <1>24, <1>25, <1>26, <1>27 DEF Handle

LEMMA HandleRows ==
  ASSUME IInv, ClaimInv, NEW c \in Client, Handle(c), "deadline" \notin Events,
         ~SyncReturn(c), ~WaitPersist(c), NEW r \in RunId
  PROVE  RowKept(r)
<1>t. TypeOK
  BY DEF IInv
<1>1. HandlesOwn(c)
  BY <1>t, HandleIsLocal
<1>2. CASE arg[c] # r
  <2>1. row'[r] = row[r] /\ ckpt'[r] = ckpt[r] /\ worker'[r] = worker[r] /\ issued' = issued
    BY <1>1, <1>2 DEF HandlesOwn
  <2>2. \A d \in Client : arg'[d] = r => arg[d] = r /\ pc'[d] = pc[d]
    BY <1>1, <1>2, ServerAssumption DEF HandlesOwn
  <2> QED
    BY <2>1, <2>2 DEF RowKept, GivenUp
<1>3. CASE arg[c] = r /\ pc[c] \in IdlePC
  <2> USE DEF IdlePC
  <2>1. ASSUME GivenUp(r)
        PROVE  /\ row' = row /\ ckpt' = ckpt /\ worker' = worker
               /\ arg'[c] = r => pc'[c] \in IdlePC
    <3>1. CASE Refuse(c)
      BY <1>t, <3>1, ServerAssumption DEF Refuse, Return, storeVars, workerVars, TypeOK
    <3>2. CASE Reserve(c)
      BY <1>t, <3>2 DEF Reserve, MoveTo, storeVars, workerVars, TypeOK
    <3>3. CASE ReserveRefused(c)
      BY <1>t, <3>3, ServerAssumption DEF ReserveRefused, Return, storeVars, workerVars, TypeOK
    <3>4. CASE Consume(c)
      BY <1>3, <2>1, <3>4 DEF Consume, GivenUp
    <3>5. CASE ConsumeRefused(c)
      BY <1>t, <3>5 DEF ConsumeRefused, MoveTo, storeVars, workerVars, TypeOK
    <3>6. CASE Release(c)
      BY <1>t, <3>6, ServerAssumption DEF Release, Return, storeVars, workerVars, TypeOK
    <3> QED
      BY <1>3, <3>1, <3>2, <3>3, <3>4, <3>5, <3>6
         DEF Handle, MoveTo, Admit, AdmitRefused, SaveRow, StartAsync, StartSync,
             PollTerminal, PollDeadline, DeadlineCancel, SyncReturn, SaveCheckpointRow,
             CreateCheckpoint, MarkCheckpointed, LaunchReplace, LaunchAllocate, LaunchRefused,
             LaunchAdmit, LaunchSaveRow, LaunchSaveFails, LaunchStart, WaitPersist, WaitMark
  <2>2. row' = row
    BY <1>3 DEF Handle, MoveTo, Admit, AdmitRefused, Refuse, SaveRow, StartAsync, StartSync,
             PollTerminal, PollDeadline, DeadlineCancel, SyncReturn, SaveCheckpointRow,
             CreateCheckpoint, MarkCheckpointed, Reserve, ReserveRefused, Consume,
             ConsumeRefused, Release, LaunchReplace, LaunchAllocate, LaunchRefused,
             LaunchAdmit, LaunchSaveRow, LaunchSaveFails, LaunchStart, WaitPersist, WaitMark,
             storeVars
  <2>3. ASSUME GivenUp(r) PROVE GivenUp(r)'
    <3>1. row' = row /\ ckpt' = ckpt /\ worker' = worker /\ issued' = issued
      BY <1>1, <2>1, <2>3 DEF HandlesOwn
    <3>2. \A d \in Client : arg'[d] = r => pc'[d] \in IdlePC
      BY <1>1, <2>1, <2>3 DEF HandlesOwn, GivenUp
    <3> QED
      BY <2>3, <3>1, <3>2 DEF GivenUp
  <2> QED
    BY <2>2, <2>3 DEF RowKept
<1>4. CASE arg[c] = r /\ pc[c] \notin IdlePC
  <2>1. ~GivenUp(r)
    BY <1>4 DEF GivenUp
  <2>2. row'[r] = row[r] \/ row'[r] \notin Done \/ CreateCheckpoint(c)
    <3>1. CASE SaveRow(c)
      BY <1>t, <1>4, <3>1 DEF SaveRow, TypeOK, Done
    <3>2. CASE SaveCheckpointRow(c)
      BY <1>t, <1>4, <3>2 DEF SaveCheckpointRow, TypeOK, Done
    <3>3. CASE LaunchSaveRow(c)
      BY <1>t, <1>4, <3>3 DEF LaunchSaveRow, TypeOK, Done
    <3>4. CASE ~SaveRow(c) /\ ~SaveCheckpointRow(c) /\ ~LaunchSaveRow(c) /\ ~CreateCheckpoint(c)
      <4>1. row' = row
        BY <3>4 DEF Handle, Admit, AdmitRefused, Refuse, StartAsync, StartSync,
             PollTerminal, PollDeadline, DeadlineCancel,
             MarkCheckpointed, Reserve, ReserveRefused, Consume,
             ConsumeRefused, Release, LaunchReplace, LaunchAllocate, LaunchRefused,
             LaunchAdmit, LaunchSaveFails, LaunchStart, WaitMark, storeVars
      <4> QED
        BY <4>1
    <3> QED
      BY <3>1, <3>2, <3>3, <3>4
  <2>3. ASSUME CreateCheckpoint(c), row'[r] \in Done, row'[r] # row[r] PROVE GivenUp(r)'
    <3>1. /\ pc[c] = "rowed" /\ ckpt' = ckpt /\ worker' = worker /\ pc'[c] = "refused"
          /\ arg' = arg /\ issued' = issued /\ \A d \in Client \ {c} : pc'[d] = pc[d]
      BY <1>t, <2>3 DEF CreateCheckpoint, workerVars, TypeOK
    <3>2. r \in issued /\ worker[r] = "none" /\ ckpt[r] = "none"
      BY <1>4, <3>1 DEF IInv, ArgInv, OwnInv, FreshPC
    <3>3. outer = c
      BY <3>1 DEF IInv, MutexInv, LockPC, FreshPC
    <3>4. ASSUME NEW d \in Client \ {c}, arg[d] = r PROVE pc[d] \in IdlePC
      <4>1. pc[d] # "idle"
        BY <3>4, ServerAssumption DEF IInv, ArgInv
      <4>2. pc[d] \notin LockPC
        BY <3>3 DEF IInv, MutexInv
      <4>3. pc[d] # "consumed"
        BY <3>2, <3>4 DEF IInv, OwnInv, ResumedPC
      <4>4. pc[d] \notin ReadingPC
        BY <3>2, <3>4 DEF ClaimInv, ReaderClaims, Published, PublishedPC
      <4> QED
        BY <1>t, <4>1, <4>2, <4>3, <4>4
           DEF TypeOK, ClientPC, LockPC, FreshPC, PollPC, ReadingPC, IdlePC
    <3> QED
      BY <3>1, <3>2, <3>4 DEF GivenUp, IdlePC
  <2> QED
    BY <2>1, <2>2, <2>3 DEF RowKept
<1> QED
  BY <1>2, <1>3, <1>4

LEMMA EarlyKeepsVerdict ==
  ASSUME Early, NEW r \in RunId, Published(r), NEW v \in Done, Verdict(r, v)
  PROVE  Published(r)' /\ Verdict(r, v)' /\ row'[r] = row[r]
<1>1. /\ worker'[r] = worker[r] /\ status'[r] \in {status[r], "absent"}
      /\ row'[r] = row[r] /\ rec'[r] = rec[r]
  BY DEF Early
<1>2. ASSUME NEW c \in Client, pc'[c] \in ReadingPC, arg'[c] = r PROVE seen'[c] = v
  <2>1. \/ pc'[c] = pc[c] /\ arg'[c] = arg[c] /\ seen'[c] = seen[c]
        \/ status[arg'[c]] \in Done /\ seen'[c] = status[arg'[c]]
    BY <1>2 DEF Early
  <2> QED
    BY <1>2, <2>1 DEF Verdict, Done
<1> QED
  BY <1>1, <1>2 DEF Verdict, Published

\* A terminal row stays.
RowsStay == \A r \in RunId : row[r] \in Done => row'[r] = row[r]

LEMMA EarlyRows ==
  ASSUME RowInv, Early, \A r \in RunId : ~Published(r) => RowKept(r)
  PROVE  RowInv' /\ RowsStay
<1>1. ASSUME NEW r \in RunId, Published(r)
      PROVE  Published(r)' /\ (\E v \in Done : Verdict(r, v)') /\ row'[r] = row[r]
  BY <1>1, EarlyKeepsVerdict DEF RowInv
<1>2. ASSUME NEW r \in RunId, ~Published(r)
      PROVE  /\ ~Published(r)' /\ (row'[r] \in Done => GivenUp(r)')
             /\ row[r] \in Done => row'[r] = row[r]
  BY <1>2 DEF RowInv, RowKept, Early
<1>3. RowInv'
  BY <1>1, <1>2 DEF RowInv
<1>4. RowsStay
  BY <1>1, <1>2 DEF RowsStay
<1> QED
  BY <1>3, <1>4

\* A synchronous call that returns and a wait write the verdict.
LEMMA PersistRows ==
  ASSUME IInv, ClaimInv, RowInv, NEW c \in Client, SyncReturn(c) \/ WaitPersist(c) \/ WaitMark(c)
  PROVE  RowInv' /\ RowsStay
<1>t. TypeOK
  BY DEF IInv
<1>h. HandlesOwn(c)
  BY <1>t, HandleIsLocal DEF Handle
<1>1. pc[c] \in ReadingPC /\ arg[c] \in RunId /\ Published(arg[c])
  BY DEF SyncReturn, WaitPersist, WaitMark, MoveTo, ClaimInv, ReaderClaims, ReadingPC
<1>2. /\ status' = status /\ worker' = worker /\ rec' = rec /\ ckpt' = ckpt
      /\ row'[arg[c]] \in {seen[c], row[arg[c]]}
      /\ pc'[c] \in ReadingPC => arg'[c] = arg[c] /\ seen'[c] = seen[c]
      /\ \A d \in Client \ {c} : seen'[d] = seen[d]
  <2>1. CASE SyncReturn(c)
    BY <1>t, <1>1, <2>1
       DEF SyncReturn, Return, registryVars, workerVars, TypeOK, ReadingPC
  <2>2. CASE WaitPersist(c)
    BY <1>t, <1>1, <2>2
       DEF WaitPersist, PersistRow, MoveTo, registryVars, workerVars, TypeOK, ReadingPC
  <2>3. CASE WaitMark(c)
    BY <1>t, <1>1, <2>3
       DEF WaitMark, Return, registryVars, workerVars, TypeOK, ReadingPC
  <2> QED
    BY <2>1, <2>2, <2>3
<1>3. ASSUME NEW r \in RunId, Published(r)
      PROVE  /\ Published(r)' /\ (\E v \in Done : Verdict(r, v)')
             /\ row[r] \in Done => row'[r] = row[r]
  <2>1. PICK v \in Done : Verdict(r, v)
    BY <1>3 DEF RowInv
  <2>2. row'[r] \in {v, row[r]}
    BY <1>1, <1>2, <1>h, <2>1 DEF HandlesOwn, Verdict
  <2>3. ASSUME NEW d \in Client, pc'[d] \in ReadingPC, arg'[d] = r PROVE seen'[d] = v
    <3>1. pc[d] \in ReadingPC /\ arg[d] = r /\ seen'[d] = seen[d]
      BY <1>1, <1>2, <1>h, <2>3 DEF HandlesOwn
    <3> QED
      BY <2>1, <3>1 DEF Verdict
  <2>4. Verdict(r, v)'
    BY <1>2, <2>1, <2>2, <2>3 DEF Verdict
  <2> QED
    BY <1>2, <1>3, <2>1, <2>2, <2>4 DEF Published, Verdict
<1>4. ASSUME NEW r \in RunId, ~Published(r)
      PROVE  /\ ~Published(r)' /\ (row'[r] \in Done => GivenUp(r)') /\ row'[r] = row[r]
  <2>1. r # arg[c]
    BY <1>1, <1>4
  <2>2. row'[r] = row[r] /\ ckpt'[r] = ckpt[r] /\ worker'[r] = worker[r] /\ issued' = issued
    BY <1>h, <2>1 DEF HandlesOwn
  <2>3. \A d \in Client : arg'[d] = r => arg[d] = r /\ pc'[d] = pc[d]
    BY <1>h, <2>1, ServerAssumption DEF HandlesOwn
  <2>4. row[r] \in Done => GivenUp(r)
    BY <1>4 DEF RowInv
  <2> QED
    BY <1>4, <2>2, <2>3, <2>4 DEF GivenUp, Published
<1>5. RowInv'
  BY <1>3, <1>4 DEF RowInv
<1>6. RowsStay
  BY <1>3, <1>4 DEF RowsStay
<1> QED
  BY <1>5, <1>6

\* A worker publishes the verdict and persists it.
LEMMA WorkRows ==
  ASSUME IInv, ClaimInv, RowInv, NEW r \in RunId, Work(r) \/ EngineReturns(r)
  PROVE  RowInv' /\ RowsStay
<1>t. TypeOK
  BY DEF IInv
<1>1. /\ ckpt' = ckpt /\ issued' = issued /\ pc' = pc /\ arg' = arg /\ seen' = seen
      /\ worker[r] # "none"
      /\ \A q \in RunId \ {r} : worker'[q] = worker[q] /\ status'[q] = status[q]
                                 /\ rec'[q] = rec[q] /\ row'[q] = row[q]
  BY <1>t DEF Work, WorkerBegin, EngineReturns, Publish, WorkerFails, FetchRecord,
     PersistTerminal,
              WorkerMark, Advance, SetStatus, PersistRow, TypeOK, registryVars, clientVars,
              storeVars
<1>2. ASSUME NEW q \in RunId \ {r}
      PROVE  /\ Published(q)' <=> Published(q)
             /\ \A v \in Done : Verdict(q, v) => Verdict(q, v)'
             /\ GivenUp(q) => GivenUp(q)'
             /\ row'[q] = row[q]
  BY <1>1, <1>2 DEF Published, Verdict, GivenUp
<1>3. IF Published(r)' THEN \E v \in Done : Verdict(r, v)' ELSE row'[r] \notin Done
  <2>1. CASE WorkerBegin(r) \/ EngineReturns(r)
    <3>1. ~Published(r) /\ ~Published(r)' /\ row' = row
      BY <1>t, <2>1 DEF WorkerBegin, EngineReturns, Advance, storeVars, TypeOK, Published,
                        PublishedPC, ActiveWorker
    <3> QED
      BY <1>1, <3>1 DEF RowInv, GivenUp
  <2>2. CASE Publish(r) \/ WorkerFails(r)
    <3>0. worker[r] \in ActiveWorker /\ status[r] = "running"
      BY <2>2 DEF Publish, WorkerFails, Advance, IInv, WorkerInv, ActiveWorker
    <3>1. ~Published(r) /\ row' = row /\ worker'[r] = "published" /\ status'[r] \in Done
      BY <1>t, <2>2, <3>0 DEF Publish, WorkerFails, Advance, SetStatus, TerminalOutcome,
         storeVars,
                        TypeOK, Published, PublishedPC, ActiveWorker, Done
    <3>2. row[r] \notin Done
      BY <1>1, <3>1 DEF RowInv, GivenUp
    <3>3. \A c \in Client : ~(pc[c] \in ReadingPC /\ arg[c] = r)
      BY <3>1 DEF ClaimInv, ReaderClaims
    <3>4. PICK v \in Done : v = status'[r]
      BY <3>1
    <3>5. Verdict(r, v)'
      BY <1>1, <3>1, <3>2, <3>3, <3>4 DEF Verdict
    <3> QED
      BY <3>1, <3>5 DEF Published, PublishedPC, WorkerPC, ActiveWorker
  <2>3. CASE FetchRecord(r) \/ PersistTerminal(r) \/ WorkerMark(r)
    <3>1. Published(r) /\ Published(r)' /\ status' = status
      BY <1>t, <2>3 DEF FetchRecord, PersistTerminal, WorkerMark, Advance, registryVars, TypeOK,
                        Published, PublishedPC, WorkerPC, ActiveWorker
    <3>2. PICK v \in Done : Verdict(r, v)
      BY <3>1 DEF RowInv
    <3>3. row'[r] \in {v, row[r]} /\ (worker'[r] = "persisting" => rec'[r] = v)
      <4>1. CASE FetchRecord(r)
        BY <1>t, <3>2, <4>1 DEF FetchRecord, TypeOK, Verdict, storeVars
      <4>2. CASE PersistTerminal(r)
        BY <1>t, <3>2, <4>2 DEF PersistTerminal, PersistRow, Advance, TypeOK, Verdict
      <4>3. CASE WorkerMark(r)
        BY <1>t, <4>3 DEF WorkerMark, Advance, TypeOK
      <4> QED
        BY <2>3, <4>1, <4>2, <4>3
    <3>4. Verdict(r, v)'
      BY <1>1, <3>1, <3>2, <3>3 DEF Verdict
    <3> QED
      BY <3>1, <3>4
  <2> QED
    BY <2>1, <2>2, <2>3 DEF Work
<1>4. row[r] \in Done => row'[r] = row[r]
  <2>1. ASSUME row'[r] # row[r], row[r] \in Done PROVE FALSE
    <3>1. PersistTerminal(r)
      BY <2>1 DEF Work, WorkerBegin, EngineReturns, Publish, WorkerFails, FetchRecord,
                  WorkerMark, storeVars
    <3>2. worker[r] = "persisting" /\ row'[r] = rec[r]
      BY <1>t, <2>1, <3>1 DEF PersistTerminal, PersistRow, Advance, TypeOK
    <3>3. \E v \in Done : Verdict(r, v)
      BY <3>2 DEF RowInv, Published, PublishedPC, WorkerPC, ActiveWorker
    <3> QED
      BY <2>1, <3>2, <3>3 DEF Verdict
  <2> QED
    BY <2>1
<1>5. RowInv'
  <2>1. ASSUME NEW q \in RunId \ {r}
        PROVE  IF Published(q)' THEN \E v \in Done : Verdict(q, v)'
               ELSE row'[q] \in Done => GivenUp(q)'
    BY <1>2 DEF RowInv
  <2> QED
    BY <1>3, <2>1 DEF RowInv
<1> QED
  BY <1>2, <1>4, <1>5 DEF RowsStay

LEMMA RowStep ==
  ASSUME "deadline" \notin Events, IInv, ClaimInv, RowInv, [Next]_vars
  PROVE  RowInv' /\ RowsStay
<1>1. ASSUME NEW c \in Client, Call(c) PROVE RowInv' /\ RowsStay
  BY <1>1, CallClaims, CallRows, EarlyRows
<1>2. ASSUME NEW c \in Client, Handle(c) PROVE RowInv' /\ RowsStay
  <2>1. CASE SyncReturn(c) \/ WaitPersist(c) \/ WaitMark(c)
    BY <2>1, PersistRows
  <2>2. CASE ~(SyncReturn(c) \/ WaitPersist(c) \/ WaitMark(c))
    BY <1>2, <2>2, HandleClaims, HandleRows, EarlyRows
  <2> QED
    BY <2>1, <2>2
<1>3. ASSUME NEW r \in RunId, Work(r) \/ EngineReturns(r) PROVE RowInv' /\ RowsStay
  BY <1>3, WorkRows
<1>4. CASE UNCHANGED vars
  BY <1>4 DEF vars, registryVars, clientVars, workerVars, storeVars, RowInv, GivenUp, Verdict,
              Published, RowsStay
<1> QED
  BY <1>1, <1>2, <1>3, <1>4 DEF Next

\* A row that says completed, failed or cancelled says so for good, although
\* the worker, the waits of any number of clients and a synchronous call write
\* it, each from a status read earlier (server.rs persist_terminal_projection,
\* run_manager.rs completion).  No deadline of a synchronous call passes: there
\* the row of a finished run can become running again.
THEOREM TerminalRows ==
  ASSUME "deadline" \notin Events
  PROVE  Spec => TerminalRowIsFinal
<1>1. Init => ClaimInv /\ RowInv
  BY ServerAssumption
     DEF Init, RegistryInit, ClaimInv, RunClaims, ReaderClaims, Agrees, ReadingPC, Done, RowInv,
         Published, PublishedPC
<1>2. IInv /\ ClaimInv /\ RowInv /\ [Next]_vars
      => ClaimInv' /\ RowInv' /\ [\A r \in RunId : row[r] \in Done => row'[r] = row[r]]_vars
  BY ClaimStep, RowStep DEF RowsStay
<1>3. Inv => IInv
  BY DEF Inv
<1> QED
  BY <1>1, <1>2, <1>3, Invariance, PTL DEF Spec, TerminalRowIsFinal

=============================================================================
