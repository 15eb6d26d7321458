------------------------- MODULE DurableRunsProofs -------------------------
(***************************************************************************)
(* Proofs about DurableRuns, for any number of runs, connections and       *)
(* approvals and any faults and crashes.                                   *)
(*                                                                         *)
(* The inductive invariant follows a run from the allocation of its id:    *)
(* IssuedInv says that nothing is known of an id before, TicketInv that    *)
(* an available checkpoint belongs to a run nobody launches and that one   *)
(* thread at most launches a run, DecisionInv what an approval that was    *)
(* asked for or decided says about the checkpoint.                         *)
(*                                                                         *)
(* The second half adds what rows say.  RowInv follows the worker of a     *)
(* run: there is none before the run was started, one at most until its    *)
(* engine ends, and the outcome is recorded from then on.  LostInv says    *)
(* that a run whose row was active in a crash was started, and so has      *)
(* nothing left that writes its row but the recovery of the next process.  *)
(***************************************************************************)
EXTENDS DurableRuns, TLAPS

Creating(r) == {s \in Server : <<s, r, "creating">> \in threads}
Launching(r) == {s \in Server : <<s, r, "launching">> \in threads}

\* Nothing is known of a run id before it is issued.
IssuedInv ==
  /\ started \subseteq issued
  /\ \A r \in Run : ckpt[r] # "none" => r \in issued
  /\ \A r \in Run : Creating(r) # {} => r \in issued

\* Who may still launch a run that was not started.
TicketInv ==
  /\ \A r \in Run : Creating(r) # {} => ckpt[r] = "none" /\ r \notin started
  /\ \A r \in Run : \A s, t \in Creating(r) : s = t
  /\ \A r \in Run : ckpt[r] = "available" => r \notin started /\ Launching(r) = {}
  /\ \A r \in Run : Launching(r) # {} => ckpt[r] = "consumed" /\ r \notin started
  /\ \A r \in Run : \A s, t \in Launching(r) : s = t
  /\ again = {}

\* What approvals say about checkpoints.
DecisionInv ==
  /\ \A a \in Approval : status[a] = "none" <=> subject[a] = NoSubject
  /\ \A a \in Approval, r \in Run, u \in Audience :
       subject[a] = <<r, u>> =>
         /\ ckpt[r] # "none"
         /\ status[a] # "pending" => ckpt[r] = "consumed"
         /\ status[a] \in {"approved", "rejected"} => r \notin started /\ Launching(r) = {}
  /\ AskedOnce

IInv == TypeOK /\ IssuedInv /\ TicketInv /\ DecisionInv

-----------------------------------------------------------------------------

LEMMA InitIInv == Init => IInv
<1> SUFFICES ASSUME Init PROVE IInv
  OBVIOUS
<1> USE DEF Init
<1>1. TypeOK
  BY DurableAssumption DEF TypeOK, Status
<1>2. \A r \in Run : Creating(r) = {} /\ Launching(r) = {}
  BY DEF Creating, Launching
<1>3. IssuedInv /\ TicketInv
  BY <1>2 DEF IssuedInv, TicketInv
<1>4. \A a \in Approval : subject[a] = NoSubject /\ status[a] = "none"
  OBVIOUS
<1>5. \A r \in Run, u \in Audience : NoSubject # <<r, u>>
  BY DEF NoSubject
<1>6. DecisionInv
  BY <1>4, <1>5 DEF DecisionInv, AskedOnce
<1>7. QED
  BY <1>1, <1>3, <1>6 DEF IInv

LEMMA TypeStep ==
  ASSUME TypeOK, [Next]_vars
  PROVE  TypeOK'
<1> USE DEF TypeOK, Status, Stage, NoSubject, processVars, approvalVars, historyVars
<1>1. CASE DaemonStart
  BY <1>1 DEF DaemonStart, Marked
<1>2. CASE Crash
  BY <1>2 DEF Crash
<1>3. ASSUME NEW s \in Server, Connect(s) PROVE TypeOK'
  BY <1>3 DEF Connect, Recover, Marked
<1>4. ASSUME NEW s \in Server, DirectStart(s) PROVE TypeOK'
  BY <1>4 DEF DirectStart, Recover, Marked
<1>5. ASSUME NEW s \in Server, Disconnect(s) PROVE TypeOK'
  BY <1>5 DEF Disconnect
<1>6. ASSUME NEW s \in Server, NEW r \in Run, Handler(s, r) PROVE TypeOK'
  <2>1. CASE StartRun(s, r)
    BY <2>1 DEF StartRun, SetRow, Spawned
  <2>11. CASE SaveExecuted(s, r)
    BY <2>11 DEF SaveExecuted, Return, SetRow
  <2>2. CASE SaveCheckpointRow(s, r)
    BY <2>2 DEF SaveCheckpointRow, SetRow
  <2>3. CASE CreateCheckpoint(s, r)
    BY <2>3 DEF CreateCheckpoint, Return
  <2>4. CASE CreateFails(s, r)
    BY <2>4 DEF CreateFails, Return, SetRow
  <2>5. CASE ResumeCheck(s, r)
    BY <2>5 DEF ResumeCheck
  <2>6. CASE Consume(s, r)
    BY <2>6 DEF Consume, MoveTo
  <2>7. CASE ConsumeRefused(s, r)
    BY <2>7 DEF ConsumeRefused, Return
  <2>8. CASE Launch(s, r)
    BY <2>8 DEF Launch, MoveTo, SetRow, Spawned
  <2>9. CASE LaunchFails(s, r)
    BY <2>9 DEF LaunchFails, Return
  <2>10. QED
    BY <1>6, <2>1, <2>2, <2>3, <2>4, <2>5, <2>6, <2>7, <2>8, <2>9, <2>11 DEF Handler
<1>7. ASSUME NEW s \in Server, NEW r \in Run, Worker(s, r) PROVE TypeOK'
  <2>1. CASE EngineEnds(s, r)
    BY <2>1 DEF EngineEnds, MoveTo
  <2>2. CASE Persist(s, r)
    BY <2>2 DEF Persist, Return, SetRow
  <2>3. CASE PersistFails(s, r)
    BY <2>3 DEF PersistFails, Return
  <2>4. QED
    BY <1>7, <2>1, <2>2, <2>3 DEF Worker
<1>8. ASSUME NEW s \in Server, NEW a \in Approval, NEW r \in Run, NEW u \in Audience,
             Request(s, a, r, u)
      PROVE  TypeOK'
  BY <1>8 DEF Request
<1>9. ASSUME NEW a \in Approval, NEW r \in Run, Expire(a, r) PROVE TypeOK'
  BY <1>9 DEF Expire
<1>10. ASSUME NEW a \in Approval, NEW r \in Run, NEW d \in {"approved", "rejected"},
              Decide(a, r, d)
       PROVE  TypeOK'
  BY <1>10 DEF Decide
<1>11. CASE UNCHANGED vars
  BY <1>11 DEF vars
<1>12. QED
  BY <1>1, <1>2, <1>3, <1>4, <1>5, <1>6, <1>7, <1>8, <1>9, <1>10, <1>11 DEF Next

-----------------------------------------------------------------------------
(* What a step does to checkpoints, approvals and starts: one of eight     *)
(* effects, or nothing.                                                    *)

\* No thread begins to create a checkpoint, or to launch a run.
NoNewCreating == \A r \in Run : Creating(r)' \subseteq Creating(r)
NoNewLaunching == \A r \in Run : Launching(r)' \subseteq Launching(r)

ticketVars == <<ckpt, status, subject>>

Quiet ==
  /\ UNCHANGED <<issued, started, again, ticketVars>>
  /\ NoNewCreating /\ NoNewLaunching

Starts(r) ==
  /\ r \notin issued
  /\ issued' = issued \cup {r}
  /\ started' = started \cup {r} /\ again' = again \cup ({r} \cap started)
  /\ UNCHANGED ticketVars
  /\ NoNewCreating /\ NoNewLaunching

Registers(s, r) ==
  /\ r \notin issued
  /\ issued' = issued \cup {r}
  /\ UNCHANGED <<started, again, ticketVars>>
  /\ \A q \in Run : Creating(q)' \subseteq Creating(q) \cup (IF q = r THEN {s} ELSE {})
  /\ NoNewLaunching

Creates(s, r) ==
  /\ s \in Creating(r) /\ Creating(r)' \subseteq Creating(r) \ {s}
  /\ ckpt' = [ckpt EXCEPT ![r] = "available"]
  /\ UNCHANGED <<issued, started, again, status, subject>>
  /\ NoNewCreating /\ NoNewLaunching

Consumes(s, r) ==
  /\ ckpt[r] = "available" /\ ckpt' = [ckpt EXCEPT ![r] = "consumed"]
  /\ UNCHANGED <<issued, started, again, status, subject>>
  /\ NoNewCreating
  /\ \A q \in Run : Launching(q)' \subseteq Launching(q) \cup (IF q = r THEN {s} ELSE {})

Begins(s, r) ==
  /\ s \in Launching(r) /\ Launching(r)' \subseteq Launching(r) \ {s}
  /\ started' = started \cup {r} /\ again' = again \cup ({r} \cap started)
  /\ UNCHANGED <<issued, ticketVars>>
  /\ NoNewCreating /\ NoNewLaunching

Asks(a, r, u) ==
  /\ ckpt[r] = "available" /\ status[a] = "none"
  /\ \A b \in Approval : subject[b] = <<r, u>> => status[b] # "pending"
  /\ status' = [status EXCEPT ![a] = "pending"]
  /\ subject' = [subject EXCEPT ![a] = <<r, u>>]
  /\ UNCHANGED <<issued, started, again, ckpt>>
  /\ NoNewCreating /\ NoNewLaunching

Settles(a, r, d) ==
  /\ status[a] = "pending" /\ subject[a][1] = r
  /\ d = "expired" \/ ckpt[r] = "available"
  /\ status' = [status EXCEPT ![a] = d]
  /\ ckpt' = [ckpt EXCEPT ![r] = "consumed"]
  /\ UNCHANGED <<issued, started, again, subject>>
  /\ NoNewCreating /\ NoNewLaunching

Effect ==
  \/ Quiet
  \/ \E r \in Run : Starts(r)
  \/ \E s \in Server, r \in Run :
       Registers(s, r) \/ Creates(s, r) \/ Consumes(s, r) \/ Begins(s, r)
  \/ \E a \in Approval, r \in Run, u \in Audience : Asks(a, r, u)
  \/ \E a \in Approval, r \in Run, d \in {"approved", "rejected", "expired"} :
       Settles(a, r, d)

LEMMA StepEffect ==
  ASSUME TypeOK, [Next]_vars
  PROVE  Effect
<1> USE DEF TypeOK, Creating, Launching, NoNewCreating, NoNewLaunching,
            processVars, approvalVars, historyVars, ticketVars
<1>1. CASE DaemonStart \/ Crash \/ UNCHANGED vars
  <2>1. Quiet
    BY <1>1 DEF DaemonStart, Crash, vars, Quiet
  <2>2. QED
    BY <2>1 DEF Effect
<1>2. ASSUME NEW s \in Server, Connect(s) \/ DirectStart(s) \/ Disconnect(s) PROVE Effect
  <2>1. Quiet
    BY <1>2 DEF Connect, DirectStart, Disconnect, Quiet
  <2>2. QED
    BY <2>1 DEF Effect
<1>3. ASSUME NEW s \in Server, NEW r \in Run, Handler(s, r) PROVE Effect
  <2>1. CASE StartRun(s, r)
    <3>1. Starts(r)
      BY <2>1 DEF StartRun, Spawned, Starts
    <3>2. QED
      BY <3>1 DEF Effect
  <2>2. CASE SaveCheckpointRow(s, r)
    <3>1. Registers(s, r)
      BY <2>2 DEF SaveCheckpointRow, Registers
    <3>2. QED
      BY <3>1 DEF Effect
  <2>3. CASE CreateCheckpoint(s, r)
    <3>1. Creates(s, r)
      BY <2>3 DEF CreateCheckpoint, Return, Creates
    <3>2. QED
      BY <3>1 DEF Effect
  <2>4. CASE CreateFails(s, r) \/ ConsumeRefused(s, r) \/ LaunchFails(s, r) \/ SaveExecuted(s, r)
    <3>1. Quiet
      BY <2>4 DEF CreateFails, ConsumeRefused, LaunchFails, SaveExecuted, Return, Quiet
    <3>2. QED
      BY <3>1 DEF Effect
  <2>5. CASE ResumeCheck(s, r)
    <3>1. Quiet
      BY <2>5 DEF ResumeCheck, Quiet
    <3>2. QED
      BY <3>1 DEF Effect
  <2>6. CASE Consume(s, r)
    <3>1. Consumes(s, r)
      BY <2>6 DEF Consume, MoveTo, Consumes
    <3>2. QED
      BY <3>1 DEF Effect
  <2>7. CASE Launch(s, r)
    <3>1. Begins(s, r)
      BY <2>7 DEF Launch, MoveTo, Spawned, Begins
    <3>2. QED
      BY <3>1 DEF Effect
  <2>8. QED
    BY <1>3, <2>1, <2>2, <2>3, <2>4, <2>5, <2>6, <2>7 DEF Handler
<1>4. ASSUME NEW s \in Server, NEW r \in Run, Worker(s, r) PROVE Effect
  <2>1. Quiet
    BY <1>4 DEF Worker, EngineEnds, Persist, PersistFails, MoveTo, Return, Quiet
  <2>2. QED
    BY <2>1 DEF Effect
<1>5. ASSUME NEW s \in Server, NEW a \in Approval, NEW r \in Run, NEW u \in Audience,
             Request(s, a, r, u)
      PROVE  Effect
  <2>1. Asks(a, r, u)
    BY <1>5 DEF Request, Asks
  <2>2. QED
    BY <2>1 DEF Effect
<1>6. ASSUME NEW a \in Approval, NEW r \in Run, Expire(a, r) PROVE Effect
  <2>1. Settles(a, r, "expired")
    BY <1>6 DEF Expire, Settles
  <2>2. QED
    BY <2>1 DEF Effect
<1>7. ASSUME NEW a \in Approval, NEW r \in Run, NEW d \in {"approved", "rejected"},
             Decide(a, r, d)
      PROVE  Effect
  <2>1. Settles(a, r, d)
    BY <1>7 DEF Decide, Settles
  <2>2. QED
    BY <2>1 DEF Effect
<1>8. QED
  BY <1>1, <1>2, <1>3, <1>4, <1>5, <1>6, <1>7 DEF Next

-----------------------------------------------------------------------------
(* Every effect keeps the invariant. *)

\* An approval is about a run that has a checkpoint.
LEMMA SettlesKnown ==
  ASSUME IInv, NEW a \in Approval, NEW r \in Run, NEW d, Settles(a, r, d)
  PROVE  \E u \in Audience : subject[a] = <<r, u>> /\ ckpt[r] # "none"
<1>1. subject[a] \in Run \X Audience
  BY DEF IInv, TypeOK, DecisionInv, Settles
<1>2. PICK q \in Run, u \in Audience : subject[a] = <<q, u>>
  BY <1>1
<1>3. q = r
  BY <1>2 DEF Settles
<1>4. QED
  BY <1>2, <1>3 DEF IInv, DecisionInv

LEMMA IssuedStep ==
  ASSUME IInv, TypeOK', Effect
  PROVE  IssuedInv'
<1> USE DEF IInv, TypeOK, IssuedInv, TicketInv, NoNewCreating, NoNewLaunching, ticketVars
<1>1. ASSUME NEW a \in Approval, NEW r \in Run, NEW d \in {"approved", "rejected", "expired"},
             Settles(a, r, d)
      PROVE  IssuedInv'
  <2>1. ckpt[r] # "none"
    BY <1>1, SettlesKnown
  <2>2. QED
    BY <1>1, <2>1 DEF Settles
<1>2. QED
  BY <1>1 DEF Effect, Quiet, Starts, Registers, Creates, Consumes, Begins, Asks

LEMMA TicketStep ==
  ASSUME IInv, TypeOK', Effect
  PROVE  TicketInv'
<1> USE DEF IInv, TypeOK, IssuedInv, TicketInv, NoNewCreating, NoNewLaunching, ticketVars
<1>1. CASE Quiet
  BY <1>1 DEF Quiet
<1>2. ASSUME NEW r \in Run, Starts(r) PROVE TicketInv'
  BY <1>2 DEF Starts
<1>3. ASSUME NEW s \in Server, NEW r \in Run, Registers(s, r) PROVE TicketInv'
  BY <1>3 DEF Registers
<1>4. ASSUME NEW s \in Server, NEW r \in Run, Creates(s, r) PROVE TicketInv'
  BY <1>4 DEF Creates
<1>5. ASSUME NEW s \in Server, NEW r \in Run, Consumes(s, r) PROVE TicketInv'
  BY <1>5 DEF Consumes
<1>6. ASSUME NEW s \in Server, NEW r \in Run, Begins(s, r) PROVE TicketInv'
  BY <1>6 DEF Begins
<1>7. ASSUME NEW a \in Approval, NEW r \in Run, NEW u \in Audience, Asks(a, r, u)
      PROVE  TicketInv'
  BY <1>7 DEF Asks
<1>8. ASSUME NEW a \in Approval, NEW r \in Run, NEW d \in {"approved", "rejected", "expired"},
             Settles(a, r, d)
      PROVE  TicketInv'
  <2>1. ckpt[r] # "none"
    BY <1>8, SettlesKnown
  <2>2. QED
    BY <1>8, <2>1 DEF Settles
<1>9. QED
  BY <1>1, <1>2, <1>3, <1>4, <1>5, <1>6, <1>7, <1>8 DEF Effect

LEMMA DecisionStep ==
  ASSUME IInv, TypeOK', Effect
  PROVE  DecisionInv'
<1> USE DEF IInv, TypeOK, IssuedInv, TicketInv, DecisionInv, AskedOnce, NoSubject,
            NoNewCreating, NoNewLaunching, ticketVars
<1>1. CASE Quiet
  BY <1>1 DEF Quiet
<1>2. ASSUME NEW r \in Run, Starts(r) PROVE DecisionInv'
  BY <1>2 DEF Starts
<1>3. ASSUME NEW s \in Server, NEW r \in Run, Registers(s, r) PROVE DecisionInv'
  BY <1>3 DEF Registers
<1>4. ASSUME NEW s \in Server, NEW r \in Run, Creates(s, r) PROVE DecisionInv'
  BY <1>4 DEF Creates
<1>5. ASSUME NEW s \in Server, NEW r \in Run, Consumes(s, r) PROVE DecisionInv'
  BY <1>5 DEF Consumes
<1>6. ASSUME NEW s \in Server, NEW r \in Run, Begins(s, r) PROVE DecisionInv'
  BY <1>6 DEF Begins
<1>7. ASSUME NEW a \in Approval, NEW r \in Run, NEW u \in Audience, Asks(a, r, u)
      PROVE  DecisionInv'
  <2> USE <1>7 DEF Asks
  <2>1. subject[a] = NoSubject /\ <<r, u>> # NoSubject
    OBVIOUS
  <2>2. subject'[a] = <<r, u>> /\ status'[a] = "pending"
    OBVIOUS
  <2>3. \A b \in Approval : b # a => subject'[b] = subject[b] /\ status'[b] = status[b]
    OBVIOUS
  <2>4. \A b \in Approval : b # a => subject[b] # <<r, u>>
    OBVIOUS
  <2>5. \A b \in Approval : status'[b] = "none" <=> subject'[b] = NoSubject
    BY <2>1, <2>2, <2>3
  <2>6. ASSUME NEW b \in Approval, NEW q \in Run, NEW v \in Audience, subject'[b] = <<q, v>>
        PROVE  /\ ckpt'[q] # "none"
               /\ status'[b] # "pending" => ckpt'[q] = "consumed"
               /\ status'[b] \in {"approved", "rejected"} =>
                    q \notin started' /\ Launching(q)' = {}
    <3>1. CASE b = a
      BY <3>1, <2>2, <2>6
    <3>2. CASE b # a
      BY <3>2, <2>3, <2>6
    <3>3. QED
      BY <3>1, <3>2
  <2>7. AskedOnce'
    <3>1. SUFFICES ASSUME NEW b \in Approval, NEW c \in Approval, b # c,
                          subject'[b] = subject'[c]
                   PROVE  subject'[b] = NoSubject
      BY Zenon DEF AskedOnce
    <3>2. CASE b = a \/ c = a
      BY <3>1, <3>2, <2>2, <2>3, <2>4
    <3>3. CASE b # a /\ c # a
      BY <3>1, <3>3, <2>3
    <3>4. QED
      BY <3>2, <3>3
  <2>8. QED
    BY <2>5, <2>6, <2>7 DEF DecisionInv
<1>8. ASSUME NEW a \in Approval, NEW r \in Run, NEW d \in {"approved", "rejected", "expired"},
             Settles(a, r, d)
      PROVE  DecisionInv'
  <2>1. PICK u \in Audience : subject[a] = <<r, u>> /\ ckpt[r] # "none"
    BY <1>8, SettlesKnown
  <2>2. \A b \in Approval, q \in Run, v \in Audience :
          subject[b] = <<q, v>> => (b = a => q = r)
    BY <2>1
  <2>3. QED
    BY <1>8, <2>1, <2>2 DEF Settles
<1>9. QED
  BY <1>1, <1>2, <1>3, <1>4, <1>5, <1>6, <1>7, <1>8 DEF Effect

LEMMA Inductive == IInv /\ [Next]_vars => IInv'
<1> SUFFICES ASSUME IInv, [Next]_vars PROVE IInv'
  OBVIOUS
<1>1. TypeOK'
  BY TypeStep DEF IInv
<1>2. Effect
  BY StepEffect DEF IInv
<1>3. QED
  BY <1>1, <1>2, IssuedStep, TicketStep, DecisionStep DEF IInv

-----------------------------------------------------------------------------
(* Theorems. *)

\* The invariant behind the theorems below: who may launch a run, and what
\* an approval says about its checkpoint.
THEOREM DurableInvariant == Spec => []IInv
  BY InitIInv, Inductive, PTL DEF Spec

\* Every variable stays in its range.
THEOREM TypeCorrect == Spec => []TypeOK
<1>1. IInv => TypeOK
  BY DEF IInv
<1>2. QED
  BY <1>1, DurableInvariant, PTL

\* A run is given to one worker at most, across connections and crashes
\* (consume_resume_checkpoint is a compare and set).
THEOREM AtMostOnce == Spec => []ExecutedOnce
<1>1. IInv => ExecutedOnce
  BY DEF IInv, TicketInv, ExecutedOnce
<1>2. QED
  BY <1>1, DurableInvariant, PTL

LEMMA Bound ==
  ASSUME IInv, NEW a \in Approval, status[a] # "none"
  PROVE  \E r \in Run, u \in Audience : subject[a] = <<r, u>>
BY DEF IInv, TypeOK, DecisionInv

\* A decided or expired approval leaves no checkpoint to resume
\* (decide_checkpoint_approval).
THEOREM DecisionsSpend == Spec => []DecisionSpendsCheckpoint
<1>1. IInv => DecisionSpendsCheckpoint
  <2> SUFFICES ASSUME IInv, NEW a \in Approval, NEW r \in Run,
                      subject[a] # NoSubject, subject[a][1] = r, status[a] # "pending"
               PROVE  ckpt[r] = "consumed"
    BY DEF DecisionSpendsCheckpoint
  <2>1. status[a] # "none"
    BY DEF IInv, DecisionInv
  <2>2. PICK q \in Run, u \in Audience : subject[a] = <<q, u>>
    BY <2>1, Bound
  <2>3. QED
    BY <2>2 DEF IInv, DecisionInv
<1>2. QED
  BY <1>1, DurableInvariant, PTL

\* A run a decision was taken about is never started, also by a resume that
\* had passed its checks.
THEOREM DecisionsStick == Spec => []DecidedNeverRuns
<1>1. IInv => DecidedNeverRuns
  <2> SUFFICES ASSUME IInv, NEW a \in Approval, status[a] \in {"approved", "rejected"}
               PROVE  subject[a][1] \notin started
    BY DEF DecidedNeverRuns
  <2>1. PICK q \in Run, u \in Audience : subject[a] = <<q, u>>
    BY Bound
  <2>2. QED
    BY <2>1 DEF IInv, DecisionInv
<1>2. QED
  BY <1>1, DurableInvariant, PTL

\* An audience is asked once about a checkpoint (create_checkpoint_approval).
THEOREM QuestionsAreUnique == Spec => []AskedOnce
<1>1. IInv => AskedOnce
  BY DEF IInv, DecisionInv
<1>2. QED
  BY <1>1, DurableInvariant, PTL

-----------------------------------------------------------------------------
(* Refinement: what each effect is for the abstract tickets. *)

decidedRuns ==
  {r \in Run : \E a \in Approval :
     status[a] \in {"approved", "rejected"} /\ subject[a][1] = r}

TicketStutter == UNCHANGED <<ckpt, started, decidedRuns>>

LEMMA SameApprovals ==
  ASSUME UNCHANGED <<status, subject>>
  PROVE  decidedRuns' = decidedRuns
BY DEF decidedRuns

LEMMA AsksKeepsDecided ==
  ASSUME IInv, NEW a \in Approval, NEW r \in Run, NEW u \in Audience, Asks(a, r, u)
  PROVE  decidedRuns' = decidedRuns
<1>1. \A b \in Approval : b # a => status'[b] = status[b] /\ subject'[b] = subject[b]
  BY DEF Asks, IInv, TypeOK
<1>2. status[a] = "none" /\ status'[a] = "pending"
  BY DEF Asks, IInv, TypeOK
<1>3. QED
  BY <1>1, <1>2 DEF decidedRuns

LEMMA SettlesDecided ==
  ASSUME IInv, NEW a \in Approval, NEW r \in Run,
         NEW d \in {"approved", "rejected", "expired"}, Settles(a, r, d)
  PROVE  decidedRuns' = IF d = "expired" THEN decidedRuns ELSE decidedRuns \cup {r}
<1>1. \A b \in Approval : b # a => status'[b] = status[b] /\ subject'[b] = subject[b]
  BY DEF Settles, IInv, TypeOK
<1>2. status[a] = "pending" /\ status'[a] = d /\ subject[a][1] = r /\ subject' = subject
  BY DEF Settles, IInv, TypeOK
<1>3. QED
  BY <1>1, <1>2 DEF decidedRuns

LEMMA TicketInit == Init => Tickets!Init
BY DEF Init, Tickets!Init

LEMMA TicketNext ==
  ASSUME IInv, Effect
  PROVE  [Tickets!Next]_<<ckpt, started, decidedRuns>>
<1> USE DEF IInv, TypeOK, IssuedInv, TicketInv, DecisionInv
<1>1. CASE Quiet
  BY <1>1, SameApprovals DEF Quiet, ticketVars
<1>2. ASSUME NEW r \in Run, Starts(r) PROVE Tickets!StartPlain(r)
  BY <1>2, SameApprovals DEF Starts, ticketVars, Tickets!StartPlain, decidedRuns
<1>3. ASSUME NEW s \in Server, NEW r \in Run, Registers(s, r) PROVE TicketStutter
  BY <1>3, SameApprovals DEF Registers, ticketVars, TicketStutter
<1>4. ASSUME NEW s \in Server, NEW r \in Run, Creates(s, r) PROVE Tickets!Issue(r)
  BY <1>4, SameApprovals DEF Creates, Tickets!Issue, decidedRuns
<1>5. ASSUME NEW s \in Server, NEW r \in Run, Consumes(s, r) PROVE Tickets!Spend(r)
  BY <1>5, SameApprovals DEF Consumes, Tickets!Spend, decidedRuns
<1>6. ASSUME NEW s \in Server, NEW r \in Run, Begins(s, r) PROVE Tickets!Begin(r)
  <2>1. ckpt[r] = "consumed" /\ r \notin started
    BY <1>6 DEF Begins
  <2>2. r \notin decidedRuns
    <3>1. SUFFICES ASSUME NEW a \in Approval, status[a] \in {"approved", "rejected"},
                          subject[a][1] = r
                   PROVE  FALSE
      BY DEF decidedRuns
    <3>2. PICK q \in Run, u \in Audience : subject[a] = <<q, u>>
      BY <3>1, Bound
    <3>3. QED
      BY <1>6, <3>1, <3>2 DEF Begins
  <2>3. QED
    BY <1>6, <2>1, <2>2, SameApprovals DEF Begins, ticketVars, Tickets!Begin, decidedRuns
<1>7. ASSUME NEW a \in Approval, NEW r \in Run, NEW u \in Audience, Asks(a, r, u)
      PROVE  TicketStutter
  <2> HIDE DEF IInv, TypeOK, IssuedInv, TicketInv, DecisionInv
  <2>1. decidedRuns' = decidedRuns
    BY <1>7, AsksKeepsDecided
  <2>2. QED
    BY <1>7, <2>1 DEF Asks, TicketStutter
<1>8. ASSUME NEW a \in Approval, NEW r \in Run, NEW d \in {"approved", "rejected", "expired"},
             Settles(a, r, d)
      PROVE  TicketStutter \/ Tickets!Spend(r) \/ Tickets!Decide(r)
  <2>1. ckpt[r] # "none" /\ ckpt' = [ckpt EXCEPT ![r] = "consumed"] /\ started' = started
    <3> HIDE DEF IInv, TypeOK, IssuedInv, TicketInv, DecisionInv
    <3>1. PICK u \in Audience : subject[a] = <<r, u>> /\ ckpt[r] # "none"
      BY <1>8, SettlesKnown
    <3>2. QED
      BY <1>8, <3>1 DEF Settles
  <2>2. CASE d = "expired" /\ ckpt[r] = "consumed"
    BY <1>8, <2>1, <2>2, SettlesDecided DEF TicketStutter
  <2>3. CASE d = "expired" /\ ckpt[r] = "available"
    BY <1>8, <2>1, <2>3, SettlesDecided DEF Tickets!Spend, decidedRuns
  <2>4. CASE d # "expired"
    BY <1>8, <2>1, <2>4, SettlesDecided DEF Settles, Tickets!Decide, decidedRuns
  <2>5. QED
    BY <2>1, <2>2, <2>3, <2>4
<1>9. QED
  BY <1>1, <1>2, <1>3, <1>4, <1>5, <1>6, <1>7, <1>8 DEF Effect, TicketStutter, Tickets!Next

\* Checkpoints, approvals, resumes and workers of all connections implement
\* tickets that are issued once and spent once.
THEOREM Refinement == Spec => ImplementsTickets
<1>1. Init => Tickets!Init
  BY TicketInit
<1>2. IInv /\ [Next]_vars => [Tickets!Next]_<<ckpt, started, decidedRuns>>
  BY StepEffect, TicketNext DEF IInv
<1>3. QED
  BY <1>1, <1>2, DurableInvariant, PTL DEF Spec, ImplementsTickets, Tickets!Spec, decidedRuns

-----------------------------------------------------------------------------
(* The rows of executions. *)

Working(r) == {s \in Server : <<s, r, "working">> \in threads}
Persisting(r) == {s \in Server : <<s, r, "persisting">> \in threads}
Polling(r) == {s \in Server : <<s, r, "polling">> \in threads}

\* Where the worker of a run is, and what the row says meanwhile.
RowInv ==
  /\ \A r \in Run : r \notin started =>
       /\ Working(r) = {} /\ Persisting(r) = {} /\ outcome[r] = "none"
       /\ row[r] \notin {"running", "completed", "cancelled"}
  /\ \A r \in Run : Working(r) # {} => outcome[r] = "none"
  /\ \A r \in Run : \A s, t \in Working(r) : s = t
  /\ \A r \in Run : Persisting(r) # {} => outcome[r] # "none"
  /\ \A r \in Run : Polling(r) # {} => r \in started /\ (Working(r) # {} \/ outcome[r] # "none")
  /\ \A r \in Run : alive /\ row[r] = "running" => Working(r) # {} \/ outcome[r] # "none"
  /\ \A r \in Run : row[r] \in {"completed", "cancelled"} => outcome[r] = row[r]

\* A run that was active when the process ended has no worker, and in a
\* process without a daemon its row is the recovery's.
LostInv ==
  /\ server # {} => alive
  /\ \A r \in lost :
       /\ r \in started /\ Working(r) = {} /\ Persisting(r) = {} /\ Polling(r) = {}
       /\ direct => row[r] \in {"running", "interrupted_non_resumable"}
       /\ direct /\ alive => row[r] = "interrupted_non_resumable"

RowsInv == IInv /\ RowInv /\ LostInv

-----------------------------------------------------------------------------

LEMMA InitRowsInv == Init => RowsInv
<1> SUFFICES ASSUME Init PROVE RowsInv
  OBVIOUS
<1>1. \A r \in Run : Working(r) = {} /\ Persisting(r) = {} /\ Polling(r) = {}
  BY DEF Init, Working, Persisting, Polling
<1>2. RowInv
  BY <1>1 DEF Init, RowInv
<1>3. LostInv
  BY DEF Init, LostInv
<1>4. QED
  BY <1>2, <1>3, InitIInv DEF RowsInv

\* A run that a handler registers, fails to save or launches was not started.
LEMMA NotStarted ==
  ASSUME IInv, NEW s \in Server, NEW r \in Run,
         r \notin issued \/ <<s, r, "creating">> \in threads \/ <<s, r, "launching">> \in threads
  PROVE  r \notin started
BY DEF IInv, TypeOK, IssuedInv, TicketInv, Creating, Launching

-----------------------------------------------------------------------------
(* What a step does to workers and rows: one of eight effects.             *)

NoNewPolling == \A q \in Run : Polling(q)' \subseteq Polling(q)

SameWorkers ==
  /\ \A q \in Run : Working(q)' = Working(q) /\ Persisting(q)' = Persisting(q)
  /\ NoNewPolling

\* Nothing about workers and rows changes.
Idle ==
  /\ SameWorkers
  /\ UNCHANGED <<direct, alive, row, started, outcome, lost>>
  /\ server' # {} => server # {}

\* A process or a connection recovers the rows.
Recovers ==
  /\ SameWorkers
  /\ alive' /\ UNCHANGED <<direct, started, outcome, lost>>
  /\ direct => \A q \in Run : row'[q] = IF row[q] = "running" THEN "interrupted_non_resumable" ELSE row[q]
  /\ \A q \in Run : row[q] # "running" => row'[q] = row[q]
  /\ \A q \in Run : row[q] = "running" => row'[q] \in {"interrupted_non_resumable", "legacy_unverified"}

Ends ==
  /\ \A q \in Run : Working(q)' = {} /\ Persisting(q)' = {} /\ Polling(q)' = {}
  /\ server' = {} /\ ~alive'
  /\ UNCHANGED <<direct, row, started, outcome>>
  /\ lost' = lost \cup {q \in Run : row[q] = "running"}

\* A handler writes the row of a run that was not started.
Notes(r) ==
  /\ r \notin started
  /\ row'[r] \notin {"running", "completed", "cancelled"}
  /\ \A q \in Run \ {r} : row'[q] = row[q]
  /\ SameWorkers
  /\ UNCHANGED <<direct, alive, server, started, outcome, lost>>

\* A synchronous call writes what it polled, or a write fails.
Saves(s, r) ==
  /\ s \in Polling(r)
  /\ row'[r] \in {row[r], "running"} \/ (outcome[r] # "none" /\ row'[r] = outcome[r])
  /\ \A q \in Run \ {r} : row'[q] = row[q]
  /\ SameWorkers
  /\ UNCHANGED <<direct, alive, server, started, outcome, lost>>

\* A worker is spawned; its row says running, or is as it was.
Spawns(s, r) ==
  /\ r \notin started /\ started' = started \cup {r}
  /\ Working(r)' = Working(r) \cup {s}
  /\ row'[r] \in {"running", row[r]}
  /\ \A q \in Run \ {r} : /\ row'[q] = row[q] /\ Working(q)' = Working(q)
                          /\ Polling(q)' \subseteq Polling(q)
  /\ \A q \in Run : Persisting(q)' = Persisting(q)
  /\ UNCHANGED <<direct, alive, server, outcome, lost>>

\* A worker's engine ends.
Finishes(s, r) ==
  /\ s \in Working(r) /\ Working(r)' = Working(r) \ {s}
  /\ Persisting(r)' = Persisting(r) \cup {s}
  /\ outcome'[r] # "none"
  /\ \A q \in Run \ {r} : /\ outcome'[q] = outcome[q]
                          /\ Working(q)' = Working(q) /\ Persisting(q)' = Persisting(q)
  /\ NoNewPolling
  /\ UNCHANGED <<direct, alive, server, row, started, lost>>

\* A worker returns; the outcome is in the row, or the write has failed.
Leaves(s, r) ==
  /\ s \in Persisting(r)
  /\ Persisting(r)' \subseteq Persisting(r)
  /\ row'[r] \in {row[r], outcome[r]}
  /\ \A q \in Run \ {r} : row'[q] = row[q] /\ Persisting(q)' = Persisting(q)
  /\ \A q \in Run : Working(q)' = Working(q)
  /\ NoNewPolling
  /\ UNCHANGED <<direct, alive, server, started, outcome, lost>>

RowEffect ==
  \/ Idle \/ Recovers \/ Ends
  \/ \E r \in Run : Notes(r)
  \/ \E s \in Server, r \in Run : Spawns(s, r) \/ Finishes(s, r) \/ Leaves(s, r) \/ Saves(s, r)

LEMMA StepRowEffect ==
  ASSUME IInv, [Next]_vars
  PROVE  RowEffect
<1>0. TypeOK
  BY DEF IInv
<1> USE <1>0 DEF TypeOK, Working, Persisting, Polling, NoNewPolling, SameWorkers, processVars, approvalVars, historyVars
<1>1. CASE DaemonStart
  <2>1. Recovers
    BY <1>1 DEF DaemonStart, Marked, Recovers
  <2>2. QED
    BY <2>1 DEF RowEffect
<1>2. CASE Crash
  <2>1. Ends
    BY <1>2 DEF Crash, Ends
  <2>2. QED
    BY <2>1 DEF RowEffect
<1>3. ASSUME NEW s \in Server, Connect(s) \/ DirectStart(s) PROVE RowEffect
  <2>1. Recovers
    BY <1>3 DEF Connect, DirectStart, Recover, Marked, Recovers
  <2>2. QED
    BY <2>1 DEF RowEffect
<1>4. ASSUME NEW s \in Server, Disconnect(s) PROVE RowEffect
  <2>1. Idle
    BY <1>4 DEF Disconnect, Idle
  <2>2. QED
    BY <2>1 DEF RowEffect
<1>5. ASSUME NEW s \in Server, NEW r \in Run, Handler(s, r) PROVE RowEffect
  <2>1. CASE StartRun(s, r)
    <3>1. r \notin started
      BY <2>1, NotStarted DEF StartRun
    <3>2. Spawns(s, r)
      BY <2>1, <3>1 DEF StartRun, SetRow, Spawned, Spawns
    <3>3. QED
      BY <3>2 DEF RowEffect
  <2>2. CASE SaveCheckpointRow(s, r) /\ row' # row
    <3>1. r \notin started
      BY <2>2, NotStarted DEF SaveCheckpointRow
    <3>2. Notes(r)
      BY <2>2, <3>1 DEF SaveCheckpointRow, SetRow, Notes
    <3>3. QED
      BY <3>2 DEF RowEffect
  <2>3. CASE SaveCheckpointRow(s, r) /\ row' = row
    <3>1. Idle
      BY <2>3 DEF SaveCheckpointRow, Idle
    <3>2. QED
      BY <3>1 DEF RowEffect
  <2>4. CASE CreateFails(s, r) /\ row' # row
    <3>1. r \notin started
      BY <2>4, NotStarted DEF CreateFails, Return
    <3>2. Notes(r)
      BY <2>4, <3>1 DEF CreateFails, SetRow, Return, Notes
    <3>3. QED
      BY <3>2 DEF RowEffect
  <2>5. CASE CreateFails(s, r) /\ row' = row
    <3>1. Idle
      BY <2>5 DEF CreateFails, Return, Idle
    <3>2. QED
      BY <3>1 DEF RowEffect
  <2>6. CASE CreateCheckpoint(s, r) \/ ResumeCheck(s, r)
    <3>1. Idle
      BY <2>6 DEF CreateCheckpoint, ResumeCheck, Return, Idle
    <3>2. QED
      BY <3>1 DEF RowEffect
  <2>7. CASE Consume(s, r) \/ ConsumeRefused(s, r) \/ LaunchFails(s, r)
    <3>1. Idle
      BY <2>7 DEF Consume, ConsumeRefused, LaunchFails, MoveTo, Return, Idle
    <3>2. QED
      BY <3>1 DEF RowEffect
  <2>8. CASE Launch(s, r)
    <3>1. r \notin started
      BY <2>8, NotStarted DEF Launch, MoveTo
    <3>2. Spawns(s, r)
      BY <2>8, <3>1 DEF Launch, MoveTo, SetRow, Spawned, Spawns
    <3>3. QED
      BY <3>2 DEF RowEffect
  <2>9. CASE SaveExecuted(s, r)
    <3>1. Saves(s, r)
      BY <2>9 DEF SaveExecuted, Return, SetRow, Saves
    <3>2. QED
      BY <3>1 DEF RowEffect
  <2>10. QED
    BY <1>5, <2>1, <2>2, <2>3, <2>4, <2>5, <2>6, <2>7, <2>8, <2>9 DEF Handler
<1>6. ASSUME NEW s \in Server, NEW r \in Run, Worker(s, r) PROVE RowEffect
  <2>1. CASE EngineEnds(s, r)
    <3>1. Finishes(s, r)
      BY <2>1 DEF EngineEnds, MoveTo, Finishes
    <3>2. QED
      BY <3>1 DEF RowEffect
  <2>2. CASE Persist(s, r) \/ PersistFails(s, r)
    <3>1. Leaves(s, r)
      BY <2>2 DEF Persist, PersistFails, Return, SetRow, Leaves
    <3>2. QED
      BY <3>1 DEF RowEffect
  <2>3. QED
    BY <1>6, <2>1, <2>2 DEF Worker
<1>7. ASSUME NEW s \in Server, NEW a \in Approval, NEW r \in Run, NEW u \in Audience,
             Request(s, a, r, u)
      PROVE  RowEffect
  <2>1. Idle
    BY <1>7 DEF Request, Idle
  <2>2. QED
    BY <2>1 DEF RowEffect
<1>8. ASSUME NEW a \in Approval, NEW r \in Run, NEW d,
             Expire(a, r) \/ Decide(a, r, d)
      PROVE  RowEffect
  <2>1. Idle
    BY <1>8 DEF Expire, Decide, Idle
  <2>2. QED
    BY <2>1 DEF RowEffect
<1>9. CASE UNCHANGED vars
  <2>1. Idle
    BY <1>9 DEF vars, Idle
  <2>2. QED
    BY <2>1 DEF RowEffect
<1>10. QED
  BY <1>1, <1>2, <1>3, <1>4, <1>5, <1>6, <1>7, <1>8, <1>9 DEF Next

-----------------------------------------------------------------------------
(* Every effect keeps the two invariants. *)

LEMMA RowStep ==
  ASSUME TypeOK, RowInv, LostInv, RowEffect
  PROVE  RowInv' /\ LostInv'
<1>1. CASE Idle
  <2>1. RowInv'
    BY <1>1 DEF Idle, SameWorkers, NoNewPolling, RowInv
  <2>2. LostInv'
    BY <1>1 DEF Idle, SameWorkers, NoNewPolling, LostInv, TypeOK
  <2>3. QED
    BY <2>1, <2>2
<1>2. CASE Recovers
  <2>1. RowInv'
    BY <1>2 DEF Recovers, SameWorkers, NoNewPolling, RowInv
  <2>2. LostInv'
    BY <1>2 DEF Recovers, SameWorkers, NoNewPolling, LostInv, TypeOK
  <2>3. QED
    BY <2>1, <2>2
<1>3. CASE Ends
  <2>1. RowInv'
    BY <1>3 DEF Ends, RowInv
  <2>2. LostInv'
    BY <1>3 DEF Ends, RowInv, LostInv, TypeOK
  <2>3. QED
    BY <2>1, <2>2
<1>4. ASSUME NEW r \in Run, Notes(r) PROVE RowInv' /\ LostInv'
  <2>1. RowInv'
    BY <1>4 DEF Notes, SameWorkers, NoNewPolling, RowInv
  <2>2. LostInv'
    BY <1>4 DEF Notes, SameWorkers, NoNewPolling, LostInv, TypeOK
  <2>3. QED
    BY <2>1, <2>2
<1>5. ASSUME NEW s \in Server, NEW r \in Run, Spawns(s, r) PROVE RowInv' /\ LostInv'
  <2>1. RowInv'
    BY <1>5 DEF Spawns, RowInv
  <2>2. LostInv'
    BY <1>5 DEF Spawns, LostInv, TypeOK
  <2>3. QED
    BY <2>1, <2>2
<1>6. ASSUME NEW s \in Server, NEW r \in Run, Finishes(s, r) PROVE RowInv' /\ LostInv'
  <2>1. r \notin lost /\ r \in started /\ Working(r)' = {}
    BY <1>6 DEF Finishes, RowInv, LostInv
  <2>2. row[r] \notin {"completed", "cancelled"}
    BY <1>6 DEF Finishes, NoNewPolling, RowInv
  <2>3. RowInv'
    BY <1>6, <2>1, <2>2 DEF Finishes, NoNewPolling, RowInv
  <2>4. LostInv'
    BY <1>6, <2>1 DEF Finishes, NoNewPolling, LostInv, TypeOK
  <2>5. QED
    BY <2>3, <2>4
<1>7. ASSUME NEW s \in Server, NEW r \in Run, Leaves(s, r) PROVE RowInv' /\ LostInv'
  <2>1. r \notin lost /\ r \in started /\ outcome[r] # "none"
    BY <1>7 DEF Leaves, RowInv, LostInv
  <2>2. RowInv'
    BY <1>7, <2>1 DEF Leaves, NoNewPolling, RowInv
  <2>3. LostInv'
    BY <1>7, <2>1 DEF Leaves, NoNewPolling, LostInv, TypeOK
  <2>4. QED
    BY <2>2, <2>3
<1>8. ASSUME NEW s \in Server, NEW r \in Run, Saves(s, r) PROVE RowInv' /\ LostInv'
  <2>1. r \notin lost /\ r \in started /\ (Working(r) # {} \/ outcome[r] # "none")
    BY <1>8 DEF Saves, RowInv, LostInv
  <2>2. RowInv'
    BY <1>8, <2>1 DEF Saves, SameWorkers, NoNewPolling, RowInv
  <2>3. LostInv'
    BY <1>8, <2>1 DEF Saves, SameWorkers, NoNewPolling, LostInv, TypeOK
  <2>4. QED
    BY <2>2, <2>3
<1>9. QED
  BY <1>1, <1>2, <1>3, <1>4, <1>5, <1>6, <1>7, <1>8 DEF RowEffect

LEMMA RowsInductive == RowsInv /\ [Next]_vars => RowsInv'
<1> SUFFICES ASSUME RowsInv, [Next]_vars PROVE RowsInv'
  OBVIOUS
<1>1. IInv'
  BY Inductive DEF RowsInv
<1>2. RowEffect
  BY StepRowEffect DEF RowsInv
<1>3. RowInv' /\ LostInv'
  BY <1>2, RowStep DEF RowsInv, IInv
<1>4. QED
  BY <1>1, <1>3 DEF RowsInv

-----------------------------------------------------------------------------
(* Theorems. *)

\* The invariant behind the theorems below: who writes a run's row, and when.
THEOREM RowsInvariant == Spec => []RowsInv
  BY InitRowsInv, RowsInductive, PTL DEF Spec

\* While the process runs a running row has a worker, or its engine has ended
\* and the write of its terminal status failed; completed and cancelled rows
\* are what the engine returned (persist_terminal_projection), whatever
\* connections recovered the rows meanwhile.
THEOREM RowsAreTrue == Spec => []NoFakeState
<1>1. RowsInv => NoFakeState
  BY DEF RowsInv, RowInv, NoFakeState, Working
<1>2. QED
  BY <1>1, RowsInvariant, PTL

\* Without a daemon every run that was lost in a crash is reported as
\* interrupted from the next start on (recover_incomplete_executions): no
\* handler or worker writes its row again.
THEOREM DirectRecovery == Spec => []DirectRestartInterrupts
<1>1. RowsInv => DirectRestartInterrupts
  BY DEF RowsInv, LostInv, DirectRestartInterrupts, RestartInterrupts
<1>2. QED
  BY <1>1, RowsInvariant, PTL

=============================================================================
