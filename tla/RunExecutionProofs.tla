------------------------- MODULE RunExecutionProofs -------------------------
(***************************************************************************)
(* Proofs about RunExecution, for any chains, limits, documents, captures  *)
(* and buffer sizes.                                                       *)
(*                                                                         *)
(* Typed is the typing invariant, with the fields of records.  FinalInv:   *)
(* from the moment the worker goes on, the engine's task has ended, and    *)
(* what the worker read is what the task left.  HeardInv: who heard a      *)
(* cancellation was in a provider call, with the flag already set.         *)
(* VerdictInv: the worker's result is what the task ended with, or the     *)
(* limit was heard, which only a run with a limit does.  EnvelopeInv: the  *)
(* evidence the worker found complete is bound to captured texts.  ToldInv *)
(* is for RunInServer: what the worker decides from stays as it is.        *)
(***************************************************************************)
EXTENDS RunInServer, FiniteSetTheorems, WellFoundedInduction, TLAPS

WorkerPCs ==
  {"begin", "arming", "armed", "waiting", "notifying", "aborting", "joining", "completing",
   "joiningTimer", "exporting", "checking", "settling", "erring", "report", "done"}

TaskPCs ==
  {"none", "spawned", "boundary", "called", "asking", "tested", "listening", "answered", "writing",
   "wrote", "ended"}

Outcomes == {"none", "ok", "cancelled", "iterations", "error", "iteration in text", "aborted"}

Results == Outcomes \cup {"budget"}

EvidenceCodes ==
  {"none", "complete", "WITNESS_STORE_REQUIRED", "WITNESS_EVIDENCE_MISSING", "WITNESS_STORE_ERROR",
   "WITNESS_EVIDENCE_INVALID", "INTEGRITY_KEY_REQUIRED", "WITNESS_NOT_FOUND",
   "WITNESS_INTEGRITY_FAILURE", "WITNESS_SPAN_OUT_OF_RANGE"}

Docs == Documents \cup {NoDocument}

TakenType == [written : Nat, document : Docs, events : Nat, nodes : Nat, late : BOOLEAN]

RecordType ==
  [status : Verdicts, error : Results \cup EvidenceCodes, budget : {"none", "clock", "nodes"},
   envelopes : BOOLEAN, written : Nat, document : Docs,
   persistence : {"volatile", "pending"}, ring : Rings]

ReaderType == [cursor : Nat, seen : SUBSET Nat, warned : BOOLEAN]

Tags == {Tag(c) : c \in Captures}

RowType == [id : Tags, capture : Captures, digest : Tags]

WorkerTyped ==
  /\ worker \in WorkerPCs /\ result \in Results /\ taken \in TakenType /\ evidence \in EvidenceCodes
  /\ stop \in BOOLEAN /\ woken \in BOOLEAN /\ aborted \in BOOLEAN

TaskTyped ==
  /\ task \in TaskPCs /\ written \in Nat /\ document \in Docs /\ ended \in Outcomes
  /\ collected \in Nat /\ started \in Nat

SignalsTyped ==
  /\ cancelled \in BOOLEAN /\ canceller \in {"idle", "notify", "done"}
  /\ timer \in {"off", "armed", "expired", "ended"}
  /\ timedOut \in BOOLEAN /\ late \in BOOLEAN /\ complete \in BOOLEAN
  /\ heard \subseteq {"cancel", "clock"}

AroundTyped ==
  /\ record \in RecordType /\ durable \in Rings /\ witness \subseteq RowType /\ reader \in ReaderType
  /\ record.ring.first <= record.ring.next

Typed == plan \in Plans /\ WorkerTyped /\ TaskTyped /\ SignalsTyped /\ AroundTyped

-----------------------------------------------------------------------------
(* Types *)

LEMMA PlanTyped ==
  ASSUME plan \in Plans
  PROVE  /\ plan.chain \in Seq({"llm", "evidence", "delete"}) /\ Len(plan.chain) \in Nat
         /\ plan.nodes \in Nat /\ plan.iterations \in Nat /\ plan.clock \in BOOLEAN
BY ExecutionAssumption

LEMMA PushedTyped ==
  ASSUME NEW ring \in Rings, NEW n \in Nat, ring.first <= ring.next
  PROVE  Pushed(ring, n) \in Rings /\ Pushed(ring, n).first <= Pushed(ring, n).next
BY BufferAssumption DEF Rings, Pushed

LEMMA InitTyped == Init => Typed
<1>1. EmptyRing \in Rings
  BY DEF EmptyRing, Rings
<1>2. ASSUME Init PROVE Typed
  <2> USE <1>2 DEF Init
  <2>1. plan \in Plans
    OBVIOUS
  <2>2. NothingTaken \in TakenType
    BY DEF NothingTaken, TakenType, Docs
  <2>3. WorkerTyped
    BY <2>2 DEF WorkerTyped, WorkerPCs, Results, Outcomes, EvidenceCodes
  <2>4. TaskTyped
    BY DEF TaskTyped, TaskPCs, Outcomes, Docs
  <2>5. SignalsTyped
    BY DEF SignalsTyped
  <2>6. record \in RecordType /\ record.ring.first <= record.ring.next
    BY <1>1 DEF EmptyRing, RecordType, Verdicts, Terminal, Results, Outcomes, EvidenceCodes, Docs
  <2>7. reader \in ReaderType
    BY DEF ReaderType
  <2>8. AroundTyped
    BY <1>1, <2>6, <2>7 DEF AroundTyped
  <2>9. QED
    BY <2>1, <2>3, <2>4, <2>5, <2>8 DEF Typed
<1>3. QED
  BY <1>2

LEMMA EmitsTyped ==
  ASSUME collected \in Nat, NEW n \in Nat, Emits(n)
  PROVE  collected' \in Nat
<1>1. collected + n \in Nat /\ CollectorCap \in Nat
  BY ExecutionAssumption
<1>2. QED
  BY <1>1 DEF Emits, Least

LEMMA EndsTyped ==
  ASSUME TaskTyped, NEW how \in Outcomes, NEW n \in Nat, Ends(how, n)
  PROVE  TaskTyped'
BY EmitsTyped DEF Ends, TaskTyped, TaskPCs

LEMMA GoToTyped ==
  ASSUME TaskTyped, NEW pc \in TaskPCs, GoTo(pc),
         Quiet \/ \E n \in Nat : Emits(n) /\ started' \in Nat
  PROVE  TaskTyped'
BY EmitsTyped DEF GoTo, TaskTyped, Quiet

LEMMA EngineTyped ==
  ASSUME Typed, Engine
  PROVE  Typed'
<1>1. plan' \in Plans /\ WorkerTyped' /\ SignalsTyped' /\ AroundTyped'
  BY DEF Engine, EngineUnchanged, workerVars, timerVars, storeVars, Typed, WorkerTyped, SignalsTyped,
     AroundTyped
<1>0. TaskTyped /\ started \in Nat /\ "called" \in TaskPCs
  BY DEF Typed, TaskTyped, TaskPCs
<1>2. /\ TaskTyped /\ {"ok", "cancelled", "iterations", "error", "iteration in text"} \subseteq Outcomes
      /\ {"boundary", "called", "asking", "tested", "listening", "answered", "writing", "wrote"}
           \subseteq TaskPCs
      /\ started \in Nat
  BY DEF Typed, TaskTyped, Outcomes, TaskPCs
<1> SUFFICES TaskTyped'
  BY <1>1 DEF Typed
<1>3. CASE Finish \/ Stopped \/ TooMany \/ WakeCall
  BY <1>2, <1>3, EndsTyped DEF Finish, Stopped, TooMany, WakeCall
<1>4. CASE Begin \/ EndCall \/ Listen
  BY <1>2, <1>4, GoToTyped DEF Begin, EndCall, Listen
<1>5. CASE StartCall
  <2>1. started' \in Nat /\ "called" \in TaskPCs
    BY <1>0, <1>5 DEF StartCall
  <2>2. QED
    BY <1>2, <1>5, <2>1, GoToTyped DEF StartCall
<1>6. CASE EnterCall \/ TestFlag \/ CheckAgain \/ ProviderAnswers
  BY <1>2, <1>6, EndsTyped, GoToTyped DEF EnterCall, TestFlag, CheckAgain, ProviderAnswers
<1>7. CASE WriteOutput
  <2>1. CASE Ends("error", 2)
    BY <1>2, <2>1, EndsTyped
  <2>2. CASE ~Ends("error", 2)
    <3>1. task' = "wrote" /\ written' = written + 1 /\ UNCHANGED ended /\ Quiet
      BY <1>7, <2>2 DEF WriteOutput
    <3>2. document' \in Docs
      BY <1>0, <1>7, <2>2 DEF WriteOutput, TaskTyped, Docs
    <3>3. QED
      BY <1>0, <3>1, <3>2 DEF TaskTyped, TaskPCs, Quiet
  <2>3. QED
    BY <2>1, <2>2
<1>8. CASE AbortLands
  BY <1>2, <1>8 DEF AbortLands, TaskTyped, TaskPCs, Outcomes, Quiet
<1>9. QED
  BY <1>3, <1>4, <1>5, <1>6, <1>7, <1>8 DEF Engine, EngineStep

LEMMA SignalsStayTyped ==
  ASSUME Typed, RequestCancel \/ NotifyCancel \/ Timer
  PROVE  Typed'
<1>1. plan' \in Plans /\ TaskTyped' /\ AroundTyped'
  BY DEF RequestCancel, NotifyCancel, Timer, LimitPasses, Expire, NotifyTimeout, CompletionReceived,
     TimerUnchanged, workerVars, taskVars, timerVars, storeVars, Typed, TaskTyped, AroundTyped
<1>2. WorkerTyped'
  BY DEF RequestCancel, NotifyCancel, NotifyCall, Timer, LimitPasses, Expire, NotifyTimeout,
     CompletionReceived, TimerUnchanged, workerVars, taskVars, timerVars, storeVars, Typed, WorkerTyped
<1>3. SignalsTyped'
  <2> USE DEF Typed, SignalsTyped, timerVars
  <2>1. CASE RequestCancel \/ NotifyCancel
    BY <2>1 DEF RequestCancel, NotifyCancel
  <2>2. CASE LimitPasses \/ Expire
    BY <2>2 DEF LimitPasses, Expire, TimerUnchanged
  <2>3. CASE NotifyTimeout \/ CompletionReceived
    BY <2>3 DEF NotifyTimeout, CompletionReceived, TimerUnchanged
  <2>4. QED
    BY <2>1, <2>2, <2>3 DEF Timer
<1>4. QED
  BY <1>1, <1>2, <1>3 DEF Typed

LEMMA EvidenceTyped == EvidenceOutcomes \subseteq EvidenceCodes
<1>1. ASSUME NEW id PROVE get_witness(witness, id) \in EvidenceCodes \cup {Absent}
  BY DEF get_witness, EvidenceCodes
<1>2. ASSUME NEW id, NEW span PROVE BindingError(witness, id, span) \in EvidenceCodes \cup {Absent}
  BY <1>1 DEF BindingError, EvidenceCodes
<1>3. validate_witness_dependencies(taken.document, witness) \subseteq EvidenceCodes
  <2>1. {BindingError(witness, b.id, b.span) : b \in witness_bindings(taken.document)}
          \subseteq EvidenceCodes \cup {Absent}
    BY <1>2
  <2>2. QED
    BY <2>1 DEF validate_witness_dependencies, EvidenceCodes
<1>4. QED
  BY <1>3 DEF EvidenceOutcomes, EvidenceCodes

LEMMA WorkerStaysTyped ==
  ASSUME Typed, Worker
  PROVE  Typed'
<1>1. /\ WorkerStep /\ WorkerUnchanged /\ plan \in Plans
      /\ WorkerTyped /\ TaskTyped /\ SignalsTyped /\ AroundTyped
  BY DEF Worker, Typed
<1>2. plan' \in Plans /\ witness' \subseteq RowType /\ reader' \in ReaderType
  BY <1>1 DEF WorkerUnchanged, AroundTyped
<1>3. CASE UNCHANGED <<task, timer, complete, result, taken, evidence, record, durable>>
  <2>1. worker' \in WorkerPCs /\ stop' \in BOOLEAN /\ woken' \in BOOLEAN /\ aborted' \in BOOLEAN
    BY <1>1, <1>3
       DEF WorkerStep, CompileFails, GiveUp, Start, ArmTimer, Await, Joined, StopEngine, WakeProvider,
           Abort, AwaitAborted, SendComplete, JoinTimer, Export, CheckEvidence, Settle, WriteError,
           Report, WorkerAt, WorkerTyped, WorkerPCs, NotifyCall
  <2>2. QED
    BY <1>1, <1>2, <1>3, <2>1
       DEF Typed, WorkerUnchanged, WorkerTyped, TaskTyped, SignalsTyped, AroundTyped
<1>4. CASE Start \/ ArmTimer \/ Joined \/ AwaitAborted \/ SendComplete
  <2>1. WorkerTyped'
    BY <1>1, <1>4 DEF Start, ArmTimer, Joined, AwaitAborted, SendComplete, WorkerAt, WorkerTyped,
       WorkerPCs, TaskTyped, Results
  <2>2. TaskTyped'
    BY <1>1, <1>4 DEF Start, ArmTimer, Joined, AwaitAborted, SendComplete, WorkerUnchanged,
       TaskTyped, TaskPCs
  <2>3. SignalsTyped'
    BY <1>1, <1>4 DEF Start, ArmTimer, Joined, AwaitAborted, SendComplete, WorkerUnchanged,
       SignalsTyped
  <2>4. AroundTyped'
    BY <1>1, <1>4 DEF Start, ArmTimer, Joined, AwaitAborted, SendComplete, WorkerUnchanged,
       AroundTyped
  <2>5. QED
    BY <1>2, <2>1, <2>2, <2>3, <2>4 DEF Typed
<1>5. CASE WriteError
  <2>1. record' \in RecordType /\ record'.ring = record.ring
    <3>1. record \in RecordType /\ record' = [record EXCEPT !.status = "failed", !.error = "error"]
      BY <1>1, <1>5 DEF WriteError, AroundTyped
    <3>2. "failed" \in Verdicts /\ "error" \in Results \cup EvidenceCodes
      BY DEF Verdicts, Terminal, Results, Outcomes
    <3>3. QED
      BY <3>1, <3>2 DEF RecordType
  <2>2. WorkerTyped' /\ TaskTyped' /\ SignalsTyped'
    BY <1>1, <1>5
       DEF WriteError, WorkerAt, WorkerUnchanged, WorkerTyped, WorkerPCs, TaskTyped, SignalsTyped
  <2>3. QED
    BY <1>1, <1>2, <1>5, <2>1, <2>2 DEF WriteError, Typed, AroundTyped
<1>6. CASE Export
  <2>1. CASE /\ WorkerAt("exporting", "checking")
             /\ taken' = [written |-> written, document |-> document, events |-> collected,
                          nodes |-> started, late |-> late]
             /\ UNCHANGED <<task, stop, woken, aborted, timer, complete, result, evidence, record, durable>>
    <3>1. taken' \in TakenType
      BY <1>1, <2>1 DEF TakenType, TaskTyped, SignalsTyped
    <3>2. QED
      BY <1>1, <1>2, <2>1, <3>1 DEF WorkerAt, WorkerUnchanged, Typed, WorkerTyped, WorkerPCs, TaskTyped,
         SignalsTyped, AroundTyped
  <2>2. CASE GiveUp("exporting")
    BY <1>3, <2>2 DEF GiveUp
  <2>3. QED
    BY <1>6, <2>1, <2>2 DEF Export
<1>7. CASE CheckEvidence
  BY <1>1, <1>2, <1>7, EvidenceTyped
     DEF CheckEvidence, WorkerAt, WorkerUnchanged, Typed, WorkerTyped, WorkerPCs, TaskTyped,
         SignalsTyped, AroundTyped
<1>8. CASE Settle
  <2>1. /\ terminal_outcome \in Verdicts /\ Error \in Results \cup EvidenceCodes
        /\ BudgetExhausted \in {"none", "clock", "nodes"}
    BY <1>1 DEF terminal_outcome, Verdicts, Terminal, Error, Results, Outcomes, EvidenceCodes,
       BudgetExhausted, WorkerTyped
  <2>2. /\ record.ring \in Rings /\ record.ring.first <= record.ring.next
        /\ taken.events \in Nat /\ taken.written \in Nat /\ taken.document \in Docs
    BY <1>1 DEF WorkerTyped, TakenType, AroundTyped, RecordType
  <2>3. (IF cancelled THEN "none" ELSE Error) \in Results \cup EvidenceCodes
    BY <2>1 DEF EvidenceCodes
  <2>4. record' \in RecordType /\ record'.ring.first <= record'.ring.next
    BY <1>8, <2>1, <2>2, <2>3, PushedTyped DEF Settle, RecordType
  <2>5. QED
    BY <1>1, <1>2, <1>8, <2>4 DEF Settle, WorkerAt, WorkerUnchanged, Typed, WorkerTyped, WorkerPCs,
       TaskTyped, SignalsTyped, AroundTyped
<1>9. CASE Report
  <2>1. durable' \in Rings
    BY <1>1, <1>9 DEF Report, AroundTyped, RecordType
  <2>2. QED
    BY <1>1, <1>2, <1>9, <2>1 DEF Report, WorkerAt, WorkerUnchanged, Typed, WorkerTyped, WorkerPCs,
       TaskTyped, SignalsTyped, AroundTyped
<1>10. CASE CompileFails \/ Await \/ StopEngine \/ WakeProvider \/ Abort \/ JoinTimer
  BY <1>3, <1>10 DEF CompileFails, GiveUp, Await, StopEngine, WakeProvider, Abort, JoinTimer
<1>11. QED
  BY <1>1, <1>4, <1>5, <1>6, <1>7, <1>8, <1>9, <1>10 DEF WorkerStep

LEMMA CaptureTyped ==
  ASSUME witness \subseteq RowType, NEW c \in Captures
  PROVE  /\ capture_witness(witness, c) \subseteq RowType
         /\ \A r \in witness : (witness \ {r}) \cup {[r EXCEPT !.capture = c]} \subseteq RowType
<1>1. RecordOf(c) \in RowType
  BY DEF RecordOf, RowType, Tags
<1>2. \A r \in RowType : [r EXCEPT !.capture = c] \in RowType
  BY DEF RowType
<1>3. QED
  BY <1>1, <1>2 DEF capture_witness

\* The greatest of some held events exists.
LEMMA MaxHeld ==
  ASSUME NEW first \in Nat, NEW next \in Nat, NEW S, S \subseteq first .. (next - 1), S # {}
  PROVE  Max(S) \in S /\ \A x \in S : x <= Max(S)
<1> DEFINE T == {n \in Nat : next - 1 - n \in S}
<1>1. T \subseteq Nat /\ T # {}
  <2>1. PICK x \in S : TRUE
    OBVIOUS
  <2>2. x \in Int /\ first <= x /\ x <= next - 1 /\ next - 1 - x \in Nat
    OBVIOUS
  <2>3. next - 1 - (next - 1 - x) = x
    BY <2>2
  <2>4. next - 1 - x \in T
    BY <2>1, <2>2, <2>3
  <2>5. QED
    BY <2>4
<1>2. PICK n \in T : \A m \in T : ~(<<m, n>> \in OpToRel(<, Nat))
  <2> HIDE DEF T
  <2>1. QED
    BY <1>1, NatLessThanWellFounded, WFMin, Zenon
<1>3. next - 1 - n \in S /\ n \in Nat
  OBVIOUS
<1>4. ASSUME NEW x \in S PROVE x <= next - 1 - n
  <2>1. x \in Int /\ next - 1 - x \in Nat /\ next - 1 - (next - 1 - x) = x
    OBVIOUS
  <2>2. next - 1 - x \in T
    BY <2>1
  <2>3. ~(next - 1 - x < n)
    <3>1. ~(<<next - 1 - x, n>> \in OpToRel(<, Nat))
      BY <1>2, <2>2
    <3>2. QED
      BY <1>3, <2>1, <3>1 DEF OpToRel
  <2>4. QED
    BY <1>3, <2>1, <2>3
<1>5. \E x \in S : \A y \in S : x >= y
  BY <1>3, <1>4
<1>6. QED
  BY <1>5 DEF Max

-----------------------------------------------------------------------------
(* Pages of events *)

\* A page holds every event that is held between the cursor and its last event.
LEMMA SelectedIsPrefix ==
  ASSUME NEW ring \in Rings, NEW cursor \in Nat
  PROVE  /\ Held(ring) \subseteq Nat
         /\ Selected(ring, cursor) \subseteq Held(ring)
         /\ \A c \in Selected(ring, cursor) : c >= cursor
         /\ \A m \in Selected(ring, cursor), c \in Held(ring) :
              cursor <= c /\ c <= m => c \in Selected(ring, cursor)
<1>1. Held(ring) \subseteq Nat /\ IsFiniteSet(Held(ring))
  <2>1. ring.first \in Nat /\ ring.next - 1 \in Int /\ ring.first \in Int
    BY DEF Rings
  <2>2. IsFiniteSet(ring.first .. (ring.next - 1))
    BY <2>1, FS_Interval
  <2>3. ring.first .. (ring.next - 1) \subseteq Nat
    BY <2>1
  <2>4. QED
    BY <2>2, <2>3 DEF Held
<1>2. ASSUME NEW m \in Selected(ring, cursor), NEW c \in Held(ring), cursor <= c, c <= m
      PROVE  c \in Selected(ring, cursor)
  <2> DEFINE Before(x) == {d \in Held(ring) : cursor <= d /\ d < x}
  <2>1. m \in Held(ring) /\ Cardinality(Before(m)) < PageSize
    BY <1>2 DEF Selected
  <2>2. Before(c) \subseteq Before(m)
    BY <1>1, <1>2, <2>1
  <2>3. IsFiniteSet(Before(m))
    <3>1. Before(m) \subseteq Held(ring)
      OBVIOUS
    <3>2. QED
      BY <1>1, <3>1, FS_Subset
  <2>4. /\ Cardinality(Before(c)) <= Cardinality(Before(m))
        /\ Cardinality(Before(c)) \in Nat /\ Cardinality(Before(m)) \in Nat
    <3> HIDE DEF Before
    <3>1. QED
      BY <2>2, <2>3, FS_Subset, FS_CardinalityType
  <2>5. Cardinality(Before(c)) < PageSize
    <3> HIDE DEF Before
    <3>1. PageSize \in Nat
      BY BufferAssumption
    <3>2. QED
      BY <2>1, <2>4, <3>1
  <2>6. c >= cursor
    BY <1>1, <1>2
  <2>7. QED
    BY <1>2, <2>5, <2>6 DEF Selected
<1>3. Selected(ring, cursor) \subseteq Held(ring) /\ \A c \in Selected(ring, cursor) : c >= cursor
  BY DEF Selected
<1>4. QED
  BY <1>1, <1>2, <1>3

\* A reader that goes on from the last event it was given leaves none out.
LEMMA ReadingKeeps ==
  ASSUME reader \in ReaderType, NEW ring \in Rings, NEW page,
         page.events = Selected(ring, reader.cursor), page.next = ring.next,
         page.gap = (reader.cursor < ring.first), ReadPage(page)
  PROVE  /\ reader' \in ReaderType
         /\ Follow = "last" /\ ReaderMissesNothing => ReaderMissesNothing'
<1> DEFINE events == Selected(ring, reader.cursor)
           cursor == reader.cursor
<1>1. cursor \in Nat /\ reader.seen \subseteq Nat /\ reader.warned \in BOOLEAN
  BY DEF ReaderType
<1>2. ring.first \in Nat /\ ring.next \in Nat /\ Held(ring) = ring.first .. (ring.next - 1)
  BY DEF Rings, Held
<1>3. /\ Held(ring) \subseteq Nat /\ events \subseteq Held(ring)
      /\ \A c \in events : c >= cursor
      /\ \A m \in events, c \in Held(ring) : cursor <= c /\ c <= m => c \in events
  BY <1>1, SelectedIsPrefix
<1>4. events # {} => Max(events) \in events /\ \A c \in events : c <= Max(events)
  <2> HIDE DEF events
  <2>1. QED
    BY <1>2, <1>3, MaxHeld
<1>5. reader' = [cursor |-> IF Follow = "next" THEN ring.next
                            ELSE IF events = {} THEN cursor ELSE Max(events) + 1,
                 seen |-> reader.seen \cup events,
                 warned |-> reader.warned \/ cursor < ring.first]
  BY DEF ReadPage
<1> HIDE DEF events, cursor
<1>6. events # {} => Max(events) + 1 \in Nat
  BY <1>3, <1>4
<1>7. reader' \in ReaderType
  <2>1. (IF Follow = "next" THEN ring.next ELSE IF events = {} THEN cursor ELSE Max(events) + 1) \in Nat
    BY <1>1, <1>2, <1>6
  <2>2. reader.seen \cup events \subseteq Nat
    BY <1>1, <1>3
  <2>3. (reader.warned \/ cursor < ring.first) \in BOOLEAN
    OBVIOUS
  <2>4. QED
    BY <1>5, <2>1, <2>2, <2>3 DEF ReaderType
<1>8. ASSUME Follow = "last", ReaderMissesNothing, ~(reader'.warned),
             NEW c \in 0 .. (reader'.cursor - 1)
      PROVE  c \in reader'.seen
  <2>1. ~reader.warned /\ ~(cursor < ring.first)
    BY <1>5, <1>8
  <2>2. \A d \in 0 .. (cursor - 1) : d \in reader.seen
    BY <1>8, <2>1 DEF ReaderMissesNothing, cursor
  <2>3. reader'.seen = reader.seen \cup events
    BY <1>5
  <2>4. CASE events = {}
    <3>1. reader'.cursor = cursor
      BY <1>5, <1>8, <2>4
    <3>2. QED
      BY <1>8, <2>2, <2>3, <3>1
  <2>5. CASE events # {}
    <3>1. reader'.cursor = Max(events) + 1
      BY <1>5, <1>8, <2>5
    <3>2. Max(events) \in events /\ Max(events) \in Nat /\ Max(events) <= ring.next - 1
      BY <1>2, <1>3, <1>4, <2>5
    <3>3. c \in Nat /\ c <= Max(events)
      BY <1>8, <3>1, <3>2
    <3>4. CASE c < cursor
      <4>1. c \in 0 .. (cursor - 1)
        BY <1>1, <3>3, <3>4
      <4>2. QED
        BY <2>2, <2>3, <4>1
    <3>5. CASE cursor <= c
      <4>1. c \in Held(ring)
        BY <1>1, <1>2, <2>1, <3>2, <3>3, <3>5
      <4>2. c \in events
        BY <1>3, <3>2, <3>3, <3>5, <4>1
      <4>3. QED
        BY <2>3, <4>2
    <3>6. QED
      BY <1>1, <3>3, <3>4, <3>5
  <2>6. QED
    BY <2>4, <2>5
<1>9. QED
  BY <1>7, <1>8 DEF ReaderMissesNothing

LEMMA ReadEventsKeeps ==
  ASSUME Typed, ReadEvents
  PROVE  /\ reader' \in ReaderType
         /\ Follow = "last" /\ ReaderMissesNothing => ReaderMissesNothing'
<1>1. reader \in ReaderType /\ record.ring \in Rings /\ durable \in Rings
  BY DEF Typed, AroundTyped, RecordType
<1>2. CASE ReadPage(MemoryPage(record.ring, reader.cursor))
  <2> DEFINE page == MemoryPage(record.ring, reader.cursor)
  <2>1. /\ page.events = Selected(record.ring, reader.cursor) /\ page.next = record.ring.next
        /\ page.gap = (reader.cursor < record.ring.first)
    BY DEF MemoryPage, Page
  <2> HIDE DEF page
  <2>2. ReadPage(page)
    BY <1>2 DEF page
  <2>3. QED
    BY <1>1, <2>1, <2>2, ReadingKeeps
<1>3. CASE ReadPage(DurablePage(durable, reader.cursor))
  <2> DEFINE page == DurablePage(durable, reader.cursor)
  <2>1. /\ page.events = Selected(durable, reader.cursor) /\ page.next = durable.next
        /\ page.gap = (reader.cursor < durable.first)
    BY DEF DurablePage, Page
  <2> HIDE DEF page
  <2>2. ReadPage(page)
    BY <1>3 DEF page
  <2>3. QED
    BY <1>1, <2>1, <2>2, ReadingKeeps
<1>4. QED
  BY <1>2, <1>3 DEF ReadEvents

LEMMA AroundStaysTyped ==
  ASSUME Typed, Evict \/ Capture \/ Damage \/ ReadEvents
  PROVE  Typed'
<1>1. plan' \in Plans /\ WorkerTyped' /\ TaskTyped' /\ SignalsTyped' /\ durable' \in Rings
  BY DEF Evict, Capture, Damage, ReadEvents, AroundUnchanged, workerVars, taskVars, timerVars, Typed,
     WorkerTyped, TaskTyped, SignalsTyped, AroundTyped
<1>2. CASE Evict
  <2>1. record' \in RecordType /\ record'.ring = record.ring
    BY <1>2 DEF Evict, Typed, AroundTyped, RecordType, Verdicts
  <2>2. QED
    BY <1>1, <1>2, <2>1 DEF Evict, Typed, AroundTyped
<1>3. CASE Capture \/ Damage
  <2>1. witness' \subseteq RowType
    BY <1>3, CaptureTyped DEF Capture, Damage, Typed, AroundTyped
  <2>2. QED
    BY <1>1, <1>3, <2>1 DEF Capture, Damage, Typed, AroundTyped
<1>4. CASE ReadEvents
  <2>1. reader' \in ReaderType
    BY <1>4, ReadEventsKeeps
  <2>2. QED
    BY <1>1, <1>4, <2>1 DEF ReadEvents, Typed, AroundTyped
<1>5. QED
  BY <1>2, <1>3, <1>4

LEMMA NextTyped ==
  ASSUME Typed, [Next]_vars
  PROVE  Typed'
<1>1. CASE UNCHANGED vars
  BY <1>1 DEF vars, workerVars, taskVars, timerVars, storeVars, Typed, WorkerTyped, TaskTyped,
     SignalsTyped, AroundTyped
<1>2. CASE Next
  BY <1>2, EngineTyped, SignalsStayTyped, WorkerStaysTyped, AroundStaysTyped DEF Next
<1>3. QED
  BY <1>1, <1>2

\* The typing invariant, with the fields of records.
THEOREM ExecutionTyped == Spec => []Typed
<1>1. QED
  BY InitTyped, NextTyped, PTL DEF Spec

\* Every variable has its type.
THEOREM TypeCorrect == Spec => []TypeOK
<1>1. Typed => TypeOK
  BY DEF Typed, WorkerTyped, TaskTyped, SignalsTyped, AroundTyped, TypeOK, WorkerPCs, TaskPCs, Results,
     Outcomes, Docs, RecordType
<1>2. QED
  BY <1>1, ExecutionTyped, PTL

\* A reader that goes on from the last event it was given sees every event or is warned.
THEOREM ReaderComplete ==
  ASSUME Follow = "last"
  PROVE  Spec => []ReaderMissesNothing
<1>1. ASSUME Typed, ReaderMissesNothing, [Next]_vars
      PROVE  ReaderMissesNothing'
  <2>1. CASE ReadEvents
    BY <1>1, <2>1, ReadEventsKeeps
  <2>2. CASE UNCHANGED reader
    BY <1>1, <2>2 DEF ReaderMissesNothing
  <2>3. [Next]_vars => ReadEvents \/ UNCHANGED reader
    BY DEF vars, Next, Engine, EngineUnchanged, RequestCancel, NotifyCancel, Timer, LimitPasses,
       Expire, NotifyTimeout, CompletionReceived, TimerUnchanged, Worker, WorkerUnchanged, Evict,
       Capture, Damage
  <2>4. QED
    BY <1>1, <2>1, <2>2, <2>3
<1>2. Init => ReaderMissesNothing
  BY DEF Init, ReaderMissesNothing
<1>3. QED
  BY <1>1, <1>2, ExecutionTyped, PTL DEF Spec

-----------------------------------------------------------------------------
(* The worker and the engine's task *)

\* From here on the engine's task has ended.
Gathering == {"completing", "joiningTimer", "exporting", "checking", "settling"}

\* What the worker has read is what the engine left.
Final ==
  /\ task = "ended"
  /\ taken.written = written /\ taken.document = document /\ taken.nodes = started

FinalInv ==
  /\ worker = "begin" => task = "none"
  /\ worker \in Gathering => task = "ended"
  /\ worker \in {"checking", "settling"} \/ Settled => Final
  /\ worker \notin {"report", "done"} => record.persistence = "volatile" /\ record.status = "running"

\* What a step of the engine may do.
LEMMA EngineActs ==
  ASSUME Engine
  PROVE  /\ task \notin {"none", "ended"} /\ task' # "none"
         /\ task' = "ended" => ended' # "none" /\ (ended' = "ok" => written' = Len(plan.chain))
         /\ task' # "ended" => ended' = ended
         /\ cancelled /\ task \in {"listening", "answered"} =>
              task' \in {"answered", "ended"} /\ written' = written
         /\ EngineUnchanged /\ woken' = woken
<1> USE DEF Ends, GoTo
<1>1. CASE Begin \/ Finish \/ Stopped \/ TooMany
  BY <1>1 DEF Engine, Begin, Finish, Stopped, TooMany
<1>2. CASE StartCall \/ EnterCall \/ TestFlag \/ Listen
  BY <1>2 DEF Engine, StartCall, EnterCall, TestFlag, Listen
<1>3. CASE WakeCall \/ CheckAgain \/ EndCall \/ AbortLands \/ ProviderAnswers
  BY <1>3 DEF Engine, WakeCall, CheckAgain, EndCall, AbortLands, ProviderAnswers
<1>4. CASE WriteOutput
  BY <1>4 DEF Engine, WriteOutput
<1>5. QED
  BY <1>1, <1>2, <1>3, <1>4 DEF Engine, EngineStep

LEMMA EngineFinal ==
  ASSUME FinalInv, Engine
  PROVE  FinalInv'
BY EngineActs DEF FinalInv, Final, Settled, Gathering, EngineUnchanged, workerVars

\* Steps that leave the worker, the task and the record's ring and verdict alone.
LEMMA OthersFinal ==
  ASSUME FinalInv, RequestCancel \/ NotifyCancel \/ Timer \/ Capture \/ Damage \/ ReadEvents
  PROVE  FinalInv'
<1>1. UNCHANGED <<worker, task, taken, written, document, started, record>>
  BY DEF RequestCancel, NotifyCancel, Timer, LimitPasses, Expire, NotifyTimeout, CompletionReceived,
     TimerUnchanged, Capture, Damage, ReadEvents, AroundUnchanged, workerVars, taskVars
<1>2. QED
  BY <1>1 DEF FinalInv, Final, Settled

LEMMA EvictFinal ==
  ASSUME Typed, FinalInv, Evict
  PROVE  FinalInv'
<1>1. UNCHANGED <<worker, task, taken, written, document, started>> /\ record.status # "running"
  BY DEF Evict, AroundUnchanged, workerVars, taskVars, Terminal
<1>2. record'.persistence = record.persistence
  BY DEF Evict, Typed, AroundTyped, RecordType
<1>3. QED
  BY <1>1, <1>2 DEF FinalInv, Final, Settled

LEMMA WorkerFinal ==
  ASSUME Typed, FinalInv, Worker
  PROVE  FinalInv'
<1> USE DEF FinalInv, Final, Settled, Gathering, WorkerAt
<1>1. UNCHANGED <<written, document, started, ended>> /\ WorkerStep
  BY DEF Worker, WorkerUnchanged
<1>2. CASE WriteError
  <2>1. record'.persistence = "volatile"
    BY <1>2 DEF WriteError, Typed, AroundTyped, RecordType
  <2>2. QED
    BY <1>1, <1>2, <2>1 DEF WriteError
<1>3. CASE Start \/ ArmTimer \/ Await \/ Joined
  BY <1>1, <1>3 DEF Start, ArmTimer, Await, Joined
<1>4. CASE StopEngine \/ WakeProvider \/ Abort \/ AwaitAborted \/ SendComplete \/ JoinTimer
  BY <1>1, <1>4 DEF StopEngine, WakeProvider, Abort, AwaitAborted, SendComplete, JoinTimer
<1>5. CASE CompileFails \/ Export
  BY <1>1, <1>5 DEF CompileFails, Export, GiveUp
<1>6. CASE CheckEvidence \/ Settle \/ Report
  BY <1>1, <1>6 DEF CheckEvidence, Settle, Report
<1>7. QED
  BY <1>1, <1>2, <1>3, <1>4, <1>5, <1>6 DEF WorkerStep

LEMMA FinalNext ==
  ASSUME Typed, FinalInv, [Next]_vars
  PROVE  FinalInv'
<1>1. CASE UNCHANGED vars
  BY <1>1 DEF vars, workerVars, taskVars, FinalInv, Final, Settled
<1>2. CASE Next
  BY <1>2, EngineFinal, OthersFinal, EvictFinal, WorkerFinal DEF Next
<1>3. QED
  BY <1>1, <1>2

LEMMA InitFinal == Init => FinalInv
BY DEF Init, FinalInv, Gathering, Settled, EmptyRing

\* What a run reports is what its engine left, and nothing can change it any more.
THEOREM ReportedFinal == Spec => []ReportedStateIsFinal
<1>1. FinalInv => ReportedStateIsFinal
  BY DEF FinalInv, Final, ReportedStateIsFinal
<1>2. QED
  BY <1>1, InitFinal, FinalNext, ExecutionTyped, PTL DEF Spec

-----------------------------------------------------------------------------
(* A cancellation that was heard *)

HeardInv ==
  /\ "cancel" \in heard => cancelled /\ task \in {"listening", "answered", "ended"}
  /\ "cancel" \in heard /\ task = "listening" => woken
  /\ canceller = "idle" <=> ~cancelled

LEMMA HeardNext ==
  ASSUME Typed, FinalInv, HeardInv, [Next]_vars
  PROVE  HeardInv' /\ ("cancel" \in heard => written' = written)
<1> USE DEF HeardInv
<1>1. CASE UNCHANGED vars
  BY <1>1 DEF vars, taskVars
<1>2. CASE Engine
  BY <1>2, EngineActs DEF EngineUnchanged
<1>3. CASE RequestCancel
  BY <1>3 DEF RequestCancel, taskVars
<1>4. CASE NotifyCancel
  BY <1>4 DEF NotifyCancel, NotifyCall, taskVars
<1>5. CASE Timer
  BY <1>5 DEF Timer, LimitPasses, Expire, NotifyTimeout, CompletionReceived, TimerUnchanged, taskVars
<1>6. CASE Evict \/ Capture \/ Damage \/ ReadEvents
  BY <1>6 DEF Evict, Capture, Damage, ReadEvents, AroundUnchanged, taskVars
<1>7. CASE Worker
  <2>1. UNCHANGED <<written, cancelled, canceller, heard>> /\ WorkerStep
    BY <1>7 DEF Worker, WorkerUnchanged
  <2>2. CASE Start
    BY <2>1, <2>2 DEF Start, WorkerAt, FinalInv
  <2>3. CASE WakeProvider
    BY <2>1, <2>3 DEF WakeProvider, NotifyCall
  <2>4. CASE ~Start /\ ~WakeProvider
    <3>1. UNCHANGED <<task, woken>>
      BY <2>1, <2>4 DEF WorkerStep, CompileFails, GiveUp, ArmTimer, Await, Joined, StopEngine, Abort,
         AwaitAborted, SendComplete, JoinTimer, Export, CheckEvidence, Settle, WriteError, Report
    <3>2. QED
      BY <2>1, <3>1
  <2>5. QED
    BY <2>2, <2>3, <2>4
<1>8. QED
  BY <1>1, <1>2, <1>3, <1>4, <1>5, <1>6, <1>7 DEF Next

\* After a cancellation that was heard no call writes, also when the answer came too.
THEOREM HeardWritesNothing == Spec => HeardCancelWritesNothing
<1>1. Init => HeardInv
  BY DEF Init, HeardInv
<1>2. Typed /\ FinalInv /\ HeardInv /\ [Next]_vars => [("cancel" \in heard) => written' = written]_vars
  BY HeardNext
<1>3. QED
  BY <1>1, <1>2, HeardNext, InitFinal, FinalNext, ExecutionTyped, PTL DEF Spec, HeardCancelWritesNothing

-----------------------------------------------------------------------------
(* The verdict *)

\* The worker's result is what the task ended with, or the wall-clock limit was heard,
\* which only a run with such a limit does, after its timer said so.
VerdictInv ==
  /\ task = "ended" => ended # "none" /\ (ended = "ok" => written = Len(plan.chain))
  /\ task # "ended" => ended = "none"
  /\ worker \in Gathering => result = ended \/ (result = "budget" /\ "clock" \in heard)
  /\ worker \in {"notifying", "aborting", "joining"} => "clock" \in heard
  /\ "clock" \in heard => timedOut
  /\ timer = "expired" => timedOut
  /\ timer # "off" \/ worker = "arming" \/ "clock" \in heard => plan.clock

LEMMA EngineVerdict ==
  ASSUME VerdictInv, FinalInv, Engine
  PROVE  VerdictInv'
BY EngineActs DEF VerdictInv, FinalInv, EngineUnchanged, workerVars, timerVars

LEMMA AroundVerdict ==
  ASSUME VerdictInv, RequestCancel \/ NotifyCancel \/ Evict \/ Capture \/ Damage \/ ReadEvents
  PROVE  VerdictInv'
<1>1. /\ UNCHANGED <<plan, workerVars, taskVars, timerVars>>
      /\ "clock" \in heard' <=> "clock" \in heard
  BY DEF RequestCancel, NotifyCancel, Evict, Capture, Damage, ReadEvents, AroundUnchanged
<1>2. QED
  BY <1>1 DEF VerdictInv, workerVars, taskVars, timerVars

LEMMA TimerVerdict ==
  ASSUME VerdictInv, Timer
  PROVE  VerdictInv'
<1> USE DEF TimerUnchanged, workerVars, taskVars, VerdictInv
<1>1. CASE LimitPasses \/ CompletionReceived
  BY <1>1 DEF LimitPasses, CompletionReceived
<1>2. CASE Expire \/ NotifyTimeout
  BY <1>2 DEF Expire, NotifyTimeout
<1>3. QED
  BY <1>1, <1>2 DEF Timer

LEMMA WorkerVerdict ==
  ASSUME Typed, FinalInv, VerdictInv, Worker
  PROVE  VerdictInv'
<1> USE DEF VerdictInv, Gathering, WorkerAt
<1>1. UNCHANGED <<plan, written, ended, timedOut, heard>> /\ WorkerStep
  BY DEF Worker, WorkerUnchanged
<1>2. CASE Start
  BY <1>1, <1>2 DEF Start, FinalInv
<1>3. CASE ArmTimer \/ Await \/ Joined
  BY <1>1, <1>3 DEF ArmTimer, Await, Joined
<1>4. CASE StopEngine \/ WakeProvider \/ Abort \/ AwaitAborted \/ SendComplete \/ JoinTimer
  BY <1>1, <1>4 DEF StopEngine, WakeProvider, Abort, AwaitAborted, SendComplete, JoinTimer
<1>5. CASE CompileFails \/ Export \/ CheckEvidence \/ Settle \/ WriteError \/ Report
  BY <1>1, <1>5 DEF CompileFails, GiveUp, Export, CheckEvidence, Settle, WriteError, Report
<1>6. QED
  BY <1>1, <1>2, <1>3, <1>4, <1>5 DEF WorkerStep

LEMMA VerdictNext ==
  ASSUME Typed, FinalInv, VerdictInv, [Next]_vars
  PROVE  VerdictInv'
<1>1. CASE UNCHANGED vars
  BY <1>1 DEF vars, workerVars, taskVars, timerVars, VerdictInv
<1>2. CASE Next
  BY <1>2, EngineVerdict, AroundVerdict, TimerVerdict, WorkerVerdict DEF Next
<1>3. QED
  BY <1>1, <1>2

\* The last update of the record, from what the worker has read.
LEMMA SettleVerdict ==
  ASSUME Typed, FinalInv, HeardInv, VerdictInv, Settle, WorkerUnchanged
  PROVE  VerdictIsTrue'
<1>1. /\ worker = "settling" /\ Final /\ worker' = "report"
      /\ ended # "none" /\ (ended = "ok" => written = Len(plan.chain))
      /\ result = ended \/ (result = "budget" /\ "clock" \in heard)
      /\ UNCHANGED <<plan, written, started, ended, taken, cancelled, canceller, heard>>
  BY DEF Settle, WorkerAt, WorkerUnchanged, FinalInv, Final, VerdictInv, Gathering
<1>2. "clock" \in heard => WallExhausted
  BY DEF VerdictInv, WallExhausted
<1>3. /\ record'.status = terminal_outcome /\ record'.budget = BudgetExhausted
      /\ record'.error = (IF cancelled THEN "none" ELSE Error)
      /\ record'.written = taken.written
  BY DEF Settle
<1>4. plan.nodes \in Nat /\ taken.nodes \in Nat /\ written \in Nat
  BY PlanTyped DEF Typed, WorkerTyped, TakenType, TaskTyped
<1>5. CompletedIsWhole'
  <2>1. SUFFICES ASSUME terminal_outcome = "completed"
                 PROVE  /\ taken.written = Len(plan.chain)
                        /\ "clock" \notin heard /\ ~cancelled
                        /\ plan.nodes # 0 => taken.nodes <= plan.nodes
    BY <1>1, <1>3 DEF CompletedIsWhole
  <2>2. ~cancelled /\ Error = "none"
    BY <2>1 DEF terminal_outcome
  <2>3. BudgetExhausted = "none"
    BY <2>2 DEF Error
  <2>4. ~WallExhausted /\ ~NodesExhausted
    BY <2>3 DEF BudgetExhausted
  <2>5. result = "ok"
    BY <1>1, <2>2, <2>3 DEF Error
  <2>6. plan.nodes # 0 => taken.nodes <= plan.nodes
    BY <1>4, <2>4 DEF NodesExhausted
  <2>7. QED
    BY <1>1, <1>2, <2>2, <2>4, <2>5, <2>6 DEF Final
<1>6. CancelledWasRequested'
  BY <1>1, <1>3 DEF CancelledWasRequested, terminal_outcome, HeardInv
<1>7. LimitIsNamed'
  <2>1. "clock" \in heard => BudgetExhausted = "clock"
    BY <1>2 DEF BudgetExhausted
  <2>2. ASSUME plan.nodes # 0, ended = "iterations", started = written, plan.nodes <= written,
               terminal_outcome = "failed"
        PROVE  record'.error = "budget"
    <3>1. ~cancelled
      BY <2>2 DEF terminal_outcome
    <3>2. CASE result = "budget"
      BY <1>1, <1>3, <2>1, <2>2, <3>1, <3>2 DEF Error
    <3>3. CASE result = ended
      <4>1. NodesExhausted
        BY <1>1, <1>4, <2>2, <3>3 DEF NodesExhausted, iteration_error, Final
      <4>2. BudgetExhausted # "none"
        BY <4>1 DEF BudgetExhausted
      <4>3. QED
        BY <1>3, <3>1, <4>2 DEF Error
    <3>4. QED
      BY <1>1, <3>2, <3>3
  <2>3. QED
    BY <1>1, <1>3, <2>1, <2>2 DEF LimitIsNamed, Settled
<1>8. QED
  BY <1>5, <1>6, <1>7 DEF VerdictIsTrue

\* A record without events is not settled; what was settled stays as it is.
LEMMA VerdictStays ==
  ASSUME VerdictIsTrue, FinalInv, VerdictInv,
         UNCHANGED <<plan, record, taken>>, ~Settled' \/ UNCHANGED <<written, started, ended>>,
         Settled' => Settled,
         record.status # "running" => cancelled' = cancelled,
         worker \in {"report", "done"} => ("clock" \in heard' <=> "clock" \in heard),
         canceller = "idle" \/ canceller' # "idle"
  PROVE  VerdictIsTrue'
<1>1. record.status \in {"completed", "cancelled"} => worker \in {"report", "done"}
  BY DEF FinalInv
<1>2. CompletedIsWhole'
  BY <1>1 DEF VerdictIsTrue, CompletedIsWhole
<1>3. CancelledWasRequested'
  BY DEF VerdictIsTrue, CancelledWasRequested
<1>4. LimitIsNamed'
  BY DEF VerdictIsTrue, LimitIsNamed, Settled
<1>5. QED
  BY <1>2, <1>3, <1>4 DEF VerdictIsTrue

LEMMA VerdictTrueNext ==
  ASSUME Typed, FinalInv, HeardInv, VerdictInv, VerdictIsTrue, [Next]_vars
  PROVE  VerdictIsTrue'
<1>1. CASE UNCHANGED vars
  BY <1>1 DEF vars, workerVars, taskVars, VerdictIsTrue, CompletedIsWhole, CancelledWasRequested,
     LimitIsNamed, Settled
<1>2. CASE Engine
  <2>1. ~Settled
    BY <1>2, EngineActs DEF FinalInv, Final
  <2>2. UNCHANGED <<plan, worker, record, taken, cancelled, canceller, heard>>
    BY <1>2, EngineActs DEF EngineUnchanged, workerVars
  <2>3. QED
    BY <2>1, <2>2, VerdictStays DEF Settled
<1>3. CASE RequestCancel \/ NotifyCancel \/ Timer \/ Capture \/ Damage \/ ReadEvents
  <2>1. UNCHANGED <<plan, worker, record, taken, written, started, ended>>
    BY <1>3 DEF RequestCancel, NotifyCancel, Timer, LimitPasses, Expire, NotifyTimeout,
       CompletionReceived, TimerUnchanged, Capture, Damage, ReadEvents, AroundUnchanged, workerVars,
       taskVars
  <2>2. /\ record.status # "running" => cancelled' = cancelled
        /\ worker \in {"report", "done"} => ("clock" \in heard' <=> "clock" \in heard)
        /\ canceller = "idle" \/ canceller' # "idle"
    BY <1>3 DEF RequestCancel, NotifyCancel, Timer, LimitPasses, Expire, NotifyTimeout,
       CompletionReceived, TimerUnchanged, Capture, Damage, ReadEvents, AroundUnchanged
  <2>3. QED
    BY <2>1, <2>2, VerdictStays DEF Settled
<1>4. CASE Evict
  <2>1. UNCHANGED <<plan, worker, taken, written, started, ended, cancelled, canceller, heard>>
    BY <1>4 DEF Evict, AroundUnchanged, workerVars, taskVars
  <2>2. /\ record'.status = "evicted" /\ record'.persistence = record.persistence
        /\ record'.budget = record.budget
    BY <1>4 DEF Evict, Typed, AroundTyped, RecordType
  <2>3. QED
    BY <2>1, <2>2 DEF VerdictIsTrue, CompletedIsWhole, CancelledWasRequested, LimitIsNamed, Settled
<1>5. CASE Worker
  <2>1. WorkerStep /\ WorkerUnchanged
    BY <1>5 DEF Worker
  <2>2. UNCHANGED <<plan, written, started, ended, cancelled, canceller, heard>>
    BY <2>1 DEF WorkerUnchanged
  <2>3. CASE Settle
    BY <2>1, <2>3, SettleVerdict
  <2>4. CASE WriteError
    <3>1. record'.status = "failed" /\ record'.persistence = "volatile"
      BY <2>4 DEF WriteError, WorkerAt, FinalInv, Typed, AroundTyped, RecordType
    <3>2. QED
      BY <3>1 DEF VerdictIsTrue, CompletedIsWhole, CancelledWasRequested, LimitIsNamed, Settled
  <2>5. CASE CompileFails \/ Export
    <3>1. record' = record /\ worker \in {"begin", "exporting"} /\ worker' \in {"erring", "checking"}
      BY <2>5 DEF CompileFails, Export, GiveUp, WorkerAt
    <3>2. QED
      BY <2>2, <3>1 DEF FinalInv, VerdictIsTrue, CompletedIsWhole, CancelledWasRequested,
         LimitIsNamed, Settled
  <2>6. CASE Start \/ ArmTimer \/ Await \/ Joined \/ StopEngine \/ WakeProvider \/ Abort
    <3>1. UNCHANGED <<record, taken>> /\ ~Settled'
      BY <2>6 DEF Start, ArmTimer, Await, Joined, StopEngine, WakeProvider, Abort, WorkerAt, Settled
    <3>2. QED
      BY <2>2, <3>1, VerdictStays
  <2>7. CASE AwaitAborted \/ SendComplete \/ JoinTimer \/ CheckEvidence
    <3>1. UNCHANGED <<record, taken>> /\ ~Settled'
      BY <2>7 DEF AwaitAborted, SendComplete, JoinTimer, CheckEvidence, WorkerAt, Settled
    <3>2. QED
      BY <2>2, <3>1, VerdictStays
  <2>8. CASE Report
    <3>1. UNCHANGED <<record, taken>> /\ (Settled' => Settled)
      BY <2>8 DEF Report, WorkerAt, Settled
    <3>2. QED
      BY <2>2, <3>1, VerdictStays
  <2>9. QED
    BY <2>1, <2>3, <2>4, <2>5, <2>6, <2>7, <2>8 DEF WorkerStep
<1>6. QED
  BY <1>1, <1>2, <1>3, <1>4, <1>5 DEF Next

\* The verdict of a run agrees with how its execution went.
THEOREM VerdictTrue == Spec => []VerdictIsTrue
<1>1. Init => HeardInv /\ VerdictInv /\ VerdictIsTrue
  BY DEF Init, HeardInv, VerdictInv, Gathering, VerdictIsTrue, CompletedIsWhole,
     CancelledWasRequested, LimitIsNamed, Settled
<1>2. QED
  BY <1>1, HeardNext, VerdictNext, VerdictTrueNext, InitFinal, FinalNext, ExecutionTyped, PTL DEF Spec

-----------------------------------------------------------------------------
(* Complete envelopes *)

\* Every claim of a document is bound to a span of a text that was captured.
Bound(doc) ==
  \A b \in witness_bindings(doc) : \E c \in Captured : b.id = Tag(c) /\ InRange(b.span, c.content)

EnvelopeInv ==
  /\ worker \notin {"settling", "report", "done"} => evidence # "complete"
  /\ evidence = "complete" => Bound(taken.document)
  /\ record.envelopes => Bound(record.document)

\* A binding without an error has a verified row, whose text holds its span.
LEMMA BindingIsBound ==
  ASSUME witness \subseteq RowType, NEW id, NEW span, BindingError(witness, id, span) = Absent
  PROVE  \E c \in Captured : id = Tag(c) /\ InRange(span, c.content)
<1>1. get_witness(witness, id) = Absent
  BY DEF BindingError
<1>2. Rows(witness, id) # {} /\ \A r \in Rows(witness, id) : verify_witness_record(r)
  BY <1>1 DEF get_witness, Absent
<1>3. \A r \in Rows(witness, id) : InRange(span, r.capture.content)
  BY <1>1 DEF BindingError, Absent
<1>4. PICK r \in Rows(witness, id) : TRUE
  BY <1>2
<1>5. r \in witness /\ r.id = id /\ r.capture \in Captures /\ r.id = Tag(r.capture)
  BY <1>2, <1>4 DEF Rows, RowType, verify_witness_record
<1>6. QED
  BY <1>3, <1>4, <1>5 DEF Captured

\* What was captured stays so: rows are added, and keep their ids.
LEMMA CapturedStays ==
  ASSUME Typed, [Next]_vars
  PROVE  Captured \subseteq Captured' /\ \A doc : Bound(doc) => Bound(doc)'
<1>1. \A r \in witness : \E q \in witness' : q.id = r.id
  <2>1. CASE witness' = witness
    BY <2>1
  <2>2. CASE Capture
    <3>1. witness \subseteq witness'
      BY <2>2 DEF Capture, capture_witness
    <3>2. QED
      BY <3>1
  <2>3. CASE Damage
    <3>1. PICK d \in witness, c \in Captures : witness' = (witness \ {d}) \cup {[d EXCEPT !.capture = c]}
      BY <2>3 DEF Damage
    <3>2. [d EXCEPT !.capture = c].id = d.id
      BY DEF Typed, AroundTyped, RowType
    <3>3. QED
      BY <3>1, <3>2
  <2>4. CASE Engine \/ RequestCancel \/ NotifyCancel \/ Timer \/ Worker \/ Evict \/ ReadEvents
             \/ UNCHANGED vars
    <3>1. witness' = witness
      BY <2>4 DEF Engine, EngineUnchanged, RequestCancel, NotifyCancel, Timer, LimitPasses, Expire,
         NotifyTimeout, CompletionReceived, TimerUnchanged, Worker, WorkerUnchanged, Evict, ReadEvents,
         storeVars, vars
    <3>2. QED
      BY <3>1
  <2>5. QED
    BY <2>2, <2>3, <2>4 DEF Next
<1>2. Captured \subseteq Captured'
  BY <1>1 DEF Captured
<1>3. QED
  BY <1>2 DEF Bound

LEMMA CompleteIsBound ==
  ASSUME witness \subseteq RowType, "complete" \in EvidenceOutcomes
  PROVE  Bound(taken.document)
<1>1. \A id, span : BindingError(witness, id, span) # "complete"
  BY DEF BindingError, get_witness, Absent
<1>2. /\ validate_witness_dependencies(taken.document, witness) = {}
      \/ "complete" \in validate_witness_dependencies(taken.document, witness)
  BY DEF EvidenceOutcomes
<1>3. "complete" \notin validate_witness_dependencies(taken.document, witness)
  BY <1>1 DEF validate_witness_dependencies
<1>4. \A b \in witness_bindings(taken.document) : BindingError(witness, b.id, b.span) = Absent
  BY <1>2, <1>3 DEF validate_witness_dependencies
<1>5. QED
  BY <1>4, BindingIsBound DEF Bound

LEMMA EnvelopeNext ==
  ASSUME Typed, EnvelopeInv, [Next]_vars
  PROVE  EnvelopeInv'
<1> USE DEF EnvelopeInv
<1>0. Captured \subseteq Captured'
  BY CapturedStays
<1>1. ASSUME UNCHANGED <<worker, evidence, taken, record>> PROVE EnvelopeInv'
  BY <1>0, <1>1 DEF Bound
<1>2. CASE UNCHANGED vars
  BY <1>1, <1>2 DEF vars, workerVars
<1>3. CASE Engine \/ RequestCancel \/ NotifyCancel \/ Timer \/ Capture \/ Damage \/ ReadEvents
  BY <1>1, <1>3 DEF Engine, EngineUnchanged, RequestCancel, NotifyCancel, Timer, LimitPasses, Expire,
     NotifyTimeout, CompletionReceived, TimerUnchanged, Capture, Damage, ReadEvents, AroundUnchanged,
     workerVars
<1>4. ASSUME UNCHANGED <<worker, evidence, taken>> \/ (worker' = "report" /\ UNCHANGED <<evidence, taken>>),
             record'.envelopes = record.envelopes, record'.document = record.document
      PROVE  EnvelopeInv'
  BY <1>0, <1>4 DEF Bound
<1>5. CASE Evict
  <2>1. record'.envelopes = record.envelopes /\ record'.document = record.document
    BY <1>5 DEF Evict, Typed, AroundTyped, RecordType
  <2>2. QED
    BY <1>4, <1>5, <2>1 DEF Evict, AroundUnchanged, workerVars
<1>6. CASE WriteError
  <2>1. record'.envelopes = record.envelopes /\ record'.document = record.document
    BY <1>6 DEF WriteError, Typed, AroundTyped, RecordType
  <2>2. QED
    BY <1>4, <1>6, <2>1 DEF WriteError, WorkerAt
<1>7. CASE CheckEvidence
  <2>1. evidence' = "complete" => Bound(taken.document)
    BY <1>7, CompleteIsBound DEF CheckEvidence, Typed, AroundTyped
  <2>2. QED
    BY <1>0, <1>7, <2>1 DEF CheckEvidence, WorkerAt, Bound
<1>8. CASE Settle
  <2>1. record'.document = taken.document /\ record'.envelopes = (evidence = "complete")
    BY <1>8 DEF Settle
  <2>2. record'.envelopes => Bound(record'.document)
    BY <2>1
  <2>3. QED
    BY <1>0, <1>8, <2>2 DEF Settle, WorkerAt, Bound
<1>9. CASE CompileFails \/ Export
  BY <1>0, <1>9 DEF Bound, CompileFails, Export, GiveUp, WorkerAt
<1>10. CASE Start \/ ArmTimer \/ Await \/ Joined \/ StopEngine \/ WakeProvider \/ Abort
  BY <1>0, <1>10 DEF Bound, Start, ArmTimer, Await, Joined, StopEngine, WakeProvider, Abort, WorkerAt
<1>11. CASE AwaitAborted \/ SendComplete \/ JoinTimer \/ Report
  BY <1>0, <1>11 DEF Bound, AwaitAborted, SendComplete, JoinTimer, Report, WorkerAt
<1>12. CASE Worker
  BY <1>6, <1>7, <1>8, <1>9, <1>10, <1>11, <1>12 DEF Worker, WorkerStep
<1>13. QED
  BY <1>2, <1>3, <1>5, <1>12 DEF Next

\* Envelopes are reported as complete only when every claim is bound to a text that had been
\* captured by then.
THEOREM EnvelopesCaptured == Spec => []EnvelopesAreCaptured
<1>1. Init => EnvelopeInv
  BY DEF Init, EnvelopeInv
<1>2. EnvelopeInv => EnvelopesAreCaptured
  BY DEF EnvelopeInv, EnvelopesAreCaptured, Bound
<1>3. QED
  BY <1>1, <1>2, EnvelopeNext, ExecutionTyped, PTL DEF Spec

-----------------------------------------------------------------------------
(* An execution is a worker thread of the server *)

\* The timer of a run with a limit has been told before the worker goes on: what it
\* decides from does not change any more.
ToldInv ==
  worker \in {"joiningTimer", "exporting", "checking", "settling"} /\ plan.clock => complete

LEMMA ToldNext ==
  ASSUME ToldInv, VerdictInv, [Next]_vars
  PROVE  ToldInv'
<1>1. CASE UNCHANGED vars
  BY <1>1 DEF vars, workerVars, timerVars, ToldInv
<1>2. CASE Engine \/ RequestCancel \/ NotifyCancel \/ Evict \/ Capture \/ Damage \/ ReadEvents
  BY <1>2 DEF Engine, EngineUnchanged, RequestCancel, NotifyCancel, Evict, Capture, Damage, ReadEvents,
     AroundUnchanged, workerVars, timerVars, ToldInv
<1>3. CASE Timer
  BY <1>3 DEF Timer, LimitPasses, Expire, NotifyTimeout, CompletionReceived, TimerUnchanged,
     workerVars, ToldInv
<1>4. CASE Worker
  <2>1. plan' = plan /\ WorkerStep
    BY <1>4 DEF Worker, WorkerUnchanged
  <2>2. CASE SendComplete
    BY <2>2 DEF SendComplete, ToldInv
  <2>3. CASE CompileFails \/ Start \/ ArmTimer \/ Await \/ Joined \/ StopEngine \/ WakeProvider
    BY <2>1, <2>3 DEF CompileFails, GiveUp, Start, ArmTimer, Await, Joined, StopEngine, WakeProvider,
       WorkerAt, ToldInv
  <2>4. CASE Abort \/ AwaitAborted \/ JoinTimer \/ Export \/ CheckEvidence \/ Settle \/ WriteError \/ Report
    BY <2>1, <2>4 DEF Abort, AwaitAborted, JoinTimer, Export, GiveUp, CheckEvidence, Settle, WriteError,
       Report, WorkerAt, ToldInv
  <2>5. QED
    BY <2>1, <2>2, <2>3, <2>4 DEF WorkerStep
<1>5. QED
  BY <1>1, <1>2, <1>3, <1>4 DEF Next

ServedInv == Typed /\ FinalInv /\ HeardInv /\ VerdictInv /\ ToldInv

\* The registry's queue of one, after its record made room for another.
LEMMA DropOnly == ASSUME NEW x, NEW y PROVE Append(Server!DropAt(<<x>>, 1), y) = <<y>>
<1>1. Append(<< >>, y) = <<y>>
  OBVIOUS
<1>2. Server!DropAt(<<x>>, 1) = << >>
  BY DEF Server!DropAt
<1>3. QED
  BY <1>1, <1>2, Zenon

\* What RunServer sees of an execution.
LEMMA ViewStays ==
  ASSUME ServerStatus' = ServerStatus, Evicted' = Evicted, cancelled' = cancelled,
         ServerWorker' = ServerWorker, ServerOutcome' = ServerOutcome,
         record.persistence' = record.persistence
  PROVE  UNCHANGED Server!vars
BY DEF Server!vars, Server!registryVars, Server!clientVars, Server!workerVars, Server!storeVars,
   OfRun, OfStarter

\* Once the worker has what it decides from, nobody else changes it.
LEMMA ErrorStays ==
  ASSUME ToldInv, Typed, worker = "settling",
         Engine \/ RequestCancel \/ NotifyCancel \/ Timer \/ Capture \/ Damage \/ ReadEvents
  PROVE  Error' = Error
<1>1. UNCHANGED <<plan, result, taken, evidence>> /\ (plan.clock => timedOut' = timedOut)
  BY DEF ToldInv, Engine, EngineUnchanged, RequestCancel, NotifyCancel, Timer, LimitPasses, Expire,
     NotifyTimeout, CompletionReceived, TimerUnchanged, Capture, Damage, ReadEvents, AroundUnchanged,
     workerVars, timerVars
<1>2. BudgetExhausted' = BudgetExhausted
  <2>1. WallExhausted' = WallExhausted
    BY <1>1 DEF WallExhausted
  <2>2. NodesExhausted' = NodesExhausted
    BY <1>1 DEF NodesExhausted, iteration_error
  <2>3. QED
    BY <2>1, <2>2 DEF BudgetExhausted
<1>3. QED
  BY <1>1, <1>2 DEF Error

\* The engine, the timer, the witness store and readers are not seen by the server.
LEMMA OthersHidden ==
  ASSUME ServedInv, Engine \/ NotifyCancel \/ Timer \/ Capture \/ Damage \/ ReadEvents
  PROVE  UNCHANGED Server!vars
<1>1. UNCHANGED <<worker, record, cancelled>>
  BY DEF Engine, EngineUnchanged, NotifyCancel, Timer, LimitPasses, Expire, NotifyTimeout,
     CompletionReceived, TimerUnchanged, Capture, Damage, ReadEvents, AroundUnchanged, workerVars
<1>2. worker = "settling" => Error' = Error
  BY ErrorStays DEF ServedInv
<1>3. ServerOutcome' = ServerOutcome
  BY <1>1, <1>2 DEF ServerOutcome
<1>4. ServerStatus' = ServerStatus /\ Evicted' = Evicted /\ ServerWorker' = ServerWorker
  BY <1>1 DEF ServerStatus, Evicted, ServerWorker
<1>5. QED
  BY <1>1, <1>3, <1>4, ViewStays

\* cancel is RunServer's.
LEMMA CancelMaps ==
  ASSUME ServedInv, RequestCancel
  PROVE  Server!Cancel("caller", "run")
<1>1. /\ record.status = "running" /\ ~cancelled /\ cancelled'
      /\ UNCHANGED <<worker, record>>
  BY DEF RequestCancel, workerVars, ServedInv, HeardInv, Typed, SignalsTyped
<1>2. worker = "settling" => Error' = Error
  BY ErrorStays DEF ServedInv
<1>3. /\ ~Evicted /\ ~Evicted' /\ ServerStatus = "running" /\ ServerStatus' = "running"
      /\ ServerWorker' = ServerWorker /\ ServerOutcome' = ServerOutcome
  BY <1>1, <1>2 DEF ServerStatus, Evicted, ServerWorker, ServerOutcome
<1>4. QED
  BY <1>1, <1>3 DEF Server!Cancel, Server!RequestCancel, Server!CanCancel, Server!clientVars,
     Server!workerVars, Server!storeVars, OfRun, OfStarter, Runs, Clients

\* The record makes room for the run that another client allocates.
LEMMA EvictMaps ==
  ASSUME ServedInv, Evict
  PROVE  Server!Allocate("starter", "other", "async")
<1>1. /\ UNCHANGED <<worker, cancelled>> /\ worker \in {"report", "done"}
      /\ record.status \in Terminal
      /\ record'.status = "evicted" /\ record'.persistence = record.persistence
  BY DEF Evict, AroundUnchanged, workerVars, ServedInv, FinalInv, Terminal, Typed, AroundTyped, RecordType
<1>2. /\ ~Evicted /\ Evicted' /\ ServerStatus \in Terminal /\ ServerStatus' = "absent"
      /\ ServerWorker' = ServerWorker /\ ServerOutcome' = ServerOutcome
  BY <1>1 DEF ServerStatus, Evicted, Terminal, ServerWorker, ServerOutcome
<1>3. Server!InsertRecord("other")
  <2>1. ServerStatus \in Server!Terminal
    BY <1>2 DEF Terminal, Server!Terminal
  <2>2. Len(<<"run">>) = 1 /\ <<"run">>[1] = "run" /\ 1 \in 1 .. 1
    OBVIOUS
  <2>3. Append(Server!DropAt(<<"run">>, 1), "other") = <<"other">>
    BY DropOnly
  <2>4. OfRun(ServerStatus, "absent")["run"] = ServerStatus
    BY DEF OfRun, Runs
  <2>5. OfRun("absent", "accepted") =
          [OfRun(ServerStatus, "absent") EXCEPT !["run"] = "absent", !["other"] = "accepted"]
    BY DEF OfRun, Runs
  <2>6. QED
    BY <1>1, <1>2, <2>1, <2>2, <2>3, <2>4, <2>5 DEF Server!InsertRecord, Server!OldestTerminalAt
<1>4. UNCHANGED <<Server!workerVars, Server!storeVars>>
  BY <1>1, <1>2 DEF Server!workerVars, Server!storeVars, OfRun
<1>5. QED
  BY <1>1, <1>2, <1>3, <1>4
     DEF Server!Allocate, Server!workerVars, Server!storeVars, OfRun, OfStarter, Runs, Clients

\* The steps of a worker at its engine are one step for the server, its last.
LEMMA EngineMaps ==
  ASSUME ServedInv, record' = record, cancelled' = cancelled,
         worker \notin {"settling", "erring", "report", "done"}, worker' \notin {"report", "done"}
  PROVE  Server!EngineReturns("run") \/ UNCHANGED Server!vars
<1>1. /\ ~Evicted /\ ~Evicted' /\ ServerStatus' = ServerStatus
      /\ ServerWorker = "engine" /\ ServerOutcome = "none"
  BY DEF ServedInv, FinalInv, ServerStatus, Evicted, ServerWorker, ServerOutcome
<1>2. ServerOutcome' \in {"none", "ok", "error"}
  BY DEF ServerOutcome
<1>3. UNCHANGED <<Server!registryVars, Server!clientVars, Server!storeVars>>
  BY <1>1 DEF Server!registryVars, Server!clientVars, Server!storeVars, OfStarter
<1>4. CASE worker' = "settling"
  <2>1. ServerWorker' = "publishing" /\ ServerOutcome' \in {"ok", "error"}
    BY <1>4 DEF ServerWorker, ServerOutcome
  <2>2. QED
    BY <1>1, <1>3, <2>1 DEF Server!EngineReturns, Server!Advance, OfRun, Runs
<1>5. CASE worker' = "erring"
  <2>1. ServerWorker' = "erring" /\ ServerOutcome' = "none"
    BY <1>5 DEF ServerWorker, ServerOutcome
  <2>2. QED
    BY <1>1, <1>3, <2>1 DEF Server!EngineReturns, Server!Advance, OfRun, Runs
<1>6. CASE worker' \notin {"settling", "erring"}
  <2>1. ServerWorker' = "engine" /\ ServerOutcome' = "none"
    BY <1>6 DEF ServerWorker, ServerOutcome
  <2>2. Evicted' = Evicted /\ record.persistence' = record.persistence
    BY DEF Evicted
  <2>3. QED
    BY <1>1, <2>1, <2>2, ViewStays
<1>7. QED
  BY <1>4, <1>5, <1>6

\* The verdict that the last update writes is the one that RunServer publishes.
LEMMA SettleMaps ==
  ASSUME ServedInv, Settle, cancelled' = cancelled
  PROVE  Server!Publish("run")
<1>1. /\ worker = "settling" /\ worker' = "report" /\ record.status = "running"
      /\ record'.status = terminal_outcome /\ record'.persistence = "pending"
      /\ cancelled \in BOOLEAN
  BY DEF Settle, WorkerAt, ServedInv, FinalInv, Typed, SignalsTyped
<1>2. /\ ~Evicted /\ ~Evicted' /\ ServerStatus = "running" /\ ServerStatus' = terminal_outcome
      /\ ServerWorker = "publishing" /\ ServerWorker' = "published"
      /\ ServerOutcome = (IF Error = "none" THEN "ok" ELSE "error") /\ ServerOutcome' = "none"
  BY <1>1 DEF terminal_outcome, ServerStatus, Evicted, ServerWorker, ServerOutcome
<1>3. terminal_outcome = Server!TerminalOutcome(cancelled, ServerOutcome = "error")
  BY <1>1, <1>2 DEF terminal_outcome, Server!TerminalOutcome
<1>4. ("run" \in IF cancelled THEN {"run"} ELSE {}) = cancelled
  BY <1>1
<1>5. OfRun(ServerOutcome, "none")["run"] = ServerOutcome
  BY DEF OfRun, Runs
<1>6. QED
  BY <1>1, <1>2, <1>3, <1>4, <1>5 DEF Server!Publish, Server!Advance, Server!SetStatus,
     Server!MarkPersistence, Server!clientVars, OfRun, OfStarter, Runs

\* An Err of the execution is written by the worker of RunServer as well.
LEMMA ErrorMaps ==
  ASSUME ServedInv, WriteError, cancelled' = cancelled
  PROVE  Server!WorkerFails("run")
<1>1. /\ worker = "erring" /\ worker' = "report" /\ record.status = "running"
      /\ record'.status = "failed" /\ record'.persistence = record.persistence
  BY DEF WriteError, WorkerAt, ServedInv, FinalInv, Typed, AroundTyped, RecordType
<1>2. /\ ~Evicted /\ ~Evicted' /\ ServerStatus = "running" /\ ServerStatus' = "failed"
      /\ ServerWorker = "erring" /\ ServerWorker' = "published"
      /\ ServerOutcome = "none" /\ ServerOutcome' = "none"
  BY <1>1 DEF ServerStatus, Evicted, ServerWorker, ServerOutcome
<1>3. QED
  BY <1>1, <1>2 DEF Server!WorkerFails, Server!Advance, Server!SetStatus, Server!clientVars,
     Server!storeVars, OfRun, OfStarter, Runs

LEMMA WorkerMaps ==
  ASSUME ServedInv, Worker
  PROVE  \/ Server!EngineReturns("run") \/ Server!Publish("run") \/ Server!WorkerFails("run")
         \/ UNCHANGED Server!vars
<1>1. cancelled' = cancelled /\ WorkerStep
  BY DEF Worker, WorkerUnchanged
<1>2. CASE Settle
  BY <1>1, <1>2, SettleMaps
<1>3. CASE WriteError
  BY <1>1, <1>3, ErrorMaps
<1>4. CASE Report
  <2>1. /\ worker = "report" /\ worker' = "done" /\ record' = record
    BY <1>4 DEF Report, WorkerAt
  <2>2. QED
    BY <1>1, <2>1, ViewStays DEF ServerStatus, Evicted, ServerWorker, ServerOutcome
<1>5. CASE CompileFails \/ Start \/ ArmTimer \/ Await \/ Joined \/ StopEngine \/ WakeProvider
  BY <1>1, <1>5, EngineMaps DEF CompileFails, GiveUp, Start, ArmTimer, Await, Joined, StopEngine,
     WakeProvider, WorkerAt
<1>6. CASE Abort \/ AwaitAborted \/ SendComplete \/ JoinTimer \/ Export \/ CheckEvidence
  BY <1>1, <1>6, EngineMaps DEF Abort, AwaitAborted, SendComplete, JoinTimer, Export, GiveUp,
     CheckEvidence, WorkerAt
<1>7. QED
  BY <1>1, <1>2, <1>3, <1>4, <1>5, <1>6 DEF WorkerStep

LEMMA StepMaps ==
  ASSUME ServedInv, [Next]_vars
  PROVE  [Server!Next]_(Server!vars)
<1>1. "run" \in Runs /\ "other" \in Runs /\ "caller" \in Clients /\ "starter" \in Clients
  BY DEF Runs, Clients
<1>2. CASE UNCHANGED vars
  <2>1. UNCHANGED <<worker, record, cancelled, Error>>
    BY <1>2 DEF vars, workerVars, timerVars, Error, BudgetExhausted, WallExhausted, NodesExhausted,
       iteration_error
  <2>2. QED
    BY <2>1, ViewStays DEF ServerStatus, Evicted, ServerWorker, ServerOutcome
<1>3. CASE Engine \/ NotifyCancel \/ Timer \/ Capture \/ Damage \/ ReadEvents
  BY <1>3, OthersHidden
<1>4. CASE RequestCancel
  <2>1. Server!Cancel("caller", "run")
    BY <1>4, CancelMaps
  <2>2. Server!Call("caller")
    BY <1>1, <2>1 DEF Server!Call
  <2>3. QED
    BY <1>1, <2>2 DEF Server!Next
<1>5. CASE Evict
  <2>1. Server!Allocate("starter", "other", "async") /\ "async" \in Server!Kinds
    BY <1>5, EvictMaps DEF Server!Kinds
  <2>2. Server!Call("starter")
    BY <1>1, <2>1 DEF Server!Call
  <2>3. QED
    BY <1>1, <2>2 DEF Server!Next
<1>6. CASE Worker
  <2>1. CASE Server!Publish("run") \/ Server!WorkerFails("run")
    <3>1. Server!Work("run")
      BY <2>1 DEF Server!Work
    <3>2. QED
      BY <1>1, <3>1 DEF Server!Next
  <2>2. CASE Server!EngineReturns("run")
    BY <1>1, <2>2 DEF Server!Next
  <2>3. QED
    BY <1>6, <2>1, <2>2, WorkerMaps
<1>7. QED
  BY <1>2, <1>3, <1>4, <1>5, <1>6 DEF Next

\* Every step of an execution is a step of RunServer for its worker, its callers or its
\* registry, or changes nothing that RunServer sees: what RunServer assumes of an engine
\* covers all that execute_with_store_options does.
THEOREM ExecutionIsServersWorker == Spec => ImplementsServer
<1>1. Init => ServedInv
  <2>1. Init => HeardInv /\ VerdictInv /\ ToldInv
    BY DEF Init, HeardInv, VerdictInv, Gathering, ToldInv
  <2>2. QED
    BY <2>1, InitTyped, InitFinal DEF ServedInv
<1>2. ServedInv /\ [Next]_vars => ServedInv'
  BY NextTyped, FinalNext, HeardNext, VerdictNext, ToldNext DEF ServedInv
<1>3. QED
  BY <1>1, <1>2, StepMaps, PTL DEF Spec, ImplementsServer
=============================================================================
