-------------------- MODULE MessageSubmissionTypeProofs --------------------
(***************************************************************************)
(* Type correctness of MessageSubmission, and the agreement of the pending *)
(* slot with the switch rows, for every value of the constants.            *)
(***************************************************************************)
EXTENDS MessageSubmissionProofs, SequenceTheorems

-----------------------------------------------------------------------------
(* The invariant, by the variables a step changes together. *)

RowType == sub \in [Keys -> SubmissionRow]
WorkerType == wk \in [Workers -> WorkerTask]
TimelineType == timeline \in Seq(Item)
SessionType == session \in SessionState
ClientType ==
    /\ caller \in [Keys -> {"none", "prepared", "waiting", "refused"}]
    /\ watched \in BOOLEAN
ExitsType ==
    /\ exits \in [first : 0..MaxExits, second : 0..MaxExits]
    /\ exits.first + exits.second <= MaxExits
GateType ==
    /\ stop \in [Keys -> {"none", "early", "late"}]
    /\ gate \in Workers \cup Keys \cup {NoKey}
TaskType ==
    /\ other \in BOOLEAN
    /\ intr \in {"none", "cancel", "provider"}
    /\ dropping \in Switches \cup {NoSwitch}
ReconType ==
    recon \in [pc : {"list", "step", "done"}, todo : SUBSET [key : Keys, status : Status]]
RanOnType == ranOn \in [Keys -> Runtimes]
UsedType ==
    used \in [faults : 0..MaxFaults, crashes : 0..MaxCrashes, turns : 0..MaxTurns,
              selections : 0..MaxSelections, interrupts : 0..MaxInterrupts]

TypeInv ==
    /\ SelectionInv /\ RowType /\ WorkerType /\ TimelineType /\ SessionType /\ ClientType
    /\ ExitsType /\ GateType /\ TaskType /\ ReconType /\ RanOnType /\ UsedType

\* The parts of a step's frame: what is unchanged keeps its type.
LEMMA Stays ==
    ASSUME TypeInv
    PROVE  /\ UNCHANGED selectionVars => SelectionInv'
           /\ UNCHANGED sub => RowType'
           /\ UNCHANGED wk => WorkerType'
           /\ UNCHANGED timeline => TimelineType'
           /\ UNCHANGED session => SessionType'
           /\ UNCHANGED <<caller, watched>> => ClientType'
           /\ UNCHANGED exits => ExitsType'
           /\ UNCHANGED <<stop, gate>> => GateType'
           /\ UNCHANGED <<other, intr, dropping>> => TaskType'
           /\ UNCHANGED recon => ReconType'
           /\ UNCHANGED ranOn => RanOnType'
           /\ UNCHANGED used => UsedType'
<1>1. UNCHANGED selectionVars => SelectionInv'
  BY DEF TypeInv, selectionVars, SelectionInv, SelectionTypeOK, CreatedBounded, SlotIsClaimed
<1>2. UNCHANGED <<other, intr, dropping>> => TaskType'
  BY Zenon DEF TypeInv, TaskType
<1>3. UNCHANGED <<caller, watched>> => ClientType'
  BY Zenon DEF TypeInv, ClientType
<1> QED BY <1>1, <1>2, <1>3 DEF TypeInv, RowType, WorkerType, TimelineType, SessionType,
        ExitsType, GateType, ReconType, RanOnType, UsedType

\* A step of the drive that changes rows and workers only.
LEMMA DriveFrame ==
    ASSUME TypeInv, RowType', WorkerType',
           UNCHANGED <<selectionVars, timeline, session, stop, queueVars, taskVars, ghostVars, used>>
    PROVE  TypeInv'
<1>1. /\ UNCHANGED selectionVars /\ UNCHANGED timeline /\ UNCHANGED session
      /\ UNCHANGED <<caller, watched>> /\ UNCHANGED exits /\ UNCHANGED <<stop, gate>>
      /\ UNCHANGED <<other, intr, dropping>> /\ UNCHANGED recon /\ UNCHANGED ranOn /\ UNCHANGED used
  BY DEF queueVars, taskVars, ghostVars
<1> QED BY <1>1, Stays, Zenon DEF TypeInv

\* A storage error is counted within its bound.
LEMMA SpendFaultKeeps ==
    ASSUME TypeInv, SpendFault
    PROVE  UsedType'
<1>1. used.faults \in 0..MaxFaults /\ used.faults < MaxFaults
  BY DEF SpendFault, TypeInv, UsedType
<1>2. used.faults + 1 \in 0..MaxFaults
  BY <1>1, SubmissionAssumption
<1> QED BY <1>2 DEF SpendFault, TypeInv, UsedType

-----------------------------------------------------------------------------
(* Rows and workers. *)

\* An absent row and a worker that is off have their types.
LEMMA DefaultsAreTyped == NoRow \in SubmissionRow /\ OffWorker \in WorkerTask
<1>1. NoRow \in SubmissionRow
  BY SelectionAssumption DEF NoRow, SubmissionRow, Status
<1>2. NoView \in Selection
  BY SelectionAssumption DEF NoView, Selection, SelectionStatus
<1>3. OffWorker \in WorkerTask
  BY <1>2, SubmissionAssumption DEF OffWorker, WorkerTask, WorkerPc, SessionState
<1> QED BY <1>1, <1>3

\* A worker that enters a step, or returns to the head of the queue.
LEMMA EnterTyped ==
    ASSUME TypeInv, NEW w \in Workers
    PROVE  /\ \A p \in WorkerPc : Enter(w, p) => WorkerType'
           /\ Return(w) => WorkerType'
<1>1. ASSUME NEW p \in WorkerPc, Enter(w, p) PROVE WorkerType'
  BY <1>1 DEF TypeInv, WorkerType, Enter, WorkerTask
<1>2. ASSUME Return(w) PROVE WorkerType'
  <2>1. [OffWorker EXCEPT !.pc = "head"] \in WorkerTask
    BY DefaultsAreTyped DEF WorkerTask, WorkerPc
  <2> QED BY <1>2, <2>1 DEF TypeInv, WorkerType, Return
<1> QED BY <1>1, <1>2

\* A conditional write of a row, with what it does to the worker.
LEMMA WriteTyped ==
    ASSUME TypeInv, NEW w \in Workers, Key(w) \in Keys, NEW from, NEW row \in SubmissionRow,
           \/ Write(w, from, row, Return(w))
           \/ \E p \in WorkerPc : Write(w, from, row, Enter(w, p))
    PROVE  RowType' /\ WorkerType'
<1>1. \/ UNCHANGED sub
      \/ sub' = [sub EXCEPT ![Key(w)] = row]
  BY DEF Write
<1>2. RowType'
  BY <1>1 DEF TypeInv, RowType
<1>3. Return(w) \/ \E p \in WorkerPc : Enter(w, p)
  <2>1. "terminalize" \in WorkerPc
    BY DEF WorkerPc
  <2> QED BY <2>1 DEF Write
<1> QED BY <1>2, <1>3, EnterTyped

\* A conditional status write.
LEMMA AdvanceTyped ==
    ASSUME TypeInv, NEW w \in Workers, Key(w) \in Keys, NEW from, NEW to \in Status,
           \/ Advance(w, from, to, Return(w))
           \/ \E p \in WorkerPc : Advance(w, from, to, Enter(w, p))
    PROVE  RowType' /\ WorkerType'
<1>1. [Row(w) EXCEPT !.status = to] \in SubmissionRow
  BY DEF TypeInv, RowType, SubmissionRow, Row
<1> QED BY <1>1, WriteTyped DEF Advance

\* A worker in the middle of a drive has a message.
LEMMA DrivenKey ==
    ASSUME Shape, TypeInv, NEW w \in Workers, wk[w].pc \notin Keyless
    PROVE  Key(w) \in Keys /\ Row(w) \in SubmissionRow /\ wk[w] \in WorkerTask
  BY DEF Shape, WorkerShape, Key, Row, TypeInv, RowType, WorkerType

-----------------------------------------------------------------------------
(* await_runtime. *)

\* Steps of await_runtime that only move the worker.
LEMMA AwaitMovesTyped ==
    ASSUME Shape, TypeInv, NEW w \in Workers,
           \/ ReadSelection(w) \/ ForceFresh(w) \/ AwaitFresh(w) \/ JoinPending(w)
           \/ ReadRequested(w)
    PROVE  TypeInv'
<1>1. /\ UNCHANGED <<selectionVars, storeVars, queueVars, taskVars, ghostVars, used>>
      /\ wk[w].pc \notin Keyless
  BY DEF ReadSelection, ForceFresh, AwaitFresh, JoinPending, Unlinked, ReadRequested, Deciding,
     At, Keyless
<1>2. View \in Selection /\ [View EXCEPT !.pending = SwitchOf(Key(w))] \in Selection
  BY ViewIsSelection DEF TypeInv, Selection
<1>3. {"decide", "reserve", "link", "adopt", "emit", "terminalize"} \subseteq WorkerPc
  BY DEF WorkerPc, StoragePcs
<1>4. \/ Return(w) \/ \E p \in WorkerPc : Enter(w, p)
      \/ \E p \in WorkerPc : \E v \in Selection : wk' = [wk EXCEPT ![w].pc = p, ![w].snap = v]
  <2>1. CASE ReadSelection(w) \/ ForceFresh(w)
    BY <1>2, <1>3, <2>1 DEF ReadSelection, ForceFresh
  <2>2. CASE AwaitFresh(w) \/ JoinPending(w)
    BY <1>3, <2>2 DEF AwaitFresh, JoinPending
  <2>3. CASE ReadRequested(w)
    BY <1>2, <1>3, <2>3 DEF ReadRequested
  <2> QED BY <2>1, <2>2, <2>3
<1>5. WorkerType'
  <2>1. CASE Return(w) \/ \E p \in WorkerPc : Enter(w, p)
    BY <2>1, EnterTyped
  <2>2. ASSUME NEW p \in WorkerPc, NEW v \in Selection,
               wk' = [wk EXCEPT ![w].pc = p, ![w].snap = v]
        PROVE  WorkerType'
    BY <2>2 DEF TypeInv, WorkerType, WorkerTask
  <2> QED BY <1>4, <2>1, <2>2
<1>6. RowType' /\ UNCHANGED <<timeline, session, stop>>
  BY <1>1, Stays DEF storeVars
<1> QED BY <1>1, <1>5, <1>6, DriveFrame

\* Steps of await_runtime that write the row of the message.
LEMMA AwaitWritesTyped ==
    ASSUME Shape, TypeInv, NEW w \in Workers,
           \/ Normalize(w) \/ RuntimeReady(w) \/ HandleTerminalSwitch(w)
           \/ RuntimeUnavailable(w) \/ Adopt(w) \/ LinkSwitch(w)
    PROVE  TypeInv'
<1>1. /\ UNCHANGED <<selectionVars, timeline, session, stop, queueVars, taskVars, ghostVars, used>>
      /\ wk[w].pc \notin Keyless
  BY DEF Normalize, RuntimeReady, HandleTerminalSwitch, RuntimeUnavailable, Unlinked, Adopt,
     LinkSwitch, Deciding, At, Keyless
<1>2. Key(w) \in Keys /\ Row(w) \in SubmissionRow /\ wk[w] \in WorkerTask
  BY <1>1, DrivenKey
<1>3. {"await", "link", "terminalize"} \subseteq WorkerPc
  BY DEF WorkerPc, StoragePcs
<1>4. {"ready", "failed", "cancelled"} \subseteq Status
  BY DEF Status, Queued, Terminal
<1>5. CASE Normalize(w)
  <2>1. [Row(w) EXCEPT !.desired = Resolve[@]] \in SubmissionRow
    BY <1>2, SelectionAssumption DEF SubmissionRow
  <2> QED BY <1>1, <1>2, <1>3, <1>5, <2>1, WriteTyped, DriveFrame DEF Normalize
<1>6. CASE RuntimeReady(w) \/ RuntimeUnavailable(w)
  BY <1>1, <1>2, <1>4, <1>6, AdvanceTyped, DriveFrame DEF RuntimeReady, RuntimeUnavailable
<1>7. CASE HandleTerminalSwitch(w)
  <2>1. AfterSwitch(sw[Row(w).link].status, Row(w).desired) \in Status
    BY <1>4 DEF AfterSwitch
  <2>2. CASE Enter(w, "await") /\ UNCHANGED sub
    BY <1>1, <1>3, <2>2, EnterTyped, Stays, DriveFrame
  <2>3. CASE Advance(w, "awaiting", AfterSwitch(sw[Row(w).link].status, Row(w).desired), Return(w))
    BY <1>1, <1>2, <2>1, <2>3, AdvanceTyped, DriveFrame
  <2> QED BY <1>7, <2>2, <2>3 DEF HandleTerminalSwitch
<1>8. CASE Adopt(w)
  <2>1. [Row(w) EXCEPT !.desired = Snap(w).desired] \in SubmissionRow
    BY <1>2 DEF SubmissionRow, Snap, WorkerTask, Selection
  <2> QED BY <1>1, <1>2, <1>3, <1>8, <2>1, WriteTyped, DriveFrame DEF Adopt
<1>9. CASE LinkSwitch(w)
  <2>1. [Row(w) EXCEPT !.link = Snap(w).pending] \in SubmissionRow
    BY <1>2 DEF SubmissionRow, Snap, WorkerTask, Selection
  <2>2. CASE UNCHANGED sub /\ (Enter(w, "await") \/ Enter(w, "terminalize"))
    BY <1>1, <1>3, <2>2, EnterTyped, Stays, DriveFrame
  <2>3. CASE Write(w, "awaiting", [Row(w) EXCEPT !.link = Snap(w).pending], Enter(w, "await"))
    BY <1>1, <1>2, <1>3, <2>1, <2>3, WriteTyped, DriveFrame
  <2> QED BY <1>9, <2>2, <2>3 DEF LinkSwitch
<1> QED BY <1>5, <1>6, <1>7, <1>8, <1>9

\* Steps of await_runtime that request a switch for the message.
LEMMA AwaitRequestsTyped ==
    ASSUME Shape, TypeInv, NEW w \in Workers, ReserveFresh(w) \/ RequestRuntime(w)
    PROVE  TypeInv'
<1>1. /\ UNCHANGED <<storeVars, queueVars, taskVars, ghostVars, used>>
      /\ wk[w].pc \notin Keyless
  BY DEF ReserveFresh, RequestRuntime, Unlinked, Deciding, At, Keyless
<1>2. Key(w) \in Keys /\ Row(w) \in SubmissionRow /\ wk[w] \in WorkerTask
  BY <1>1, DrivenKey
<1>3. /\ Row(w).desired \in Runtimes /\ Resolve[Row(w).desired] \in Runtimes
      /\ Snap(w).selRevision \in Nat /\ Key(w) \in Requesters \cup {NoRequester}
  BY <1>2, SelectionAssumption, SubmissionAssumption
     DEF SubmissionRow, WorkerTask, Selection, Snap
<1>4. {"fresh", "await", "terminalize", "emit"} \subseteq WorkerPc
  BY DEF WorkerPc, StoragePcs
<1>5. WorkerType'
  BY <1>4, EnterTyped DEF ReserveFresh, RequestRuntime
<1>6. SelectionInv'
  <2>1. CASE UNCHANGED selectionVars
    BY <2>1, Stays
  <2>2. CASE ~UNCHANGED selectionVars
    <3>1. \/ Reserve(Resolve[Row(w).desired], Snap(w).selRevision, Key(w))
          \/ EnqueueDesired(Row(w).desired, Key(w)) \/ MaterializeCurrent(Row(w).desired)
      BY <2>2 DEF ReserveFresh, RequestRuntime
    <3> QED BY <1>3, <3>1, ReserveKeeps, EnqueueDesiredKeeps, MaterializeCurrentKeeps DEF TypeInv
  <2> QED BY <2>1, <2>2
<1>7. /\ UNCHANGED sub /\ UNCHANGED timeline /\ UNCHANGED session
      /\ UNCHANGED <<caller, watched>> /\ UNCHANGED exits /\ UNCHANGED <<stop, gate>>
      /\ UNCHANGED <<other, intr, dropping>> /\ UNCHANGED recon /\ UNCHANGED ranOn /\ UNCHANGED used
  BY <1>1 DEF storeVars, queueVars, taskVars, ghostVars
<1> QED BY <1>5, <1>6, <1>7, Stays, Zenon DEF TypeInv

-----------------------------------------------------------------------------
(* drain_session. *)

\* The steps of the drain loop.
LEMMA DrainTyped ==
    ASSUME Shape, TypeInv, NEW w \in Workers,
           \/ TakeHead(w) \/ Unwatch(w) \/ Terminalize(w) \/ Redrive(w) \/ Finish(w)
           \/ StorageError(w)
    PROVE  TypeInv'
<1>1. wk \in [Workers -> WorkerTask] /\ wk[w] \in WorkerTask
  BY DEF TypeInv, WorkerType
<1>2. CASE TakeHead(w)
  <2>1. OpenKeys # {} => HeadKey \in Keys /\ sub[HeadKey].status \in DOMAIN DriveStart
    BY HeadKeyIsFirst DEF Shape, QueueShape, OpenKeys, DriveStart, Status, Queued, Terminal
  <2>2. \A t \in DOMAIN DriveStart : DriveStart[t] \in WorkerPc
    BY DEF DriveStart, WorkerPc, StoragePcs
  <2>3. PICK p \in WorkerPc, k \in Keys \cup {NoKey} :
             wk' = [wk EXCEPT ![w].pc = p, ![w].key = k]
    <3>1. "exit" \in WorkerPc
      BY DEF WorkerPc
    <3> QED BY <1>2, <2>1, <2>2, <3>1 DEF TakeHead
  <2>4. WorkerType'
    BY <1>1, <2>3 DEF WorkerType, WorkerTask
  <2>5. UNCHANGED <<selectionVars, storeVars, queueVars, taskVars, ghostVars, used>>
    BY <1>2 DEF TakeHead
  <2>6. RowType' /\ UNCHANGED <<timeline, session, stop>>
    BY <2>5, Stays DEF storeVars
  <2> QED BY <2>4, <2>5, <2>6, DriveFrame
<1>3. CASE Unwatch(w)
  <2>1. WorkerType' /\ ClientType'
    <3>1. WorkerType'
      BY <1>1, <1>3, DefaultsAreTyped DEF WorkerType, Unwatch
    <3>2. ClientType'
      BY <1>3 DEF Unwatch, TypeInv, ClientType
    <3> QED BY <3>1, <3>2
  <2>2. ExitsType'
    BY <1>3, SubmissionAssumption DEF Unwatch, TypeInv, ExitsType
  <2>3. /\ UNCHANGED selectionVars /\ UNCHANGED sub /\ UNCHANGED timeline /\ UNCHANGED session
        /\ UNCHANGED <<stop, gate>> /\ UNCHANGED <<other, intr, dropping>> /\ UNCHANGED recon
        /\ UNCHANGED ranOn /\ UNCHANGED used
    BY <1>3 DEF Unwatch, storeVars, taskVars, ghostVars
  <2> QED BY <2>1, <2>2, <2>3, Stays, Zenon DEF TypeInv
<1>4. CASE Terminalize(w)
  <2>1. Key(w) \in Keys
    BY <1>4, DrivenKey DEF Terminalize, At, Keyless
  <2>2. WorkerType'
    <3>1. [OffWorker EXCEPT !.pc = "head", !.fails = wk[w].fails] \in WorkerTask
      BY <1>1, DefaultsAreTyped DEF WorkerTask, WorkerPc
    <3> QED BY <1>1, <1>4, <3>1 DEF WorkerType, Terminalize
  <2>3. RowType'
    <3>1. \A t \in Status : GivenUp(t) \in Status
      BY DEF GivenUp, Status, Queued, Terminal
    <3> QED BY <1>4, <2>1, <3>1 DEF Terminalize, TypeInv, RowType, SubmissionRow, Row
  <2>4. UsedType'
    BY <1>4, Stays, SpendFaultKeeps DEF Terminalize
  <2>5. /\ UNCHANGED selectionVars /\ UNCHANGED timeline /\ UNCHANGED session
        /\ UNCHANGED <<caller, watched>> /\ UNCHANGED exits
        /\ UNCHANGED <<stop, gate>> /\ UNCHANGED <<other, intr, dropping>> /\ UNCHANGED recon
        /\ UNCHANGED ranOn
    BY <1>4 DEF Terminalize, queueVars, taskVars, ghostVars
  <2> QED BY <2>2, <2>3, <2>4, <2>5, Stays, Zenon DEF TypeInv
<1>5. CASE Redrive(w) \/ Finish(w)
  <2>1. Key(w) \in Keys
    BY <1>5, DrivenKey DEF Redrive, Finish, At, Keyless
  <2>2. {"ambiguous", "completed"} \subseteq Status
    BY DEF Status, Terminal
  <2> QED BY <1>5, <2>1, <2>2, AdvanceTyped, DriveFrame DEF Redrive, Finish
<1>6. CASE StorageError(w)
  <2>1. WorkerType'
    <3>1. CASE Enter(w, "terminalize")
      BY <3>1, EnterTyped DEF WorkerPc
    <3>2. CASE /\ MayRetry(w)
               /\ wk' = [wk EXCEPT ![w] = [OffWorker EXCEPT !.pc = "head", !.fails = wk[w].fails + 1]]
      <4>1. wk[w].fails + 1 \in 0..MaxTransient
        BY <1>1, <3>2, SubmissionAssumption DEF WorkerTask, MayRetry
      <4>2. [OffWorker EXCEPT !.pc = "head", !.fails = wk[w].fails + 1] \in WorkerTask
        BY <4>1, DefaultsAreTyped DEF WorkerTask, WorkerPc
      <4> QED BY <1>1, <3>2, <4>2 DEF WorkerType
    <3> QED BY <1>6, <3>1, <3>2 DEF StorageError
  <2>2. GateType' /\ UsedType'
    <3>1. GateType'
      BY <1>6 DEF StorageError, storeVars, TypeInv, GateType
    <3> QED BY <1>6, <3>1, SpendFaultKeeps DEF StorageError
  <2>3. /\ UNCHANGED selectionVars /\ UNCHANGED sub /\ UNCHANGED timeline /\ UNCHANGED session
        /\ UNCHANGED <<caller, watched>> /\ UNCHANGED exits
        /\ UNCHANGED <<other, intr, dropping>> /\ UNCHANGED recon /\ UNCHANGED ranOn
    BY <1>6 DEF StorageError, storeVars, taskVars, ghostVars
  <2> QED BY <2>1, <2>2, <2>3, Stays, Zenon DEF TypeInv
<1> QED BY <1>2, <1>3, <1>4, <1>5, <1>6

-----------------------------------------------------------------------------
(* dispatch. *)

\* MinOf and MaxOf of positions in the Timeline are numbers.
LEMMA PositionsAreNat ==
    ASSUME NEW n \in Nat, NEW T \in SUBSET (0..n)
    PROVE  MinOf(T) \in Nat /\ MaxOf(T) \in Nat
<1>1. T \subseteq Nat /\ \A x \in T : x <= n
  OBVIOUS
<1>2. CASE T = {}
  BY <1>2 DEF MinOf, MaxOf
<1>3. CASE T # {}
  <2>1. MinOf(T) \in T
    BY <1>1, <1>3, NatMin DEF MinOf
  <2>2. MaxOf(T) \in T
    BY <1>1, <1>3, MaxOfBounded
  <2> QED BY <1>1, <2>1, <2>2
<1> QED BY <1>2, <1>3

\* The steps of dispatch up to the no-replay boundary.
LEMMA GateTyped ==
    ASSUME Shape, TypeInv, NEW w \in Workers,
           PauseDispatch(w) \/ CheckRuntime(w) \/ MarkAboutToPrompt(w) \/ MaterializeFails(w)
    PROVE  TypeInv'
<1>1. wk[w].pc \notin Keyless
  BY DEF PauseDispatch, CheckRuntime, MarkAboutToPrompt, MaterializeFails, At, Keyless
<1>2. Key(w) \in Keys /\ wk[w] \in WorkerTask
  BY <1>1, DrivenKey
<1>3. {"check", "terminalize", "admit", "mark"} \subseteq WorkerPc
  BY DEF WorkerPc, StoragePcs
<1>4. {"awaiting", "about"} \subseteq Status
  BY DEF Status, Queued
<1>5. RowType' /\ WorkerType'
  <2>1. CASE PauseDispatch(w) \/ MaterializeFails(w)
    BY <1>3, <2>1, Stays, EnterTyped DEF PauseDispatch, MaterializeFails, storeVars
  <2>2. CASE CheckRuntime(w)
    <3>1. CASE Advance(w, "ready", "awaiting", Return(w))
      BY <1>2, <1>4, <3>1, AdvanceTyped
    <3>2. CASE /\ wk' = [wk EXCEPT ![w].pc = "mark", ![w].start = Len(timeline)]
               /\ UNCHANGED sub
      <4>1. Len(timeline) \in Nat
        BY DEF TypeInv, TimelineType
      <4>2. WorkerType'
        BY <1>3, <3>2, <4>1 DEF TypeInv, WorkerType, WorkerTask
      <4> QED BY <3>2, <4>2, Stays
    <3> QED BY <2>2, <3>1, <3>2 DEF CheckRuntime
  <2>3. CASE MarkAboutToPrompt(w)
    <3>1. CASE Advance(w, "ready", "about", Enter(w, "admit"))
      BY <1>2, <1>3, <1>4, <3>1, AdvanceTyped
    <3>2. CASE Enter(w, "terminalize") /\ UNCHANGED sub
      BY <1>3, <3>2, EnterTyped, Stays
    <3> QED BY <2>3, <3>1, <3>2 DEF MarkAboutToPrompt
  <2> QED BY <2>1, <2>2, <2>3
<1>6. GateType'
  BY DEF PauseDispatch, CheckRuntime, MarkAboutToPrompt, MaterializeFails, OpenGate, storeVars,
     TypeInv, GateType
<1>7. /\ UNCHANGED selectionVars /\ UNCHANGED timeline /\ UNCHANGED session
      /\ UNCHANGED <<caller, watched>> /\ UNCHANGED exits /\ UNCHANGED <<other, intr, dropping>>
      /\ UNCHANGED recon /\ UNCHANGED ranOn /\ UNCHANGED used
  BY DEF PauseDispatch, CheckRuntime, MarkAboutToPrompt, MaterializeFails, storeVars, taskVars,
     ghostVars
<1> QED BY <1>5, <1>6, <1>7, Stays, Zenon DEF TypeInv

\* The steps of dispatch after the turn.
LEMMA ResultTyped ==
    ASSUME Shape, TypeInv, NEW w \in Workers,
           \/ RecordReturned(w) \/ Classify(w) \/ RecordPersisted(w)
           \/ FailAfterDispatch(w) \/ Unclassified(w)
    PROVE  TypeInv'
<1>1. wk[w].pc \notin Keyless
  BY DEF RecordReturned, Classify, RecordPersisted, FailAfterDispatch, Unclassified, At, Keyless
<1>2. Key(w) \in Keys /\ wk[w] \in WorkerTask /\ Row(w) \in SubmissionRow
  BY <1>1, DrivenKey
<1>3. {"finish", "terminalize", "complete", "failAfter", "unknown"} \subseteq WorkerPc
  BY DEF WorkerPc, StoragePcs
<1>4. /\ Len(timeline) \in Nat /\ wk[w].start \in Nat /\ wk[w].end \in Nat
  BY <1>2 DEF TypeInv, TimelineType, WorkerTask
<1>5. ASSUME NEW first \in Nat, NEW last \in Nat
      PROVE  Recorded(w, first, last) \in SubmissionRow
  BY <1>2 DEF Recorded, SubmissionRow, Status
<1>6. \/ UNCHANGED <<selectionVars, timeline, session, stop, queueVars, taskVars, ghostVars, used>>
      \/ UNCHANGED <<selectionVars, storeVars, queueVars, taskVars, ghostVars, used>>
  BY DEF RecordReturned, Classify, RecordPersisted, FailAfterDispatch, Unclassified
<1>7. UNCHANGED <<selectionVars, timeline, session, stop, queueVars, taskVars, ghostVars, used>>
  BY <1>6 DEF storeVars
<1>8. CASE RecordReturned(w)
  <2>1. Own(w) \in SUBSET (0..Len(timeline))
    BY <1>4 DEF Own
  <2>2. Recorded(w, MinOf(Own(w)), MaxOf(Own(w))) \in SubmissionRow
    BY <1>4, <1>5, <2>1, PositionsAreNat
  <2> QED BY <1>2, <1>3, <1>7, <1>8, <2>2, WriteTyped, DriveFrame DEF RecordReturned
<1>9. CASE Classify(w)
  <2>1. PersistedResult(timeline, Key(w), wk[w].start, Len(timeline)) \in {"completed", "failed", "unknown"}
    BY DEF PersistedResult, EndVerdict
  <2>2. PICK p \in WorkerPc : wk' = [wk EXCEPT ![w].end = Len(timeline), ![w].pc = p]
    BY <1>3, <1>9, <2>1 DEF Classify
  <2>3. WorkerType'
    BY <1>4, <2>2 DEF TypeInv, WorkerType, WorkerTask
  <2>4. RowType'
    BY <1>9, Stays DEF Classify, storeVars
  <2> QED BY <1>7, <2>3, <2>4, DriveFrame
<1>10. CASE RecordPersisted(w)
  <2>1. Recorded(w, wk[w].start + 1, wk[w].end) \in SubmissionRow
    BY <1>4, <1>5
  <2>2. RowType'
    BY <1>2, <1>10, <2>1 DEF RecordPersisted, TypeInv, RowType
  <2>3. WorkerType'
    BY <1>3, <1>10, EnterTyped DEF RecordPersisted
  <2> QED BY <1>7, <2>2, <2>3, DriveFrame
<1>11. CASE FailAfterDispatch(w)
  <2> DEFINE first == FirstMatch(timeline, Key(w), wk[w].start, wk[w].end)
             row == [Row(w) EXCEPT !.status = "failed", !.first = first,
                       !.last = wk[w].end, !.sent = TRUE]
  <2>1. first \in Nat
    <3>1. Matching(timeline, Key(w), wk[w].start, wk[w].end) \in SUBSET (0..wk[w].end)
      BY <1>4 DEF Matching, Users
    <3> QED BY <1>4, <3>1, PositionsAreNat DEF FirstMatch
  <2>2. \/ UNCHANGED sub
        \/ sub' = [sub EXCEPT ![Key(w)] = row]
    BY <1>11 DEF FailAfterDispatch
  <2>3. row \in SubmissionRow
    <3> HIDE DEF first
    <3> QED BY <1>2, <1>4, <2>1 DEF SubmissionRow, Status, Terminal
  <2>4. RowType'
    <3> HIDE DEF row
    <3> QED BY <1>2, <2>2, <2>3 DEF TypeInv, RowType
  <2>5. WorkerType'
    BY <1>3, <1>11, EnterTyped DEF FailAfterDispatch
  <2> QED BY <1>7, <2>4, <2>5, DriveFrame
<1>12. CASE Unclassified(w)
  <2>1. (IF NothingAppended(w) THEN "failed" ELSE "ambiguous") \in Status
    BY DEF Status, Terminal
  <2> QED BY <1>2, <1>7, <1>12, <2>1, AdvanceTyped, DriveFrame DEF Unclassified
<1> QED BY <1>8, <1>9, <1>10, <1>11, <1>12

-----------------------------------------------------------------------------
(* run_agent_turn. *)

\* Appending an item of a message, or of nobody.
LEMMA AppendTyped ==
    ASSUME TypeInv, NEW item \in Item, timeline' = Append(timeline, item)
    PROVE  TimelineType'
  BY DEF TypeInv, TimelineType

\* The user messages and errors of the Timeline.
LEMMA ItemsTyped ==
    ASSUME NEW k \in Keys \cup {NoKey}
    PROVE  /\ UserItem(k) \in Item /\ ErrorItem(k) \in Item
           /\ \A kind \in ItemKind : [kind |-> kind, key |-> k] \in Item
  BY DEF UserItem, ErrorItem, Item, ItemKind

\* finish_turn_with_error.
LEMMA FinishTurnTyped ==
    ASSUME TypeInv, NEW k \in Keys \cup {NoKey}, FinishTurnWithError(k)
    PROVE  TimelineType' /\ SessionType' /\ UsedType'
<1>1. TimelineType'
  <2>1. timeline' = timeline \/ timeline' = Append(timeline, ErrorItem(k))
    BY DEF FinishTurnWithError
  <2> QED BY <2>1, Stays, AppendTyped, ItemsTyped
<1>2. SessionType'
  BY DEF FinishTurnWithError, TypeInv, SessionType, SessionState
<1>3. UsedType'
  BY Stays, SpendFaultKeeps DEF FinishTurnWithError
<1> QED BY <1>1, <1>2, <1>3

\* The steps of the turn a dispatch runs.
LEMMA TurnTyped ==
    ASSUME Shape, TypeInv, NEW w \in Workers, RunAgentTurn(w)
    PROVE  TypeInv'
<1>1. wk[w].pc \notin Keyless
  BY DEF RunAgentTurn, AdmitTurn, ClaimRunningTurn, AdmissionError, AppendUserBoundary, PrepareTurn,
     PrepareFails, DeliverPrompt, StreamOutput, TurnReturns, TurnFails, At, Keyless
<1>2. Key(w) \in Keys /\ wk[w] \in WorkerTask
  BY <1>1, DrivenKey
<1>3. {"claim", "erred", "boundary", "prepare", "deliver", "stream", "returned"} \subseteq WorkerPc
  BY DEF WorkerPc, StoragePcs
<1>4. WorkerType'
  <2>1. \/ UNCHANGED wk \/ \E p \in WorkerPc : Enter(w, p)
        \/ wk' = [wk EXCEPT ![w].pc = "claim", ![w].snap = View, ![w].saw = session]
    BY <1>3 DEF RunAgentTurn, AdmitTurn, ClaimRunningTurn, AdmissionError, AppendUserBoundary,
       PrepareTurn, PrepareFails, DeliverPrompt, StreamOutput, TurnReturns, TurnFails
  <2>2. CASE wk' = [wk EXCEPT ![w].pc = "claim", ![w].snap = View, ![w].saw = session]
    <3>1. View \in Selection /\ session \in SessionState
      BY ViewIsSelection DEF TypeInv, SessionType
    <3> QED BY <1>3, <2>2, <3>1, ZenonT(60) DEF TypeInv, WorkerType, WorkerTask
  <2> QED BY <2>1, <2>2, Stays, EnterTyped
<1>5. TimelineType' /\ SessionType' /\ UsedType'
  <2>1. CASE AdmitTurn(w) \/ PrepareTurn(w) \/ DeliverPrompt(w)
    BY <2>1, Stays DEF AdmitTurn, PrepareTurn, DeliverPrompt, storeVars
  <2>2. CASE ClaimRunningTurn(w)
    BY <2>2, Stays DEF ClaimRunningTurn, SessionType, SessionState
  <2>3. CASE AdmissionError(w)
    BY <2>3, Stays, SpendFaultKeeps DEF AdmissionError, storeVars
  <2>4. CASE AppendUserBoundary(w)
    <3>1. TimelineType'
      <4>1. \/ timeline' = timeline \/ timeline' = Append(timeline, UserItem(Key(w)))
            \/ timeline' = Append(timeline, ErrorItem(Key(w)))
        BY <2>4 DEF AppendUserBoundary
      <4> QED BY <1>2, <4>1, Stays, AppendTyped, ItemsTyped
    <3>2. SessionType'
      BY <2>4 DEF AppendUserBoundary, TypeInv, SessionType, SessionState
    <3>3. UsedType'
      BY <2>4, Stays, SpendFaultKeeps DEF AppendUserBoundary
    <3> QED BY <3>1, <3>2, <3>3
  <2>5. CASE PrepareFails(w) \/ TurnFails(w)
    BY <1>2, <2>5, FinishTurnTyped DEF PrepareFails, TurnFails
  <2>6. CASE StreamOutput(w)
    <3>1. PICK kind \in ItemKind : timeline' = Append(timeline, [kind |-> kind, key |-> Key(w)])
      BY <2>6 DEF StreamOutput, ItemKind
    <3>2. [kind |-> kind, key |-> Key(w)] \in Item
      BY <1>2, ItemsTyped
    <3> QED BY <2>6, <3>1, <3>2, AppendTyped, Stays DEF StreamOutput
  <2>7. CASE TurnReturns(w)
    <3>1. SessionType'
      BY <2>7 DEF TurnReturns, SessionType, SessionState
    <3> QED BY <2>7, <3>1, Stays, SpendFaultKeeps DEF TurnReturns
  <2> QED BY <2>1, <2>2, <2>3, <2>4, <2>5, <2>6, <2>7 DEF RunAgentTurn
<1>6. RanOnType'
  <2>1. CASE DeliverPrompt(w)
    <3>1. Snap(w).effective \in Runtimes
      BY <1>2 DEF Snap, WorkerTask, Selection
    <3> QED BY <1>2, <2>1, <3>1 DEF DeliverPrompt, TypeInv, RanOnType
  <2>2. CASE ~DeliverPrompt(w)
    BY <2>2, Stays DEF RunAgentTurn, AdmitTurn, ClaimRunningTurn, AdmissionError,
       AppendUserBoundary, PrepareTurn, PrepareFails, StreamOutput, TurnReturns, TurnFails, ghostVars
  <2> QED BY <2>1, <2>2
<1>7. /\ UNCHANGED selectionVars /\ UNCHANGED sub /\ UNCHANGED <<caller, watched>>
      /\ UNCHANGED exits /\ UNCHANGED <<stop, gate>> /\ UNCHANGED <<other, intr, dropping>>
      /\ UNCHANGED recon
  BY DEF RunAgentTurn, AdmitTurn, ClaimRunningTurn, AdmissionError, AppendUserBoundary, PrepareTurn,
     PrepareFails, DeliverPrompt, StreamOutput, TurnReturns, TurnFails, storeVars, queueVars, taskVars
<1> QED BY <1>4, <1>5, <1>6, <1>7, Stays, Zenon DEF TypeInv

\* Every step of a worker, and a storage error in it.
LEMMA WorkerStepTyped ==
    ASSUME Shape, TypeInv, NEW w \in Workers, WorkerStep(w) \/ StorageError(w)
    PROVE  TypeInv'
<1>1. CASE AwaitRuntime(w)
  BY <1>1, AwaitMovesTyped, AwaitWritesTyped, AwaitRequestsTyped DEF AwaitRuntime
<1>2. CASE DispatchMessage(w)
  BY <1>2, GateTyped, ResultTyped DEF DispatchMessage
<1>3. CASE RunAgentTurn(w)
  BY <1>3, TurnTyped
<1> QED BY <1>1, <1>2, <1>3, DrainTyped DEF WorkerStep

-----------------------------------------------------------------------------
(* Callers, and the task that leaves the drain loop. *)

\* start_session_worker.
LEMMA StartWorkerTyped ==
    ASSUME TypeInv, StartWorker
    PROVE  WorkerType' /\ watched' \in BOOLEAN
<1>1. CASE UNCHANGED <<watched, wk>>
  <2>1. watched' \in BOOLEAN
    BY <1>1, Zenon DEF TypeInv, ClientType
  <2> QED BY <1>1, <2>1, Stays
<1>2. CASE /\ watched' = TRUE
           /\ \E w \in Workers : wk' = [wk EXCEPT ![w].pc = "head"]
  <2>1. "head" \in WorkerPc
    BY DEF WorkerPc
  <2>2. PICK w \in Workers : Enter(w, "head")
    BY <1>2 DEF Enter
  <2>3. watched' \in BOOLEAN
    BY <1>2
  <2> QED BY <2>1, <2>2, <2>3, EnterTyped
<1> QED BY <1>1, <1>2 DEF StartWorker

\* A row written for a message for the first time.
LEMMA NewRowTyped ==
    ASSUME Shape, NEW k \in Keys, NEW fresh \in BOOLEAN
    PROVE  [NoRow EXCEPT !.status = "awaiting", !.seq = NextSequence, !.desired = Wanted[k],
              !.fresh = fresh] \in SubmissionRow
<1>1. NextSequence \in Nat
  BY NextSequenceIsNew DEF Shape
<1>2. Wanted[k] \in Runtimes
  BY SubmissionAssumption
<1>3. "awaiting" \in Status
  BY DEF Status, Queued
<1> QED BY <1>1, <1>2, <1>3, DefaultsAreTyped DEF SubmissionRow

\* enqueue.
LEMMA EnqueueTyped ==
    ASSUME Shape, TypeInv, NEW k \in Keys, NEW fresh \in BOOLEAN, Enqueue(k, fresh)
    PROVE  RowType' /\ caller' \in [Keys -> {"none", "prepared", "waiting", "refused"}]
<1>1. caller \in [Keys -> {"none", "prepared", "waiting", "refused"}]
  BY DEF TypeInv, ClientType
<1>2. CASE sub[k].status = "absent"
  <2> DEFINE row == [NoRow EXCEPT !.status = "awaiting", !.seq = NextSequence,
                       !.desired = Wanted[k], !.fresh = fresh]
  <2>1. row \in SubmissionRow
    BY NewRowTyped
  <2>2. sub' = [sub EXCEPT ![k] = row] /\ caller' = [caller EXCEPT ![k] = "prepared"]
    BY <1>2 DEF Enqueue
  <2> HIDE DEF row
  <2> QED BY <1>1, <2>1, <2>2 DEF TypeInv, RowType
<1>3. CASE sub[k].status # "absent"
  BY <1>1, <1>3, Stays DEF Enqueue
<1> QED BY <1>2, <1>3

\* Submit, Wait and Answer; an edit; the durable stop marker.
LEMMA CallerTyped ==
    ASSUME Shape, TypeInv, NEW k \in Keys,
           Submit(k) \/ Edit(k) \/ Wait(k) \/ Answer(k) \/ StopExecution(k)
    PROVE  TypeInv'
<1> DEFINE Calls == {"none", "prepared", "waiting", "refused"}
<1>1. caller \in [Keys -> Calls] /\ watched \in BOOLEAN
  <2>1. watched \in BOOLEAN
    BY Zenon DEF TypeInv, ClientType
  <2> QED BY <2>1 DEF TypeInv, ClientType
<1>2. /\ UNCHANGED selectionVars /\ UNCHANGED session /\ UNCHANGED exits
      /\ UNCHANGED <<other, intr, dropping>> /\ UNCHANGED recon /\ UNCHANGED ranOn /\ UNCHANGED used
  BY DEF Submit, Edit, Wait, Answer, StopExecution, storeVars, taskVars, ghostVars
<1>3. CASE Submit(k)
  <2>1. RowType' /\ caller' \in [Keys -> Calls]
    BY <1>3, EnqueueTyped DEF Submit
  <2>2. UNCHANGED timeline /\ UNCHANGED wk /\ UNCHANGED <<stop, gate>> /\ UNCHANGED watched
    BY <1>3 DEF Submit
  <2>3. watched' \in BOOLEAN
    BY <1>1, <2>2, Zenon
  <2>4. ClientType'
    BY <2>1, <2>3, Zenon DEF ClientType
  <2> QED BY <1>2, <2>1, <2>2, <2>4, Stays, Zenon DEF TypeInv
<1>4. CASE Edit(k)
  <2> DEFINE userItems == Users(timeline, 0, Len(timeline))
             cut == MaxOf(userItems)
  <2>1. UNCHANGED wk /\ UNCHANGED <<stop, gate>> /\ UNCHANGED watched
    BY <1>4 DEF Edit
  <2>2. watched' \in BOOLEAN
    BY <1>1, <2>1, Zenon
  <2>3. RowType' /\ TimelineType' /\ caller' \in [Keys -> Calls]
    <3>1. CASE sub[k].status # "absent"
      <4>1. Enqueue(k, TRUE) /\ UNCHANGED timeline
        BY <1>4, <3>1 DEF Edit
      <4> QED BY <4>1, EnqueueTyped, Stays
    <3>2. CASE sub[k].status = "absent"
      <4> DEFINE row == [NoRow EXCEPT !.status = "awaiting", !.seq = NextSequence,
                           !.desired = Wanted[k], !.fresh = TRUE]
      <4>1. row \in SubmissionRow
        BY NewRowTyped
      <4>2. /\ userItems # {}
            /\ timeline' = SubSeq(timeline, 1, cut - 1)
            /\ sub' = [j \in Keys |->
                 IF j = k THEN row
                 ELSE IF SupersededByEdit(j, cut) THEN [sub[j] EXCEPT !.status = "cancelled"]
                 ELSE sub[j]]
            /\ caller' = [caller EXCEPT ![k] = "prepared"]
        BY <1>4, <3>2 DEF Edit
      <4>3. cut \in 1..Len(timeline)
        <5>1. Len(timeline) \in Nat
          BY DEF TypeInv, TimelineType
        <5>2. userItems \subseteq 1..Len(timeline)
          BY <5>1 DEF Users
        <5>3. userItems \subseteq Nat /\ \A x \in userItems : x <= Len(timeline)
          BY <5>1, <5>2
        <5> HIDE DEF userItems
        <5>4. cut \in userItems
          BY <4>2, <5>1, <5>3, MaxOfBounded
        <5> QED BY <5>2, <5>4
      <4> HIDE DEF row, userItems, cut
      <4>4. TimelineType'
        <5>1. timeline \in Seq(Item) /\ Len(timeline) \in Nat
          BY DEF TypeInv, TimelineType
        <5>2. \A i \in 1..(cut - 1) : timeline[i] \in Item
          BY <4>3, <5>1
        <5>3. SubSeq(timeline, 1, cut - 1) \in Seq(Item)
          BY <4>3, <5>1, <5>2, SubSeqProperties
        <5> QED BY <4>2, <5>3 DEF TimelineType
      <4>5. RowType'
        <5>1. "cancelled" \in Status
          BY DEF Status, Terminal
        <5>2. \A j \in Keys : sub'[j] \in SubmissionRow
          BY <4>1, <4>2, <5>1 DEF TypeInv, RowType, SubmissionRow
        <5> QED BY <4>2, <5>2 DEF RowType
      <4> QED BY <1>1, <4>2, <4>4, <4>5
    <3> QED BY <3>1, <3>2
  <2>4. ClientType'
    BY <2>2, <2>3, Zenon DEF ClientType
  <2> QED BY <1>2, <2>1, <2>3, <2>4, Stays, Zenon DEF TypeInv
<1>5. CASE Wait(k)
  <2>1. WorkerType' /\ watched' \in BOOLEAN
    BY <1>5, StartWorkerTyped DEF Wait
  <2>2. caller' \in [Keys -> Calls]
    BY <1>1, <1>5 DEF Wait
  <2>3. ClientType'
    BY <2>1, <2>2, Zenon DEF ClientType
  <2>4. UNCHANGED sub /\ UNCHANGED timeline /\ UNCHANGED <<stop, gate>>
    BY <1>5 DEF Wait, storeVars
  <2> QED BY <1>2, <2>1, <2>3, <2>4, Stays, Zenon DEF TypeInv
<1>6. CASE Answer(k)
  <2>1. caller' \in [Keys -> Calls]
    BY <1>1, <1>6 DEF Answer
  <2>2. /\ UNCHANGED watched /\ UNCHANGED wk /\ UNCHANGED sub /\ UNCHANGED timeline
        /\ UNCHANGED <<stop, gate>>
    BY <1>6 DEF Answer, storeVars
  <2>3. ClientType'
    BY <1>1, <2>1, <2>2, Zenon DEF ClientType
  <2> QED BY <1>2, <2>2, <2>3, Stays, Zenon DEF TypeInv
<1>7. CASE StopExecution(k)
  <2>1. GateType'
    BY <1>7 DEF StopExecution, TypeInv, GateType
  <2>2. UNCHANGED <<caller, watched>> /\ UNCHANGED wk /\ UNCHANGED sub /\ UNCHANGED timeline
    BY <1>7 DEF StopExecution
  <2> QED BY <1>2, <2>1, <2>2, Stays, Zenon DEF TypeInv
<1> QED BY <1>3, <1>4, <1>5, <1>6, <1>7

\* finish_session_worker looks at the queue again.
LEMMA RecheckTyped ==
    ASSUME TypeInv, Recheck
    PROVE  TypeInv'
<1>1. ExitsType'
  <2>1. /\ exits.first \in 0..MaxExits /\ exits.second \in 0..MaxExits
        /\ exits.first + exits.second <= MaxExits
        /\ exits = [first |-> exits.first, second |-> exits.second]
    BY DEF TypeInv, ExitsType
  <2>2. \/ /\ exits.first > 0
           /\ exits' = [first |-> exits.first - 1, second |-> exits.second + 1]
        \/ /\ exits.second > 0
           /\ exits' = [first |-> exits.first, second |-> exits.second - 1]
    BY <2>1 DEF Recheck
  <2> QED BY <2>1, <2>2, SubmissionAssumption DEF ExitsType
<1>2. UsedType'
  BY Stays, SpendFaultKeeps DEF Recheck
<1>3. WorkerType' /\ watched' \in BOOLEAN
  <2>1. CASE UNCHANGED <<watched, wk>>
    <3>1. watched' \in BOOLEAN
      BY <2>1, Zenon DEF TypeInv, ClientType
    <3> QED BY <2>1, <3>1, Stays
  <2> QED BY <2>1, StartWorkerTyped DEF Recheck
<1>4. /\ UNCHANGED selectionVars /\ UNCHANGED sub /\ UNCHANGED timeline /\ UNCHANGED session
      /\ UNCHANGED <<stop, gate>> /\ UNCHANGED <<other, intr, dropping>> /\ UNCHANGED recon
      /\ UNCHANGED ranOn /\ UNCHANGED caller
  BY DEF Recheck, storeVars, taskVars, ghostVars
<1>5. ClientType'
  BY <1>3, <1>4, Zenon DEF TypeInv, ClientType
<1> QED BY <1>1, <1>2, <1>3, <1>4, <1>5, Stays, Zenon DEF TypeInv

-----------------------------------------------------------------------------
(* Interrupts, runtime selection and other turns. *)

\* cancel_before_dispatch.
LEMMA CancelTyped ==
    ASSUME TypeInv, NEW Q \in SUBSET Keys, CancelBeforeDispatch(Q)
    PROVE  RowType' /\ TimelineType'
<1>1. Cardinality(Q) \in Nat /\ Len(timeline) \in Nat /\ timeline \in Seq(Item)
  <2>1. IsFiniteSet(Q)
    BY TimelineAssumption, FS_Subset
  <2> QED BY <2>1, FS_CardinalityType DEF TypeInv, TimelineType
<1> DEFINE n == Cardinality(Q)
<1>2. PICK order \in [1..n -> Q], place \in [Q -> 1..n] :
        /\ timeline' = timeline \o [i \in 1..n |-> UserItem(order[i])]
        /\ sub' = [k \in Keys |->
             IF k \in Q
             THEN [sub[k] EXCEPT !.status = "cancelled",
                     !.first = Len(timeline) + place[k], !.last = Len(timeline) + place[k]]
             ELSE sub[k]]
  BY DEF CancelBeforeDispatch
<1>3. n \in Nat
  BY <1>1
<1> HIDE DEF n
<1>4. TimelineType'
  <2> DEFINE shown == [i \in 1..n |-> UserItem(order[i])]
  <2>1. \A i \in 1..n : UserItem(order[i]) \in Item
    BY ItemsTyped
  <2>2. shown \in Seq(Item)
    BY <1>3, <2>1
  <2>3. timeline \o shown \in Seq(Item)
    <3> HIDE DEF shown
    <3> QED BY <1>1, <2>2, ConcatProperties
  <2> QED BY <1>2, <2>3 DEF TimelineType
<1>5. RowType'
  <2>1. \A k \in Q : place[k] \in Nat /\ Len(timeline) + place[k] \in Nat
    BY <1>1, <1>3
  <2>2. "cancelled" \in Status
    BY DEF Status, Terminal
  <2>3. \A k \in Keys : sub'[k] \in SubmissionRow
    BY <1>2, <2>1, <2>2 DEF TypeInv, RowType, SubmissionRow
  <2> QED BY <1>2, <2>3 DEF RowType
<1> QED BY <1>4, <1>5

\* The session-wide interrupt, and the stop of a queued execution.
LEMMA InterruptTyped ==
    ASSUME TypeInv, Interrupt \/ InterruptQueue \/ InterruptProvider \/ StopQueued
    PROVE  TypeInv'
<1>1. /\ UNCHANGED selectionVars /\ UNCHANGED <<caller, watched>> /\ UNCHANGED wk
      /\ UNCHANGED exits /\ UNCHANGED recon /\ UNCHANGED ranOn
  BY DEF Interrupt, InterruptQueue, InterruptProvider, StopQueued, queueVars, taskVars, ghostVars
<1>2. RowType' /\ TimelineType'
  <2>1. CASE Interrupt \/ InterruptProvider
    BY <2>1, Stays DEF Interrupt, InterruptProvider, storeVars
  <2>2. CASE InterruptQueue
    <3>1. QueuedKeys \in SUBSET Keys
      BY DEF QueuedKeys
    <3> QED BY <2>2, <3>1, CancelTyped, Stays DEF InterruptQueue
  <2>3. CASE StopQueued
    <3>1. {gate} \in SUBSET Keys
      BY <2>3 DEF StopQueued
    <3> QED BY <2>3, <3>1, CancelTyped, Stays DEF StopQueued
  <2> QED BY <2>1, <2>2, <2>3
<1>3. SessionType'
  BY DEF Interrupt, InterruptQueue, InterruptProvider, StopQueued, storeVars, TypeInv, SessionType,
     SessionState
<1>4. GateType'
  BY DEF Interrupt, InterruptQueue, InterruptProvider, StopQueued, storeVars, queueVars, TypeInv,
     GateType
<1>5. TaskType'
  <2>1. other \in BOOLEAN /\ dropping \in Switches \cup {NoSwitch}
    BY Zenon DEF TypeInv, TaskType
  <2>2. UNCHANGED <<other, dropping>>
    BY DEF Interrupt, InterruptQueue, InterruptProvider, StopQueued, taskVars
  <2>3. intr' \in {"none", "cancel", "provider"}
    BY DEF Interrupt, InterruptQueue, InterruptProvider, StopQueued, taskVars, TypeInv, TaskType
  <2> QED BY <2>1, <2>2, <2>3, Zenon DEF TaskType
<1>6. UsedType'
  <2>1. CASE Interrupt
    <3>1. used.interrupts + 1 \in 0..MaxInterrupts
      BY <2>1, SubmissionAssumption DEF Interrupt, TypeInv, UsedType
    <3> QED BY <2>1, <3>1 DEF Interrupt, TypeInv, UsedType
  <2>2. CASE InterruptQueue \/ InterruptProvider \/ StopQueued
    BY <2>2, Stays DEF InterruptQueue, InterruptProvider, StopQueued
  <2> QED BY <2>1, <2>2
<1> QED BY <1>1, <1>2, <1>3, <1>4, <1>5, <1>6, Stays, Zenon DEF TypeInv

\* Selecting a runtime, cancelling and driving its switch.
LEMMA SelectionTyped ==
    ASSUME TypeInv,
           \/ \E r \in Runtimes : SelectRuntime(r)
           \/ \E s \in Switches : CancelSelection(s) \/ SwitchStep(s)
    PROVE  TypeInv'
<1>1. /\ UNCHANGED <<storeVars, queueVars, wk, recon, ghostVars>> /\ UNCHANGED <<other, intr>>
  BY DEF SelectRuntime, CancelSelection, SwitchStep, taskVars
<1>2. SelectionInv'
  <2>1. ASSUME NEW r \in Runtimes, SelectRuntime(r) PROVE SelectionInv'
    <3>1. Resolve[r] \in Runtimes /\ NoRequester \in Requesters \cup {NoRequester}
      BY SelectionAssumption
    <3> QED BY <2>1, <3>1, EnqueueDesiredKeeps, MaterializeCurrentKeeps DEF SelectRuntime, TypeInv
  <2>2. ASSUME NEW s \in Switches, CancelSelection(s) \/ SwitchStep(s) PROVE SelectionInv'
    BY <2>2, DriveKeeps DEF CancelSelection, SwitchStep, TypeInv
  <2> QED BY <2>1, <2>2
<1>3. UsedType'
  <2>1. ASSUME NEW r \in Runtimes, SelectRuntime(r) PROVE UsedType'
    <3>1. used.selections + 1 \in 0..MaxSelections
      BY <2>1, SubmissionAssumption DEF SelectRuntime, TypeInv, UsedType
    <3> QED BY <2>1, <3>1 DEF SelectRuntime, TypeInv, UsedType
  <2>2. ASSUME NEW s \in Switches, CancelSelection(s) \/ SwitchStep(s) PROVE UsedType'
    BY <2>2, Stays DEF CancelSelection, SwitchStep
  <2> QED BY <2>1, <2>2
<1>4. TaskType'
  <2>1. dropping' \in Switches \cup {NoSwitch}
    BY DEF SelectRuntime, CancelSelection, SwitchStep, taskVars, TypeInv, TaskType
  <2> QED BY <1>1, <2>1, Zenon DEF TypeInv, TaskType
<1>5. /\ UNCHANGED sub /\ UNCHANGED timeline /\ UNCHANGED session /\ UNCHANGED <<caller, watched>>
      /\ UNCHANGED wk /\ UNCHANGED exits /\ UNCHANGED <<stop, gate>> /\ UNCHANGED recon
      /\ UNCHANGED ranOn
  BY <1>1 DEF storeVars, queueVars, ghostVars
<1> QED BY <1>2, <1>3, <1>4, <1>5, Stays, Zenon DEF TypeInv

\* cancel_for_switch.
LEMMA DropTyped ==
    ASSUME TypeInv, CancelForSwitch
    PROVE  TypeInv'
<1>1. RowType'
  <2>1. "cancelled" \in Status
    BY DEF Status, Terminal
  <2>2. \A k \in Keys : sub'[k] \in SubmissionRow
    BY <2>1 DEF CancelForSwitch, TypeInv, RowType, SubmissionRow
  <2> QED BY <2>2 DEF RowType, CancelForSwitch
<1>2. TaskType'
  BY Zenon DEF CancelForSwitch, TypeInv, TaskType
<1>3. /\ UNCHANGED selectionVars /\ UNCHANGED timeline /\ UNCHANGED session
      /\ UNCHANGED <<caller, watched>> /\ UNCHANGED wk /\ UNCHANGED exits /\ UNCHANGED <<stop, gate>>
      /\ UNCHANGED recon /\ UNCHANGED ranOn /\ UNCHANGED used
  BY DEF CancelForSwitch, queueVars, ghostVars
<1> QED BY <1>1, <1>2, <1>3, Stays, Zenon DEF TypeInv

\* Turns that are not a submission's.
LEMMA OtherTurnTyped ==
    ASSUME TypeInv, OtherTurnStarts \/ OtherTurnOutputs \/ OtherTurnEnds
    PROVE  TypeInv'
<1>1. /\ UNCHANGED selectionVars /\ UNCHANGED sub /\ UNCHANGED <<caller, watched>> /\ UNCHANGED wk
      /\ UNCHANGED exits /\ UNCHANGED <<stop, gate>> /\ UNCHANGED recon /\ UNCHANGED ranOn
      /\ UNCHANGED <<intr, dropping>>
  BY DEF OtherTurnStarts, OtherTurnOutputs, OtherTurnEnds, queueVars, taskVars, ghostVars
<1>2. TaskType'
  <2>1. other' \in BOOLEAN
    <3>1. CASE OtherTurnStarts
      BY <3>1 DEF OtherTurnStarts
    <3>2. CASE OtherTurnEnds
      BY <3>2 DEF OtherTurnEnds
    <3>3. CASE OtherTurnOutputs
      <4>1. UNCHANGED other
        BY <3>3 DEF OtherTurnOutputs, taskVars
      <4> QED BY <4>1, Zenon DEF TypeInv, TaskType
    <3> QED BY <3>1, <3>2, <3>3
  <2> QED BY <1>1, <2>1, Zenon DEF TypeInv, TaskType
<1>3. TimelineType' /\ SessionType' /\ UsedType'
  <2>1. UserItem(NoKey) \in Item /\ [kind |-> "final", key |-> NoKey] \in Item
    BY ItemsTyped DEF ItemKind
  <2>2. CASE OtherTurnStarts
    <3>1. TimelineType'
      BY <2>1, <2>2, Stays, AppendTyped DEF OtherTurnStarts
    <3>2. SessionType'
      BY <2>2 DEF OtherTurnStarts, SessionType, SessionState
    <3>3. used.turns + 1 \in 0..MaxTurns
      BY <2>2, SubmissionAssumption DEF OtherTurnStarts, TypeInv, UsedType
    <3>4. UsedType'
      BY <2>2, <3>3 DEF OtherTurnStarts, TypeInv, UsedType
    <3> QED BY <3>1, <3>2, <3>4
  <2>3. CASE OtherTurnOutputs
    BY <2>1, <2>3, Stays, AppendTyped DEF OtherTurnOutputs
  <2>4. CASE OtherTurnEnds
    <3>1. CASE session' = "idle" /\ UNCHANGED <<timeline, used>>
      BY <3>1, Stays DEF SessionType, SessionState
    <3> QED BY <2>4, <3>1, FinishTurnTyped DEF OtherTurnEnds
  <2> QED BY <2>2, <2>3, <2>4
<1> QED BY <1>1, <1>2, <1>3, Stays, Zenon DEF TypeInv

-----------------------------------------------------------------------------
(* Crash, restart and reconciliation. *)

\* recover_interrupted_sessions after a crash.
LEMMA CrashTyped ==
    ASSUME TypeInv, CrashRestart
    PROVE  TypeInv'
<1>1. WorkerType'
  BY DefaultsAreTyped DEF CrashRestart, WorkerType
<1>2. ClientType'
  BY DEF CrashRestart, ClientType
<1>3. ExitsType'
  BY SubmissionAssumption DEF CrashRestart, ExitsType
<1>4. GateType'
  BY DEF CrashRestart, TypeInv, GateType
<1>5. TaskType'
  BY DEF CrashRestart, TaskType
<1>6. ReconType'
  BY DEF CrashRestart, ReconType
<1>7. UsedType'
  <2>1. used.crashes + 1 \in 0..MaxCrashes
    BY SubmissionAssumption DEF CrashRestart, TypeInv, UsedType
  <2> QED BY <2>1 DEF CrashRestart, TypeInv, UsedType
<1>8. TimelineType' /\ SessionType'
  <2>1. ErrorItem(NoKey) \in Item
    BY ItemsTyped
  <2>2. TimelineType'
    BY <2>1, Stays, AppendTyped DEF CrashRestart, RecoverInterruptedSession
  <2>3. SessionType'
    BY DEF CrashRestart, RecoverInterruptedSession, TypeInv, SessionType, SessionState
  <2> QED BY <2>2, <2>3
<1>9. UNCHANGED selectionVars /\ UNCHANGED sub /\ UNCHANGED ranOn
  BY DEF CrashRestart, ghostVars
<1> QED BY <1>1, <1>2, <1>3, <1>4, <1>5, <1>6, <1>7, <1>8, <1>9, Stays, Zenon DEF TypeInv

\* The three steps of reconcile_on_startup.
LEMMA ReconcileTyped ==
    ASSUME Shape, ReconShape, TypeInv, Reconcile
    PROVE  TypeInv'
<1>1. /\ UNCHANGED selectionVars /\ UNCHANGED timeline /\ UNCHANGED session /\ UNCHANGED caller
      /\ UNCHANGED exits /\ UNCHANGED <<stop, gate>> /\ UNCHANGED <<other, intr, dropping>>
      /\ UNCHANGED ranOn
  BY DEF Reconcile, ReconcileList, ReconcileRow, ReconcileStart, storeVars, queueVars, ghostVars
<1>2. WorkerType' /\ watched' \in BOOLEAN
  <2>1. CASE UNCHANGED <<watched, wk>>
    <3>1. watched' \in BOOLEAN
      BY <2>1, Zenon DEF TypeInv, ClientType
    <3> QED BY <2>1, <3>1, Stays
  <2>2. UNCHANGED <<watched, wk>> \/ StartWorker
    BY DEF Reconcile, ReconcileList, ReconcileRow, ReconcileStart, queueVars
  <2> QED BY <2>1, <2>2, StartWorkerTyped
<1>3. ClientType'
  BY <1>1, <1>2, Zenon DEF TypeInv, ClientType
<1>4. UsedType'
  BY Stays, SpendFaultKeeps DEF Reconcile, ReconcileList, ReconcileRow, ReconcileStart
<1>5. RowType' /\ ReconType'
  <2>1. CASE ReconcileList
    <3>1. {[key |-> k, status |-> sub[k].status] : k \in OpenKeys} \subseteq [key : Keys, status : Status]
      BY DEF OpenKeys, TypeInv, RowType, SubmissionRow
    <3>2. ReconType'
      BY <2>1, <3>1 DEF ReconcileList, ReconTo, ReconType
    <3> QED BY <2>1, <3>2, Stays DEF ReconcileList, storeVars
  <2>2. CASE ReconcileStart
    <3>1. ReconType'
      BY <2>2 DEF ReconcileStart, ReconTo, ReconType
    <3> QED BY <2>2, <3>1, Stays DEF ReconcileStart, storeVars
  <2>3. CASE ReconcileRow
    <3> DEFINE e == CHOOSE x \in recon.todo :
                      \A y \in recon.todo : sub[x.key].seq <= sub[y.key].seq
               S == {sub[x.key].seq : x \in recon.todo}
    <3>1. S \subseteq Nat /\ S # {}
      BY <2>3 DEF ReconcileRow, ReconShape, Shape, QueueShape
    <3>2. PICK m \in S : \A n \in S : m <= n
      <4> HIDE DEF S
      <4> QED BY <3>1, NatMin
    <3>3. \E x \in recon.todo : \A y \in recon.todo : sub[x.key].seq <= sub[y.key].seq
      BY <3>2
    <3>4. e \in recon.todo
      BY <3>3
    <3>5. /\ \/ UNCHANGED sub
             \/ /\ e.status \notin Queued
                /\ sub' = [sub EXCEPT ![e.key].status = Reconciled[e.status]]
          /\ \/ recon' = [pc |-> "done", todo |-> {}]
             \/ recon' = [pc |-> "step", todo |-> recon.todo \ {e}]
      BY <2>3 DEF ReconcileRow, ReconTo
    <3> HIDE DEF e
    <3>6. ReconType'
      BY <3>5 DEF TypeInv, ReconType
    <3>7. CASE /\ e.status \notin Queued
               /\ sub' = [sub EXCEPT ![e.key].status = Reconciled[e.status]]
      <4>1. e.key \in Keys /\ e.status \in {"about", "dispatched"}
        BY <3>4, <3>7 DEF ReconShape
      <4>2. Reconciled[e.status] \in Status
        BY <4>1 DEF Reconciled, Status, Terminal
      <4> QED BY <3>6, <3>7, <4>1, <4>2 DEF TypeInv, RowType, SubmissionRow
    <3> QED BY <3>5, <3>6, <3>7, Stays
  <2> QED BY <2>1, <2>2, <2>3 DEF Reconcile
<1> QED BY <1>1, <1>2, <1>3, <1>4, <1>5, Stays, Zenon DEF TypeInv

-----------------------------------------------------------------------------
(* The theorems. *)

\* The initial state has its types.
LEMMA TypeInit == Init => TypeInv
<1> SUFFICES ASSUME Init PROVE TypeInv
  OBVIOUS
<1>1. SelectionInv
  BY SelectionStarts DEF Init
<1>2. RowType /\ WorkerType
  BY DefaultsAreTyped DEF Init, RowType, WorkerType
<1>3. TimelineType /\ SessionType
  BY DEF Init, TimelineType, SessionType, SessionState
<1>4. ClientType /\ TaskType
  BY DEF Init, ClientType, TaskType
<1>5. ExitsType /\ GateType /\ ReconType
  BY SubmissionAssumption DEF Init, ExitsType, GateType, ReconType
<1>6. RanOnType /\ UsedType
  BY SelectionAssumption, SubmissionAssumption DEF Init, RanOnType, UsedType
<1> QED BY <1>1, <1>2, <1>3, <1>4, <1>5, <1>6, Zenon DEF TypeInv

\* Every step keeps the types, given the delivery invariant.
LEMMA TypeNext == DeliveryInv /\ TypeInv /\ [Next]_vars => TypeInv'
<1> SUFFICES ASSUME DeliveryInv, TypeInv, [Next]_vars PROVE TypeInv'
  OBVIOUS
<1>0. Shape /\ ReconShape
  BY DEF DeliveryInv
<1>1. CASE UNCHANGED vars
  <2>1. /\ UNCHANGED selectionVars /\ UNCHANGED sub /\ UNCHANGED timeline /\ UNCHANGED session
        /\ UNCHANGED <<caller, watched>> /\ UNCHANGED wk /\ UNCHANGED exits
        /\ UNCHANGED <<stop, gate>> /\ UNCHANGED <<other, intr, dropping>> /\ UNCHANGED recon
        /\ UNCHANGED ranOn /\ UNCHANGED used
    BY <1>1 DEF vars, storeVars, queueVars, taskVars, ghostVars
  <2> QED BY <2>1, Stays, Zenon DEF TypeInv
<1>2. CASE Next
  BY <1>0, <1>2, CallerTyped, WorkerStepTyped, RecheckTyped, InterruptTyped, SelectionTyped,
     DropTyped, OtherTurnTyped, CrashTyped, ReconcileTyped DEF Next
<1> QED BY <1>1, <1>2

\* Every variable keeps its declared type in every reachable state: row statuses and
\* result ranges, the selection columns and switch references, the program counters
\* and keys of drain_session tasks, the Timeline and the startup listing.
THEOREM TypesHold == Spec => []TypeOK
<1>1. DeliveryInv /\ TypeInv => TypeOK
  <2> SUFFICES ASSUME DeliveryInv, TypeInv PROVE TypeOK
    OBVIOUS
  <2>1. prompts \in [Keys -> Nat]
    BY DEF DeliveryInv, Shape
  <2>2. SelectionTypeOK
    BY DEF TypeInv, SelectionInv
  <2>3. exits \in [first : 0..MaxExits, second : 0..MaxExits]
    BY DEF TypeInv, ExitsType
  <2> QED BY <2>1, <2>2, <2>3, Zenon DEF TypeOK, TypeInv, RowType, WorkerType, TimelineType,
          SessionType, ClientType, GateType, TaskType, ReconType, RanOnType, UsedType
<1> QED BY <1>1, TypeInit, TypeNext, DeliveryInvariant, PTL DEF Spec

\* Whatever the user selects, the worker requests and the drivers commit, cancel or
\* supersede, a switch is claimed exactly while it holds the pending slot of the
\* session (claim_requested, request_switch, commit, finish_without_commit).
THEOREM SlotFollowsClaim == Spec => []SlotIsClaimed
<1>1. TypeInv => SlotIsClaimed
  BY DEF TypeInv, SelectionInv
<1> QED BY <1>1, TypeInit, TypeNext, DeliveryInvariant, PTL DEF Spec

=============================================================================
