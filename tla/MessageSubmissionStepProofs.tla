--------------------- MODULE MessageSubmissionStepProofs ---------------------
(***************************************************************************)
(* What holds of MessageSubmission for every value of the constants beyond *)
(* its types and its delivery: no step takes back a final status, delivers *)
(* a message before an earlier one is final or an execution that was told  *)
(* to stop; what a row tells the client of its prompt is so; a message is  *)
(* delivered on the runtime it asks for, appears once in the Timeline and  *)
(* has a result of its own; no wakeup of the queue is lost; one turn runs  *)
(* at a time; a session that is not on the runtime it wants has a switch   *)
(* that brings it there; and with all its callers, workers and restarts    *)
(* the queue implements the ledger of DeliveryLedger.                      *)
(***************************************************************************)
EXTENDS MessageSubmissionTypeProofs

-----------------------------------------------------------------------------
(* Final statuses. *)

\* A step that leaves final statuses alone.
FinalKept == \A k \in Keys : sub[k].status \in Terminal => sub'[k].status = sub[k].status

\* The statuses the conditional writes of the worker expect.
Expected == Queued \cup {"about", "dispatched"}

\* A conditional write that expects an open message leaves final statuses alone.
LEMMA WriteKeepsFinal ==
    ASSUME TypeInv, NEW w \in Workers, Key(w) \in Keys, NEW from \in Expected, NEW row, NEW next,
           Write(w, from, row, next)
    PROVE  FinalKept
<1>1. \/ UNCHANGED sub
      \/ Row(w).status = from /\ sub' = [sub EXCEPT ![Key(w)] = row]
  BY DEF Write
<1>2. from \notin Terminal
  BY DEF Expected, Queued, Terminal
<1> QED BY <1>1, <1>2 DEF FinalKept, TypeInv, RowType, Row

\* The steps of a worker.
LEMMA WorkerKeepsFinal ==
    ASSUME Shape, TypeInv, NEW w \in Workers, WorkerStep(w) \/ StorageError(w)
    PROVE  FinalKept
<1>1. {"awaiting", "ready", "about", "dispatched"} = Expected
  BY DEF Expected, Queued
<1>2. CASE UNCHANGED sub
  BY <1>2 DEF FinalKept
<1>3. CASE Terminalize(w)
  <2>1. Key(w) \in Keys
    BY <1>3, DrivenKey DEF Terminalize, At, Keyless
  <2>2. \A t \in Terminal : GivenUp(t) = t
    BY DEF GivenUp, Queued, Terminal
  <2> QED BY <1>2, <1>3, <2>1, <2>2 DEF Terminalize, FinalKept, TypeInv, RowType, SubmissionRow, Row
<1>4. CASE Redrive(w) \/ Finish(w)
  <2>1. Key(w) \in Keys
    BY <1>4, DrivenKey DEF Redrive, Finish, At, Keyless
  <2> QED BY <1>1, <1>4, <2>1, WriteKeepsFinal DEF Redrive, Finish, Advance
<1>5. CASE AwaitRuntime(w)
  <2>1. Key(w) \in Keys
    BY <1>5, DrivenKey DEF AwaitRuntime, ReadSelection, Normalize, ForceFresh, ReserveFresh,
       AwaitFresh, RuntimeReady, HandleTerminalSwitch, RuntimeUnavailable, JoinPending,
       RequestRuntime, ReadRequested, Adopt, LinkSwitch, Unlinked, Deciding, At, Keyless
  <2>2. \/ UNCHANGED sub
        \/ \E from \in Expected : \E row, next : Write(w, from, row, next)
    BY <1>1, <1>5 DEF AwaitRuntime, ReadSelection, Normalize, ForceFresh, ReserveFresh,
       AwaitFresh, RuntimeReady, HandleTerminalSwitch, RuntimeUnavailable, JoinPending,
       RequestRuntime, ReadRequested, Adopt, LinkSwitch, Advance, storeVars
  <2> QED BY <1>2, <2>1, <2>2, WriteKeepsFinal
<1>6. CASE DispatchMessage(w)
  <2>1. Key(w) \in Keys
    BY <1>6, DrivenKey DEF DispatchMessage, PauseDispatch, CheckRuntime, MarkAboutToPrompt,
       MaterializeFails, RecordReturned, Classify, RecordPersisted, FailAfterDispatch,
       Unclassified, At, Keyless
  <2>2. CASE RecordPersisted(w) \/ FailAfterDispatch(w)
    <3>1. "about" \notin Terminal
      BY DEF Terminal
    <3>2. UNCHANGED sub \/ (Row(w).status = "about" /\ \E row : sub' = [sub EXCEPT ![Key(w)] = row])
      BY <2>2 DEF RecordPersisted, FailAfterDispatch
    <3> QED BY <2>1, <3>1, <3>2 DEF FinalKept, TypeInv, RowType, Row
  <2>3. CASE CheckRuntime(w) \/ MarkAboutToPrompt(w) \/ RecordReturned(w) \/ Unclassified(w)
    BY <1>1, <1>2, <2>1, <2>3, WriteKeepsFinal DEF CheckRuntime, MarkAboutToPrompt, RecordReturned,
       Unclassified, Advance
  <2>4. CASE PauseDispatch(w) \/ MaterializeFails(w) \/ Classify(w)
    BY <1>2, <2>4 DEF PauseDispatch, MaterializeFails, Classify, storeVars
  <2> QED BY <1>6, <2>2, <2>3, <2>4 DEF DispatchMessage
<1>7. CASE RunAgentTurn(w) \/ TakeHead(w) \/ Unwatch(w) \/ StorageError(w)
  BY <1>2, <1>7 DEF RunAgentTurn, AdmitTurn, ClaimRunningTurn, AdmissionError, AppendUserBoundary,
     PrepareTurn, PrepareFails, DeliverPrompt, StreamOutput, TurnReturns, TurnFails, TakeHead,
     Unwatch, StorageError, storeVars
<1> QED BY <1>3, <1>4, <1>5, <1>6, <1>7 DEF WorkerStep

\* A new message, or the retry of one that has a row.
LEMMA EnqueueKeepsFinal ==
    ASSUME TypeInv, NEW k \in Keys, NEW fresh, Enqueue(k, fresh)
    PROVE  FinalKept
<1>1. "absent" \notin Terminal
  BY DEF Terminal
<1>2. UNCHANGED sub \/ (sub[k].status = "absent" /\ \E row : sub' = [sub EXCEPT ![k] = row])
  BY DEF Enqueue
<1> QED BY <1>1, <1>2 DEF FinalKept, TypeInv, RowType

\* Messages are only taken out of the queue.
LEMMA CancelKeepsFinal ==
    ASSUME TypeInv, NEW Q \in SUBSET Keys, \A k \in Q : sub[k].status \in Queued,
           CancelBeforeDispatch(Q)
    PROVE  FinalKept
<1>1. \A k \in Q : sub[k].status \notin Terminal
  BY DEF Queued, Terminal
<1>2. \A k \in Keys : k \notin Q => sub'[k] = sub[k]
  BY DEF CancelBeforeDispatch
<1> QED BY <1>1, <1>2 DEF FinalKept

\* What an edit takes back was completed, and the Timeline gets shorter.
FinalStep ==
    \A k \in Keys :
        /\ sub[k].status \in Terminal
        /\ sub'[k].status # sub[k].status
        => /\ sub[k].status = "completed" /\ sub'[k].status = "cancelled"
           /\ Len(timeline') < Len(timeline)

\* replace_latest_user_message.
LEMMA EditFinalStep ==
    ASSUME TypeInv, NEW k \in Keys, Edit(k)
    PROVE  FinalStep
<1> DEFINE userItems == Users(timeline, 0, Len(timeline))
           cut == MaxOf(userItems)
<1>1. CASE sub[k].status # "absent"
  <2>1. FinalKept
    BY <1>1, EnqueueKeepsFinal DEF Edit
  <2> QED BY <2>1 DEF FinalKept, FinalStep
<1>2. CASE sub[k].status = "absent"
  <2>1. /\ userItems # {}
        /\ timeline' = SubSeq(timeline, 1, cut - 1)
        /\ \A j \in Keys : j # k =>
             sub'[j] = IF SupersededByEdit(j, cut) THEN [sub[j] EXCEPT !.status = "cancelled"]
                       ELSE sub[j]
    BY <1>2 DEF Edit
  <2>2. timeline \in Seq(Item) /\ Len(timeline) \in Nat
    BY DEF TypeInv, TimelineType
  <2>3. cut \in 1..Len(timeline)
    <3>1. userItems \subseteq 1..Len(timeline)
      BY <2>2 DEF Users
    <3>2. userItems \subseteq Nat /\ \A x \in userItems : x <= Len(timeline)
      BY <2>2, <3>1
    <3> HIDE DEF userItems
    <3>3. cut \in userItems
      BY <2>1, <2>2, <3>2, MaxOfBounded
    <3> QED BY <3>1, <3>3
  <2> HIDE DEF userItems, cut
  <2>4. Len(timeline') < Len(timeline)
    <3>1. \A i \in 1..(cut - 1) : timeline[i] \in Item
      BY <2>2, <2>3
    <3>2. Len(SubSeq(timeline, 1, cut - 1)) = cut - 1
      BY <2>2, <2>3, <3>1, SubSeqProperties
    <3> QED BY <2>1, <2>2, <2>3, <3>2
  <2>5. ASSUME NEW j \in Keys, sub[j].status \in Terminal, sub'[j].status # sub[j].status
        PROVE  sub[j].status = "completed" /\ sub'[j].status = "cancelled"
    <3>1. j # k
      BY <1>2, <2>5 DEF Terminal
    <3>2. SupersededByEdit(j, cut) /\ sub'[j] = [sub[j] EXCEPT !.status = "cancelled"]
      BY <2>1, <2>5, <3>1
    <3> QED BY <3>2 DEF SupersededByEdit, TypeInv, RowType, SubmissionRow
  <2> QED BY <2>4, <2>5 DEF FinalStep
<1> QED BY <1>1, <1>2

\* Reconciliation rewrites a row only from the status that was listed.
LEMMA ReconciledRow ==
    ASSUME Shape, ReconShape, Reconcile
    PROVE  UNCHANGED sub \/ \E e : /\ e \in recon.todo /\ e.status \notin Queued /\ AsListed(e)
                                  /\ sub' = [sub EXCEPT ![e.key].status = Reconciled[e.status]]
<1>1. CASE ReconcileRow
  <2> DEFINE e == CHOOSE x \in recon.todo :
                    \A y \in recon.todo : sub[x.key].seq <= sub[y.key].seq
             S == {sub[x.key].seq : x \in recon.todo}
  <2>1. S \subseteq Nat /\ S # {}
    BY <1>1 DEF ReconcileRow, ReconShape, Shape, QueueShape
  <2>2. PICK m \in S : \A n \in S : m <= n
    <3> HIDE DEF S
    <3> QED BY <2>1, NatMin
  <2>3. e \in recon.todo
    BY <2>2
  <2>4. \/ UNCHANGED sub
        \/ /\ e.status \notin Queued /\ AsListed(e)
           /\ sub' = [sub EXCEPT ![e.key].status = Reconciled[e.status]]
    BY <1>1 DEF ReconcileRow
  <2> HIDE DEF e
  <2> QED BY <2>3, <2>4
<1>2. CASE ReconcileList \/ ReconcileStart
  BY <1>2 DEF ReconcileList, ReconcileStart, storeVars
<1> QED BY <1>1, <1>2 DEF Reconcile

\* The rows reconciliation rewrites are open.
LEMMA ReconcileKeepsFinal ==
    ASSUME Shape, ReconShape, TypeInv, Reconcile
    PROVE  FinalKept
<1>1. CASE UNCHANGED sub
  BY <1>1 DEF FinalKept
<1>2. ASSUME NEW e, e \in recon.todo, e.status \notin Queued, AsListed(e),
             sub' = [sub EXCEPT ![e.key].status = Reconciled[e.status]]
      PROVE  FinalKept
  <2>1. e.key \in Keys /\ sub[e.key].status \in {"about", "dispatched"}
    BY <1>2 DEF ReconShape, AsListed
  <2>2. sub[e.key].status \notin Terminal
    BY <2>1 DEF Terminal
  <2> QED BY <1>2, <2>1, <2>2 DEF FinalKept, TypeInv, RowType
<1> QED BY <1>1, <1>2, ReconciledRow

\* Every step leaves final statuses alone or is an edit.
LEMMA FinalNext == DeliveryInv /\ TypeInv /\ [Next]_vars => [FinalStep]_vars
<1> SUFFICES ASSUME DeliveryInv, TypeInv, Next PROVE FinalStep
  OBVIOUS
<1>0. Shape /\ ReconShape
  BY DEF DeliveryInv
<1>1. FinalKept => FinalStep
  BY DEF FinalKept, FinalStep
<1>2. UNCHANGED sub => FinalKept
  BY DEF FinalKept
<1>3. ASSUME NEW k \in Keys, Submit(k) \/ Edit(k) \/ Wait(k) \/ Answer(k) \/ StopExecution(k)
      PROVE  FinalStep
  <2>1. CASE Submit(k)
    BY <1>1, <2>1, EnqueueKeepsFinal DEF Submit
  <2>2. CASE Edit(k)
    BY <2>2, EditFinalStep
  <2>3. CASE Wait(k) \/ Answer(k) \/ StopExecution(k)
    BY <1>1, <1>2, <2>3 DEF Wait, Answer, StopExecution, storeVars
  <2> QED BY <1>3, <2>1, <2>2, <2>3
<1>4. ASSUME NEW w \in Workers, WorkerStep(w) \/ StorageError(w) PROVE FinalStep
  BY <1>0, <1>1, <1>4, WorkerKeepsFinal
<1>5. CASE InterruptQueue
  <2>1. QueuedKeys \in SUBSET Keys /\ \A k \in QueuedKeys : sub[k].status \in Queued
    BY DEF QueuedKeys
  <2> QED BY <1>1, <1>2, <1>5, <2>1, CancelKeepsFinal DEF InterruptQueue
<1>6. CASE StopQueued
  <2>1. {gate} \in SUBSET Keys
    BY <1>6 DEF StopQueued
  <2> QED BY <1>1, <1>2, <1>6, <2>1, CancelKeepsFinal DEF StopQueued
<1>7. CASE CancelForSwitch
  <2>1. \A k \in Keys : sub[k].status \notin Queued => sub'[k] = sub[k]
    BY <1>7 DEF CancelForSwitch
  <2>2. \A t \in Terminal : t \notin Queued
    BY DEF Terminal, Queued
  <2> QED BY <1>1, <2>1, <2>2 DEF FinalKept
<1>8. CASE Reconcile
  BY <1>0, <1>1, <1>8, ReconcileKeepsFinal
<1>9. CASE \/ Recheck \/ Interrupt \/ InterruptProvider \/ CrashRestart
           \/ \E r \in Runtimes : SelectRuntime(r)
           \/ \E s \in Switches : CancelSelection(s) \/ SwitchStep(s)
           \/ OtherTurnStarts \/ OtherTurnOutputs \/ OtherTurnEnds
  BY <1>1, <1>2, <1>9 DEF Recheck, Interrupt, InterruptProvider, CrashRestart, SelectRuntime,
     CancelSelection, SwitchStep, OtherTurnStarts, OtherTurnOutputs, OtherTurnEnds, storeVars
<1> QED BY <1>3, <1>4, <1>5, <1>6, <1>7, <1>8, <1>9 DEF Next

\* A status the client was told as final never changes: a late worker, a retry, an
\* interrupt, a cancelled switch and startup reconciliation leave it alone.  Only an
\* edit takes completed messages back, and it cuts the Timeline when it does
\* (advance_status, terminalize_drive_error, replace_latest_user_message).
THEOREM FinalStatusStays == Spec => FinalStays
<1>1. [FinalStep]_vars => [\A k \in Keys :
         /\ sub[k].status \in Terminal
         /\ sub'[k].status # sub[k].status
         => /\ sub[k].status = "completed" /\ sub'[k].status = "cancelled"
            /\ Len(timeline') < Len(timeline)]_vars
  BY DEF FinalStep
<1> QED BY <1>1, TypeInit, TypeNext, FinalNext, DeliveryInvariant, PTL DEF Spec, FinalStays

-----------------------------------------------------------------------------
(* Queue order. *)

\* A worker that drives a message found it at the head of the queue, and nothing
\* that is queued later can get in front of it.
HeadFirst ==
    \A w \in Workers : wk[w].pc \notin Keyless =>
        /\ sub[wk[w].key].status # "absent"
        /\ \A j \in Keys : sub[j].seq < sub[wk[w].key].seq => j \notin OpenKeys

-----------------------------------------------------------------------------
(* What a step does to the order of the rows. *)

RowKept(k) ==
    /\ sub'[k].seq = sub[k].seq /\ sub'[k].fresh = sub[k].fresh
    /\ sub'[k].status = "absent" <=> sub[k].status = "absent"

RowsKept == \A k \in Keys : RowKept(k)

RowAdded ==
    \E k \in Keys :
        /\ sub[k].status = "absent" /\ sub'[k].seq = NextSequence
        /\ sub'[k].fresh => k \in EditKeys
        /\ \A j \in Keys : j # k => RowKept(j)

OrderKept == RowsKept \/ RowAdded

\* A write of one row that keeps its sequence and its force-fresh flag.
LEMMA RowWriteKeepsOrder ==
    ASSUME TypeInv, NEW k \in Keys, NEW row, sub' = [sub EXCEPT ![k] = row],
           row.seq = sub[k].seq, row.fresh = sub[k].fresh,
           row.status = "absent" <=> sub[k].status = "absent"
    PROVE  RowsKept
  BY DEF TypeInv, RowType, RowsKept, RowKept

\* A conditional write of the worker.
LEMMA WriteKeepsOrder ==
    ASSUME TypeInv, NEW w \in Workers, Key(w) \in Keys, NEW from \in Expected, NEW row, NEW next,
           Write(w, from, row, next), row.seq = Row(w).seq, row.fresh = Row(w).fresh,
           row.status # "absent"
    PROVE  RowsKept
<1>1. from # "absent"
  BY DEF Expected, Queued
<1>2. \/ UNCHANGED sub
      \/ Row(w).status = from /\ sub' = [sub EXCEPT ![Key(w)] = row]
  BY DEF Write
<1>3. CASE UNCHANGED sub
  BY <1>3 DEF RowsKept, RowKept
<1> QED BY <1>1, <1>2, <1>3, RowWriteKeepsOrder DEF Row

\* A conditional status write of the worker.
LEMMA AdvanceKeepsOrder ==
    ASSUME TypeInv, NEW w \in Workers, Key(w) \in Keys, NEW from \in Expected,
           NEW to \in Queued \cup Terminal \cup {"about"}, NEW next, Advance(w, from, to, next)
    PROVE  RowsKept
<1>1. to # "absent"
  BY DEF Queued, Terminal
<1>2. Row(w) \in SubmissionRow
  BY DEF TypeInv, RowType, Row
<1>3. /\ [Row(w) EXCEPT !.status = to].seq = Row(w).seq
      /\ [Row(w) EXCEPT !.status = to].fresh = Row(w).fresh
      /\ [Row(w) EXCEPT !.status = to].status # "absent"
  BY <1>1, <1>2 DEF SubmissionRow
<1> QED BY <1>3, WriteKeepsOrder DEF Advance

\* The steps of a worker write rows in place.
LEMMA WorkerKeepsOrder ==
    ASSUME Shape, TypeInv, NEW w \in Workers, WorkerStep(w) \/ StorageError(w)
    PROVE  RowsKept
<1>1. {"awaiting", "ready", "about", "dispatched"} = Expected
  BY DEF Expected, Queued
<1>2. {"awaiting", "ready", "about", "completed", "failed", "cancelled", "ambiguous"}
        = Queued \cup Terminal \cup {"about"}
  BY DEF Queued, Terminal
<1>3. CASE UNCHANGED sub
  BY <1>3 DEF RowsKept, RowKept
<1>4. ASSUME wk[w].pc \notin Keyless PROVE Key(w) \in Keys /\ Row(w) \in SubmissionRow
  BY <1>4, DrivenKey
<1>5. CASE Terminalize(w)
  <2>1. Key(w) \in Keys /\ Row(w) \in SubmissionRow
    BY <1>4, <1>5 DEF Terminalize, At, Keyless
  <2>2. \A t \in Status : GivenUp(t) = "absent" <=> t = "absent"
    BY DEF GivenUp, Status, Queued, Terminal
  <2> QED BY <1>3, <1>5, <2>1, <2>2 DEF Terminalize, RowsKept, RowKept, TypeInv, RowType, SubmissionRow,
          Row
<1>6. CASE Redrive(w) \/ Finish(w)
  BY <1>1, <1>2, <1>4, <1>6, AdvanceKeepsOrder DEF Redrive, Finish, At, Keyless
<1>7. CASE AwaitRuntime(w)
  <2>1. Key(w) \in Keys /\ Row(w) \in SubmissionRow
    BY <1>4, <1>7 DEF AwaitRuntime, ReadSelection, Normalize, ForceFresh, ReserveFresh,
       AwaitFresh, RuntimeReady, HandleTerminalSwitch, RuntimeUnavailable, JoinPending,
       RequestRuntime, ReadRequested, Adopt, LinkSwitch, Unlinked, Deciding, At, Keyless
  <2>2. CASE Normalize(w) \/ Adopt(w) \/ LinkSwitch(w)
    <3>1. \/ UNCHANGED sub
          \/ /\ Row(w).status = "awaiting"
             /\ \E r : \/ sub' = [sub EXCEPT ![Key(w)] = [Row(w) EXCEPT !.desired = r]]
                       \/ sub' = [sub EXCEPT ![Key(w)] = [Row(w) EXCEPT !.link = r]]
      <4>1. CASE Normalize(w)
        <5>1. [Row(w) EXCEPT !.desired = Resolve[@]] = [Row(w) EXCEPT !.desired = Resolve[Row(w).desired]]
          OBVIOUS
        <5> QED BY <4>1, <5>1 DEF Normalize, Write
      <4>2. CASE Adopt(w) \/ LinkSwitch(w)
        BY <4>2 DEF Adopt, LinkSwitch, Write
      <4> QED BY <2>2, <4>1, <4>2
    <3>2. \A r : /\ [Row(w) EXCEPT !.desired = r].seq = Row(w).seq
                 /\ [Row(w) EXCEPT !.desired = r].fresh = Row(w).fresh
                 /\ [Row(w) EXCEPT !.desired = r].status = Row(w).status
                 /\ [Row(w) EXCEPT !.link = r].seq = Row(w).seq
                 /\ [Row(w) EXCEPT !.link = r].fresh = Row(w).fresh
                 /\ [Row(w) EXCEPT !.link = r].status = Row(w).status
      BY <2>1 DEF SubmissionRow
    <3> QED BY <1>3, <2>1, <3>1, <3>2, RowWriteKeepsOrder DEF Row
  <2>3. CASE RuntimeReady(w) \/ RuntimeUnavailable(w) \/ HandleTerminalSwitch(w)
    <3>1. AfterSwitch(sw[Row(w).link].status, Row(w).desired) \in {"ready", "failed", "cancelled"}
      BY DEF AfterSwitch
    <3> QED BY <1>1, <1>2, <1>3, <2>1, <2>3, <3>1, AdvanceKeepsOrder
            DEF RuntimeReady, RuntimeUnavailable, HandleTerminalSwitch
  <2>4. CASE \/ ReadSelection(w) \/ ForceFresh(w) \/ ReserveFresh(w) \/ AwaitFresh(w)
             \/ JoinPending(w) \/ RequestRuntime(w) \/ ReadRequested(w)
    BY <1>3, <2>4 DEF ReadSelection, ForceFresh, ReserveFresh, AwaitFresh, JoinPending,
       RequestRuntime, ReadRequested, storeVars
  <2> QED BY <1>7, <2>2, <2>3, <2>4 DEF AwaitRuntime
<1>8. CASE DispatchMessage(w)
  <2>1. Key(w) \in Keys /\ Row(w) \in SubmissionRow
    BY <1>4, <1>8 DEF DispatchMessage, PauseDispatch, CheckRuntime, MarkAboutToPrompt,
       MaterializeFails, RecordReturned, Classify, RecordPersisted, FailAfterDispatch,
       Unclassified, At, Keyless
  <2>2. CASE RecordReturned(w) \/ RecordPersisted(w) \/ FailAfterDispatch(w)
    <3>1. \/ UNCHANGED sub
          \/ /\ Row(w).status = "about"
             /\ \E s \in {"dispatched", "failed"} : \E first, last :
                  sub' = [sub EXCEPT ![Key(w)] =
                            [Row(w) EXCEPT !.status = s, !.first = first, !.last = last, !.sent = TRUE]]
      BY <2>2 DEF RecordReturned, RecordPersisted, FailAfterDispatch, Recorded, Write
    <3>2. ASSUME NEW s \in {"dispatched", "failed"}, NEW first, NEW last
          PROVE  LET row == [Row(w) EXCEPT !.status = s, !.first = first, !.last = last, !.sent = TRUE]
                 IN  row.seq = Row(w).seq /\ row.fresh = Row(w).fresh /\ row.status # "absent"
      BY <2>1 DEF SubmissionRow
    <3>3. ASSUME Row(w).status = "about", NEW s \in {"dispatched", "failed"}, NEW first, NEW last,
                 sub' = [sub EXCEPT ![Key(w)] =
                           [Row(w) EXCEPT !.status = s, !.first = first, !.last = last, !.sent = TRUE]]
          PROVE  RowsKept
      <4> DEFINE row == [Row(w) EXCEPT !.status = s, !.first = first, !.last = last, !.sent = TRUE]
      <4>1. /\ row.seq = sub[Key(w)].seq /\ row.fresh = sub[Key(w)].fresh
            /\ row.status # "absent" /\ sub[Key(w)].status # "absent"
        BY <3>2, <3>3 DEF Row
      <4>2. sub' = [sub EXCEPT ![Key(w)] = row]
        BY <3>3
      <4> HIDE DEF row
      <4> QED BY <2>1, <4>1, <4>2, RowWriteKeepsOrder
    <3> QED BY <1>3, <3>1, <3>3
  <2>3. CASE CheckRuntime(w) \/ MarkAboutToPrompt(w) \/ Unclassified(w)
    BY <1>1, <1>2, <1>3, <2>1, <2>3, AdvanceKeepsOrder DEF CheckRuntime, MarkAboutToPrompt, Unclassified
  <2>4. CASE PauseDispatch(w) \/ MaterializeFails(w) \/ Classify(w)
    BY <1>3, <2>4 DEF PauseDispatch, MaterializeFails, Classify, storeVars
  <2> QED BY <1>8, <2>2, <2>3, <2>4 DEF DispatchMessage
<1>9. CASE RunAgentTurn(w) \/ TakeHead(w) \/ Unwatch(w) \/ StorageError(w)
  BY <1>3, <1>9 DEF RunAgentTurn, AdmitTurn, ClaimRunningTurn, AdmissionError, AppendUserBoundary,
     PrepareTurn, PrepareFails, DeliverPrompt, StreamOutput, TurnReturns, TurnFails, TakeHead,
     Unwatch, StorageError, storeVars
<1> QED BY <1>5, <1>6, <1>7, <1>8, <1>9 DEF WorkerStep

\* Every step keeps the rows where they are, or adds one at the end.
LEMMA StepKeepsOrder ==
    ASSUME DeliveryInv, TypeInv, Next
    PROVE  OrderKept
<1>0. Shape /\ ReconShape
  BY DEF DeliveryInv
<1>1. CASE UNCHANGED sub
  BY <1>1 DEF OrderKept, RowsKept, RowKept
<1>2. ASSUME NEW k \in Keys, NEW fresh, fresh => k \in EditKeys, Enqueue(k, fresh)
      PROVE  OrderKept
  <2>1. CASE sub[k].status = "absent"
    <3>1. /\ sub'[k].seq = NextSequence /\ sub'[k].fresh = fresh
          /\ \A j \in Keys : j # k => sub'[j] = sub[j]
      BY <1>2, <2>1 DEF Enqueue, NoRow, TypeInv, RowType
    <3> QED BY <1>2, <2>1, <3>1 DEF OrderKept, RowAdded, RowKept
  <2> QED BY <1>1, <1>2, <2>1 DEF Enqueue
<1>3. ASSUME NEW k \in Keys, Submit(k) \/ Edit(k) \/ Wait(k) \/ Answer(k) \/ StopExecution(k)
      PROVE  OrderKept
  <2>1. CASE Submit(k)
    BY <1>2, <2>1 DEF Submit
  <2>2. CASE Edit(k)
    <3>1. CASE sub[k].status # "absent"
      BY <1>1, <2>2, <3>1 DEF Edit, Enqueue
    <3>2. CASE sub[k].status = "absent"
      <4>1. /\ sub'[k].seq = NextSequence
            /\ \A j \in Keys : j # k =>
                 \/ sub'[j] = sub[j]
                 \/ sub[j].status = "completed" /\ sub'[j] = [sub[j] EXCEPT !.status = "cancelled"]
        BY <2>2, <3>2 DEF Edit, NoRow, SupersededByEdit
      <4>2. ASSUME NEW j \in Keys, j # k PROVE RowKept(j)
        <5>1. sub[j] \in SubmissionRow
          BY DEF TypeInv, RowType
        <5>2. CASE sub'[j] = sub[j]
          BY <5>2 DEF RowKept
        <5>3. CASE sub[j].status = "completed" /\ sub'[j] = [sub[j] EXCEPT !.status = "cancelled"]
          BY <5>1, <5>3 DEF SubmissionRow, RowKept
        <5> QED BY <4>1, <4>2, <5>2, <5>3
      <4>3. k \in EditKeys
        BY <2>2 DEF Edit
      <4> QED BY <3>2, <4>1, <4>2, <4>3 DEF OrderKept, RowAdded
    <3> QED BY <3>1, <3>2
  <2>3. CASE Wait(k) \/ Answer(k) \/ StopExecution(k)
    BY <1>1, <2>3 DEF Wait, Answer, StopExecution, storeVars
  <2> QED BY <1>3, <2>1, <2>2, <2>3
<1>4. ASSUME NEW w \in Workers, WorkerStep(w) \/ StorageError(w) PROVE OrderKept
  BY <1>0, <1>4, WorkerKeepsOrder DEF OrderKept
<1>5. ASSUME NEW Q \in SUBSET Keys, \A k \in Q : sub[k].status \in Queued, CancelBeforeDispatch(Q)
      PROVE  OrderKept
  <2>1. PICK place \in [Q -> 1..Cardinality(Q)] : sub' = [k \in Keys |->
           IF k \in Q
           THEN [sub[k] EXCEPT !.status = "cancelled",
                   !.first = Len(timeline) + place[k], !.last = Len(timeline) + place[k]]
           ELSE sub[k]]
    BY <1>5 DEF CancelBeforeDispatch
  <2>2. RowsKept
    <3> SUFFICES ASSUME NEW k \in Keys PROVE RowKept(k)
      BY DEF RowsKept
    <3>1. sub[k] \in SubmissionRow
      BY DEF TypeInv, RowType
    <3>2. CASE k \in Q
      <4>1. sub[k].status # "absent"
        BY <1>5, <3>2 DEF Queued
      <4>2. \A x, y : LET row == [sub[k] EXCEPT !.status = "cancelled", !.first = x, !.last = y]
                      IN  /\ row.seq = sub[k].seq /\ row.fresh = sub[k].fresh
                          /\ row.status = "cancelled"
        BY <3>1 DEF SubmissionRow
      <4>3. sub'[k] = [sub[k] EXCEPT !.status = "cancelled",
                         !.first = Len(timeline) + place[k], !.last = Len(timeline) + place[k]]
        BY <2>1, <3>2
      <4> QED BY <4>1, <4>2, <4>3 DEF RowKept
    <3>3. CASE k \notin Q
      BY <2>1, <3>3 DEF RowKept
    <3> QED BY <3>2, <3>3
  <2> QED BY <2>2 DEF OrderKept
<1>6. CASE InterruptQueue
  <2>1. QueuedKeys \in SUBSET Keys /\ \A k \in QueuedKeys : sub[k].status \in Queued
    BY DEF QueuedKeys
  <2> QED BY <1>1, <1>5, <1>6, <2>1 DEF InterruptQueue
<1>7. CASE StopQueued
  <2>1. {gate} \in SUBSET Keys
    BY <1>7 DEF StopQueued
  <2> QED BY <1>1, <1>5, <1>7, <2>1 DEF StopQueued
<1>8. CASE CancelForSwitch
  <2>1. RowsKept
    BY <1>8 DEF CancelForSwitch, RowsKept, RowKept, TypeInv, RowType, SubmissionRow, Queued
  <2> QED BY <2>1 DEF OrderKept
<1>9. CASE Reconcile
  <2>1. UNCHANGED sub \/ \E e : /\ e \in recon.todo /\ e.status \notin Queued /\ AsListed(e)
                                /\ sub' = [sub EXCEPT ![e.key].status = Reconciled[e.status]]
    BY <1>0, <1>9, ReconciledRow
  <2>2. ASSUME NEW e, e \in recon.todo, e.status \notin Queued, AsListed(e),
               sub' = [sub EXCEPT ![e.key].status = Reconciled[e.status]]
        PROVE  OrderKept
    <3>1. e.key \in Keys /\ e.status \in {"about", "dispatched"} /\ sub[e.key].status = e.status
      BY <1>0, <2>2 DEF ReconShape, AsListed
    <3>2. Reconciled[e.status] \in {"ambiguous", "completed"}
      BY <3>1 DEF Reconciled
    <3>3. RowsKept
      BY <2>2, <3>1, <3>2 DEF RowsKept, RowKept, TypeInv, RowType, SubmissionRow
    <3> QED BY <3>3 DEF OrderKept
  <2> QED BY <1>1, <2>1, <2>2
<1>10. CASE \/ Recheck \/ Interrupt \/ InterruptProvider \/ CrashRestart
            \/ \E r \in Runtimes : SelectRuntime(r)
            \/ \E s \in Switches : CancelSelection(s) \/ SwitchStep(s)
            \/ OtherTurnStarts \/ OtherTurnOutputs \/ OtherTurnEnds
  BY <1>1, <1>10 DEF Recheck, Interrupt, InterruptProvider, CrashRestart, SelectRuntime,
     CancelSelection, SwitchStep, OtherTurnStarts, OtherTurnOutputs, OtherTurnEnds, storeVars
<1> QED BY <1>3, <1>4, <1>6, <1>7, <1>8, <1>9, <1>10 DEF Next

-----------------------------------------------------------------------------
(* What a step does to the messages the workers drive. *)

\* Every worker that drives a message drove it before.
DriveKept ==
    \A v \in Workers : wk'[v].pc \notin Keyless =>
        wk[v].pc \notin Keyless /\ wk'[v].key = wk[v].key

\* A worker that was started has no message yet.
LEMMA StartKeepsDrive ==
    ASSUME TypeInv, StartWorker \/ UNCHANGED wk
    PROVE  DriveKept
<1>1. CASE UNCHANGED wk
  BY <1>1 DEF DriveKept
<1>2. CASE \E w \in Workers : wk' = [wk EXCEPT ![w].pc = "head"]
  BY <1>2 DEF DriveKept, Keyless, TypeInv, WorkerType, WorkerTask
<1> QED BY <1>1, <1>2 DEF StartWorker

\* Between two looks at the head of the queue a worker keeps its message.
LEMMA WorkerKeepsDrive ==
    ASSUME Shape, TypeInv, NEW w \in Workers, WorkerStep(w) \/ StorageError(w), ~TakeHead(w)
    PROVE  DriveKept
<1>1. \A v \in Workers : v # w => wk'[v] = wk[v]
  BY WorkerStepOwn
<1>2. wk \in [Workers -> WorkerTask]
  BY DEF TypeInv, WorkerType
<1>3. \/ wk'[w].pc \in Keyless
      \/ wk[w].pc \notin Keyless /\ wk'[w].key = wk[w].key
  <2>1. ASSUME Return(w) PROVE wk'[w].pc \in Keyless
    BY <1>2, <2>1 DEF Return, OffWorker, Keyless
  <2>2. ASSUME NEW p, Enter(w, p) PROVE wk'[w].key = wk[w].key
    BY <1>2, <2>2 DEF Enter, WorkerTask
  <2>3. ASSUME NEW p, NEW v, wk' = [wk EXCEPT ![w].pc = p, ![w].snap = v]
        PROVE  wk'[w].key = wk[w].key
    BY <1>2, <2>3 DEF WorkerTask
  <2>4. CASE Unwatch(w)
    BY <1>2, <2>4 DEF Unwatch, OffWorker, Keyless
  <2>5. CASE Terminalize(w)
    BY <1>2, <2>5 DEF Terminalize, OffWorker, Keyless
  <2>6. CASE StorageError(w)
    <3>1. wk[w].pc \notin Keyless
      BY <2>6 DEF StorageError, StoragePcs, Keyless
    <3> QED BY <1>2, <2>2, <2>6, <3>1 DEF StorageError, OffWorker, Keyless
  <2>7. CASE Redrive(w) \/ Finish(w)
    <3>1. wk[w].pc \notin Keyless
      BY <2>7 DEF Redrive, Finish, At, Keyless
    <3> QED BY <2>1, <2>2, <2>7, <3>1 DEF Redrive, Finish, Advance, Write
  <2>8. CASE AwaitRuntime(w)
    <3>1. wk[w].pc \notin Keyless
      BY <2>8 DEF AwaitRuntime, ReadSelection, Normalize, ForceFresh, ReserveFresh, AwaitFresh,
         RuntimeReady, HandleTerminalSwitch, RuntimeUnavailable, JoinPending, RequestRuntime,
         ReadRequested, Adopt, LinkSwitch, Unlinked, Deciding, At, Keyless
    <3>2. \/ Return(w) \/ \E p : Enter(w, p)
          \/ \E p, v : wk' = [wk EXCEPT ![w].pc = p, ![w].snap = v]
      BY <2>8 DEF AwaitRuntime, ReadSelection, Normalize, ForceFresh, ReserveFresh, AwaitFresh,
         RuntimeReady, HandleTerminalSwitch, RuntimeUnavailable, JoinPending, RequestRuntime,
         ReadRequested, Adopt, LinkSwitch, Advance, Write
    <3> QED BY <2>1, <2>2, <2>3, <3>1, <3>2
  <2>9. CASE DispatchMessage(w)
    <3>1. wk[w].pc \notin Keyless
      BY <2>9 DEF DispatchMessage, PauseDispatch, CheckRuntime, MarkAboutToPrompt, MaterializeFails,
         RecordReturned, Classify, RecordPersisted, FailAfterDispatch, Unclassified, At, Keyless
    <3>2. CASE Classify(w)
      BY <1>2, <3>1, <3>2 DEF Classify, WorkerTask
    <3>3. CASE ~Classify(w)
      <4>1. \/ Return(w) \/ \E p : Enter(w, p)
            \/ wk' = [wk EXCEPT ![w].pc = "mark", ![w].start = Len(timeline)]
        BY <2>9, <3>3 DEF DispatchMessage, PauseDispatch, CheckRuntime, MarkAboutToPrompt,
           MaterializeFails, RecordReturned, RecordPersisted, FailAfterDispatch, Unclassified,
           Advance, Write
      <4> QED BY <1>2, <2>1, <2>2, <3>1, <4>1 DEF WorkerTask
    <3> QED BY <3>2, <3>3
  <2>10. CASE RunAgentTurn(w)
    <3>1. wk[w].pc \notin Keyless
      BY <2>10 DEF RunAgentTurn, AdmitTurn, ClaimRunningTurn, AdmissionError, AppendUserBoundary,
         PrepareTurn, PrepareFails, DeliverPrompt, StreamOutput, TurnReturns, TurnFails, At, Keyless
    <3>2. \/ UNCHANGED wk \/ \E p : Enter(w, p)
          \/ wk' = [wk EXCEPT ![w].pc = "claim", ![w].snap = View, ![w].saw = session]
      BY <2>10 DEF RunAgentTurn, AdmitTurn, ClaimRunningTurn, AdmissionError, AppendUserBoundary,
         PrepareTurn, PrepareFails, DeliverPrompt, StreamOutput, TurnReturns, TurnFails
    <3> QED BY <1>2, <2>2, <3>1, <3>2 DEF WorkerTask
  <2> QED BY <2>4, <2>5, <2>6, <2>7, <2>8, <2>9, <2>10 DEF WorkerStep
<1> QED BY <1>1, <1>3 DEF DriveKept

\* Every step but a look at the head of the queue.
LEMMA StepKeepsDrive ==
    ASSUME DeliveryInv, TypeInv, Next, \A w \in Workers : ~TakeHead(w)
    PROVE  DriveKept
<1>0. Shape
  BY DEF DeliveryInv
<1>1. CASE StartWorker \/ UNCHANGED wk
  BY <1>1, StartKeepsDrive
<1>2. ASSUME NEW w \in Workers, WorkerStep(w) \/ StorageError(w) PROVE DriveKept
  BY <1>0, <1>2, WorkerKeepsDrive
<1>3. CASE CrashRestart
  BY <1>3 DEF CrashRestart, OffWorker, DriveKept, Keyless
<1>4. \/ StartWorker \/ UNCHANGED wk \/ CrashRestart
      \/ \E w \in Workers : WorkerStep(w) \/ StorageError(w)
  BY DEF Next, Submit, Edit, Wait, Answer, StopExecution, Recheck, Interrupt, InterruptQueue,
     InterruptProvider, StopQueued, SelectRuntime, CancelSelection, SwitchStep, CancelForSwitch,
     OtherTurnStarts, OtherTurnOutputs, OtherTurnEnds, Reconcile, ReconcileList, ReconcileRow,
     ReconcileStart
<1> QED BY <1>1, <1>2, <1>3, <1>4

-----------------------------------------------------------------------------
(* The theorem. *)

\* Every step keeps the driven messages in front.
LEMMA HeadFirstNext == DeliveryInv /\ TypeInv /\ HeadFirst /\ [Next]_vars => HeadFirst'
<1> SUFFICES ASSUME DeliveryInv, TypeInv, HeadFirst, [Next]_vars PROVE HeadFirst'
  OBVIOUS
<1>0. Shape /\ QueueShape /\ SeqBounded /\ WorkerShape
  BY DEF DeliveryInv, Shape
<1>1. CASE UNCHANGED vars
  BY <1>1 DEF vars, storeVars, HeadFirst, OpenKeys
<1>2. ASSUME NEW w \in Workers, TakeHead(w) PROVE HeadFirst'
  <2>1. UNCHANGED sub /\ UNCHANGED OpenKeys /\ \A v \in Workers : v # w => wk'[v] = wk[v]
    BY <1>0, <1>2 DEF TakeHead, storeVars, OpenKeys, WorkerShape
  <2>2. CASE OpenKeys = {}
    <3>1. wk'[w].pc = "exit"
      BY <1>2, <2>2 DEF TakeHead, TypeInv, WorkerType, WorkerTask
    <3> QED BY <2>1, <3>1 DEF HeadFirst, Keyless
  <2>3. CASE OpenKeys # {}
    <3>1. wk'[w].key = HeadKey
      BY <1>2, <2>3 DEF TakeHead, TypeInv, WorkerType, WorkerTask
    <3>2. HeadKey \in OpenKeys /\ \A j \in OpenKeys : sub[HeadKey].seq <= sub[j].seq
      BY <1>0, <2>3, HeadKeyIsFirst
    <3>3. /\ sub[HeadKey].status # "absent"
          /\ \A j \in Keys : sub[j].seq < sub[HeadKey].seq => j \notin OpenKeys
      BY <1>0, <3>2 DEF OpenKeys, QueueShape
    <3> QED BY <2>1, <3>1, <3>3 DEF HeadFirst
  <2> QED BY <2>2, <2>3
<1>3. CASE Next /\ \A w \in Workers : ~TakeHead(w)
  <2>1. OrderKept /\ DriveKept
    BY <1>3, StepKeepsOrder, StepKeepsDrive
  <2>2. FinalStep
    <3>1. [FinalStep]_vars
      BY FinalNext
    <3> QED BY <3>1 DEF FinalStep, vars, storeVars
  <2>3. \A j \in Keys : sub[j].status # "absent" /\ j \notin OpenKeys => j \notin OpenKeys'
    BY <2>2 DEF FinalStep, OpenKeys, Terminal
  <2>4. NextSequence \in Nat /\ \A k \in Keys : sub[k].seq < NextSequence
    BY <1>0, NextSequenceIsNew
  <2> SUFFICES ASSUME NEW w \in Workers, wk'[w].pc \notin Keyless
               PROVE  /\ sub'[wk'[w].key].status # "absent"
                      /\ \A j \in Keys : sub'[j].seq < sub'[wk'[w].key].seq => j \notin OpenKeys'
    BY DEF HeadFirst
  <2> DEFINE k == wk[w].key
  <2>5. /\ wk'[w].key = k /\ k \in Keys /\ sub[k].status # "absent"
        /\ \A j \in Keys : sub[j].seq < sub[k].seq => j \notin OpenKeys
    BY <1>0, <2>1 DEF DriveKept, HeadFirst, WorkerShape
  <2> HIDE DEF k
  <2>6. sub'[k].seq = sub[k].seq /\ sub'[k].status # "absent"
    BY <2>1, <2>5 DEF OrderKept, RowsKept, RowKept, RowAdded
  <2>7. ASSUME NEW j \in Keys, sub'[j].seq < sub[k].seq PROVE j \notin OpenKeys'
    <3>1. sub[j].seq \in Nat /\ sub[k].seq \in Nat /\ sub[k].seq < NextSequence
      BY <1>0, <2>4, <2>5 DEF QueueShape
    <3>2. sub'[j].seq = sub[j].seq /\ (sub'[j].status = "absent" <=> sub[j].status = "absent")
      BY <2>1, <2>4, <2>7, <3>1 DEF OrderKept, RowsKept, RowKept, RowAdded
    <3>3. j \notin OpenKeys
      BY <2>5, <2>7, <3>2
    <3> QED BY <2>3, <3>2, <3>3 DEF OpenKeys
  <2> QED BY <2>5, <2>6, <2>7
<1> QED BY <1>1, <1>2, <1>3

\* Only DeliverPrompt counts a delivery.
LEMMA DeliversPrompt ==
    ASSUME Next, prompts' # prompts
    PROVE  \E w \in Workers : DeliverPrompt(w)
<1>1. ASSUME NEW w \in Workers, WorkerStep(w) \/ StorageError(w) PROVE DeliverPrompt(w)
  <2>1. CASE AwaitRuntime(w)
    BY <2>1 DEF AwaitRuntime, ReadSelection, Normalize, ForceFresh, ReserveFresh, AwaitFresh,
       RuntimeReady, HandleTerminalSwitch, RuntimeUnavailable, JoinPending, RequestRuntime,
       ReadRequested, Adopt, LinkSwitch, ghostVars
  <2>2. CASE DispatchMessage(w)
    BY <2>2 DEF DispatchMessage, PauseDispatch, CheckRuntime, MarkAboutToPrompt,
       MaterializeFails, RecordReturned, Classify, RecordPersisted, FailAfterDispatch,
       Unclassified, ghostVars
  <2>3. CASE RunAgentTurn(w)
    BY <2>3 DEF RunAgentTurn, AdmitTurn, ClaimRunningTurn, AdmissionError,
       AppendUserBoundary, PrepareTurn, PrepareFails, StreamOutput, TurnReturns, TurnFails, ghostVars
  <2>4. CASE TakeHead(w) \/ Unwatch(w) \/ Terminalize(w) \/ Redrive(w) \/ Finish(w) \/ StorageError(w)
    BY <2>4 DEF TakeHead, Unwatch, Terminalize, Redrive, Finish, StorageError, ghostVars
  <2> QED BY <1>1, <2>1, <2>2, <2>3, <2>4 DEF WorkerStep
<1>2. ASSUME NEW i \in Keys, Submit(i) \/ Edit(i) \/ Wait(i) \/ Answer(i) \/ StopExecution(i)
      PROVE  FALSE
  BY <1>2 DEF Submit, Edit, Wait, Answer, StopExecution, ghostVars
<1>3. CASE \/ Recheck \/ Interrupt \/ InterruptQueue \/ InterruptProvider \/ StopQueued
           \/ \E r \in Runtimes : SelectRuntime(r)
           \/ \E s \in Switches : CancelSelection(s) \/ SwitchStep(s)
           \/ CancelForSwitch \/ OtherTurnStarts \/ OtherTurnOutputs \/ OtherTurnEnds
           \/ CrashRestart \/ Reconcile
  BY <1>3 DEF Recheck, Interrupt, InterruptQueue, InterruptProvider, StopQueued,
     SelectRuntime, CancelSelection, SwitchStep, CancelForSwitch, OtherTurnStarts,
     OtherTurnOutputs, OtherTurnEnds, CrashRestart, Reconcile, ReconcileList, ReconcileRow,
     ReconcileStart, ghostVars
<1> QED BY <1>1, <1>2, <1>3 DEF Next

\* A delivery is one of a driven message.
LEMMA DeliveryInOrder ==
    DeliveryInv /\ HeadFirst /\ [Next]_vars =>
      [\A j, k \in Keys :
         prompts'[k] > prompts[k] /\ sub[j].seq < sub[k].seq => j \notin OpenKeys]_vars
<1> SUFFICES ASSUME DeliveryInv, HeadFirst, Next, NEW j \in Keys, NEW k \in Keys,
                    prompts'[k] > prompts[k], sub[j].seq < sub[k].seq
             PROVE  j \notin OpenKeys
  OBVIOUS
<1>1. prompts \in [Keys -> Nat]
  BY DEF DeliveryInv, Shape
<1>2. prompts' # prompts
  BY <1>1
<1>4. PICK w \in Workers : DeliverPrompt(w)
  BY <1>2, DeliversPrompt
<1>5. wk[w].key = k /\ wk[w].pc \notin Keyless
  BY <1>1, <1>4 DEF DeliverPrompt, Key, At, Keyless
<1> QED BY <1>5 DEF HeadFirst

\* Messages reach the provider in the order of their queue sequence: when one does,
\* every earlier one has a final status, although callers enqueue, edits and
\* reconciliation rewrite rows and workers restart meanwhile (head_non_terminal).
THEOREM DeliveredInOrder == Spec => InOrder
<1>1. Init => HeadFirst
  BY DEF Init, HeadFirst, OffWorker, Keyless
<1> QED BY <1>1, TypeInit, TypeNext, HeadFirstNext, DeliveryInOrder, DeliveryInvariant, PTL
        DEF Spec, InOrder

-----------------------------------------------------------------------------
(* Delegated executions that were told to stop. *)

\* Only executions are stopped, and one that was stopped in time is behind no
\* authorisation.
StopInv ==
    \A k \in Keys : /\ stop[k] # "none" => k \in Executions
                    /\ stop[k] = "early" => ~PromptPassed(k)

\* A worker that is about to deliver a message was there before, or was authorised
\* in this step.
LEMMA DeliverEntered ==
    ASSUME DeliveryInv, TypeInv, Next, NEW w \in Workers, wk'[w].pc = "deliver"
    PROVE  \/ wk[w].pc = "deliver" /\ wk'[w].key = wk[w].key
           \/ PrepareTurn(w) /\ wk'[w].key = wk[w].key
<1>0. Shape /\ ReconShape
  BY DEF DeliveryInv
<1>1. wk \in [Workers -> WorkerTask]
  BY DEF TypeInv, WorkerType
<1>2. ASSUME NEW v \in Workers, WorkerStep(v) \/ StorageError(v), v # w PROVE wk'[w] = wk[w]
  BY <1>0, <1>2, WorkerStepOwn
<1>3. ASSUME NEW v \in Workers, TakeHead(v)
      PROVE  wk'[w].pc = wk[w].pc /\ wk'[w].key = wk[w].key
  <2>1. wk'[v].pc # "deliver"
    <3>1. OpenKeys # {} => sub[HeadKey].status \in {"awaiting", "ready", "about", "dispatched"}
      BY <1>0, HeadKeyIsFirst DEF Shape, QueueShape, OpenKeys, Status, Queued, Terminal
    <3>2. wk'[v].pc = IF OpenKeys = {} THEN "exit" ELSE DriveStart[sub[HeadKey].status]
      BY <1>1, <1>3 DEF TakeHead, WorkerTask
    <3> QED BY <3>1, <3>2 DEF DriveStart
  <2> QED BY <1>2, <1>3, <2>1 DEF WorkerStep
<1>4. CASE \A v \in Workers : ~TakeHead(v)
  <2>1. wk[w].pc \notin Keyless /\ wk'[w].key = wk[w].key
    BY <1>4, StepKeepsDrive DEF DriveKept, Keyless
  <2>2. ASSUME wk[w].pc # "deliver" PROVE PrepareTurn(w)
    <3>1. CASE WorkerStep(w) \/ StorageError(w)
      <4>1. ASSUME NEW p, Enter(w, p) PROVE p = "deliver"
        BY <1>1, <4>1 DEF Enter, WorkerTask
      <4>2. ~Return(w)
        BY <1>1 DEF Return, OffWorker
      <4>3. ASSUME NEW p, NEW x, wk' = [wk EXCEPT ![w].pc = p, ![w].snap = x] PROVE p = "deliver"
        BY <1>1, <4>3 DEF WorkerTask
      <4>4. CASE AwaitRuntime(w)
        <5>1. \/ Return(w)
              \/ \E p \in {"await", "reserve", "fresh", "emit", "link", "terminalize"} : Enter(w, p)
              \/ \E p \in {"decide", "reserve", "link", "adopt"} : \E x : wk' = [wk EXCEPT ![w].pc = p, ![w].snap = x]
          BY <4>4 DEF AwaitRuntime, ReadSelection, Normalize, ForceFresh, ReserveFresh, AwaitFresh,
             RuntimeReady, HandleTerminalSwitch, RuntimeUnavailable, JoinPending, RequestRuntime,
             ReadRequested, Adopt, LinkSwitch, Advance, Write
        <5> QED BY <4>1, <4>2, <4>3, <5>1
      <4>5. CASE DispatchMessage(w)
        <5>1. CASE Classify(w)
          <6>1. PersistedResult(timeline, Key(w), wk[w].start, Len(timeline)) \in {"completed", "failed", "unknown"}
            BY DEF PersistedResult, EndVerdict
          <6> QED BY <1>1, <5>1, <6>1 DEF Classify, WorkerTask
        <5>2. CASE ~Classify(w)
          <6>1. \/ Return(w)
                \/ \E p \in {"check", "admit", "finish", "terminalize"} : Enter(w, p)
                \/ wk' = [wk EXCEPT ![w].pc = "mark", ![w].start = Len(timeline)]
            BY <4>5, <5>2 DEF DispatchMessage, PauseDispatch, CheckRuntime, MarkAboutToPrompt,
               MaterializeFails, RecordReturned, RecordPersisted, FailAfterDispatch, Unclassified,
               Advance, Write
          <6> QED BY <1>1, <4>1, <4>2, <6>1 DEF WorkerTask
        <5> QED BY <5>1, <5>2
      <4>6. CASE RunAgentTurn(w)
        <5>1. \/ PrepareTurn(w) \/ UNCHANGED wk
              \/ \E p \in {"erred", "boundary", "prepare", "stream", "returned"} : Enter(w, p)
              \/ wk' = [wk EXCEPT ![w].pc = "claim", ![w].snap = View, ![w].saw = session]
          BY <4>6 DEF RunAgentTurn, AdmitTurn, ClaimRunningTurn, AdmissionError,
             AppendUserBoundary, PrepareFails, DeliverPrompt, StreamOutput, TurnReturns, TurnFails
        <5> QED BY <1>1, <2>2, <4>1, <5>1 DEF WorkerTask
      <4>7. CASE Unwatch(w) \/ Terminalize(w) \/ StorageError(w)
        <5>1. CASE Unwatch(w)
          BY <1>1, <5>1 DEF Unwatch, OffWorker
        <5>2. CASE Terminalize(w)
          BY <1>1, <5>2 DEF Terminalize, OffWorker
        <5>3. CASE StorageError(w)
          <6>1. CASE Enter(w, "terminalize")
            BY <4>1, <6>1
          <6>2. CASE wk' = [wk EXCEPT ![w] = [OffWorker EXCEPT !.pc = "head", !.fails = wk[w].fails + 1]]
            BY <1>1, <6>2 DEF OffWorker
          <6> QED BY <5>3, <6>1, <6>2 DEF StorageError
        <5> QED BY <4>7, <5>1, <5>2, <5>3
      <4>8. CASE Redrive(w) \/ Finish(w)
        BY <4>1, <4>2, <4>8 DEF Redrive, Finish, Advance, Write
      <4> QED BY <1>4, <3>1, <4>4, <4>5, <4>6, <4>7, <4>8 DEF WorkerStep
    <3>2. CASE ~(WorkerStep(w) \/ StorageError(w))
      <4>1. CASE UNCHANGED wk
        BY <2>2, <4>1
      <4>2. CASE CrashRestart
        BY <4>2 DEF CrashRestart, OffWorker
      <4>3. CASE \E v \in Workers : wk' = [wk EXCEPT ![v].pc = "head"]
        BY <1>1, <2>2, <4>3 DEF WorkerTask
      <4>4. \/ UNCHANGED wk \/ CrashRestart \/ StartWorker
            \/ \E v \in Workers : WorkerStep(v) \/ StorageError(v)
        BY DEF Next, Submit, Edit, Wait, Answer, StopExecution, Recheck, Interrupt, InterruptQueue,
           InterruptProvider, StopQueued, SelectRuntime, CancelSelection, SwitchStep,
           CancelForSwitch, OtherTurnStarts, OtherTurnOutputs, OtherTurnEnds, Reconcile,
           ReconcileList, ReconcileRow, ReconcileStart
      <4> QED BY <1>2, <2>2, <3>2, <4>1, <4>2, <4>3, <4>4 DEF StartWorker
    <3> QED BY <3>1, <3>2
  <2> QED BY <2>1, <2>2
<1> QED BY <1>3, <1>4

\* A delivery is the step of a worker that stands before it.
LEMMA PromptsGrow ==
    ASSUME DeliveryInv, Next, NEW k \in Keys, prompts'[k] # prompts[k]
    PROVE  \E w \in Workers : wk[w].pc = "deliver" /\ wk[w].key = k
<1>1. prompts \in [Keys -> Nat] /\ prompts' # prompts
  BY DEF DeliveryInv, Shape
<1>2. PICK w \in Workers : DeliverPrompt(w)
  BY <1>1, DeliversPrompt
<1> QED BY <1>1, <1>2 DEF DeliverPrompt, Key, At

\* Only StopExecution writes stop markers.
LEMMA OnlyStopExecution ==
    ASSUME Next
    PROVE  UNCHANGED stop \/ \E k \in Keys : StopExecution(k)
<1>1. ASSUME NEW w \in Workers, WorkerStep(w) \/ StorageError(w) PROVE UNCHANGED stop
  <2>1. CASE AwaitRuntime(w)
    BY <2>1 DEF AwaitRuntime, ReadSelection, Normalize, ForceFresh, ReserveFresh, AwaitFresh,
       RuntimeReady, HandleTerminalSwitch, RuntimeUnavailable, JoinPending, RequestRuntime,
       ReadRequested, Adopt, LinkSwitch, storeVars
  <2>2. CASE DispatchMessage(w)
    BY <2>2 DEF DispatchMessage, PauseDispatch, CheckRuntime, MarkAboutToPrompt, MaterializeFails,
       RecordReturned, Classify, RecordPersisted, FailAfterDispatch, Unclassified, storeVars
  <2>3. CASE RunAgentTurn(w)
    BY <2>3 DEF RunAgentTurn, AdmitTurn, ClaimRunningTurn, AdmissionError, AppendUserBoundary,
       PrepareTurn, PrepareFails, DeliverPrompt, StreamOutput, TurnReturns, TurnFails, storeVars
  <2>4. CASE TakeHead(w) \/ Unwatch(w) \/ Terminalize(w) \/ Redrive(w) \/ Finish(w) \/ StorageError(w)
    BY <2>4 DEF TakeHead, Unwatch, Terminalize, Redrive, Finish, StorageError, storeVars
  <2> QED BY <1>1, <2>1, <2>2, <2>3, <2>4 DEF WorkerStep
<1>2. ASSUME NEW k \in Keys, Submit(k) \/ Edit(k) \/ Wait(k) \/ Answer(k) PROVE UNCHANGED stop
  BY <1>2 DEF Submit, Edit, Wait, Answer, storeVars
<1>3. CASE \/ Recheck \/ Interrupt \/ InterruptQueue \/ InterruptProvider \/ StopQueued
           \/ \E r \in Runtimes : SelectRuntime(r)
           \/ \E s \in Switches : CancelSelection(s) \/ SwitchStep(s)
           \/ CancelForSwitch \/ OtherTurnStarts \/ OtherTurnOutputs \/ OtherTurnEnds
           \/ CrashRestart \/ Reconcile
  BY <1>3 DEF Recheck, Interrupt, InterruptQueue, InterruptProvider, StopQueued, SelectRuntime,
     CancelSelection, SwitchStep, CancelForSwitch, OtherTurnStarts, OtherTurnOutputs,
     OtherTurnEnds, CrashRestart, Reconcile, ReconcileList, ReconcileRow, ReconcileStart, storeVars
<1> QED BY <1>1, <1>2, <1>3 DEF Next

\* Every step keeps stopped executions away from the provider.
LEMMA StopNext == DeliveryInv /\ TypeInv /\ StopInv /\ [Next]_vars => StopInv'
<1> SUFFICES ASSUME DeliveryInv, TypeInv, StopInv, [Next]_vars, NEW k \in Keys
             PROVE  /\ stop'[k] # "none" => k \in Executions
                    /\ stop'[k] = "early" => ~PromptPassed(k)'
  BY DEF StopInv
<1>1. CASE UNCHANGED vars
  BY <1>1 DEF vars, storeVars, ghostVars, StopInv, PromptPassed, Key, At
<1>2. CASE Next
  <2>1. \/ UNCHANGED stop
        \/ \E j \in Keys : StopExecution(j)
    BY <1>2, OnlyStopExecution
  <2>2. ASSUME NEW j \in Keys, StopExecution(j)
        PROVE  /\ stop'[k] # "none" => k \in Executions
               /\ stop'[k] = "early" => ~PromptPassed(k)'
    <3>1. UNCHANGED <<wk, prompts>>
      BY <2>2 DEF StopExecution, ghostVars
    <3>2. PromptPassed(k)' <=> PromptPassed(k)
      BY <3>1 DEF PromptPassed, Key, At
    <3>3. CASE j # k
      BY <2>2, <3>2, <3>3 DEF StopExecution, StopInv, TypeInv, GateType
    <3>4. CASE j = k
      BY <2>2, <3>2, <3>4 DEF StopExecution, TypeInv, GateType
    <3> QED BY <3>3, <3>4
  <2>3. CASE UNCHANGED stop
    <3>1. stop'[k] = stop[k] /\ (stop[k] # "none" => k \in Executions)
      BY <2>3 DEF StopInv
    <3>2. ASSUME stop[k] = "early" PROVE ~PromptPassed(k)'
      <4>1. /\ prompts[k] = 0
            /\ \A w \in Workers : ~(wk[w].key = k /\ wk[w].pc = "deliver")
        BY <3>2 DEF StopInv, PromptPassed, Key, At, DeliveryInv, Shape
      <4>2. prompts'[k] = 0
        BY <1>2, <4>1, PromptsGrow
      <4>3. ASSUME NEW w \in Workers, wk'[w].key = k, wk'[w].pc = "deliver" PROVE FALSE
        <5>1. PrepareTurn(w) /\ wk[w].key = k
          BY <1>2, <4>1, <4>3, DeliverEntered
        <5> QED BY <3>1, <3>2, <5>1 DEF PrepareTurn, Authorised, Key
      <4> QED BY <4>2, <4>3 DEF PromptPassed, Key, At
    <3> QED BY <3>1, <3>2
  <2> QED BY <2>1, <2>2, <2>3
<1> QED BY <1>1, <1>2

\* An execution whose stop marker was written before its last authorisation is never
\* sent, wherever its message, its worker and the runtime were at that time
\* (interrupt_execution, authorize_vibex_use_submission).
THEOREM StoppedIsNeverSent == Spec => []StoppedIsNotSent
<1>1. Init => StopInv
  BY DEF Init, StopInv
<1>2. DeliveryInv /\ StopInv => StoppedIsNotSent
  BY DEF DeliveryInv, Shape, StopInv, PromptPassed, StoppedIsNotSent
<1> QED BY <1>1, <1>2, TypeInit, TypeNext, StopNext, DeliveryInvariant, PTL DEF Spec

-----------------------------------------------------------------------------
(* What a step may make of a row. *)

\* The dispatch of k failed with nothing in the Timeline after its fence.
Refused(k) == \E w \in Workers : At(w, "unknown") /\ Key(w) = k /\ NothingAppended(w)

\* The dispatch of k came to its result: the items the turn returned, or those it left.
Resulted(k, first, last) ==
    \E w \in Workers : /\ Key(w) = k
                       /\ \/ At(w, "returned") /\ first = MinOf(Own(w)) /\ last = MaxOf(Own(w))
                          \/ At(w, "complete") /\ first = wk[w].start + 1 /\ last = wk[w].end

\* The worker of k is at its no-replay boundary, or reads what its turn left.
Marking(k) == \E w \in Workers : At(w, "mark") /\ Key(w) = k
Failing(k) == \E w \in Workers : At(w, "failAfter") /\ Key(w) = k

RowTo(k, r) ==
    \/ r = sub[k]
    \/ sub[k].status = "absent" /\ r.status = "awaiting" /\ r.first = 0 /\ ~r.sent
    \/ /\ sub[k].status \in Queued
       /\ r.status \in Queued \cup {"about", "failed", "cancelled"}
       /\ r.sent => sub[k].sent
       /\ r.status = "about" => Marking(k)
       /\ r.first = sub[k].first \/ r.status = "cancelled"
       /\ r.desired = sub[k].desired \/ r.status = "awaiting"
    \/ /\ sub[k].status = "about" /\ r.desired = sub[k].desired
       /\ \/ r.status = "ambiguous"
          \/ r.status = "dispatched" /\ r.sent /\ Resulted(k, r.first, r.last)
          \/ r.status = "failed" /\ r.sent /\ Failing(k)
          \/ r.status = "failed" /\ Refused(k)
    \/ sub[k].status = "dispatched" /\ r = [sub[k] EXCEPT !.status = "completed"]
    \/ sub[k].status = "completed" /\ r = [sub[k] EXCEPT !.status = "cancelled"]

RowsMove == \A k \in Keys : RowTo(k, sub'[k])

\* One row is written.
LEMMA RowMoves ==
    ASSUME TypeInv, NEW k \in Keys, NEW r, sub' = [sub EXCEPT ![k] = r], RowTo(k, r)
    PROVE  RowsMove
<1> SUFFICES ASSUME NEW j \in Keys PROVE RowTo(j, sub'[j])
  BY DEF RowsMove
<1>1. CASE j = k
  <2>1. sub'[j] = r
    BY <1>1 DEF TypeInv, RowType
  <2> QED BY <1>1, <2>1
<1>2. CASE j # k
  <2>1. sub'[j] = sub[j]
    BY <1>2 DEF TypeInv, RowType
  <2> QED BY <2>1 DEF RowTo
<1> QED BY <1>1, <1>2

LEMMA WriteMovesRow ==
    ASSUME TypeInv, NEW w \in Workers, Key(w) \in Keys, NEW from, NEW row, NEW next,
           Write(w, from, row, next), Row(w).status = from => RowTo(Key(w), row)
    PROVE  RowsMove
<1>1. CASE UNCHANGED sub
  BY <1>1 DEF RowsMove, RowTo
<1> QED BY <1>1, RowMoves DEF Write

\* A write of the status alone.
LEMMA StatusTo ==
    ASSUME NEW r \in SubmissionRow, NEW s
    PROVE  LET q == [r EXCEPT !.status = s]
           IN  /\ q.status = s /\ q.first = r.first /\ q.last = r.last
               /\ q.desired = r.desired /\ q.sent = r.sent
  BY DEF SubmissionRow

LEMMA AdvanceMovesRow ==
    ASSUME TypeInv, NEW w \in Workers, Key(w) \in Keys, NEW from, NEW to, NEW next,
           Advance(w, from, to, next),
           \/ /\ from \in Queued /\ to \in Queued \cup {"about", "failed", "cancelled"}
              /\ to = "about" => Marking(Key(w))
           \/ from = "about" /\ to = "ambiguous"
           \/ from = "about" /\ to = "failed" /\ Refused(Key(w))
           \/ from = "dispatched" /\ to = "completed"
    PROVE  RowsMove
<1> DEFINE row == [Row(w) EXCEPT !.status = to]
<1>1. Row(w) \in SubmissionRow /\ Row(w) = sub[Key(w)]
  BY DEF TypeInv, RowType, Row
<1>2. /\ row.status = to /\ row.first = Row(w).first /\ row.desired = Row(w).desired
      /\ row.sent = Row(w).sent
  BY <1>1, StatusTo
<1>3. from = "dispatched" => row = [sub[Key(w)] EXCEPT !.status = "completed"]
  BY <1>1 DEF Queued
<1> HIDE DEF row
<1>4. Row(w).status = from => RowTo(Key(w), row)
  BY <1>1, <1>2, <1>3 DEF RowTo
<1>5. Write(w, from, row, next)
  BY DEF Advance, row
<1> QED BY <1>4, <1>5, WriteMovesRow

\* The steps of a worker.
LEMMA WorkerMovesRow ==
    ASSUME Shape, TypeInv, NEW w \in Workers, WorkerStep(w) \/ StorageError(w)
    PROVE  RowsMove
<1>0. {"awaiting", "ready"} = Queued
  BY DEF Queued
<1>1. CASE UNCHANGED sub
  BY <1>1 DEF RowsMove, RowTo
<1>2. ASSUME wk[w].pc \notin Keyless
      PROVE  Key(w) \in Keys /\ Row(w) \in SubmissionRow /\ Row(w) = sub[Key(w)]
  BY <1>2, DrivenKey DEF Row
<1>3. CASE Terminalize(w)
  <2>1. Key(w) \in Keys /\ Row(w) \in SubmissionRow /\ Row(w) = sub[Key(w)]
    BY <1>2, <1>3 DEF Terminalize, At, Keyless
  <2> DEFINE r == [Row(w) EXCEPT !.status = GivenUp(Row(w).status)]
  <2>2. \/ UNCHANGED sub
        \/ sub' = [sub EXCEPT ![Key(w)] = r]
    BY <1>3, <2>1 DEF Terminalize, TypeInv, RowType
  <2>3. /\ r.status = GivenUp(Row(w).status) /\ r.first = Row(w).first
        /\ r.desired = Row(w).desired /\ r.sent = Row(w).sent
    BY <2>1, StatusTo
  <2>4. Row(w).status \in {"absent"} \cup Terminal => r = Row(w)
    <3>1. Row(w).status \in {"absent"} \cup Terminal => GivenUp(Row(w).status) = Row(w).status
      BY DEF GivenUp, Queued, Terminal
    <3> QED BY <2>1, <3>1 DEF SubmissionRow
  <2>5. Row(w).status = "dispatched" => r = [sub[Key(w)] EXCEPT !.status = "completed"]
    BY <2>1 DEF GivenUp, Queued
  <2>6. Row(w).status \in {"absent", "about", "dispatched"} \cup Queued \cup Terminal
    BY <2>1 DEF SubmissionRow, Status
  <2>7. /\ Row(w).status \in Queued => GivenUp(Row(w).status) = "failed"
        /\ Row(w).status = "about" => GivenUp(Row(w).status) = "ambiguous"
    BY DEF GivenUp, Queued
  <2> HIDE DEF r
  <2>8. RowTo(Key(w), r)
    BY <2>1, <2>3, <2>4, <2>5, <2>6, <2>7 DEF RowTo
  <2> QED BY <1>1, <2>1, <2>2, <2>8, RowMoves
<1>4. CASE Redrive(w) \/ Finish(w)
  <2>1. Key(w) \in Keys
    BY <1>2, <1>4 DEF Redrive, Finish, At, Keyless
  <2> QED BY <1>4, <2>1, AdvanceMovesRow DEF Redrive, Finish
<1>5. CASE AwaitRuntime(w)
  <2>1. Key(w) \in Keys /\ Row(w) \in SubmissionRow /\ Row(w) = sub[Key(w)]
    BY <1>2, <1>5 DEF AwaitRuntime, ReadSelection, Normalize, ForceFresh, ReserveFresh,
       AwaitFresh, RuntimeReady, HandleTerminalSwitch, RuntimeUnavailable, JoinPending,
       RequestRuntime, ReadRequested, Adopt, LinkSwitch, Unlinked, Deciding, At, Keyless
  <2>2. CASE Normalize(w) \/ Adopt(w)
    <3>1. PICK d, next : Write(w, "awaiting", [Row(w) EXCEPT !.desired = d], next)
      BY <2>2 DEF Normalize, Adopt
    <3> DEFINE r == [Row(w) EXCEPT !.desired = d]
    <3>2. r.status = Row(w).status /\ r.first = Row(w).first /\ r.sent = Row(w).sent
      BY <2>1 DEF SubmissionRow
    <3> HIDE DEF r
    <3>3. Row(w).status = "awaiting" => RowTo(Key(w), r)
      BY <1>0, <2>1, <3>2 DEF RowTo
    <3>4. Write(w, "awaiting", r, next)
      BY <3>1 DEF r
    <3> QED BY <2>1, <3>3, <3>4, WriteMovesRow
  <2>3. CASE LinkSwitch(w)
    <3>1. CASE UNCHANGED sub
      BY <1>1, <3>1
    <3>2. CASE ~UNCHANGED sub
      <4> DEFINE r == [Row(w) EXCEPT !.link = Snap(w).pending]
      <4>1. Write(w, "awaiting", r, Enter(w, "await"))
        BY <2>3, <3>2 DEF LinkSwitch
      <4>2. /\ r.status = Row(w).status /\ r.first = Row(w).first /\ r.desired = Row(w).desired
            /\ r.sent = Row(w).sent
        BY <2>1 DEF SubmissionRow
      <4> HIDE DEF r
      <4>3. Row(w).status = "awaiting" => RowTo(Key(w), r)
        BY <1>0, <2>1, <4>2 DEF RowTo
      <4> QED BY <2>1, <4>1, <4>3, WriteMovesRow
    <3> QED BY <3>1, <3>2
  <2>4. CASE RuntimeReady(w) \/ RuntimeUnavailable(w)
    BY <1>0, <2>1, <2>4, AdvanceMovesRow DEF RuntimeReady, RuntimeUnavailable
  <2>5. CASE HandleTerminalSwitch(w)
    <3> DEFINE to == AfterSwitch(sw[Row(w).link].status, Row(w).desired)
    <3>1. UNCHANGED sub \/ Advance(w, "awaiting", to, Return(w))
      BY <2>5 DEF HandleTerminalSwitch
    <3>2. to \in {"cancelled", "ready", "failed"}
      BY DEF AfterSwitch
    <3> HIDE DEF to
    <3> QED BY <1>0, <1>1, <2>1, <3>1, <3>2, AdvanceMovesRow
  <2>6. CASE \/ ReadSelection(w) \/ ForceFresh(w) \/ ReserveFresh(w) \/ AwaitFresh(w)
             \/ JoinPending(w) \/ RequestRuntime(w) \/ ReadRequested(w)
    BY <1>1, <2>6 DEF ReadSelection, ForceFresh, ReserveFresh, AwaitFresh, JoinPending,
       RequestRuntime, ReadRequested, storeVars
  <2> QED BY <1>5, <2>2, <2>3, <2>4, <2>5, <2>6 DEF AwaitRuntime
<1>6. CASE DispatchMessage(w)
  <2>1. Key(w) \in Keys /\ Row(w) \in SubmissionRow /\ Row(w) = sub[Key(w)]
    BY <1>2, <1>6 DEF DispatchMessage, PauseDispatch, CheckRuntime, MarkAboutToPrompt,
       MaterializeFails, RecordReturned, Classify, RecordPersisted, FailAfterDispatch,
       Unclassified, At, Keyless
  <2>2. ASSUME NEW s \in {"dispatched", "failed"}, NEW first, NEW last, Row(w).status = "about",
               s = "dispatched" => Resulted(Key(w), first, last),
               s = "failed" => Failing(Key(w))
        PROVE  RowTo(Key(w), [Row(w) EXCEPT !.status = s, !.first = first, !.last = last,
                                            !.sent = TRUE])
    <3> DEFINE r == [Row(w) EXCEPT !.status = s, !.first = first, !.last = last, !.sent = TRUE]
    <3>1. /\ r.status = s /\ r.sent /\ r.desired = Row(w).desired
          /\ r.first = first /\ r.last = last
      BY <2>1 DEF SubmissionRow
    <3> HIDE DEF r
    <3>2. RowTo(Key(w), r)
      BY <2>1, <2>2, <3>1 DEF RowTo
    <3> QED BY <3>2 DEF r
  <2>3. CASE RecordReturned(w)
    <3>1. Resulted(Key(w), MinOf(Own(w)), MaxOf(Own(w)))
      BY <2>3 DEF RecordReturned, Resulted
    <3> QED BY <2>1, <2>2, <2>3, <3>1, WriteMovesRow DEF RecordReturned, Recorded
  <2>4. CASE RecordPersisted(w)
    <3>1. Resulted(Key(w), wk[w].start + 1, wk[w].end)
      BY <2>4 DEF RecordPersisted, Resulted
    <3> QED BY <1>1, <2>1, <2>2, <2>4, <3>1, RowMoves DEF RecordPersisted, Recorded
  <2>5. CASE FailAfterDispatch(w)
    <3>1. Failing(Key(w))
      BY <2>5 DEF FailAfterDispatch, Failing
    <3> QED BY <1>1, <2>1, <2>2, <2>5, <3>1, RowMoves DEF FailAfterDispatch
  <2>6. CASE Unclassified(w)
    <3>1. NothingAppended(w) => Refused(Key(w))
      BY <2>6 DEF Unclassified, Refused
    <3> QED BY <2>1, <2>6, <3>1, AdvanceMovesRow DEF Unclassified
  <2>7. CASE CheckRuntime(w)
    BY <1>0, <1>1, <2>1, <2>7, AdvanceMovesRow DEF CheckRuntime
  <2>9. CASE MarkAboutToPrompt(w)
    <3>1. Marking(Key(w))
      BY <2>9 DEF MarkAboutToPrompt, Marking
    <3> QED BY <1>0, <1>1, <2>1, <2>9, <3>1, AdvanceMovesRow DEF MarkAboutToPrompt
  <2>8. CASE PauseDispatch(w) \/ MaterializeFails(w) \/ Classify(w)
    BY <1>1, <2>8 DEF PauseDispatch, MaterializeFails, Classify, storeVars
  <2> QED BY <1>6, <2>3, <2>4, <2>5, <2>6, <2>7, <2>8, <2>9 DEF DispatchMessage
<1>7. CASE RunAgentTurn(w) \/ TakeHead(w) \/ Unwatch(w) \/ StorageError(w)
  BY <1>1, <1>7 DEF RunAgentTurn, AdmitTurn, ClaimRunningTurn, AdmissionError, AppendUserBoundary,
     PrepareTurn, PrepareFails, DeliverPrompt, StreamOutput, TurnReturns, TurnFails, TakeHead,
     Unwatch, StorageError, storeVars
<1> QED BY <1>3, <1>4, <1>5, <1>6, <1>7 DEF WorkerStep

\* A message that is taken out of the queue.
LEMMA CancelMovesRow ==
    ASSUME TypeInv, NEW Q \in SUBSET Keys, \A k \in Q : sub[k].status \in Queued,
           CancelBeforeDispatch(Q)
    PROVE  RowsMove
<1>1. PICK place \in [Q -> 1..Cardinality(Q)] : sub' = [k \in Keys |->
         IF k \in Q
         THEN [sub[k] EXCEPT !.status = "cancelled",
                 !.first = Len(timeline) + place[k], !.last = Len(timeline) + place[k]]
         ELSE sub[k]]
  BY DEF CancelBeforeDispatch
<1> SUFFICES ASSUME NEW k \in Keys PROVE RowTo(k, sub'[k])
  BY DEF RowsMove
<1>2. CASE k \in Q
  <2>1. \A x, y : LET r == [sub[k] EXCEPT !.status = "cancelled", !.first = x, !.last = y]
                  IN  /\ r.status = "cancelled" /\ r.desired = sub[k].desired
                      /\ r.sent = sub[k].sent
    BY DEF TypeInv, RowType, SubmissionRow
  <2>2. sub'[k] = [sub[k] EXCEPT !.status = "cancelled",
                     !.first = Len(timeline) + place[k], !.last = Len(timeline) + place[k]]
    BY <1>1, <1>2
  <2>3. /\ sub'[k].status = "cancelled" /\ sub'[k].desired = sub[k].desired
        /\ sub'[k].sent = sub[k].sent
    BY <2>1, <2>2
  <2> QED BY <1>2, <2>3 DEF RowTo
<1>3. CASE k \notin Q
  BY <1>1, <1>3 DEF RowTo
<1> QED BY <1>2, <1>3

\* A new message, or the retry of one that has a row.
LEMMA EnqueueMovesRow ==
    ASSUME TypeInv, NEW k \in Keys, NEW fresh, Enqueue(k, fresh)
    PROVE  RowsMove
<1>1. CASE UNCHANGED sub
  BY <1>1 DEF RowsMove, RowTo
<1>2. CASE sub[k].status = "absent"
  <2> DEFINE r == [NoRow EXCEPT !.status = "awaiting", !.seq = NextSequence,
                                !.desired = Wanted[k], !.fresh = fresh]
  <2>1. r.status = "awaiting" /\ r.first = 0 /\ ~r.sent
    BY DEF NoRow
  <2>2. sub' = [sub EXCEPT ![k] = r]
    BY <1>2 DEF Enqueue
  <2> HIDE DEF r
  <2>3. RowTo(k, r)
    BY <1>2, <2>1 DEF RowTo
  <2> QED BY <2>2, <2>3, RowMoves
<1> QED BY <1>1, <1>2 DEF Enqueue

LEMMA EditMovesRow ==
    ASSUME TypeInv, NEW k \in Keys, Edit(k)
    PROVE  RowsMove
<1>1. CASE sub[k].status # "absent"
  BY <1>1, EnqueueMovesRow DEF Edit
<1>2. CASE sub[k].status = "absent"
  <2> SUFFICES ASSUME NEW j \in Keys PROVE RowTo(j, sub'[j])
    BY DEF RowsMove
  <2>1. CASE j = k
    <3>1. sub'[k].status = "awaiting" /\ sub'[k].first = 0 /\ ~sub'[k].sent
      BY <1>2 DEF Edit, NoRow
    <3> QED BY <1>2, <2>1, <3>1 DEF RowTo
  <2>2. CASE j # k
    <3>1. \/ sub'[j] = sub[j]
          \/ sub[j].status = "completed" /\ sub'[j] = [sub[j] EXCEPT !.status = "cancelled"]
      BY <1>2, <2>2 DEF Edit, SupersededByEdit
    <3> QED BY <3>1 DEF RowTo
  <2> QED BY <2>1, <2>2
<1> QED BY <1>1, <1>2

LEMMA ReconcileMovesRow ==
    ASSUME Shape, ReconShape, TypeInv, Reconcile
    PROVE  RowsMove
<1>1. CASE UNCHANGED sub
  BY <1>1 DEF RowsMove, RowTo
<1>2. ASSUME NEW e, e \in recon.todo, e.status \notin Queued, AsListed(e),
             sub' = [sub EXCEPT ![e.key].status = Reconciled[e.status]]
      PROVE  RowsMove
  <2>1. /\ e.key \in Keys /\ sub[e.key] \in SubmissionRow
        /\ sub[e.key].status = e.status /\ e.status \in {"about", "dispatched"}
    BY <1>2 DEF ReconShape, AsListed, TypeInv, RowType
  <2> DEFINE r == [sub[e.key] EXCEPT !.status = Reconciled[e.status]]
  <2>2. /\ e.status = "about" => r.status = "ambiguous" /\ r.desired = sub[e.key].desired
        /\ e.status = "dispatched" => r = [sub[e.key] EXCEPT !.status = "completed"]
    BY <2>1, StatusTo DEF Reconciled
  <2>3. sub' = [sub EXCEPT ![e.key] = r]
    BY <1>2, <2>1 DEF TypeInv, RowType
  <2> HIDE DEF r
  <2>4. RowTo(e.key, r)
    BY <2>1, <2>2 DEF RowTo
  <2> QED BY <2>1, <2>3, <2>4, RowMoves
<1> QED BY <1>1, <1>2, ReconciledRow

\* Every step moves rows along these lines only.
LEMMA StepMovesRows ==
    ASSUME DeliveryInv, TypeInv, Next
    PROVE  RowsMove
<1>0. Shape /\ ReconShape
  BY DEF DeliveryInv
<1>1. CASE UNCHANGED sub
  BY <1>1 DEF RowsMove, RowTo
<1>2. ASSUME NEW k \in Keys, Submit(k) \/ Edit(k) \/ Wait(k) \/ Answer(k) \/ StopExecution(k)
      PROVE  RowsMove
  <2>1. CASE Submit(k)
    BY <2>1, EnqueueMovesRow DEF Submit
  <2>2. CASE Edit(k)
    BY <2>2, EditMovesRow
  <2>3. CASE Wait(k) \/ Answer(k) \/ StopExecution(k)
    BY <1>1, <2>3 DEF Wait, Answer, StopExecution, storeVars
  <2> QED BY <1>2, <2>1, <2>2, <2>3
<1>3. ASSUME NEW w \in Workers, WorkerStep(w) \/ StorageError(w) PROVE RowsMove
  BY <1>0, <1>3, WorkerMovesRow
<1>4. CASE InterruptQueue
  <2>1. QueuedKeys \in SUBSET Keys /\ \A k \in QueuedKeys : sub[k].status \in Queued
    BY DEF QueuedKeys
  <2> QED BY <1>1, <1>4, <2>1, CancelMovesRow DEF InterruptQueue
<1>5. CASE StopQueued
  <2>1. {gate} \in SUBSET Keys
    BY <1>5 DEF StopQueued
  <2> QED BY <1>1, <1>5, <2>1, CancelMovesRow DEF StopQueued
<1>6. CASE CancelForSwitch
  <2> SUFFICES ASSUME NEW k \in Keys PROVE RowTo(k, sub'[k])
    BY DEF RowsMove
  <2>1. sub[k] \in SubmissionRow
    BY DEF TypeInv, RowType
  <2>2. \/ sub'[k] = sub[k]
        \/ sub[k].status \in Queued /\ sub'[k] = [sub[k] EXCEPT !.status = "cancelled"]
    BY <1>6 DEF CancelForSwitch
  <2>3. CASE sub[k].status \in Queued /\ sub'[k] = [sub[k] EXCEPT !.status = "cancelled"]
    <3>1. /\ sub'[k].status = "cancelled" /\ sub'[k].desired = sub[k].desired
          /\ sub'[k].sent = sub[k].sent
      BY <2>1, <2>3, StatusTo
    <3> QED BY <2>3, <3>1 DEF RowTo
  <2> QED BY <2>2, <2>3 DEF RowTo
<1>7. CASE Reconcile
  BY <1>0, <1>7, ReconcileMovesRow
<1>8. CASE \/ Recheck \/ Interrupt \/ InterruptProvider \/ CrashRestart
           \/ \E r \in Runtimes : SelectRuntime(r)
           \/ \E s \in Switches : CancelSelection(s) \/ SwitchStep(s)
           \/ OtherTurnStarts \/ OtherTurnOutputs \/ OtherTurnEnds
  BY <1>1, <1>8 DEF Recheck, Interrupt, InterruptProvider, CrashRestart, SelectRuntime,
     CancelSelection, SwitchStep, OtherTurnStarts, OtherTurnOutputs, OtherTurnEnds, storeVars
<1> QED BY <1>2, <1>3, <1>4, <1>5, <1>6, <1>7, <1>8 DEF Next

-----------------------------------------------------------------------------
(* What a step may make of the Timeline. *)

\* The Timeline only gets shorter while no message is open.
LEMMA TimelineGrows ==
    ASSUME DeliveryInv, TypeInv, Next
    PROVE  Len(timeline') >= Len(timeline) \/ OpenKeys = {}
<1>0. timeline \in Seq(Item) /\ Len(timeline) \in Nat
  BY DEF TypeInv, TimelineType
<1>1. CASE UNCHANGED timeline
  BY <1>0, <1>1
<1>2. ASSUME NEW i, timeline' = Append(timeline, i) PROVE Len(timeline') >= Len(timeline)
  BY <1>0, <1>2
<1>3. ASSUME NEW k, FinishTurnWithError(k) PROVE Len(timeline') >= Len(timeline)
  BY <1>1, <1>2, <1>3 DEF FinishTurnWithError
<1>4. ASSUME NEW w \in Workers, WorkerStep(w) \/ StorageError(w)
      PROVE  Len(timeline') >= Len(timeline)
  <2>1. CASE AwaitRuntime(w)
    BY <1>1, <2>1 DEF AwaitRuntime, ReadSelection, Normalize, ForceFresh, ReserveFresh, AwaitFresh,
       RuntimeReady, HandleTerminalSwitch, RuntimeUnavailable, JoinPending, RequestRuntime,
       ReadRequested, Adopt, LinkSwitch, storeVars
  <2>2. CASE DispatchMessage(w)
    BY <1>1, <2>2 DEF DispatchMessage, PauseDispatch, CheckRuntime, MarkAboutToPrompt,
       MaterializeFails, RecordReturned, Classify, RecordPersisted, FailAfterDispatch,
       Unclassified, storeVars
  <2>3. CASE AdmitTurn(w) \/ ClaimRunningTurn(w) \/ AdmissionError(w) \/ PrepareTurn(w)
             \/ DeliverPrompt(w) \/ TurnReturns(w)
    BY <1>1, <2>3 DEF AdmitTurn, ClaimRunningTurn, AdmissionError, PrepareTurn, DeliverPrompt,
       TurnReturns, storeVars
  <2>4. CASE AppendUserBoundary(w) \/ StreamOutput(w)
    BY <1>1, <1>2, <2>4 DEF AppendUserBoundary, StreamOutput
  <2>5. CASE PrepareFails(w) \/ TurnFails(w)
    BY <1>3, <2>5 DEF PrepareFails, TurnFails
  <2>6. CASE TakeHead(w) \/ Unwatch(w) \/ Terminalize(w) \/ Redrive(w) \/ Finish(w) \/ StorageError(w)
    BY <1>1, <2>6 DEF TakeHead, Unwatch, Terminalize, Redrive, Finish, StorageError, storeVars
  <2> QED BY <1>4, <2>1, <2>2, <2>3, <2>4, <2>5, <2>6 DEF WorkerStep, RunAgentTurn
<1>5. ASSUME NEW k \in Keys, Submit(k) \/ Edit(k) \/ Wait(k) \/ Answer(k) \/ StopExecution(k)
      PROVE  Len(timeline') >= Len(timeline) \/ OpenKeys = {}
  BY <1>1, <1>5 DEF Submit, Edit, Wait, Answer, StopExecution, storeVars
<1>6. ASSUME NEW Q \in SUBSET Keys, CancelBeforeDispatch(Q) PROVE Len(timeline') >= Len(timeline)
  <2>1. Cardinality(Q) \in Nat
    BY FS_Subset, FS_CardinalityType, TimelineAssumption
  <2>2. PICK order \in [1..Cardinality(Q) -> Q] :
          timeline' = timeline \o [i \in 1..Cardinality(Q) |-> UserItem(order[i])]
    BY <1>6 DEF CancelBeforeDispatch
  <2> DEFINE more == [i \in 1..Cardinality(Q) |-> UserItem(order[i])]
  <2>3. \A i \in 1..Cardinality(Q) : UserItem(order[i]) \in Item
    BY ItemsTyped
  <2>4. more \in Seq(Item) /\ Len(more) = Cardinality(Q)
    BY <2>1, <2>3
  <2> HIDE DEF more
  <2>5. timeline' = timeline \o more
    BY <2>2 DEF more
  <2> QED BY <1>0, <2>1, <2>4, <2>5
<1>7. CASE InterruptQueue \/ StopQueued
  BY <1>1, <1>6, <1>7 DEF InterruptQueue, StopQueued, QueuedKeys
<1>8. CASE OtherTurnStarts \/ OtherTurnOutputs \/ OtherTurnEnds \/ CrashRestart
  BY <1>1, <1>2, <1>3, <1>8 DEF OtherTurnStarts, OtherTurnOutputs, OtherTurnEnds, CrashRestart,
     RecoverInterruptedSession
<1>9. CASE \/ Recheck \/ Interrupt \/ InterruptProvider \/ CancelForSwitch \/ Reconcile
           \/ \E r \in Runtimes : SelectRuntime(r)
           \/ \E s \in Switches : CancelSelection(s) \/ SwitchStep(s)
  BY <1>1, <1>9 DEF Recheck, Interrupt, InterruptProvider, CancelForSwitch, Reconcile, ReconcileList,
     ReconcileRow, ReconcileStart, SelectRuntime, CancelSelection, SwitchStep, storeVars
<1> QED BY <1>4, <1>5, <1>7, <1>8, <1>9 DEF Next

-----------------------------------------------------------------------------
(* The fence of a dispatch: what the Timeline holds after it. *)

\* From the fence that dispatch puts into the Timeline to the classification of its error.
Stretch ==
    {"mark", "admit", "claim", "boundary", "prepare", "deliver", "stream", "returned", "erred",
     "complete", "unknown"}

\* A worker on that stretch was where it is or came there by one of these steps.
LEMMA StretchEntered ==
    ASSUME DeliveryInv, TypeInv, Next, NEW w \in Workers, wk'[w].pc \in Stretch
    PROVE  /\ wk'[w].key = wk[w].key
           /\ wk[w].pc \notin Keyless
           /\ \/ wk'[w] = wk[w]
              \/ CheckRuntime(w) \/ MarkAboutToPrompt(w) \/ RunAgentTurn(w) \/ Classify(w)
<1>0. Shape /\ ReconShape
  BY DEF DeliveryInv
<1>1. wk \in [Workers -> WorkerTask]
  BY DEF TypeInv, WorkerType
<1>2. ASSUME NEW v \in Workers, WorkerStep(v) \/ StorageError(v), v # w PROVE wk'[w] = wk[w]
  BY <1>0, <1>2, WorkerStepOwn
<1>3. ~TakeHead(w)
  <2> SUFFICES ASSUME TakeHead(w) PROVE FALSE
    OBVIOUS
  <2>1. OpenKeys # {} => sub[HeadKey].status \in {"awaiting", "ready", "about", "dispatched"}
    BY <1>0, HeadKeyIsFirst DEF Shape, QueueShape, OpenKeys, Status, Queued, Terminal
  <2>2. wk'[w].pc = IF OpenKeys = {} THEN "exit" ELSE DriveStart[sub[HeadKey].status]
    BY <1>1 DEF TakeHead, WorkerTask
  <2> QED BY <2>1, <2>2 DEF DriveStart, Stretch
<1>4. CASE WorkerStep(w) \/ StorageError(w)
  <2>1. ASSUME NEW p, Enter(w, p) PROVE p \in Stretch
    BY <1>1, <2>1 DEF Enter, WorkerTask
  <2>2. ~Return(w)
    BY <1>1 DEF Return, OffWorker, Stretch
  <2>3. ASSUME NEW p, NEW x, wk' = [wk EXCEPT ![w].pc = p, ![w].snap = x] PROVE p \in Stretch
    BY <1>1, <2>3 DEF WorkerTask
  <2>4. DriveKept
    BY <1>0, <1>3, <1>4, WorkerKeepsDrive
  <2>5. wk'[w].key = wk[w].key /\ wk[w].pc \notin Keyless
    BY <2>4 DEF DriveKept, Keyless, Stretch
  <2>6. ~AwaitRuntime(w)
    <3> SUFFICES ASSUME AwaitRuntime(w) PROVE FALSE
      OBVIOUS
    <3>1. \/ Return(w)
          \/ \E p \in {"await", "reserve", "fresh", "emit", "link", "terminalize"} : Enter(w, p)
          \/ \E p \in {"decide", "reserve", "link", "adopt"} : \E x :
                wk' = [wk EXCEPT ![w].pc = p, ![w].snap = x]
      BY DEF AwaitRuntime, ReadSelection, Normalize, ForceFresh, ReserveFresh, AwaitFresh,
         RuntimeReady, HandleTerminalSwitch, RuntimeUnavailable, JoinPending, RequestRuntime,
         ReadRequested, Adopt, LinkSwitch, Advance, Write
    <3> QED BY <2>1, <2>2, <2>3, <3>1 DEF Stretch
  <2>7. DispatchMessage(w) => CheckRuntime(w) \/ MarkAboutToPrompt(w) \/ Classify(w)
    <3> SUFFICES ASSUME \/ PauseDispatch(w) \/ MaterializeFails(w) \/ RecordReturned(w)
                        \/ RecordPersisted(w) \/ FailAfterDispatch(w) \/ Unclassified(w)
                 PROVE  FALSE
      BY DEF DispatchMessage
    <3>1. Return(w) \/ \E p \in {"check", "finish", "terminalize"} : Enter(w, p)
      BY DEF PauseDispatch, MaterializeFails, RecordReturned, RecordPersisted, FailAfterDispatch,
         Unclassified, Advance, Write
    <3> QED BY <2>1, <2>2, <3>1 DEF Stretch
  <2>8. ~Unwatch(w) /\ ~Terminalize(w)
    <3>1. ~Unwatch(w)
      BY <1>1 DEF Unwatch, OffWorker, Stretch
    <3>2. ~Terminalize(w)
      BY <1>1 DEF Terminalize, OffWorker, Stretch
    <3> QED BY <3>1, <3>2
  <2>9. ~StorageError(w)
    <3>1. ~Enter(w, "terminalize")
      BY <2>1 DEF Stretch
    <3>2. wk' # [wk EXCEPT ![w] = [OffWorker EXCEPT !.pc = "head", !.fails = wk[w].fails + 1]]
      BY <1>1 DEF OffWorker, Stretch
    <3> QED BY <3>1, <3>2 DEF StorageError
  <2>10. ~Redrive(w) /\ ~Finish(w)
    <3>1. ~Enter(w, "terminalize")
      BY <2>1 DEF Stretch
    <3> QED BY <2>2, <3>1 DEF Redrive, Finish, Advance, Write
  <2> QED BY <1>3, <1>4, <2>5, <2>6, <2>7, <2>8, <2>9, <2>10 DEF WorkerStep
<1>5. CASE ~(WorkerStep(w) \/ StorageError(w))
  <2>1. wk'[w] = wk[w]
    <3>1. CASE UNCHANGED wk
      BY <3>1
    <3>2. CASE CrashRestart
      BY <3>2 DEF CrashRestart, OffWorker, Stretch
    <3>3. CASE \E v \in Workers : wk' = [wk EXCEPT ![v].pc = "head"]
      BY <1>1, <3>3 DEF WorkerTask, Stretch
    <3>4. \/ UNCHANGED wk \/ CrashRestart \/ StartWorker
          \/ \E v \in Workers : WorkerStep(v) \/ StorageError(v)
      BY DEF Next, Submit, Edit, Wait, Answer, StopExecution, Recheck, Interrupt, InterruptQueue,
         InterruptProvider, StopQueued, SelectRuntime, CancelSelection, SwitchStep,
         CancelForSwitch, OtherTurnStarts, OtherTurnOutputs, OtherTurnEnds, Reconcile,
         ReconcileList, ReconcileRow, ReconcileStart
    <3> QED BY <1>2, <1>5, <3>1, <3>2, <3>3, <3>4 DEF StartWorker
  <2> QED BY <2>1 DEF Stretch, Keyless
<1> QED BY <1>4, <1>5

\* An open message that is not new was open.
LEMMA WasOpen ==
    ASSUME DeliveryInv, TypeInv, Next, NEW k \in Keys, sub[k].status # "absent", k \in OpenKeys'
    PROVE  k \in OpenKeys
<1>1. RowTo(k, sub'[k]) /\ sub[k] \in SubmissionRow
  BY StepMovesRows DEF RowsMove, TypeInv, RowType
<1>2. sub'[k].status \notin Terminal
  BY DEF OpenKeys
<1>3. [sub[k] EXCEPT !.status = "cancelled"].status = "cancelled"
  BY <1>1, StatusTo
<1>4. sub[k].status \notin Terminal
  BY <1>1, <1>2, <1>3 DEF RowTo, Terminal, Queued
<1> QED BY <1>4 DEF OpenKeys

\* While its message is open, what a worker put behind its fence stays there.
StartInv ==
    \A w \in Workers : wk[w].pc \in Stretch /\ wk[w].key \in OpenKeys =>
        /\ wk[w].pc \in {"mark", "admit", "claim", "boundary"} => wk[w].start <= Len(timeline)
        /\ wk[w].pc \in {"prepare", "deliver", "stream"} => wk[w].start < Len(timeline)
        /\ wk[w].pc \in {"erred", "unknown"} /\ prompts[wk[w].key] > 0
             => wk[w].start < Len(timeline)

LEMMA StartNext ==
    DeliveryInv /\ TypeInv /\ TypeInv' /\ HeadFirst /\ OneDriver /\ StartInv /\ [Next]_vars => StartInv'
<1> SUFFICES ASSUME DeliveryInv, TypeInv, TypeInv', HeadFirst, OneDriver, StartInv, [Next]_vars
             PROVE  StartInv'
  OBVIOUS
<1>1. CASE UNCHANGED vars
  BY <1>1 DEF vars, storeVars, ghostVars, StartInv, OpenKeys
<1>2. CASE Next
  <2> SUFFICES ASSUME NEW w \in Workers, wk'[w].pc \in Stretch, wk'[w].key \in OpenKeys'
               PROVE  /\ wk'[w].pc \in {"mark", "admit", "claim", "boundary"}
                           => wk'[w].start <= Len(timeline')
                      /\ wk'[w].pc \in {"prepare", "deliver", "stream"}
                           => wk'[w].start < Len(timeline')
                      /\ wk'[w].pc \in {"erred", "unknown"} /\ prompts'[wk'[w].key] > 0
                           => wk'[w].start < Len(timeline')
    BY DEF StartInv
  <2> DEFINE k == wk[w].key
  <2>1. /\ wk'[w].key = k /\ wk[w].pc \notin Keyless
        /\ \/ wk'[w] = wk[w]
           \/ CheckRuntime(w) \/ MarkAboutToPrompt(w) \/ RunAgentTurn(w) \/ Classify(w)
    BY <1>2, StretchEntered
  <2>2. k \in Keys /\ sub[k].status # "absent"
    BY <2>1 DEF HeadFirst, DeliveryInv, Shape, WorkerShape
  <2>3. k \in OpenKeys
    BY <1>2, <2>1, <2>2, WasOpen
  <2>4. /\ wk[w].start \in Nat /\ wk'[w].start \in Nat
        /\ Len(timeline) \in Nat /\ Len(timeline') \in Nat
        /\ wk \in [Workers -> WorkerTask] /\ timeline \in Seq(Item)
    BY DEF TypeInv, WorkerType, WorkerTask, TimelineType
  <2>5. Len(timeline') >= Len(timeline)
    BY <1>2, <2>3, TimelineGrows
  <2>6. /\ wk[w].pc \in {"mark", "admit", "claim", "boundary"} => wk[w].start <= Len(timeline)
        /\ wk[w].pc \in {"prepare", "deliver", "stream"} => wk[w].start < Len(timeline)
        /\ wk[w].pc \in {"erred", "unknown"} /\ prompts[k] > 0 => wk[w].start < Len(timeline)
    BY <2>3 DEF StartInv, Stretch
  <2>7. wk[w].pc \in PrePrompt => prompts[k] = 0
    BY DEF DeliveryInv, Fenced
  <2>8. ASSUME NEW p, Enter(w, p)
        PROVE  wk'[w].pc = p /\ wk'[w].start = wk[w].start
    BY <2>4, <2>8 DEF Enter, WorkerTask
  <2>9. wk[w].pc # "deliver" => prompts'[k] = prompts[k]
    <3> SUFFICES ASSUME wk[w].pc # "deliver", prompts'[k] # prompts[k] PROVE FALSE
      OBVIOUS
    <3>1. PICK v \in Workers : wk[v].pc = "deliver" /\ wk[v].key = k
      BY <1>2, <2>2, PromptsGrow
    <3>2. v = w
      BY <2>1, <3>1 DEF OneDriver, Keyless
    <3> QED BY <3>1, <3>2
  <2> HIDE DEF k
  <2>10. CASE wk'[w] = wk[w]
    BY <2>1, <2>4, <2>5, <2>6, <2>9, <2>10
  <2>11. CASE CheckRuntime(w)
    <3>1. wk' = [wk EXCEPT ![w].pc = "mark", ![w].start = Len(timeline)] /\ UNCHANGED timeline
      <4>1. ~Return(w) /\ ~Enter(w, "terminalize")
        BY <2>4, <2>8 DEF Return, OffWorker, Stretch
      <4> QED BY <2>11, <4>1 DEF CheckRuntime, Advance, Write
    <3>2. wk'[w].pc = "mark" /\ wk'[w].start = Len(timeline)
      BY <2>4, <3>1 DEF WorkerTask
    <3> QED BY <2>4, <3>1, <3>2
  <2>12. CASE MarkAboutToPrompt(w)
    <3>1. wk[w].pc = "mark" /\ \E p \in {"admit", "terminalize"} : Enter(w, p)
      BY <2>12 DEF MarkAboutToPrompt, Advance, Write, At
    <3>2. wk'[w].pc = "admit" /\ wk'[w].start = wk[w].start
      BY <2>8, <3>1 DEF Stretch
    <3> QED BY <2>4, <2>5, <2>6, <3>1, <3>2
  <2>13. CASE Classify(w)
    <3>1. /\ wk[w].pc = "erred" /\ wk'[w].start = wk[w].start
          /\ wk'[w].pc \in {"complete", "failAfter", "unknown"}
      <4>1. PersistedResult(timeline, Key(w), wk[w].start, Len(timeline)) \in {"completed", "failed", "unknown"}
        BY DEF PersistedResult, EndVerdict
      <4> QED BY <2>4, <2>13, <4>1 DEF Classify, At, WorkerTask
    <3>2. wk'[w].pc \in {"unknown", "complete"}
      BY <3>1 DEF Stretch
    <3> QED BY <2>1, <2>4, <2>5, <2>6, <2>9, <3>1, <3>2
  <2>14. CASE AdmitTurn(w) \/ ClaimRunningTurn(w) \/ AdmissionError(w)
    <3>1. wk[w].pc \in {"admit", "claim"}
      BY <2>14 DEF AdmitTurn, ClaimRunningTurn, AdmissionError, At
    <3>2. /\ wk'[w].start = wk[w].start
          /\ wk'[w].pc \in {"claim", "boundary", "erred"}
      <4>1. \/ wk' = [wk EXCEPT ![w].pc = "claim", ![w].snap = View, ![w].saw = session]
            \/ \E p \in {"boundary", "erred"} : Enter(w, p)
        BY <2>14 DEF AdmitTurn, ClaimRunningTurn, AdmissionError
      <4>2. CASE wk' = [wk EXCEPT ![w].pc = "claim", ![w].snap = View, ![w].saw = session]
        BY <2>4, <4>2 DEF WorkerTask
      <4> QED BY <2>8, <4>1, <4>2
    <3>3. prompts'[k] = 0
      BY <2>7, <2>9, <3>1 DEF PrePrompt
    <3> QED BY <2>1, <2>4, <2>5, <2>6, <3>1, <3>2, <3>3
  <2>15. CASE AppendUserBoundary(w)
    <3>1. /\ wk[w].pc = "boundary"
          /\ \/ Enter(w, "prepare") /\ timeline' = Append(timeline, UserItem(Key(w)))
             \/ Enter(w, "erred")
      BY <2>15 DEF AppendUserBoundary, At
    <3>2. prompts'[k] = 0
      BY <2>7, <2>9, <3>1 DEF PrePrompt
    <3>3. CASE Enter(w, "prepare") /\ timeline' = Append(timeline, UserItem(Key(w)))
      <4>1. Len(timeline') = Len(timeline) + 1
        BY <2>4, <3>3
      <4>2. wk'[w].pc = "prepare" /\ wk'[w].start = wk[w].start
        BY <2>8, <3>3
      <4> QED BY <2>4, <2>6, <3>1, <4>1, <4>2
    <3>4. CASE Enter(w, "erred")
      BY <2>1, <2>8, <3>2, <3>4
    <3> QED BY <3>1, <3>3, <3>4
  <2>16. CASE \/ PrepareTurn(w) \/ PrepareFails(w) \/ DeliverPrompt(w)
              \/ TurnReturns(w) \/ TurnFails(w)
    <3>1. /\ wk[w].pc \in {"prepare", "deliver", "stream"}
          /\ \E p \in {"deliver", "stream", "returned", "erred"} : Enter(w, p)
      BY <2>16 DEF PrepareTurn, PrepareFails, DeliverPrompt, TurnReturns, TurnFails, At
    <3>2. /\ wk'[w].start = wk[w].start
          /\ wk'[w].pc \in {"deliver", "stream", "returned", "erred"}
      BY <2>8, <3>1
    <3> QED BY <2>4, <2>5, <2>6, <3>1, <3>2
  <2>17. CASE StreamOutput(w)
    BY <2>10, <2>17 DEF StreamOutput
  <2> QED BY <2>1, <2>10, <2>11, <2>12, <2>13, <2>14, <2>15, <2>16, <2>17 DEF RunAgentTurn
<1> QED BY <1>1, <1>2

\* What the row tells about the prompt: only a recorded dispatch has a result, a recorded
\* dispatch has its time, a message without one that failed was not received, and no worker
\* is on its way to the provider with one that was given up like that.
Unreceived(k) == sub[k].status \in {"failed", "cancelled"} /\ ~sub[k].sent

ReceiptInv ==
    /\ \A k \in Keys :
        /\ sub[k].status \in Unsent \cup {"about"} => sub[k].first = 0
        /\ sub[k].status \in {"dispatched", "completed"} => sub[k].sent
        /\ Unreceived(k) => prompts[k] = 0
    /\ \A w \in Workers : wk[w].pc \in PrePrompt => ~Unreceived(wk[w].key)

\* A row becomes one that was not received from the queue or by a refusal.
LEMMA UnreceivedEntered ==
    ASSUME TypeInv, ReceiptInv, NEW k \in Keys, RowTo(k, sub'[k]), Unreceived(k)'
    PROVE  Unreceived(k) \/ sub[k].status \in Queued \/ (sub[k].status = "about" /\ Refused(k))
<1>1. sub[k] \in SubmissionRow
  BY DEF TypeInv, RowType
<1>2. sub[k].status = "completed" /\ sub'[k] = [sub[k] EXCEPT !.status = "cancelled"] => FALSE
  BY <1>1, StatusTo DEF ReceiptInv, Unreceived
<1>3. sub[k].status = "dispatched" /\ sub'[k] = [sub[k] EXCEPT !.status = "completed"] => FALSE
  BY <1>1, StatusTo DEF Unreceived
<1> QED BY <1>2, <1>3 DEF RowTo, Unreceived

LEMMA ReceiptNext ==
    DeliveryInv /\ TypeInv /\ TypeInv' /\ OneDriver /\ StartInv /\ ReceiptInv /\ [Next]_vars => ReceiptInv'
<1> SUFFICES ASSUME DeliveryInv, TypeInv, TypeInv', OneDriver, StartInv, ReceiptInv, [Next]_vars
             PROVE  ReceiptInv'
  OBVIOUS
<1>1. CASE UNCHANGED vars
  BY <1>1 DEF vars, storeVars, ghostVars, ReceiptInv, Unreceived
<1>2. CASE Next
  <2>0. RowsMove /\ sub \in [Keys -> SubmissionRow] /\ prompts \in [Keys -> Nat]
    BY <1>2, StepMovesRows DEF TypeInv, RowType, DeliveryInv, Shape
  <2>1. ASSUME NEW k \in Keys
        PROVE  /\ sub'[k].status \in Unsent \cup {"about"} => sub'[k].first = 0
               /\ sub'[k].status \in {"dispatched", "completed"} => sub'[k].sent
    <3>1. RowTo(k, sub'[k]) /\ sub[k] \in SubmissionRow
      BY <2>0 DEF RowsMove
    <3>2. /\ sub[k].status \in Unsent \cup {"about"} => sub[k].first = 0
          /\ sub[k].status \in {"dispatched", "completed"} => sub[k].sent
      BY DEF ReceiptInv
    <3>3. sub[k].status = "completed" /\ sub'[k] = [sub[k] EXCEPT !.status = "cancelled"]
            => sub'[k].status = "cancelled"
      BY <3>1, StatusTo
    <3>4. sub[k].status = "dispatched" /\ sub'[k] = [sub[k] EXCEPT !.status = "completed"]
            => sub'[k].status = "completed" /\ sub'[k].sent
      BY <3>1, <3>2, StatusTo
    <3> QED BY <3>1, <3>2, <3>3, <3>4 DEF RowTo, Unsent, Queued
  <2>2. ASSUME NEW k \in Keys, Unreceived(k)' PROVE prompts[k] = 0
    <3>1. \/ Unreceived(k) \/ sub[k].status \in Queued
          \/ (sub[k].status = "about" /\ Refused(k))
      BY <2>0, <2>2, UnreceivedEntered DEF RowsMove
    <3>2. ASSUME sub[k].status = "about", Refused(k) PROVE prompts[k] = 0
      <4> SUFFICES ASSUME NEW w \in Workers, wk[w].pc = "unknown", wk[w].key = k,
                          Len(timeline) <= wk[w].start, prompts[k] > 0
                   PROVE  FALSE
        BY <2>0, <3>2 DEF Refused, At, Key, NothingAppended
      <4>1. k \in OpenKeys
        BY <3>2 DEF OpenKeys, Terminal
      <4>2. wk[w].start \in Nat /\ Len(timeline) \in Nat
        BY DEF TypeInv, WorkerType, WorkerTask, TimelineType
      <4>3. wk[w].start < Len(timeline)
        BY <4>1 DEF StartInv, Stretch
      <4> QED BY <4>2, <4>3
    <3>3. sub[k].status \in Queued => prompts[k] = 0
      BY <2>0 DEF DeliveryInv, PromptedIsSent, Unsent
    <3> QED BY <3>1, <3>2, <3>3 DEF ReceiptInv
  <2>3. ASSUME NEW w \in Workers, wk'[w].pc \in PrePrompt, NEW k \in Keys, wk'[w].key = k,
               Unreceived(k)'
        PROVE  FALSE
    <3>1. wk'[w].pc \in Stretch
      BY <2>3 DEF PrePrompt, Stretch
    <3>2. /\ wk[w].key = k /\ wk[w].pc \notin Keyless
          /\ \/ wk'[w] = wk[w]
             \/ CheckRuntime(w) \/ MarkAboutToPrompt(w) \/ RunAgentTurn(w) \/ Classify(w)
      BY <1>2, <2>3, <3>1, StretchEntered
    <3>4. CASE wk[w].pc \in PrePrompt
      <4>1. ~Unreceived(k) /\ sub[k].status \notin Unsent
        BY <3>2, <3>4 DEF ReceiptInv, DeliveryInv, Fenced
      <4>2. Refused(k)
        BY <2>0, <2>3, <4>1, UnreceivedEntered DEF RowsMove, Unsent
      <4>3. PICK v \in Workers : wk[v].pc = "unknown"
        BY <4>2 DEF Refused, At
      <4>4. v = w
        BY <3>2, <4>3 DEF OneDriver, Keyless
      <4> QED BY <3>4, <4>3, <4>4 DEF PrePrompt
    <3>5. CASE wk[w].pc \notin PrePrompt
      <4>0. wk \in [Workers -> WorkerTask]
        BY DEF TypeInv, WorkerType
      <4>1. ASSUME NEW p, Enter(w, p) PROVE p \in PrePrompt
        BY <2>3, <4>0, <4>1 DEF Enter, WorkerTask
      <4>2. ~CheckRuntime(w)
        <5>1. ~Return(w) /\ ~Enter(w, "terminalize")
          BY <2>3, <4>0, <4>1 DEF Return, OffWorker, PrePrompt
        <5>2. wk' # [wk EXCEPT ![w].pc = "mark", ![w].start = Len(timeline)]
          BY <2>3, <4>0 DEF WorkerTask, PrePrompt
        <5> QED BY <5>1, <5>2 DEF CheckRuntime, Advance, Write
      <4>3. ~Classify(w)
        <5>1. PersistedResult(timeline, Key(w), wk[w].start, Len(timeline)) \in {"completed", "failed", "unknown"}
          BY DEF PersistedResult, EndVerdict
        <5> QED BY <2>3, <4>0, <5>1 DEF Classify, WorkerTask, PrePrompt
      <4>4. ~RunAgentTurn(w)
        <5>1. ~Enter(w, "returned") /\ ~Enter(w, "erred")
          BY <4>1 DEF PrePrompt
        <5>2. UNCHANGED wk => FALSE
          BY <2>3, <3>5
        <5> QED BY <3>5, <5>1, <5>2 DEF RunAgentTurn, AdmitTurn, ClaimRunningTurn, AdmissionError,
                AppendUserBoundary, PrepareTurn, PrepareFails, DeliverPrompt, StreamOutput,
                TurnReturns, TurnFails, At, PrePrompt
      <4>5. MarkAboutToPrompt(w)
        BY <2>3, <3>2, <3>5, <4>2, <4>3, <4>4
      <4>6. ~Enter(w, "terminalize")
        BY <4>1 DEF PrePrompt
      <4>7. sub' = [sub EXCEPT ![Key(w)] = [Row(w) EXCEPT !.status = "about"]]
        BY <4>5, <4>6 DEF MarkAboutToPrompt, Advance, Write
      <4>8. sub'[k].status = "about"
        BY <2>0, <2>3, <3>2, <4>7, StatusTo DEF Key, Row
      <4> QED BY <2>3, <4>8 DEF Unreceived
    <3> QED BY <3>4, <3>5
  <2>4. ASSUME NEW k \in Keys, Unreceived(k)' PROVE prompts'[k] = 0
    <3> SUFFICES ASSUME prompts'[k] # prompts[k] PROVE FALSE
      BY <2>2, <2>4
    <3>1. PICK w \in Workers : DeliverPrompt(w)
      BY <1>2, DeliversPrompt
    <3>2. PICK v \in Workers : wk[v].pc = "deliver" /\ wk[v].key = k
      BY <1>2, PromptsGrow
    <3>3. Unreceived(k)
      BY <2>4, <3>1 DEF DeliverPrompt, storeVars, Unreceived
    <3> QED BY <3>2, <3>3 DEF ReceiptInv, PrePrompt
  <2>5. \A w \in Workers : wk'[w].pc \in PrePrompt => wk'[w].key \in Keys
    <3>1. WorkerShape'
      BY <1>2, DeliveryNext DEF DeliveryInv, Shape
    <3> QED BY <3>1 DEF WorkerShape, PrePrompt, Keyless
  <2>6. \A w \in Workers : wk'[w].pc \in PrePrompt => ~Unreceived(wk[w].key)'
    BY <2>3, <2>5 DEF Unreceived
  <2> QED BY <2>1, <2>4, <2>6 DEF ReceiptInv
<1> QED BY <1>1, <1>2

\* The invariants above, from the start.
LEMMA ReceiptAlways == Spec => [](TypeInv /\ HeadFirst /\ OneDriver /\ StartInv /\ ReceiptInv)
<1>1. Init => HeadFirst /\ StartInv /\ ReceiptInv
  BY DEF Init, HeadFirst, StartInv, ReceiptInv, Unreceived, OffWorker, Keyless, Stretch, PrePrompt, NoRow
<1> QED BY <1>1, TypeInit, TypeNext, HeadFirstNext, StartNext, ReceiptNext, DeliveryInvariant,
        DrivenByOne, PTL DEF Spec

\* A message of which the client is told that it was not sent, or that still waits, never
\* reached the provider, wherever the turn, the storage or the process failed (dispatch,
\* persisted_dispatch_result, terminalize_drive_error, cancel_before_dispatch).
THEOREM UnsentIsUnreceived == Spec => []NotSentNotReceived
<1>1. DeliveryInv /\ ReceiptInv => NotSentNotReceived
  BY DEF DeliveryInv, Shape, PromptedIsSent, Unsent, ReceiptInv, Unreceived, NotSentNotReceived
<1> QED BY <1>1, ReceiptAlways, DeliveryInvariant, PTL

\* A row that is about to prompt has no result range, so the branch of reconcile_on_startup
\* that completes such a row from its range is never taken.
THEOREM PromptHasNoResult == Spec => []AboutHasNoResult
<1>1. ReceiptInv => AboutHasNoResult
  BY DEF ReceiptInv, AboutHasNoResult
<1> QED BY <1>1, ReceiptAlways, PTL

-----------------------------------------------------------------------------
(* The runtime a message is delivered to. *)

\* What the provider received changes with a delivery only.
LEMMA GhostsStay ==
    ASSUME Next
    PROVE  UNCHANGED ghostVars \/ \E w \in Workers : DeliverPrompt(w)
<1>1. ASSUME NEW w \in Workers, WorkerStep(w) \/ StorageError(w)
      PROVE  UNCHANGED ghostVars \/ DeliverPrompt(w)
  <2>1. CASE AwaitRuntime(w)
    BY <2>1 DEF AwaitRuntime, ReadSelection, Normalize, ForceFresh, ReserveFresh, AwaitFresh,
       RuntimeReady, HandleTerminalSwitch, RuntimeUnavailable, JoinPending, RequestRuntime,
       ReadRequested, Adopt, LinkSwitch
  <2>2. CASE DispatchMessage(w)
    BY <2>2 DEF DispatchMessage, PauseDispatch, CheckRuntime, MarkAboutToPrompt, MaterializeFails,
       RecordReturned, Classify, RecordPersisted, FailAfterDispatch, Unclassified
  <2>3. CASE RunAgentTurn(w)
    BY <2>3 DEF RunAgentTurn, AdmitTurn, ClaimRunningTurn, AdmissionError, AppendUserBoundary,
       PrepareTurn, PrepareFails, StreamOutput, TurnReturns, TurnFails
  <2>4. CASE TakeHead(w) \/ Unwatch(w) \/ Terminalize(w) \/ Redrive(w) \/ Finish(w) \/ StorageError(w)
    BY <2>4 DEF TakeHead, Unwatch, Terminalize, Redrive, Finish, StorageError
  <2> QED BY <1>1, <2>1, <2>2, <2>3, <2>4 DEF WorkerStep
<1>2. ASSUME NEW k \in Keys, Submit(k) \/ Edit(k) \/ Wait(k) \/ Answer(k) \/ StopExecution(k)
      PROVE  UNCHANGED ghostVars
  BY <1>2 DEF Submit, Edit, Wait, Answer, StopExecution
<1>3. CASE \/ Recheck \/ Interrupt \/ InterruptQueue \/ InterruptProvider \/ StopQueued
           \/ \E r \in Runtimes : SelectRuntime(r)
           \/ \E s \in Switches : CancelSelection(s) \/ SwitchStep(s)
           \/ CancelForSwitch \/ OtherTurnStarts \/ OtherTurnOutputs \/ OtherTurnEnds
           \/ CrashRestart \/ Reconcile
  BY <1>3 DEF Recheck, Interrupt, InterruptQueue, InterruptProvider, StopQueued, SelectRuntime,
     CancelSelection, SwitchStep, CancelForSwitch, OtherTurnStarts, OtherTurnOutputs,
     OtherTurnEnds, CrashRestart, Reconcile, ReconcileList, ReconcileRow, ReconcileStart
<1> QED BY <1>1, <1>2, <1>3 DEF Next

\* Past the boundary a row keeps the runtime it asks for.
LEMMA DesiredStays ==
    ASSUME TypeInv, RowsMove, NEW k \in Keys, sub[k].status \notin Unsent
    PROVE  sub'[k].desired = sub[k].desired
<1>1. RowTo(k, sub'[k]) /\ sub[k] \in SubmissionRow
  BY DEF RowsMove, TypeInv, RowType
<1>2. ASSUME NEW s, sub'[k] = [sub[k] EXCEPT !.status = s] PROVE sub'[k].desired = sub[k].desired
  BY <1>1, <1>2, StatusTo
<1> QED BY <1>1, <1>2 DEF RowTo, Unsent, Queued

\* A turn that was admitted goes to the runtime the row asks for.
Admitted == {"claim", "boundary", "prepare", "deliver"}

DesiredInv ==
    /\ \A w \in Workers : wk[w].pc \in Admitted => wk[w].snap.effective = sub[wk[w].key].desired
    /\ DeliveredOnDesired

LEMMA DesiredNext == DeliveryInv /\ TypeInv /\ DesiredInv /\ [Next]_vars => DesiredInv'
<1> SUFFICES ASSUME DeliveryInv, TypeInv, DesiredInv, [Next]_vars PROVE DesiredInv'
  OBVIOUS
<1>1. CASE UNCHANGED vars
  BY <1>1 DEF vars, storeVars, ghostVars, DesiredInv, DeliveredOnDesired
<1>2. CASE Next
  <2>0. /\ RowsMove /\ Shape /\ wk \in [Workers -> WorkerTask]
        /\ prompts \in [Keys -> Nat] /\ ranOn \in [Keys -> Runtimes]
    BY <1>2, StepMovesRows DEF TypeInv, WorkerType, RanOnType, DeliveryInv, Shape
  <2>1. ASSUME NEW w \in Workers, wk'[w].pc \in Admitted
        PROVE  wk'[w].snap.effective = sub'[wk'[w].key].desired
    <3>1. wk'[w].pc \in Stretch /\ wk'[w].pc \notin {"mark", "admit", "unknown", "erred", "stream"}
      BY <2>1 DEF Admitted, Stretch
    <3>2. /\ wk'[w].key = wk[w].key /\ wk[w].pc \notin Keyless /\ wk[w].key \in Keys
          /\ \/ wk'[w] = wk[w]
             \/ CheckRuntime(w) \/ MarkAboutToPrompt(w) \/ RunAgentTurn(w) \/ Classify(w)
      BY <1>2, <2>0, <3>1, StretchEntered DEF Shape, WorkerShape
    <3>3. ASSUME NEW p, Enter(w, p) PROVE wk'[w].pc = p /\ wk'[w].snap = wk[w].snap
      BY <2>0, <3>3 DEF Enter, WorkerTask
    <3>4. ASSUME wk[w].pc \in Admitted, wk'[w].snap = wk[w].snap
          PROVE  wk'[w].snap.effective = sub'[wk'[w].key].desired
      <4>1. sub[wk[w].key].status \notin Unsent
        BY <3>4 DEF DeliveryInv, Fenced, Admitted, PrePrompt
      <4> QED BY <2>0, <3>2, <3>4, <4>1, DesiredStays DEF DesiredInv
    <3>5. CASE wk'[w] = wk[w]
      BY <2>1, <3>4, <3>5
    <3>6. CASE AdmitTurn(w)
      <4>1. wk' = [wk EXCEPT ![w].pc = "claim", ![w].snap = View, ![w].saw = session]
        BY <3>1, <3>3, <3>6 DEF AdmitTurn
      <4>2. Admits(Row(w).desired) /\ UNCHANGED sub
        <5>1. ~Enter(w, "erred")
          BY <3>1, <3>3
        <5> QED BY <3>6, <5>1 DEF AdmitTurn, Admissible, storeVars
      <4>3. wk'[w].snap = View
        BY <2>0, <4>1 DEF WorkerTask
      <4>4. View.effective = sel.effective
        BY DEF View
      <4> QED BY <3>2, <4>2, <4>3, <4>4 DEF Admits, Row, Key
    <3>7. CASE ClaimRunningTurn(w) \/ AppendUserBoundary(w) \/ PrepareTurn(w)
      <4>1. /\ wk[w].pc \in {"claim", "boundary", "prepare"}
            /\ \E p : Enter(w, p)
        BY <3>7 DEF ClaimRunningTurn, AppendUserBoundary, PrepareTurn, At
      <4> QED BY <3>3, <3>4, <4>1 DEF Admitted
    <3>8. ~AdmissionError(w) /\ ~PrepareFails(w) /\ ~DeliverPrompt(w) /\ ~TurnReturns(w) /\ ~TurnFails(w)
      <4>1. ~Enter(w, "erred") /\ ~Enter(w, "stream") /\ ~Enter(w, "returned")
        BY <2>1, <3>3 DEF Admitted
      <4> QED BY <4>1 DEF AdmissionError, PrepareFails, DeliverPrompt, TurnReturns, TurnFails
    <3>9. CASE StreamOutput(w)
      BY <3>5, <3>9 DEF StreamOutput
    <3>10. ~CheckRuntime(w)
      <4>1. ~Return(w) /\ ~Enter(w, "terminalize")
        BY <2>0, <2>1, <3>3 DEF Return, OffWorker, Admitted
      <4>2. wk' # [wk EXCEPT ![w].pc = "mark", ![w].start = Len(timeline)]
        BY <2>0, <3>1 DEF WorkerTask
      <4> QED BY <4>1, <4>2 DEF CheckRuntime, Advance, Write
    <3>11. ~MarkAboutToPrompt(w)
      <4>1. ~Enter(w, "admit") /\ ~Enter(w, "terminalize")
        BY <2>1, <3>3 DEF Admitted
      <4> QED BY <4>1 DEF MarkAboutToPrompt, Advance, Write
    <3>12. ~Classify(w)
      <4>1. PersistedResult(timeline, Key(w), wk[w].start, Len(timeline)) \in {"completed", "failed", "unknown"}
        BY DEF PersistedResult, EndVerdict
      <4> QED BY <2>0, <2>1, <4>1 DEF Classify, WorkerTask, Admitted
    <3> QED BY <3>2, <3>5, <3>6, <3>7, <3>8, <3>9, <3>10, <3>11, <3>12 DEF RunAgentTurn
  <2>2. ASSUME NEW k \in Keys, prompts'[k] > 0 PROVE ranOn'[k] = sub'[k].desired
    <3>1. CASE UNCHANGED ghostVars
      <4>1. prompts[k] > 0 /\ ranOn'[k] = ranOn[k]
        BY <2>2, <3>1 DEF ghostVars
      <4>2. sub[k].status \notin Unsent
        BY <4>1 DEF DeliveryInv, PromptedIsSent
      <4> QED BY <2>0, <4>1, <4>2, DesiredStays DEF DesiredInv, DeliveredOnDesired
    <3>2. ASSUME NEW w \in Workers, DeliverPrompt(w) PROVE ranOn'[k] = sub'[k].desired
      <4>1. /\ prompts' = [prompts EXCEPT ![Key(w)] = @ + 1]
            /\ ranOn' = [ranOn EXCEPT ![Key(w)] = Snap(w).effective]
            /\ UNCHANGED sub /\ wk[w].pc = "deliver"
        BY <3>2 DEF DeliverPrompt, storeVars, At
      <4>2. CASE Key(w) = k
        BY <2>0, <4>1, <4>2 DEF DesiredInv, Admitted, Snap, Key
      <4>3. CASE Key(w) # k
        BY <2>0, <2>2, <4>1, <4>3 DEF DesiredInv, DeliveredOnDesired
      <4> QED BY <4>2, <4>3
    <3> QED BY <1>2, <3>1, <3>2, GhostsStay
  <2> QED BY <2>1, <2>2 DEF DesiredInv, DeliveredOnDesired
<1> QED BY <1>1, <1>2

\* Whatever selections, switches and cancellations do between the worker's looks at the
\* selection, a message is delivered to the runtime its row asks for (dispatch, the
\* admission of run_agent_turn, normalize_runtime_selection).
THEOREM DeliveredAsDesired == Spec => []DeliveredOnDesired
<1>1. Init => DesiredInv
  BY DEF Init, DesiredInv, DeliveredOnDesired, OffWorker, Admitted
<1>2. DesiredInv => DeliveredOnDesired
  BY DEF DesiredInv
<1> QED BY <1>1, <1>2, TypeInit, TypeNext, DesiredNext, DeliveryInvariant, PTL DEF Spec

-----------------------------------------------------------------------------
(* No lost wakeup. *)

\* Somebody other than the startup task will look at the queue again.
Driven ==
    \/ watched \/ exits.first + exits.second > 0
    \/ \E k \in Keys : caller[k] = "prepared"

\* A row that the startup task listed as being dispatched has been moved by someone else,
\* which makes the task give up when it comes to it.
Overtaken == \E e \in recon.todo : e.status \notin Queued /\ sub[e.key].status # e.status

ListedOnce == \A d, e \in recon.todo : d.key = e.key => d = e

DrivenInv ==
    /\ ListedOnce
    /\ used.faults = 0 /\ OpenKeys # {} => /\ Driven \/ recon.pc # "done"
                                           /\ Overtaken => Driven

\* A step that leaves the startup task alone and moves none of the rows it waits for.
LEMMA StaysDriven ==
    ASSUME DrivenInv, UNCHANGED recon, used.faults = 0, OpenKeys # {}, ~Driven,
           \A e \in recon.todo : e.status \notin Queued /\ sub'[e.key].status # e.status
                                   => sub[e.key].status # e.status
    PROVE  recon'.pc # "done" /\ ~Overtaken'
  BY DEF DrivenInv, Overtaken

\* start_session_worker leaves a worker behind, whoever calls it.
LEMMA StartDrives ==
    ASSUME TypeInv, StartWorker
    PROVE  Driven'
  BY DEF StartWorker, AlreadyRunning, Driven, TypeInv, ClientType

\* A step of a worker: it holds the entry, or gives it back and looks again.
LEMMA WorkerDrives ==
    ASSUME Shape, TypeInv, OneDriver, NEW w \in Workers, WorkerStep(w) \/ StorageError(w)
    PROVE  Driven'
<1>1. /\ wk[w].pc # "off"
      /\ \/ wk'[w].pc = "off" /\ watched' = FALSE
         \/ wk'[w].pc # "off" /\ watched' = watched
  BY WorkerStepOwn
<1>2. watched
  BY <1>1 DEF OneDriver
<1>3. CASE Unwatch(w)
  <2>1. exits \in [first : Nat, second : Nat]
    BY SubmissionAssumption DEF TypeInv, ExitsType
  <2>2. exits' = [exits EXCEPT !.first = @ + 1]
    BY <1>3 DEF Unwatch
  <2>3. exits'.first + exits'.second > 0
    BY <2>1, <2>2
  <2> QED BY <2>3 DEF Driven
<1>4. CASE ~Unwatch(w)
  <2>1. watched' = watched
    <3>1. CASE TakeHead(w) \/ Terminalize(w) \/ Redrive(w) \/ Finish(w) \/ StorageError(w)
      BY <3>1 DEF TakeHead, Terminalize, Redrive, Finish, StorageError, queueVars
    <3>2. CASE AwaitRuntime(w)
      BY <3>2 DEF AwaitRuntime, ReadSelection, Normalize, ForceFresh, ReserveFresh, AwaitFresh,
         RuntimeReady, HandleTerminalSwitch, RuntimeUnavailable, JoinPending, RequestRuntime,
         ReadRequested, Adopt, LinkSwitch, queueVars
    <3>3. CASE DispatchMessage(w)
      BY <3>3 DEF DispatchMessage, PauseDispatch, CheckRuntime, MarkAboutToPrompt, MaterializeFails,
         RecordReturned, Classify, RecordPersisted, FailAfterDispatch, Unclassified, queueVars
    <3>4. CASE RunAgentTurn(w)
      BY <3>4 DEF RunAgentTurn, AdmitTurn, ClaimRunningTurn, AdmissionError, AppendUserBoundary,
         PrepareTurn, PrepareFails, DeliverPrompt, StreamOutput, TurnReturns, TurnFails, queueVars
    <3> QED BY <1>4, <3>1, <3>2, <3>3, <3>4 DEF WorkerStep
  <2> QED BY <1>2, <2>1 DEF Driven
<1> QED BY <1>3, <1>4

\* A caller that is back with a message has prepared it.
LEMMA EnqueueDrives ==
    ASSUME TypeInv, NEW k \in Keys, caller[k] = "none", NEW fresh, Enqueue(k, fresh),
           UNCHANGED <<watched, exits>>
    PROVE  Driven' \/ (UNCHANGED sub /\ ~Driven)
<1>1. caller \in [Keys -> {"none", "prepared", "waiting", "refused"}]
  BY DEF TypeInv, ClientType
<1>2. CASE caller' = [caller EXCEPT ![k] = "prepared"]
  BY <1>1, <1>2 DEF Driven
<1>3. CASE UNCHANGED sub /\ caller' = [caller EXCEPT ![k] = "refused"]
  <2>1. (\E j \in Keys : caller[j] = "prepared") => \E j \in Keys : caller'[j] = "prepared"
    BY <1>1, <1>3
  <2> QED BY <1>3, <2>1 DEF Driven
<1> QED BY <1>2, <1>3 DEF Enqueue

\* Rows that only leave the queue are none of those the startup task waits for.
LEMMA DroppedRows ==
    ASSUME ReconShape, RowsMove, \A k \in Keys : sub[k].status \notin Queued => sub'[k] = sub[k],
           \A k \in Keys : sub[k].status \in Queued => sub'[k].status # "absent",
           OpenKeys' # {},
           \A k \in Keys : sub[k].status \in Queued =>
             sub'[k] = sub[k] \/ sub'[k].status = "cancelled"
    PROVE  /\ OpenKeys # {}
           /\ \A e \in recon.todo : e.status \notin Queued /\ sub'[e.key].status # e.status
                                      => sub[e.key].status # e.status
<1>1. OpenKeys # {}
  <2>1. PICK k \in Keys : sub'[k].status \notin Terminal \cup {"absent"}
    BY DEF OpenKeys
  <2>2. sub'[k] = sub[k]
    BY <2>1 DEF Terminal
  <2> QED BY <2>1, <2>2 DEF OpenKeys
<1> QED BY <1>1 DEF ReconShape

LEMMA CancelDrops ==
    ASSUME TypeInv, NEW Q \in SUBSET Keys, \A k \in Q : sub[k].status \in Queued,
           CancelBeforeDispatch(Q)
    PROVE  \A k \in Keys : \/ sub'[k] = sub[k]
                           \/ sub[k].status \in Queued /\ sub'[k].status = "cancelled"
<1>1. PICK place \in [Q -> 1..Cardinality(Q)] : sub' = [k \in Keys |->
         IF k \in Q
         THEN [sub[k] EXCEPT !.status = "cancelled",
                 !.first = Len(timeline) + place[k], !.last = Len(timeline) + place[k]]
         ELSE sub[k]]
  BY DEF CancelBeforeDispatch
<1> SUFFICES ASSUME NEW k \in Keys
             PROVE  \/ sub'[k] = sub[k]
                    \/ sub[k].status \in Queued /\ sub'[k].status = "cancelled"
  OBVIOUS
<1>2. CASE k \in Q
  <2>1. \A x, y : [sub[k] EXCEPT !.status = "cancelled", !.first = x, !.last = y].status = "cancelled"
    BY DEF TypeInv, RowType, SubmissionRow
  <2> QED BY <1>1, <1>2, <2>1
<1>3. CASE k \notin Q
  BY <1>1, <1>3
<1> QED BY <1>2, <1>3

\* The startup task.
LEMMA ReconcileDrives ==
    ASSUME Shape, ReconShape, TypeInv, TypeInv', DrivenInv, Reconcile,
           used'.faults = 0, OpenKeys' # {}, ~Driven'
    PROVE  recon'.pc # "done" /\ ~Overtaken'
<1>0. /\ used.faults \in Nat /\ (SpendFault => FALSE)
      /\ recon \in [pc : {"list", "step", "done"}, todo : SUBSET [key : Keys, status : Status]]
  BY SubmissionAssumption DEF TypeInv, UsedType, SpendFault, ReconType
<1>1. CASE ReconcileList
  <2>1. OpenKeys # {} /\ UNCHANGED sub
    BY <1>1 DEF ReconcileList, storeVars, OpenKeys
  <2>2. recon' = [pc |-> "step", todo |-> {[key |-> k, status |-> sub[k].status] : k \in OpenKeys}]
    BY <1>0, <1>1, <2>1 DEF ReconcileList, ReconTo
  <2> QED BY <2>1, <2>2 DEF Overtaken
<1>2. CASE ReconcileStart
  <2>1. OpenKeys # {}
    BY <1>2 DEF ReconcileStart, storeVars, OpenKeys
  <2> QED BY <1>2, <2>1, StartDrives DEF ReconcileStart, WorkIsLeft
<1>3. CASE ReconcileRow
  <2> DEFINE e == CHOOSE x \in recon.todo :
                    \A y \in recon.todo : sub[x.key].seq <= sub[y.key].seq
             S == {sub[x.key].seq : x \in recon.todo}
  <2>1. e \in recon.todo
    <3>1. S \subseteq Nat /\ S # {}
      BY <1>3 DEF ReconcileRow, ReconShape, Shape, QueueShape
    <3>2. PICK m \in S : \A n \in S : m <= n
      <4> HIDE DEF S
      <4> QED BY <3>1, NatMin
    <3> QED BY <3>2
  <2>2. \/ /\ recon' = [pc |-> "step", todo |-> recon.todo \ {e}] /\ UNCHANGED sub
        \/ /\ e.status \notin Queued /\ AsListed(e)
           /\ sub' = [sub EXCEPT ![e.key].status = Reconciled[e.status]]
           /\ recon' = [pc |-> "step", todo |-> recon.todo \ {e}]
        \/ e.status \notin Queued /\ ~AsListed(e) /\ UNCHANGED sub
    BY <1>0, <1>3 DEF ReconcileRow, ReconTo
  <2>3. used.faults = 0 /\ UNCHANGED queueVars
    BY <1>0, <1>3 DEF ReconcileRow
  <2>4. ~Driven
    BY <2>3 DEF queueVars, Driven
  <2> HIDE DEF e
  <2>5. OpenKeys # {} => ~Overtaken
    BY <2>3, <2>4 DEF DrivenInv
  <2>6. CASE recon' = [pc |-> "step", todo |-> recon.todo \ {e}] /\ UNCHANGED sub
    <3>1. OpenKeys # {}
      BY <2>6 DEF OpenKeys
    <3> QED BY <2>5, <2>6, <3>1 DEF Overtaken
  <2>7. CASE /\ e.status \notin Queued /\ AsListed(e)
             /\ sub' = [sub EXCEPT ![e.key].status = Reconciled[e.status]]
             /\ recon' = [pc |-> "step", todo |-> recon.todo \ {e}]
    <3>1. e.key \in Keys /\ sub[e.key].status \in {"about", "dispatched"}
      BY <2>1, <2>7 DEF ReconShape, AsListed
    <3>2. \A k \in Keys : k # e.key => sub'[k] = sub[k]
      BY <2>7, <3>1 DEF TypeInv, RowType
    <3>3. OpenKeys # {}
      BY <3>1 DEF OpenKeys, Terminal
    <3>4. \A d \in recon.todo \ {e} : d.key \in Keys /\ d.key # e.key
      BY <2>1 DEF DrivenInv, ListedOnce, ReconShape
    <3>5. ~Overtaken'
      BY <2>5, <2>7, <3>2, <3>3, <3>4 DEF Overtaken
    <3> QED BY <2>7, <3>5
  <2>8. CASE e.status \notin Queued /\ ~AsListed(e) /\ UNCHANGED sub
    <3>1. OpenKeys # {} /\ Overtaken
      BY <2>1, <2>8 DEF OpenKeys, Overtaken, AsListed
    <3> QED BY <2>5, <3>1
  <2> QED BY <2>2, <2>6, <2>7, <2>8
<1> QED BY <1>1, <1>2, <1>3 DEF Reconcile

\* What is listed is listed once.
LEMMA ListedNext ==
    ASSUME TypeInv, ListedOnce, Next
    PROVE  ListedOnce'
<1>1. CASE UNCHANGED recon
  BY <1>1 DEF ListedOnce
<1>2. CASE CrashRestart
  BY <1>2 DEF CrashRestart, ListedOnce
<1>3. CASE Reconcile
  <2>1. CASE ReconcileList
    <3>1. \/ recon'.todo = {}
          \/ recon'.todo = {[key |-> k, status |-> sub[k].status] : k \in OpenKeys}
      BY <2>1 DEF ReconcileList, ReconTo
    <3> QED BY <3>1 DEF ListedOnce
  <2>2. CASE ReconcileRow \/ ReconcileStart
    <3> DEFINE e == CHOOSE x \in recon.todo :
                      \A y \in recon.todo : sub[x.key].seq <= sub[y.key].seq
    <3>1. CASE ReconcileRow
      <4>1. ReconTo("step", recon.todo \ {e}) \/ ReconTo("done", {})
        BY <3>1 DEF ReconcileRow
      <4> HIDE DEF e
      <4>2. recon'.todo \subseteq recon.todo
        BY <4>1 DEF ReconTo
      <4> QED BY <4>2 DEF ListedOnce
    <3>2. CASE ReconcileStart
      BY <3>2 DEF ReconcileStart, ReconTo, ListedOnce
    <3> QED BY <2>2, <3>1, <3>2
  <2> QED BY <1>3, <2>1, <2>2 DEF Reconcile
<1>4. UNCHANGED recon \/ CrashRestart \/ Reconcile
  <2>1. ASSUME NEW w \in Workers, WorkerStep(w) \/ StorageError(w) PROVE UNCHANGED recon
    <3>1. CASE AwaitRuntime(w)
      BY <3>1 DEF AwaitRuntime, ReadSelection, Normalize, ForceFresh, ReserveFresh, AwaitFresh,
         RuntimeReady, HandleTerminalSwitch, RuntimeUnavailable, JoinPending, RequestRuntime,
         ReadRequested, Adopt, LinkSwitch, taskVars
    <3>2. CASE DispatchMessage(w)
      BY <3>2 DEF DispatchMessage, PauseDispatch, CheckRuntime, MarkAboutToPrompt, MaterializeFails,
         RecordReturned, Classify, RecordPersisted, FailAfterDispatch, Unclassified, taskVars
    <3>3. CASE RunAgentTurn(w)
      BY <3>3 DEF RunAgentTurn, AdmitTurn, ClaimRunningTurn, AdmissionError, AppendUserBoundary,
         PrepareTurn, PrepareFails, DeliverPrompt, StreamOutput, TurnReturns, TurnFails, taskVars
    <3>4. CASE TakeHead(w) \/ Unwatch(w) \/ Terminalize(w) \/ Redrive(w) \/ Finish(w) \/ StorageError(w)
      BY <3>4 DEF TakeHead, Unwatch, Terminalize, Redrive, Finish, StorageError, taskVars
    <3> QED BY <2>1, <3>1, <3>2, <3>3, <3>4 DEF WorkerStep
  <2>2. ASSUME NEW k \in Keys, Submit(k) \/ Edit(k) \/ Wait(k) \/ Answer(k) \/ StopExecution(k)
        PROVE  UNCHANGED recon
    BY <2>2 DEF Submit, Edit, Wait, Answer, StopExecution, taskVars
  <2>3. ASSUME \/ Recheck \/ Interrupt \/ InterruptQueue \/ InterruptProvider \/ StopQueued
               \/ \E r \in Runtimes : SelectRuntime(r)
               \/ \E s \in Switches : CancelSelection(s) \/ SwitchStep(s)
               \/ CancelForSwitch \/ OtherTurnStarts \/ OtherTurnOutputs \/ OtherTurnEnds
        PROVE  UNCHANGED recon
    BY <2>3 DEF Recheck, Interrupt, InterruptQueue, InterruptProvider, StopQueued, SelectRuntime,
       CancelSelection, SwitchStep, CancelForSwitch, OtherTurnStarts, OtherTurnOutputs,
       OtherTurnEnds, taskVars
  <2> QED BY <2>1, <2>2, <2>3 DEF Next
<1> QED BY <1>1, <1>2, <1>3, <1>4

LEMMA DrivenNext ==
    DeliveryInv /\ TypeInv /\ TypeInv' /\ OneDriver /\ DrivenInv /\ [Next]_vars => DrivenInv'
<1> SUFFICES ASSUME DeliveryInv, TypeInv, TypeInv', OneDriver, DrivenInv, [Next]_vars
             PROVE  DrivenInv'
  OBVIOUS
<1>1. CASE UNCHANGED vars
  BY <1>1 DEF vars, storeVars, queueVars, taskVars, DrivenInv, ListedOnce, Driven, Overtaken, OpenKeys
<1>2. CASE Next
  <2>0. Shape /\ ReconShape /\ RowsMove
    BY <1>2, StepMovesRows DEF DeliveryInv
  <2>1. ListedOnce'
    BY <1>2, ListedNext DEF DrivenInv
  <2> SUFFICES ASSUME used'.faults = 0, OpenKeys' # {}, ~Driven'
               PROVE  recon'.pc # "done" /\ ~Overtaken'
    BY <2>1 DEF DrivenInv
  <2>2. ~SpendFault
    BY SubmissionAssumption DEF SpendFault, TypeInv, UsedType
  <2>3. ASSUME UNCHANGED <<sub, recon, used>>, ~Driven PROVE recon'.pc # "done" /\ ~Overtaken'
    BY <2>3, StaysDriven DEF OpenKeys
  <2>4. ASSUME NEW k \in Keys, Submit(k) \/ Edit(k) \/ Wait(k) \/ Answer(k) \/ StopExecution(k)
        PROVE  recon'.pc # "done" /\ ~Overtaken'
    <3>1. CASE Submit(k)
      BY <2>3, <3>1, EnqueueDrives DEF Submit, taskVars
    <3>2. CASE Edit(k)
      <4>1. CASE sub[k].status # "absent"
        BY <2>3, <3>2, <4>1, EnqueueDrives DEF Edit, taskVars
      <4>2. CASE sub[k].status = "absent"
        <5>1. caller' = [caller EXCEPT ![k] = "prepared"]
          BY <3>2, <4>2 DEF Edit
        <5> QED BY <5>1 DEF Driven, TypeInv, ClientType
      <4> QED BY <4>1, <4>2
    <3>3. CASE Wait(k)
      BY <3>3, StartDrives DEF Wait
    <3>4. CASE Answer(k)
      <4>1. /\ caller' = [caller EXCEPT ![k] = "none"] /\ caller[k] # "prepared"
            /\ UNCHANGED <<sub, recon, used, watched, exits>>
        BY <3>4 DEF Answer, storeVars, taskVars
      <4>2. ~Driven
        BY <4>1 DEF Driven, TypeInv, ClientType
      <4> QED BY <2>3, <4>1, <4>2
    <3>5. CASE StopExecution(k)
      <4>1. UNCHANGED <<sub, recon, used, watched, exits, caller>>
        BY <3>5 DEF StopExecution, taskVars
      <4>2. ~Driven
        BY <4>1 DEF Driven
      <4> QED BY <2>3, <4>1, <4>2
    <3> QED BY <2>4, <3>1, <3>2, <3>3, <3>4, <3>5
  <2>5. ASSUME NEW w \in Workers, WorkerStep(w) \/ StorageError(w) PROVE FALSE
    BY <2>0, <2>5, WorkerDrives
  <2>6. CASE Recheck
    <3>1. exits \in [first : Nat, second : Nat]
      BY SubmissionAssumption DEF TypeInv, ExitsType
    <3>2. OpenKeys # {}
      BY <2>6 DEF Recheck, storeVars, OpenKeys
    <3>3. StartWorker
      BY <2>2, <2>6, <3>2 DEF Recheck, WorkIsLeft
    <3> QED BY <3>3, StartDrives
  <2>7. ASSUME \/ Interrupt \/ InterruptProvider
               \/ \E r \in Runtimes : SelectRuntime(r)
               \/ \E s \in Switches : CancelSelection(s) \/ SwitchStep(s)
               \/ OtherTurnStarts \/ OtherTurnOutputs \/ OtherTurnEnds
        PROVE  recon'.pc # "done" /\ ~Overtaken'
    <3>1. UNCHANGED <<sub, recon, watched, exits, caller>>
      BY <2>7 DEF Interrupt, InterruptProvider, SelectRuntime, CancelSelection, SwitchStep,
         OtherTurnStarts, OtherTurnOutputs, OtherTurnEnds, storeVars, queueVars, taskVars
    <3>2. ~Driven /\ OpenKeys # {}
      BY <3>1 DEF Driven, OpenKeys
    <3>3. used.faults = 0
      <4>1. \/ UNCHANGED used
            \/ used' = [used EXCEPT !.interrupts = @ + 1]
            \/ used' = [used EXCEPT !.selections = @ + 1]
            \/ used' = [used EXCEPT !.turns = @ + 1]
        BY <2>2, <2>7 DEF Interrupt, InterruptProvider, SelectRuntime, CancelSelection, SwitchStep,
           OtherTurnStarts, OtherTurnOutputs, OtherTurnEnds, FinishTurnWithError
      <4> QED BY <4>1 DEF TypeInv, UsedType
    <3> QED BY <3>1, <3>2, <3>3, StaysDriven
  <2>8. CASE InterruptQueue \/ StopQueued \/ CancelForSwitch
    <3>1. UNCHANGED <<recon, used, watched, exits, caller>>
      BY <2>8 DEF InterruptQueue, StopQueued, CancelForSwitch, queueVars, taskVars
    <3>2. \A k \in Keys : \/ sub'[k] = sub[k]
                          \/ sub[k].status \in Queued /\ sub'[k].status = "cancelled"
      <4>1. CASE UNCHANGED sub
        BY <4>1
      <4>2. CASE InterruptQueue
        <5>1. QueuedKeys \in SUBSET Keys /\ \A k \in QueuedKeys : sub[k].status \in Queued
          BY DEF QueuedKeys
        <5> QED BY <4>1, <4>2, <5>1, CancelDrops DEF InterruptQueue
      <4>3. CASE StopQueued
        <5>1. {gate} \in SUBSET Keys
          BY <4>3 DEF StopQueued
        <5> QED BY <4>1, <4>3, <5>1, CancelDrops DEF StopQueued
      <4>4. CASE CancelForSwitch
        <5> SUFFICES ASSUME NEW k \in Keys
                     PROVE  \/ sub'[k] = sub[k]
                            \/ sub[k].status \in Queued /\ sub'[k].status = "cancelled"
          OBVIOUS
        <5>1. sub[k] \in SubmissionRow
          BY DEF TypeInv, RowType
        <5>2. \/ sub'[k] = sub[k]
              \/ sub[k].status \in Queued /\ sub'[k] = [sub[k] EXCEPT !.status = "cancelled"]
          BY <4>4 DEF CancelForSwitch
        <5>3. [sub[k] EXCEPT !.status = "cancelled"].status = "cancelled"
          BY <5>1, StatusTo
        <5> QED BY <5>2, <5>3
      <4> QED BY <2>8, <4>2, <4>3, <4>4
    <3>3. ~Driven /\ used.faults = 0
      BY <3>1 DEF Driven
    <3>4. /\ OpenKeys # {}
          /\ \A e \in recon.todo : e.status \notin Queued /\ sub'[e.key].status # e.status
                                     => sub[e.key].status # e.status
      BY <2>0, <3>2, DroppedRows DEF Queued
    <3> QED BY <3>1, <3>3, <3>4, StaysDriven
  <2>9. CASE CrashRestart
    BY <2>9 DEF CrashRestart, Overtaken
  <2>10. CASE Reconcile
    BY <2>0, <2>10, ReconcileDrives
  <2> QED BY <1>2, <2>4, <2>5, <2>6, <2>7, <2>8, <2>9, <2>10 DEF Next
<1> QED BY <1>1, <1>2

\* However submissions, retries, leaving workers, crashes and the startup task interleave,
\* an open message has somebody who will look at the queue again, as long as no storage
\* operation failed (start_session_worker, finish_session_worker, reconcile_on_startup).
THEOREM QueueStaysDriven == Spec => []QueueIsDriven
<1>1. Init => DrivenInv
  BY DEF Init, DrivenInv, ListedOnce, Overtaken
<1>2. DrivenInv => QueueIsDriven
  BY DEF DrivenInv, Driven, QueueIsDriven
<1> QED BY <1>1, <1>2, TypeInit, TypeNext, DrivenNext, DeliveryInvariant, DrivenByOne, PTL DEF Spec

-----------------------------------------------------------------------------
(* One turn at a time. *)

Turning == {"boundary", "prepare", "deliver", "stream"}

\* A worker in its turn or before its claim was there, or came there by one of these steps.
LEMMA TurnEntered ==
    ASSUME DeliveryInv, TypeInv, Next, NEW w \in Workers, wk'[w].pc \in Turning \cup {"claim"}
    PROVE  \/ wk'[w] = wk[w]
           \/ /\ wk[w].pc = "admit" /\ wk'[w].pc = "claim"
              /\ wk'[w].saw = session /\ session # "running"
           \/ /\ wk[w].pc = "claim" /\ wk'[w].pc = "boundary"
              /\ ClaimRunningTurn(w) /\ StateUnmoved(w) /\ session' = "running"
           \/ wk[w].pc \in Turning /\ wk'[w].pc \notin {"claim", "boundary"} /\ UNCHANGED session
<1>0. wk \in [Workers -> WorkerTask]
  BY DEF TypeInv, WorkerType
<1>1. wk'[w].pc \in Stretch /\ wk'[w].pc \notin {"mark", "admit", "unknown", "erred"}
  BY DEF Turning, Stretch
<1>2. \/ wk'[w] = wk[w]
      \/ CheckRuntime(w) \/ MarkAboutToPrompt(w) \/ RunAgentTurn(w) \/ Classify(w)
  BY <1>1, StretchEntered
<1>3. ASSUME NEW p, Enter(w, p) PROVE wk'[w].pc = p
  BY <1>0, <1>3 DEF Enter, WorkerTask
<1>4. ~Enter(w, "erred") /\ ~Enter(w, "returned") /\ ~Enter(w, "terminalize") /\ ~Enter(w, "admit")
  BY <1>1, <1>3 DEF Turning
<1>5. CASE AdmitTurn(w)
  <2>1. /\ wk[w].pc = "admit" /\ session # "running"
        /\ wk' = [wk EXCEPT ![w].pc = "claim", ![w].snap = View, ![w].saw = session]
    BY <1>4, <1>5 DEF AdmitTurn, Admissible, At
  <2>2. wk'[w].pc = "claim" /\ wk'[w].saw = session
    BY <1>0, <2>1 DEF WorkerTask
  <2> QED BY <2>1, <2>2
<1>6. CASE ClaimRunningTurn(w)
  <2>1. wk[w].pc = "claim" /\ StateUnmoved(w) /\ session' = "running" /\ Enter(w, "boundary")
    BY <1>4, <1>6 DEF ClaimRunningTurn, At
  <2> QED BY <1>3, <1>6, <2>1
<1>7. CASE AppendUserBoundary(w) \/ PrepareTurn(w) \/ DeliverPrompt(w)
  <2>1. /\ wk[w].pc \in Turning /\ UNCHANGED session
        /\ Enter(w, "prepare") \/ Enter(w, "deliver") \/ Enter(w, "stream")
    BY <1>4, <1>7 DEF AppendUserBoundary, PrepareTurn, DeliverPrompt, At, Turning, storeVars
  <2> QED BY <1>3, <2>1
<1>8. CASE StreamOutput(w)
  BY <1>8 DEF StreamOutput
<1>9. ~AdmissionError(w) /\ ~PrepareFails(w) /\ ~TurnReturns(w) /\ ~TurnFails(w)
  BY <1>4 DEF AdmissionError, PrepareFails, TurnReturns, TurnFails
<1>10. ~CheckRuntime(w)
  <2>1. ~Return(w)
    BY <1>0 DEF Return, OffWorker, Turning
  <2>2. wk' # [wk EXCEPT ![w].pc = "mark", ![w].start = Len(timeline)]
    BY <1>0, <1>1 DEF WorkerTask
  <2> QED BY <1>4, <2>1, <2>2 DEF CheckRuntime, Advance, Write
<1>11. ~MarkAboutToPrompt(w)
  BY <1>4 DEF MarkAboutToPrompt, Advance, Write
<1>12. ~Classify(w)
  <2>1. PersistedResult(timeline, Key(w), wk[w].start, Len(timeline)) \in {"completed", "failed", "unknown"}
    BY DEF PersistedResult, EndVerdict
  <2> QED BY <1>0, <2>1 DEF Classify, WorkerTask, Turning
<1> QED BY <1>2, <1>5, <1>6, <1>7, <1>8, <1>9, <1>10, <1>11, <1>12 DEF RunAgentTurn

\* The steps that move the session or the turn that is not a submission's.
LEMMA SessionMoves ==
    ASSUME Next
    PROVE  \/ UNCHANGED <<session, other>>
           \/ OtherTurnStarts \/ OtherTurnEnds \/ InterruptProvider \/ CrashRestart
           \/ \E w \in Workers : RunAgentTurn(w) /\ UNCHANGED other
<1>1. ASSUME NEW w \in Workers, WorkerStep(w) \/ StorageError(w)
      PROVE  UNCHANGED <<session, other>> \/ (RunAgentTurn(w) /\ UNCHANGED other)
  <2>1. CASE AwaitRuntime(w)
    BY <2>1 DEF AwaitRuntime, ReadSelection, Normalize, ForceFresh, ReserveFresh, AwaitFresh,
       RuntimeReady, HandleTerminalSwitch, RuntimeUnavailable, JoinPending, RequestRuntime,
       ReadRequested, Adopt, LinkSwitch, storeVars, taskVars
  <2>2. CASE DispatchMessage(w)
    BY <2>2 DEF DispatchMessage, PauseDispatch, CheckRuntime, MarkAboutToPrompt, MaterializeFails,
       RecordReturned, Classify, RecordPersisted, FailAfterDispatch, Unclassified, storeVars, taskVars
  <2>3. CASE RunAgentTurn(w)
    BY <2>3 DEF RunAgentTurn, AdmitTurn, ClaimRunningTurn, AdmissionError, AppendUserBoundary,
       PrepareTurn, PrepareFails, DeliverPrompt, StreamOutput, TurnReturns, TurnFails, taskVars
  <2>4. CASE TakeHead(w) \/ Unwatch(w) \/ Terminalize(w) \/ Redrive(w) \/ Finish(w) \/ StorageError(w)
    BY <2>4 DEF TakeHead, Unwatch, Terminalize, Redrive, Finish, StorageError, storeVars, taskVars
  <2> QED BY <1>1, <2>1, <2>2, <2>3, <2>4 DEF WorkerStep
<1>2. ASSUME NEW k \in Keys, Submit(k) \/ Edit(k) \/ Wait(k) \/ Answer(k) \/ StopExecution(k)
      PROVE  UNCHANGED <<session, other>>
  BY <1>2 DEF Submit, Edit, Wait, Answer, StopExecution, storeVars, taskVars
<1>3. CASE \/ Recheck \/ Interrupt \/ InterruptQueue \/ StopQueued
           \/ \E r \in Runtimes : SelectRuntime(r)
           \/ \E s \in Switches : CancelSelection(s) \/ SwitchStep(s)
           \/ CancelForSwitch \/ OtherTurnOutputs \/ Reconcile
  BY <1>3 DEF Recheck, Interrupt, InterruptQueue, StopQueued, SelectRuntime, CancelSelection,
     SwitchStep, CancelForSwitch, OtherTurnOutputs, Reconcile, ReconcileList, ReconcileRow,
     ReconcileStart, storeVars, taskVars
<1> QED BY <1>1, <1>2, <1>3 DEF Next

\* Without session-wide interrupts none is ever in progress.
LEMMA NeverInterrupted ==
    ASSUME TypeInv, MaxInterrupts = 0, intr = "none", Next
    PROVE  intr' = "none"
<1>1. ~Interrupt
  <2>1. used.interrupts \in 0..MaxInterrupts
    BY DEF TypeInv, UsedType
  <2> QED BY <2>1 DEF Interrupt
<1>2. ASSUME NEW w \in Workers, WorkerStep(w) \/ StorageError(w) PROVE UNCHANGED intr
  <2>1. CASE AwaitRuntime(w)
    BY <2>1 DEF AwaitRuntime, ReadSelection, Normalize, ForceFresh, ReserveFresh, AwaitFresh,
       RuntimeReady, HandleTerminalSwitch, RuntimeUnavailable, JoinPending, RequestRuntime,
       ReadRequested, Adopt, LinkSwitch, taskVars
  <2>2. CASE DispatchMessage(w)
    BY <2>2 DEF DispatchMessage, PauseDispatch, CheckRuntime, MarkAboutToPrompt, MaterializeFails,
       RecordReturned, Classify, RecordPersisted, FailAfterDispatch, Unclassified, taskVars
  <2>3. CASE RunAgentTurn(w)
    BY <2>3 DEF RunAgentTurn, AdmitTurn, ClaimRunningTurn, AdmissionError, AppendUserBoundary,
       PrepareTurn, PrepareFails, DeliverPrompt, StreamOutput, TurnReturns, TurnFails, taskVars
  <2>4. CASE TakeHead(w) \/ Unwatch(w) \/ Terminalize(w) \/ Redrive(w) \/ Finish(w) \/ StorageError(w)
    BY <2>4 DEF TakeHead, Unwatch, Terminalize, Redrive, Finish, StorageError, taskVars
  <2> QED BY <1>2, <2>1, <2>2, <2>3, <2>4 DEF WorkerStep
<1>3. ASSUME NEW k \in Keys, Submit(k) \/ Edit(k) \/ Wait(k) \/ Answer(k) \/ StopExecution(k)
      PROVE  UNCHANGED intr
  BY <1>3 DEF Submit, Edit, Wait, Answer, StopExecution, taskVars
<1>4. CASE \/ Recheck \/ InterruptQueue \/ InterruptProvider \/ StopQueued
           \/ \E r \in Runtimes : SelectRuntime(r)
           \/ \E s \in Switches : CancelSelection(s) \/ SwitchStep(s)
           \/ CancelForSwitch \/ OtherTurnStarts \/ OtherTurnOutputs \/ OtherTurnEnds
           \/ CrashRestart \/ Reconcile
  BY <1>4 DEF Recheck, InterruptQueue, InterruptProvider, StopQueued, SelectRuntime,
     CancelSelection, SwitchStep, CancelForSwitch, OtherTurnStarts, OtherTurnOutputs,
     OtherTurnEnds, CrashRestart, Reconcile, ReconcileList, ReconcileRow, ReconcileStart, taskVars
<1> QED BY <1>1, <1>2, <1>3, <1>4 DEF Next

\* The session is marked running while any turn is in it, and a claim follows a look at a
\* session that was not.
TurnInv ==
    /\ intr = "none"
    /\ other => session = "running"
    /\ \A w \in Workers : wk[w].pc \in Turning => session = "running" /\ ~other
    /\ \A w \in Workers : wk[w].pc = "claim" => wk[w].saw # "running"

LEMMA TurnNext ==
    MaxInterrupts = 0 /\ DeliveryInv /\ TypeInv /\ OneDriver /\ TurnInv /\ [Next]_vars => TurnInv'
<1> SUFFICES ASSUME MaxInterrupts = 0, DeliveryInv, TypeInv, OneDriver, TurnInv, [Next]_vars
             PROVE  TurnInv'
  OBVIOUS
<1>1. CASE UNCHANGED vars
  BY <1>1 DEF vars, storeVars, taskVars, TurnInv
<1>2. CASE Next
  <2>0. wk \in [Workers -> WorkerTask] /\ Shape /\ intr = "none"
    BY DEF TypeInv, WorkerType, DeliveryInv, TurnInv
  <2>1. ASSUME NEW w \in Workers, wk'[w].pc \in Turning \cup {"claim"}
        PROVE  \/ wk'[w] = wk[w]
               \/ /\ wk[w].pc = "admit" /\ wk'[w].pc = "claim"
                  /\ wk'[w].saw = session /\ session # "running"
               \/ /\ wk[w].pc = "claim" /\ wk'[w].pc = "boundary"
                  /\ ClaimRunningTurn(w) /\ StateUnmoved(w) /\ session' = "running"
               \/ wk[w].pc \in Turning /\ wk'[w].pc \notin {"claim", "boundary"} /\ UNCHANGED session
    BY <1>2, <2>1, TurnEntered
  <2>2. ASSUME NEW w \in Workers, wk'[w].pc = "claim" PROVE wk'[w].saw # "running"
    BY <2>1, <2>2 DEF TurnInv
  <2>3. \/ UNCHANGED <<session, other>>
        \/ OtherTurnStarts \/ OtherTurnEnds \/ CrashRestart
        \/ \E v \in Workers : RunAgentTurn(v) /\ UNCHANGED other
    BY <1>2, <2>0, SessionMoves DEF InterruptProvider
  <2>4. ASSUME NEW w \in Workers, wk'[w].pc \in Turning PROVE session' = "running" /\ ~other'
    <3>1. CASE UNCHANGED <<session, other>>
      <4>1. wk[w].pc \in Turning \/ (wk[w].pc = "claim" /\ StateUnmoved(w) /\ session' = "running")
        BY <2>1, <2>4 DEF Turning
      <4> QED BY <3>1, <4>1 DEF TurnInv, StateUnmoved
    <3>2. CASE OtherTurnStarts
      BY <2>4, <3>2 DEF OtherTurnStarts, TurnInv
    <3>3. CASE OtherTurnEnds
      BY <2>4, <3>3 DEF OtherTurnEnds, TurnInv
    <3>4. CASE CrashRestart
      BY <2>4, <3>4 DEF CrashRestart, OffWorker, Turning
    <3>5. ASSUME NEW v \in Workers, RunAgentTurn(v), UNCHANGED other PROVE session' = "running" /\ ~other'
      <4>1. wk[v].pc \in Turning \cup {"admit", "claim"}
        BY <3>5 DEF RunAgentTurn, AdmitTurn, ClaimRunningTurn, AdmissionError, AppendUserBoundary,
           PrepareTurn, PrepareFails, DeliverPrompt, StreamOutput, TurnReturns, TurnFails, At, Turning
      <4>2. v # w => wk'[w] = wk[w]
        BY <2>0, <3>5, WorkerStepOwn DEF WorkerStep
      <4>3. v = w
        BY <2>4, <4>1, <4>2 DEF OneDriver, Turning
      <4>4. CASE StreamOutput(w)
        BY <3>5, <4>4 DEF StreamOutput, At, Turning, TurnInv
      <4>5. CASE ~StreamOutput(w) /\ wk'[w] = wk[w]
        <5>1. \E p \in WorkerPc : Enter(w, p) /\ p # wk[w].pc
          BY <2>4, <3>5, <4>3, <4>5 DEF RunAgentTurn, AdmitTurn, ClaimRunningTurn, AdmissionError,
             AppendUserBoundary, PrepareTurn, PrepareFails, DeliverPrompt, TurnReturns, TurnFails,
             At, Turning, WorkerPc, StoragePcs
        <5> QED BY <2>0, <4>5, <5>1 DEF Enter, WorkerTask
      <4>6. CASE wk[w].pc = "claim" /\ StateUnmoved(w) /\ session' = "running"
        BY <3>5, <4>6 DEF TurnInv, StateUnmoved
      <4>7. CASE wk[w].pc \in Turning /\ UNCHANGED session
        BY <3>5, <4>7 DEF TurnInv
      <4> QED BY <2>1, <2>4, <4>4, <4>5, <4>6, <4>7 DEF Turning
    <3> QED BY <2>3, <3>1, <3>2, <3>3, <3>4, <3>5
  <2>5. other' => session' = "running"
    <3>1. CASE UNCHANGED <<session, other>>
      BY <3>1 DEF TurnInv
    <3>2. CASE OtherTurnStarts
      BY <3>2 DEF OtherTurnStarts
    <3>3. CASE OtherTurnEnds \/ CrashRestart
      BY <3>3 DEF OtherTurnEnds, CrashRestart
    <3>4. ASSUME NEW v \in Workers, RunAgentTurn(v), UNCHANGED other, other PROVE session' = "running"
      <4>1. wk[v].pc \notin Turning /\ session = "running"
        BY <3>4 DEF TurnInv
      <4>2. AdmitTurn(v) \/ ClaimRunningTurn(v) \/ AdmissionError(v)
        BY <3>4, <4>1 DEF RunAgentTurn, AppendUserBoundary, PrepareTurn, PrepareFails, DeliverPrompt,
           StreamOutput, TurnReturns, TurnFails, At, Turning
      <4> QED BY <4>1, <4>2 DEF AdmitTurn, ClaimRunningTurn, AdmissionError, storeVars
    <3> QED BY <2>3, <3>1, <3>2, <3>3, <3>4
  <2>6. intr' = "none"
    BY <1>2, <2>0, NeverInterrupted
  <2> QED BY <2>2, <2>4, <2>5, <2>6 DEF TurnInv
<1> QED BY <1>1, <1>2

\* Where nobody interrupts the session, which settles it under a turn by design, the turn of
\* a message and a command or a continued turn never run at the same time, through storage
\* errors, crashes and every order of looks and claims (claim_running_turn).
THEOREM TurnsExclude == MaxInterrupts = 0 => (Spec => []OneTurn)
<1> SUFFICES ASSUME MaxInterrupts = 0 PROVE Spec => []OneTurn
  OBVIOUS
<1>1. Init => TurnInv
  BY DEF Init, TurnInv, OffWorker, Turning
<1>2. TurnInv => OneTurn
  BY DEF TurnInv, OneTurn, Turning
<1>3. DeliveryInv /\ TypeInv /\ OneDriver /\ TurnInv /\ [Next]_vars => TurnInv'
  BY TurnNext
<1> QED BY <1>1, <1>2, <1>3, TypeInit, TypeNext, DeliveryInvariant, DrivenByOne, PTL DEF Spec

-----------------------------------------------------------------------------
(* A message in the Timeline. *)

Shows(t, k) == \E i \in DOMAIN t : t[i] = UserItem(k)

Once(t) ==
    \A i, j \in DOMAIN t :
        /\ t[i].kind = "user" /\ t[i].key # NoKey
        /\ t[j] = t[i]
        => i = j

\* What is in a Timeline that was cut was in it before.
LEMMA CutShows ==
    ASSUME NEW t \in Seq(Item), NEW n \in 0..Len(t)
    PROVE  /\ \A k : Shows(SubSeq(t, 1, n), k) => Shows(t, k)
           /\ Once(t) => Once(SubSeq(t, 1, n))
<1> DEFINE s == SubSeq(t, 1, n)
<1>1. DOMAIN s = 1..n /\ \A i \in 1..n : s[i] = t[i] /\ i \in DOMAIN t
  BY SubSeqProperties
<1> HIDE DEF s
<1>2. (\A k : Shows(s, k) => Shows(t, k)) /\ (Once(t) => Once(s))
  BY <1>1 DEF Shows, Once
<1> QED BY <1>2 DEF s

\* One more item shows a message once if none showed it before.
LEMMA AppendShows ==
    ASSUME NEW t \in Seq(Item), NEW x \in Item
    PROVE  /\ \A k : Shows(Append(t, x), k) => Shows(t, k) \/ x = UserItem(k)
           /\ Once(t) /\ (x.kind = "user" /\ x.key # NoKey => ~Shows(t, x.key))
                => Once(Append(t, x))
<1> DEFINE s == Append(t, x)
           n == Len(t)
<1>1. /\ n \in Nat /\ DOMAIN t = 1..n /\ DOMAIN s = 1..(n + 1) /\ s[n + 1] = x
      /\ \A i \in 1..n : s[i] = t[i]
  OBVIOUS
<1> HIDE DEF s, n
<1>2. \A i \in DOMAIN s : i \in DOMAIN t \/ i = n + 1
  BY <1>1
<1>3. \A k : Shows(s, k) => Shows(t, k) \/ x = UserItem(k)
  BY <1>1, <1>2 DEF Shows
<1>4. ASSUME Once(t), x.kind = "user" /\ x.key # NoKey => ~Shows(t, x.key)
      PROVE  Once(s)
  <2> SUFFICES ASSUME NEW i \in DOMAIN s, NEW j \in DOMAIN s,
                      s[i].kind = "user", s[i].key # NoKey, s[j] = s[i]
               PROVE  i = j
    BY DEF Once
  <2>1. CASE i \in DOMAIN t /\ j \in DOMAIN t
    BY <1>1, <1>4, <2>1 DEF Once
  <2>2. CASE i = n + 1 /\ j = n + 1
    BY <2>2
  <2>3. x.kind = "user" => x = UserItem(x.key)
    BY DEF Item, UserItem
  <2>4. ASSUME NEW l \in DOMAIN t, t[l] = x, x.kind = "user", x.key # NoKey PROVE FALSE
    BY <1>4, <2>3, <2>4 DEF Shows
  <2>5. CASE (i \in DOMAIN t /\ j = n + 1) \/ (i = n + 1 /\ j \in DOMAIN t)
    BY <1>1, <2>4, <2>5
  <2> QED BY <1>2, <2>1, <2>2, <2>5
<1> QED BY <1>3, <1>4 DEF s

\* Messages that leave the queue with the Timeline telling so are each shown once.
LEMMA CancelShows ==
    ASSUME TypeInv, NEW Q \in SUBSET Keys, CancelBeforeDispatch(Q),
           \A k \in Q : ~Shows(timeline, k), Once(timeline)
    PROVE  /\ Once(timeline')
           /\ \A k \in Keys : Shows(timeline', k) => Shows(timeline, k) \/ k \in Q
<1> DEFINE n == Cardinality(Q)
           m == Len(timeline)
<1>1. n \in Nat /\ m \in Nat /\ timeline \in Seq(Item) /\ IsFiniteSet(Q)
  <2>1. IsFiniteSet(Q)
    BY TimelineAssumption, FS_Subset
  <2> QED BY <2>1, FS_CardinalityType DEF TypeInv, TimelineType
<1>2. PICK order \in [1..n -> Q], place \in [Q -> 1..n] :
        /\ \A k \in Q : order[place[k]] = k
        /\ timeline' = timeline \o [i \in 1..n |-> UserItem(order[i])]
  BY DEF CancelBeforeDispatch
<1>3. \A i, j \in 1..n : order[i] = order[j] => i = j
  <2>1. order \in Surjection(1..n, Q)
    BY <1>2 DEF Surjection
  <2>2. IsFiniteSet(1..n) /\ Cardinality(1..n) = n
    BY <1>1, FS_Interval
  <2>3. order \in Injection(1..n, Q)
    BY <2>1, <2>2, FS_SurjSameCardinalityImpliesInj
  <2> QED BY <2>3 DEF Injection, IsInjective
<1> DEFINE shown == [i \in 1..n |-> UserItem(order[i])]
           t == timeline \o shown
<1>4. shown \in Seq(Item) /\ Len(shown) = n /\ \A i \in 1..n : shown[i] = UserItem(order[i])
  <2>1. \A i \in 1..n : UserItem(order[i]) \in Item
    BY ItemsTyped
  <2>2. shown \in [1..n -> Item]
    BY <2>1
  <2>3. \A i \in 1..n : shown[i] = UserItem(order[i])
    OBVIOUS
  <2> HIDE DEF shown, n
  <2> QED BY <1>1, <2>2, <2>3
<1> HIDE DEF shown, n
<1>5. /\ DOMAIN t = 1..(m + n) /\ DOMAIN timeline = 1..m
      /\ \A i \in 1..m : t[i] = timeline[i]
      /\ \A i \in (m + 1)..(m + n) : t[i] = UserItem(order[i - m]) /\ i - m \in 1..n
  <2>1. Len(t) = m + n /\ t \in Seq(Item) /\ \A i \in 1..(m + n) : t[i] = IF i <= m THEN timeline[i] ELSE shown[i - m]
    BY <1>1, <1>4, ConcatProperties
  <2>2. DOMAIN t = 1..(m + n) /\ DOMAIN timeline = 1..m
    BY <1>1, <2>1
  <2> HIDE DEF t, m
  <2>3. m \in Nat
    BY <1>1 DEF m
  <2> QED BY <1>1, <1>4, <2>1, <2>2, <2>3
<1>6. timeline' = t
  BY <1>2 DEF shown
<1> HIDE DEF t, m
<1>7. \A i \in DOMAIN t : i \in 1..m \/ i \in (m + 1)..(m + n)
  BY <1>1, <1>5 DEF m
<1>8. \A i \in (m + 1)..(m + n) : t[i].kind = "user" /\ t[i].key = order[i - m] /\ order[i - m] \in Q
  <2> SUFFICES ASSUME NEW i \in (m + 1)..(m + n)
               PROVE  t[i].kind = "user" /\ t[i].key = order[i - m] /\ order[i - m] \in Q
    OBVIOUS
  <2>1. t[i] = UserItem(order[i - m]) /\ i - m \in 1..n
    BY <1>5
  <2>2. order[i - m] \in Q
    BY <1>2, <2>1
  <2> QED BY <2>1, <2>2 DEF UserItem
<1>9. ASSUME NEW k \in Keys, Shows(t, k) PROVE Shows(timeline, k) \/ k \in Q
  <2>1. PICK i \in DOMAIN t : t[i] = UserItem(k)
    BY <1>9 DEF Shows
  <2>2. t[i].key = k
    BY <2>1 DEF UserItem
  <2> QED BY <1>5, <1>7, <1>8, <2>1, <2>2 DEF Shows
<1>10. Once(t)
  <2> SUFFICES ASSUME NEW i \in DOMAIN t, NEW j \in DOMAIN t,
                      t[i].kind = "user", t[i].key # NoKey, t[j] = t[i]
               PROVE  i = j
    BY DEF Once
  <2>1. CASE i \in 1..m /\ j \in 1..m
    BY <1>5, <2>1 DEF Once
  <2>2. CASE i \in (m + 1)..(m + n) /\ j \in (m + 1)..(m + n)
    <3>1. order[i - m] = order[j - m] /\ i - m \in 1..n /\ j - m \in 1..n
      BY <1>5, <1>8, <2>2
    <3>2. i - m = j - m
      BY <1>3, <3>1
    <3> QED BY <1>1, <2>2, <3>2 DEF m
  <2>3. ASSUME NEW a \in 1..m, NEW b \in (m + 1)..(m + n), t[a] = t[b] PROVE FALSE
    <3>1. timeline[a] = UserItem(order[b - m]) /\ a \in DOMAIN timeline /\ order[b - m] \in Q
      BY <1>5, <1>8, <2>3
    <3> QED BY <3>1 DEF Shows
  <2> QED BY <1>7, <2>1, <2>2, <2>3
<1> QED BY <1>6, <1>9, <1>10

\* An item that is not the user message of a submission: an error, an item of a turn that
\* is not a submission's, or the output of a worker's turn.
Aside(x) ==
    \/ x.kind = "error"
    \/ x.key = NoKey /\ (OtherTurnStarts \/ OtherTurnOutputs)
    \/ x.kind # "user" /\ \E w \in Workers : StreamOutput(w)

\* An edit cuts the Timeline while nothing is open, and cuts no result that stays.
CutAt(n) ==
    /\ OpenKeys = {}
    /\ \A j \in Keys : sub'[j].status \in {"dispatched", "completed"} =>
         sub'[j] = sub[j] /\ sub[j].last <= n

\* What a step may do to the Timeline.
LEMMA TimelineMoves ==
    ASSUME DeliveryInv, TypeInv, Next
    PROVE  \/ UNCHANGED timeline
           \/ \E x \in Item : timeline' = Append(timeline, x) /\ Aside(x)
           \/ \E n \in 0..Len(timeline) : timeline' = SubSeq(timeline, 1, n) /\ CutAt(n)
           \/ \E w \in Workers : /\ At(w, "boundary") /\ Enter(w, "prepare") /\ UNCHANGED sub
                                 /\ timeline' = Append(timeline, UserItem(Key(w)))
           \/ \E Q \in SUBSET QueuedKeys : CancelBeforeDispatch(Q) /\ UNCHANGED wk
<1> DEFINE Adds == \E x \in Item : timeline' = Append(timeline, x) /\ Aside(x)
<1>0. Shape /\ timeline \in Seq(Item) /\ Len(timeline) \in Nat
  BY DEF DeliveryInv, TypeInv, TimelineType
<1>1. ASSUME NEW k \in Keys \cup {NoKey}, NEW kind \in ItemKind,
             timeline' = Append(timeline, [kind |-> kind, key |-> k]),
             \/ k = NoKey /\ (OtherTurnStarts \/ OtherTurnOutputs)
             \/ kind # "user" /\ \E w \in Workers : StreamOutput(w)
      PROVE  Adds
  <2> DEFINE x == [kind |-> kind, key |-> k]
  <2>1. x \in Item
    BY ItemsTyped
  <2>2. x.kind = kind /\ x.key = k /\ timeline' = Append(timeline, x)
    BY <1>1
  <2> HIDE DEF x
  <2>3. Aside(x)
    BY <1>1, <2>2 DEF Aside
  <2> QED BY <2>1, <2>2, <2>3
<1>2. ASSUME NEW k \in Keys \cup {NoKey}, timeline' = Append(timeline, ErrorItem(k)) PROVE Adds
  <2>1. ErrorItem(k) \in Item
    BY ItemsTyped
  <2>2. Aside(ErrorItem(k))
    BY DEF Aside, ErrorItem
  <2> QED BY <1>2, <2>1, <2>2
<1>3. ASSUME NEW k \in Keys \cup {NoKey}, FinishTurnWithError(k) PROVE UNCHANGED timeline \/ Adds
  <2> HIDE DEF Adds
  <2> QED BY <1>2, <1>3 DEF FinishTurnWithError
<1>4. ASSUME NEW w \in Workers, WorkerStep(w) \/ StorageError(w)
      PROVE  \/ UNCHANGED timeline \/ Adds
             \/ /\ At(w, "boundary") /\ Enter(w, "prepare") /\ UNCHANGED sub
                /\ timeline' = Append(timeline, UserItem(Key(w)))
  <2> HIDE DEF Adds
  <2>1. CASE AwaitRuntime(w)
    BY <2>1 DEF AwaitRuntime, ReadSelection, Normalize, ForceFresh, ReserveFresh, AwaitFresh,
       RuntimeReady, HandleTerminalSwitch, RuntimeUnavailable, JoinPending, RequestRuntime,
       ReadRequested, Adopt, LinkSwitch, storeVars
  <2>2. CASE DispatchMessage(w)
    BY <2>2 DEF DispatchMessage, PauseDispatch, CheckRuntime, MarkAboutToPrompt,
       MaterializeFails, RecordReturned, Classify, RecordPersisted, FailAfterDispatch,
       Unclassified, storeVars
  <2>3. CASE AdmitTurn(w) \/ ClaimRunningTurn(w) \/ AdmissionError(w) \/ PrepareTurn(w)
             \/ DeliverPrompt(w) \/ TurnReturns(w)
    BY <2>3 DEF AdmitTurn, ClaimRunningTurn, AdmissionError, PrepareTurn, DeliverPrompt,
       TurnReturns, storeVars
  <2>4. CASE At(w, "boundary") \/ At(w, "stream") \/ At(w, "prepare")
    <3>1. Key(w) \in Keys
      BY <1>0, <2>4 DEF At, Key, Shape, WorkerShape, Keyless
    <3>2. CASE AppendUserBoundary(w)
      BY <1>2, <3>1, <3>2 DEF AppendUserBoundary
    <3>3. CASE StreamOutput(w)
      <4>1. PICK kind \in {"partial", "final", "exhausted"} :
              timeline' = Append(timeline, [kind |-> kind, key |-> Key(w)])
        BY <3>3 DEF StreamOutput
      <4>2. kind \in ItemKind /\ kind # "user" /\ Key(w) \in Keys \cup {NoKey}
        BY <3>1 DEF ItemKind
      <4> QED BY <1>1, <3>3, <4>1, <4>2
    <3>4. CASE PrepareFails(w) \/ TurnFails(w)
      BY <1>3, <3>1, <3>4 DEF PrepareFails, TurnFails
    <3>5. CASE ~(AppendUserBoundary(w) \/ StreamOutput(w) \/ PrepareFails(w) \/ TurnFails(w))
      <4>1. CASE TakeHead(w) \/ Unwatch(w) \/ Terminalize(w) \/ Redrive(w) \/ Finish(w) \/ StorageError(w)
        BY <4>1 DEF TakeHead, Unwatch, Terminalize, Redrive, Finish, StorageError, storeVars
      <4> QED BY <1>4, <2>1, <2>2, <2>3, <3>5, <4>1 DEF WorkerStep, RunAgentTurn
    <3> QED BY <3>2, <3>3, <3>4, <3>5
  <2>5. CASE TakeHead(w) \/ Unwatch(w) \/ Terminalize(w) \/ Redrive(w) \/ Finish(w) \/ StorageError(w)
    BY <2>5 DEF TakeHead, Unwatch, Terminalize, Redrive, Finish, StorageError, storeVars
  <2>6. CASE AppendUserBoundary(w) \/ StreamOutput(w) \/ PrepareFails(w) \/ TurnFails(w)
    BY <2>4, <2>6 DEF AppendUserBoundary, StreamOutput, PrepareFails, TurnFails
  <2> QED BY <1>4, <2>1, <2>2, <2>3, <2>5, <2>6 DEF WorkerStep, RunAgentTurn
<1>5. ASSUME NEW k \in Keys, Edit(k)
      PROVE  UNCHANGED timeline \/ \E n \in 0..Len(timeline) : timeline' = SubSeq(timeline, 1, n) /\ CutAt(n)
  <2> DEFINE userItems == Users(timeline, 0, Len(timeline))
             cut == MaxOf(userItems)
  <2>2. CASE /\ sub[k].status = "absent" /\ userItems # {} /\ OpenKeys = {}
             /\ timeline' = SubSeq(timeline, 1, cut - 1)
             /\ sub' = [j \in Keys |->
                  IF j = k THEN [NoRow EXCEPT !.status = "awaiting",
                       !.seq = NextSequence, !.desired = Wanted[k], !.fresh = TRUE]
                  ELSE IF SupersededByEdit(j, cut) THEN [sub[j] EXCEPT !.status = "cancelled"]
                  ELSE sub[j]]
    <3>1. userItems \subseteq 1..Len(timeline)
      BY <1>0 DEF Users
    <3>2. userItems \subseteq Nat /\ \A x \in userItems : x <= Len(timeline)
      BY <1>0, <3>1
    <3>3. cut \in userItems
      <4> HIDE DEF userItems
      <4> QED BY <1>0, <2>2, <3>2, MaxOfBounded
    <3> HIDE DEF userItems, cut
    <3>4. cut - 1 \in 0..Len(timeline)
      BY <1>0, <3>1, <3>3
    <3>5. ASSUME NEW j \in Keys, sub'[j].status \in {"dispatched", "completed"}
          PROVE  sub'[j] = sub[j] /\ sub[j].last <= cut - 1
      <4>1. sub[j] \in SubmissionRow /\ sub[j].last \in Nat
        BY DEF TypeInv, RowType, SubmissionRow
      <4>2. [sub[j] EXCEPT !.status = "cancelled"].status = "cancelled"
        BY <4>1, StatusTo
      <4>3. j # k
        <5>1. [NoRow EXCEPT !.status = "awaiting", !.seq = NextSequence,
                 !.desired = Wanted[k], !.fresh = TRUE].status = "awaiting"
          BY DEF NoRow
        <5> QED BY <2>2, <3>5, <5>1
      <4>4. sub'[j] = sub[j] /\ ~SupersededByEdit(j, cut)
        BY <2>2, <3>5, <4>2, <4>3
      <4>5. sub[j].status = "completed"
        BY <2>2, <3>5, <4>4 DEF OpenKeys, Terminal
      <4> QED BY <1>0, <3>1, <3>3, <4>1, <4>4, <4>5 DEF SupersededByEdit
    <3> QED BY <2>2, <3>4, <3>5 DEF CutAt
  <2>3. CASE sub[k].status # "absent"
    BY <1>5, <2>3 DEF Edit
  <2> QED BY <1>5, <2>2, <2>3 DEF Edit
<1>6. ASSUME NEW k \in Keys, Submit(k) \/ Wait(k) \/ Answer(k) \/ StopExecution(k)
      PROVE  UNCHANGED timeline
  BY <1>6 DEF Submit, Wait, Answer, StopExecution, storeVars
<1>7. CASE InterruptQueue
  <2>1. QueuedKeys \in SUBSET QueuedKeys
    OBVIOUS
  <2> QED BY <1>7, <2>1 DEF InterruptQueue
<1>8. CASE StopQueued
  <2>1. CASE sub[gate].status \in Queued
    <3>1. {gate} \in SUBSET QueuedKeys /\ CancelBeforeDispatch({gate}) /\ UNCHANGED wk
      BY <1>8, <2>1 DEF StopQueued, QueuedKeys
    <3> QED BY <3>1
  <2>2. CASE sub[gate].status \notin Queued
    BY <1>8, <2>2 DEF StopQueued
  <2> QED BY <2>1, <2>2
<1>9. CASE OtherTurnStarts \/ OtherTurnOutputs \/ OtherTurnEnds \/ CrashRestart
  <2>1. ASSUME OtherTurnStarts, timeline' = Append(timeline, UserItem(NoKey)) PROVE Adds
    BY <1>1, <2>1 DEF UserItem, ItemKind
  <2>2. ASSUME OtherTurnOutputs PROVE Adds
    BY <1>1, <2>2 DEF OtherTurnOutputs, ItemKind
  <2> HIDE DEF Adds
  <2>3. ASSUME OtherTurnStarts PROVE UNCHANGED timeline \/ Adds
    BY <2>1, <2>3 DEF OtherTurnStarts
  <2>4. ASSUME OtherTurnEnds \/ CrashRestart PROVE UNCHANGED timeline \/ Adds
    BY <1>2, <1>3, <2>4 DEF OtherTurnEnds, CrashRestart, RecoverInterruptedSession
  <2>5. UNCHANGED timeline \/ Adds
    BY <1>9, <2>2, <2>3, <2>4
  <2> QED BY <2>5 DEF Adds
<1>10. CASE \/ Recheck \/ Interrupt \/ InterruptProvider \/ CancelForSwitch \/ Reconcile
            \/ \E r \in Runtimes : SelectRuntime(r)
            \/ \E s \in Switches : CancelSelection(s) \/ SwitchStep(s)
  BY <1>10 DEF Recheck, Interrupt, InterruptProvider, CancelForSwitch, Reconcile, ReconcileList,
     ReconcileRow, ReconcileStart, SelectRuntime, CancelSelection, SwitchStep, storeVars
<1> QED BY <1>4, <1>5, <1>6, <1>7, <1>8, <1>9, <1>10 DEF Next

\* The Timeline still has to tell of k: it is unsent, or its turn is about to write it.
Untold == {"admit", "claim", "boundary"}
Waits(k) ==
    \/ sub[k].status \in Unsent
    \/ \E w \in Workers : wk[w].key = k /\ wk[w].pc \in Untold

ShownInv == ShownOnce /\ \A k \in Keys : Waits(k) => ~Shows(timeline, k)

LEMMA WaitsBefore ==
    ASSUME DeliveryInv, TypeInv, Next, NEW k \in Keys, Waits(k)'
    PROVE  Waits(k)
<1>0. RowsMove /\ wk \in [Workers -> WorkerTask]
  BY StepMovesRows DEF TypeInv, WorkerType
<1>1. CASE sub'[k].status \in Unsent
  <2>1. RowTo(k, sub'[k]) /\ sub[k] \in SubmissionRow
    BY <1>0 DEF RowsMove, TypeInv, RowType
  <2>2. \A s : [sub[k] EXCEPT !.status = s].status = s
    BY <2>1, StatusTo
  <2>3. sub[k].status \in Unsent
    BY <1>1, <2>1, <2>2 DEF RowTo, Unsent, Queued, Terminal
  <2> QED BY <2>3 DEF Waits
<1>2. ASSUME NEW w \in Workers, wk'[w].key = k, wk'[w].pc \in Untold PROVE Waits(k)
  <2>1. wk'[w].pc \in Stretch
    BY <1>2 DEF Untold, Stretch
  <2>2. /\ wk[w].key = k
        /\ \/ wk'[w] = wk[w]
           \/ CheckRuntime(w) \/ MarkAboutToPrompt(w) \/ RunAgentTurn(w) \/ Classify(w)
    BY <1>2, <2>1, StretchEntered
  <2>3. CASE wk[w].pc \in Untold
    BY <2>2, <2>3 DEF Waits
  <2>4. CASE wk'[w].pc \in {"claim", "boundary"}
    BY <1>2, <2>3, <2>4, TurnEntered DEF Untold, Turning
  <2>5. CASE wk'[w].pc = "admit" /\ wk'[w] # wk[w]
    <3>1. ASSUME NEW p, Enter(w, p) PROVE p = "admit"
      BY <1>0, <2>5, <3>1 DEF Enter, WorkerTask
    <3>2. ~RunAgentTurn(w)
      <4>1. ~AdmitTurn(w)
        <5>1. wk' # [wk EXCEPT ![w].pc = "claim", ![w].snap = View, ![w].saw = session]
          BY <1>0, <2>5 DEF WorkerTask
        <5> QED BY <3>1, <5>1 DEF AdmitTurn
      <4>2. ~StreamOutput(w)
        BY <2>5 DEF StreamOutput
      <4> QED BY <3>1, <4>1, <4>2 DEF RunAgentTurn, ClaimRunningTurn, AdmissionError,
             AppendUserBoundary, PrepareTurn, PrepareFails, DeliverPrompt, TurnReturns, TurnFails
    <3>3. ~CheckRuntime(w)
      <4>1. ~Return(w) /\ ~Enter(w, "terminalize")
        BY <1>0, <2>5, <3>1 DEF Return, OffWorker
      <4>2. wk' # [wk EXCEPT ![w].pc = "mark", ![w].start = Len(timeline)]
        BY <1>0, <2>5 DEF WorkerTask
      <4> QED BY <4>1, <4>2 DEF CheckRuntime, Advance, Write
    <3>4. ~Classify(w)
      <4>1. PersistedResult(timeline, Key(w), wk[w].start, Len(timeline)) \in {"completed", "failed", "unknown"}
        BY DEF PersistedResult, EndVerdict
      <4> QED BY <1>0, <2>5, <4>1 DEF Classify, WorkerTask
    <3>5. MarkAboutToPrompt(w) => Row(w).status = "ready"
      <4>1. ~Enter(w, "terminalize")
        BY <3>1
      <4> QED BY <4>1 DEF MarkAboutToPrompt, Advance, Write
    <3> QED BY <2>2, <2>5, <3>2, <3>3, <3>4, <3>5 DEF Waits, Row, Key, Unsent, Queued
  <2> QED BY <1>2, <2>3, <2>4, <2>5 DEF Untold
<1> QED BY <1>1, <1>2 DEF Waits

LEMMA ShownNext == DeliveryInv /\ TypeInv /\ ShownInv /\ [Next]_vars => ShownInv'
<1> SUFFICES ASSUME DeliveryInv, TypeInv, ShownInv, [Next]_vars PROVE ShownInv'
  OBVIOUS
<1>0. /\ Once(timeline) /\ timeline \in Seq(Item) /\ wk \in [Workers -> WorkerTask]
      /\ \A k \in Keys : Waits(k) => ~Shows(timeline, k)
  BY DEF TypeInv, TimelineType, WorkerType, ShownInv, ShownOnce, Once
<1>1. CASE UNCHANGED vars
  BY <1>1 DEF vars, storeVars, ShownInv, ShownOnce, Waits, Shows
<1>2. CASE Next
  <2>1. \A k \in Keys : Waits(k)' => Waits(k)
    BY <1>2, WaitsBefore
  <2> SUFFICES /\ Once(timeline')
               /\ \A k \in Keys : Shows(timeline', k) => Shows(timeline, k) \/ ~Waits(k)'
    BY <1>0, <2>1 DEF ShownInv, ShownOnce, Once, Shows
  <2>2. CASE UNCHANGED timeline
    BY <1>0, <2>2
  <2>3. ASSUME NEW x \in Item, timeline' = Append(timeline, x), Aside(x)
        PROVE  /\ Once(timeline')
               /\ \A k \in Keys : Shows(timeline', k) => Shows(timeline, k)
    <3>1. x.kind # "user" \/ x.key = NoKey
      BY <2>3 DEF Aside
    <3>2. \A k \in Keys : x # UserItem(k)
      BY <3>1, TimelineAssumption DEF UserItem
    <3> QED BY <1>0, <2>3, <3>1, <3>2, AppendShows
  <2>4. ASSUME NEW n \in 0..Len(timeline), timeline' = SubSeq(timeline, 1, n)
        PROVE  /\ Once(timeline')
               /\ \A k \in Keys : Shows(timeline', k) => Shows(timeline, k)
    BY <1>0, <2>4, CutShows
  <2>5. ASSUME NEW w \in Workers, At(w, "boundary"), Enter(w, "prepare"), UNCHANGED sub,
               timeline' = Append(timeline, UserItem(Key(w)))
        PROVE  /\ Once(timeline')
               /\ \A k \in Keys : Shows(timeline', k) => Shows(timeline, k) \/ ~Waits(k)'
    <3>1. /\ Key(w) \in Keys /\ wk[w].pc = "boundary" /\ wk[w].key = Key(w)
          /\ sub[Key(w)].status \notin Unsent
      BY <2>5 DEF At, Key, DeliveryInv, Shape, WorkerShape, Keyless, Fenced, PrePrompt
    <3>2. ~Shows(timeline, Key(w))
      BY <1>0, <3>1 DEF Waits, Untold
    <3>3. UserItem(Key(w)) \in Item
      BY <3>1, ItemsTyped
    <3>4. UserItem(Key(w)).key = Key(w)
      BY DEF UserItem
    <3>5. Once(timeline') /\ \A k \in Keys : Shows(timeline', k) => Shows(timeline, k) \/ UserItem(Key(w)) = UserItem(k)
      BY <1>0, <2>5, <3>2, <3>3, <3>4, AppendShows
    <3>6. \A k \in Keys : UserItem(Key(w)) = UserItem(k) => k = Key(w)
      BY DEF UserItem
    <3>7. ASSUME NEW v \in Workers, wk'[v].key = Key(w), wk'[v].pc \in Untold PROVE FALSE
      <4>1. v # w /\ wk'[v] = wk[v]
        BY <1>0, <2>5, <3>7 DEF Enter, WorkerTask, Untold
      <4> QED BY <3>1, <3>7, <4>1 DEF DeliveryInv, OnePrompter, PrePrompt, Untold
    <3>8. ~(sub'[Key(w)].status \in Unsent)
      BY <2>5, <3>1
    <3>9. ASSUME NEW k \in Keys, k = Key(w) PROVE ~Waits(k)'
      BY <3>7, <3>8, <3>9 DEF Waits
    <3> QED BY <3>5, <3>6, <3>9
  <2>6. ASSUME NEW Q \in SUBSET QueuedKeys, CancelBeforeDispatch(Q), UNCHANGED wk
        PROVE  /\ Once(timeline')
               /\ \A k \in Keys : Shows(timeline', k) => Shows(timeline, k) \/ ~Waits(k)'
    <3>1. Q \in SUBSET Keys /\ \A k \in Q : sub[k].status \in Unsent
      BY <2>6 DEF QueuedKeys, Unsent
    <3>2. \A k \in Q : ~Shows(timeline, k)
      BY <1>0, <3>1 DEF Waits
    <3>3. Once(timeline') /\ \A k \in Keys : Shows(timeline', k) => Shows(timeline, k) \/ k \in Q
      BY <1>0, <2>6, <3>1, <3>2, CancelShows
    <3>4. ASSUME NEW k \in Q PROVE ~Waits(k)'
      <4>1. sub'[k].status = "cancelled"
        <5>1. k \in Keys /\ sub[k] \in SubmissionRow
          BY <3>1 DEF TypeInv, RowType
        <5>2. \E i : sub'[k] = [sub[k] EXCEPT !.status = "cancelled", !.first = i, !.last = i]
          BY <2>6, <5>1 DEF CancelBeforeDispatch
        <5> QED BY <5>1, <5>2 DEF SubmissionRow
      <4>2. ASSUME NEW v \in Workers, wk'[v].key = k, wk'[v].pc \in Untold PROVE FALSE
        BY <2>6, <3>1, <4>2 DEF DeliveryInv, Fenced, PrePrompt, Untold
      <4> QED BY <4>1, <4>2 DEF Waits, Unsent, Queued
    <3> QED BY <3>3, <3>4
  <2> QED BY <1>2, <2>2, <2>3, <2>4, <2>5, <2>6, TimelineMoves
<1> QED BY <1>1, <1>2

\* However a message gets there - written by its turn or by the interrupt that takes it off
\* the queue - and through edits, crashes and lost writes, the Timeline shows it once
\* (append_user_boundary, cancel_before_dispatch).
THEOREM EachShownOnce == Spec => []ShownOnce
<1>1. Init => ShownInv
  BY DEF Init, ShownInv, ShownOnce, Shows
<1>2. ShownInv => ShownOnce
  BY DEF ShownInv
<1> QED BY <1>1, <1>2, TypeInit, TypeNext, ShownNext, DeliveryInvariant, PTL DEF Spec

\* Taking messages off the queue appends user messages.
LEMMA CancelAdds ==
    ASSUME TypeInv, NEW Q \in SUBSET Keys, CancelBeforeDispatch(Q)
    PROVE  /\ Len(timeline') >= Len(timeline)
           /\ \A i \in DOMAIN timeline : i \in DOMAIN timeline' /\ timeline'[i] = timeline[i]
           /\ \A i \in DOMAIN timeline' :
                i \in DOMAIN timeline \/ timeline'[i].kind = "user"
<1> DEFINE n == Cardinality(Q)
           m == Len(timeline)
<1>1. n \in Nat /\ m \in Nat /\ timeline \in Seq(Item)
  <2>1. IsFiniteSet(Q)
    BY TimelineAssumption, FS_Subset
  <2> QED BY <2>1, FS_CardinalityType DEF TypeInv, TimelineType
<1>2. PICK order \in [1..n -> Q] : timeline' = timeline \o [i \in 1..n |-> UserItem(order[i])]
  BY DEF CancelBeforeDispatch
<1> DEFINE shown == [i \in 1..n |-> UserItem(order[i])]
<1>3. shown \in Seq(Item) /\ Len(shown) = n /\ \A i \in 1..n : shown[i].kind = "user"
  <2>1. \A i \in 1..n : UserItem(order[i]) \in Item /\ UserItem(order[i]).kind = "user"
    BY ItemsTyped DEF UserItem
  <2>2. shown \in [1..n -> Item] /\ \A i \in 1..n : shown[i].kind = "user"
    BY <2>1
  <2> HIDE DEF shown, n
  <2> QED BY <1>1, <2>2
<1>4. timeline' = timeline \o shown
  BY <1>2
<1> HIDE DEF shown, n
<1>5. /\ Len(timeline') = m + n /\ timeline' \in Seq(Item)
      /\ \A i \in 1..(m + n) : timeline'[i] = IF i <= m THEN timeline[i] ELSE shown[i - m]
  BY <1>1, <1>3, <1>4, ConcatProperties
<1>6. DOMAIN timeline' = 1..(m + n) /\ DOMAIN timeline = 1..m
  BY <1>1, <1>5
<1> HIDE DEF m
<1>7. Len(timeline') >= m
  BY <1>1, <1>5 DEF m
<1>8. \A i \in 1..m : i \in 1..(m + n) /\ timeline'[i] = timeline[i]
  BY <1>1, <1>5 DEF m
<1>9. ASSUME NEW i \in 1..(m + n), i \notin 1..m PROVE timeline'[i].kind = "user"
  <2>1. i - m \in 1..n /\ ~(i <= m)
    BY <1>1, <1>9 DEF m
  <2> QED BY <1>3, <1>5, <2>1
<1> QED BY <1>6, <1>7, <1>8, <1>9 DEF m

-----------------------------------------------------------------------------
(* From the fence of a dispatch to its result. *)

\* How a worker gets from one place of the stretch to the next.
StretchStep(w) ==
    /\ wk[w].pc \in Stretch /\ wk'[w].start = wk[w].start
    /\ \/ wk'[w].pc \in {"admit", "claim", "boundary"}
       \/ /\ wk[w].pc \in {"admit", "claim", "boundary", "prepare", "stream"}
          /\ wk'[w].pc = "erred"
       \/ wk[w].pc = "erred" /\ wk'[w].pc = "unknown"
       \/ /\ wk[w].pc = "boundary" /\ wk'[w].pc = "prepare"
          /\ timeline' = Append(timeline, UserItem(wk[w].key))
       \/ wk[w].pc = "prepare" /\ wk'[w].pc = "deliver"
       \/ DeliverPrompt(w) /\ wk'[w].pc = "stream"
       \/ wk[w].pc = "stream" /\ wk'[w].pc = "returned"
       \/ /\ wk[w].pc = "erred" /\ wk'[w].pc = "complete"
          /\ UNCHANGED timeline /\ wk'[w].end = Len(timeline)
          /\ PersistedResult(timeline, wk[w].key, wk[w].start, Len(timeline)) = "completed"

LEMMA StretchMoves ==
    ASSUME DeliveryInv, TypeInv, Next, NEW w \in Workers, wk'[w].pc \in Stretch
    PROVE  /\ wk'[w].key = wk[w].key /\ wk[w].pc \notin Keyless
           /\ \/ wk'[w] = wk[w]
              \/ wk'[w].pc = "mark" /\ wk'[w].start = Len(timeline) /\ UNCHANGED timeline
              \/ StretchStep(w)
<1>0. wk \in [Workers -> WorkerTask]
  BY DEF TypeInv, WorkerType
<1>1. /\ wk'[w].key = wk[w].key /\ wk[w].pc \notin Keyless
      /\ \/ wk'[w] = wk[w]
         \/ CheckRuntime(w) \/ MarkAboutToPrompt(w) \/ RunAgentTurn(w) \/ Classify(w)
  BY StretchEntered
<1>2. ASSUME NEW p, Enter(w, p)
      PROVE  wk'[w].pc = p /\ wk'[w].start = wk[w].start
  BY <1>0, <1>2 DEF Enter, WorkerTask
<1>3. ~Enter(w, "terminalize")
  BY <1>2 DEF Stretch
<1>4. CASE CheckRuntime(w)
  <2>1. ~Return(w)
    BY <1>0 DEF Return, OffWorker, Stretch
  <2>2. wk' = [wk EXCEPT ![w].pc = "mark", ![w].start = Len(timeline)] /\ UNCHANGED timeline
    BY <1>3, <1>4, <2>1 DEF CheckRuntime, Advance, Write
  <2>3. wk'[w].pc = "mark" /\ wk'[w].start = Len(timeline)
    BY <1>0, <2>2 DEF WorkerTask
  <2> QED BY <1>1, <2>2, <2>3
<1>5. CASE MarkAboutToPrompt(w)
  <2>1. wk[w].pc = "mark" /\ Enter(w, "admit")
    BY <1>3, <1>5 DEF MarkAboutToPrompt, Advance, Write, At
  <2>2. StretchStep(w)
    BY <1>2, <2>1 DEF StretchStep, Stretch
  <2> QED BY <1>1, <2>2
<1>6. CASE Classify(w)
  <2> DEFINE verdict == PersistedResult(timeline, Key(w), wk[w].start, Len(timeline))
             pc == CASE verdict = "completed" -> "complete"
                     [] verdict = "failed" -> "failAfter"
                     [] verdict = "unknown" -> "unknown"
  <2>1. verdict \in {"completed", "failed", "unknown"}
    BY DEF PersistedResult, EndVerdict
  <2>2. /\ wk[w].pc = "erred" /\ UNCHANGED timeline
        /\ wk' = [wk EXCEPT ![w].end = Len(timeline), ![w].pc = pc]
    BY <1>6 DEF Classify, At, storeVars
  <2>3. pc = "complete" => verdict = "completed"
    <3> HIDE DEF verdict
    <3> QED BY <2>1
  <2>4. pc \in {"complete", "failAfter", "unknown"}
    <3> HIDE DEF verdict
    <3> QED BY <2>1
  <2> HIDE DEF pc, verdict
  <2>5. wk'[w].end = Len(timeline) /\ wk'[w].pc = pc /\ wk'[w].start = wk[w].start
    BY <1>0, <2>2 DEF WorkerTask
  <2>6. pc # "failAfter"
    BY <2>5 DEF Stretch
  <2>7. pc = "complete" => PersistedResult(timeline, wk[w].key, wk[w].start, Len(timeline)) = "completed"
    BY <2>3 DEF verdict, Key
  <2>8. wk[w].pc \in Stretch
    BY <2>2 DEF Stretch
  <2>9. StretchStep(w)
    BY <2>2, <2>4, <2>5, <2>6, <2>7, <2>8 DEF StretchStep
  <2> QED BY <1>1, <2>9
<1>7. CASE AdmitTurn(w) \/ ClaimRunningTurn(w) \/ AdmissionError(w)
  <2>1. wk[w].pc \in {"admit", "claim"}
    BY <1>7 DEF AdmitTurn, ClaimRunningTurn, AdmissionError, At
  <2>2. \/ wk' = [wk EXCEPT ![w].pc = "claim", ![w].snap = View, ![w].saw = session]
        \/ \E p \in {"boundary", "erred"} : Enter(w, p)
    BY <1>7 DEF AdmitTurn, ClaimRunningTurn, AdmissionError
  <2>3. CASE wk' = [wk EXCEPT ![w].pc = "claim", ![w].snap = View, ![w].saw = session]
    <3>1. wk'[w].pc = "claim" /\ wk'[w].start = wk[w].start
      BY <1>0, <2>3 DEF WorkerTask
    <3>2. StretchStep(w)
      BY <2>1, <3>1 DEF StretchStep, Stretch
    <3> QED BY <1>1, <3>2
  <2>4. CASE \E p \in {"boundary", "erred"} : Enter(w, p)
    <3>1. StretchStep(w)
      BY <1>2, <2>1, <2>4 DEF StretchStep, Stretch
    <3> QED BY <1>1, <3>1
  <2> QED BY <2>2, <2>3, <2>4
<1>8. CASE AppendUserBoundary(w)
  <2>1. /\ wk[w].pc = "boundary"
        /\ \/ Enter(w, "prepare") /\ timeline' = Append(timeline, UserItem(wk[w].key))
           \/ Enter(w, "erred")
    BY <1>8 DEF AppendUserBoundary, At, Key
  <2>2. StretchStep(w)
    BY <1>2, <2>1 DEF StretchStep, Stretch
  <2> QED BY <1>1, <2>2
<1>9. CASE PrepareTurn(w) \/ PrepareFails(w) \/ DeliverPrompt(w) \/ TurnReturns(w) \/ TurnFails(w)
  <2>1. \/ wk[w].pc = "prepare" /\ Enter(w, "deliver")
        \/ wk[w].pc = "deliver" /\ DeliverPrompt(w) /\ Enter(w, "stream")
        \/ wk[w].pc = "stream" /\ Enter(w, "returned")
        \/ wk[w].pc \in {"prepare", "stream"} /\ Enter(w, "erred")
    BY <1>9 DEF PrepareTurn, PrepareFails, DeliverPrompt, TurnReturns, TurnFails, At
  <2>2. StretchStep(w)
    BY <1>2, <2>1 DEF StretchStep, Stretch
  <2> QED BY <1>1, <2>2
<1>10. CASE StreamOutput(w)
  BY <1>1, <1>10 DEF StreamOutput
<1> QED BY <1>1, <1>4, <1>5, <1>6, <1>7, <1>8, <1>9, <1>10 DEF RunAgentTurn

\* The least of a set of numbers.
LEMMA MinOfLeast ==
    ASSUME NEW T \in SUBSET Nat, T # {}
    PROVE  MinOf(T) \in T /\ \A x \in T : MinOf(T) <= x
<1>1. \E i \in T : \A j \in T : i <= j
  BY NatMin
<1> QED BY <1>1 DEF MinOf

\* A dispatch whose error is classified as completed left its user message and output
\* behind its fence.
LEMMA VerdictCompleted ==
    ASSUME NEW items, NEW k, NEW from \in Nat, NEW to \in Nat,
           PersistedResult(items, k, from, to) = "completed"
    PROVE  /\ Matching(items, k, from, to) # {}
           /\ \E i \in (from + 1)..to : items[i].kind \in {"partial", "final"}
<1> DEFINE M == Matching(items, k, from, to)
           f == FirstMatch(items, k, from, to)
           turn == (f + 1)..to
           ends == {i \in turn : items[i].kind \in {"error", "final"}}
<1>1. M # {}
  BY DEF PersistedResult
<1>2. M \subseteq (from + 1)..to
  BY DEF Matching, Users
<1>3. f \in (from + 1)..to
  <2>1. M \in SUBSET Nat
    BY <1>2
  <2> HIDE DEF M
  <2>2. MinOf(M) \in M
    BY <1>1, <2>1, MinOfLeast
  <2> QED BY <1>2, <2>2 DEF FirstMatch, M
<1>4. turn \subseteq (from + 1)..to
  <2> HIDE DEF f
  <2> QED BY <1>3
<1>5. /\ ends # {} => EndVerdict(items[MaxOf(ends)].kind) = "completed"
      /\ ends = {} => \E i \in turn : items[i].kind = "partial"
  BY <1>1 DEF PersistedResult
<1>6. ends \subseteq turn /\ \A i \in ends : items[i].kind \in {"error", "final"}
  OBVIOUS
<1> HIDE DEF M, f, turn, ends
<1>7. CASE ends # {}
  <2>1. ends \in SUBSET Nat /\ \A x \in ends : x <= to
    BY <1>4, <1>6
  <2>2. MaxOf(ends) \in ends
    BY <1>7, <2>1, MaxOfBounded
  <2>3. items[MaxOf(ends)].kind = "final"
    BY <1>5, <1>6, <1>7, <2>2 DEF EndVerdict
  <2> QED BY <1>1, <1>4, <1>6, <2>2, <2>3 DEF M
<1>8. CASE ends = {}
  BY <1>1, <1>4, <1>5, <1>8 DEF M
<1> QED BY <1>7, <1>8

-----------------------------------------------------------------------------
(* A message that counts as completed was delivered. *)

Output == {"partial", "final"}

\* The output of a turn comes from a worker that streams, if no foreign turn runs.
LEMMA OutputAdded ==
    ASSUME DeliveryInv, TypeInv, Next, MaxTurns = 0, ~other,
           NEW i \in DOMAIN timeline', timeline'[i].kind \in Output
    PROVE  \/ i \in DOMAIN timeline /\ timeline'[i] = timeline[i]
           \/ \E w \in Workers : At(w, "stream")
<1>0. timeline \in Seq(Item) /\ Len(timeline) \in Nat /\ DOMAIN timeline = 1..Len(timeline)
  BY DEF TypeInv, TimelineType
<1>1. CASE UNCHANGED timeline
  BY <1>1
<1>2. ASSUME NEW x \in Item, timeline' = Append(timeline, x)
      PROVE  \/ i \in DOMAIN timeline /\ timeline'[i] = timeline[i]
             \/ timeline'[i] = x
  BY <1>0, <1>2
<1>3. ASSUME NEW x \in Item, timeline' = Append(timeline, x), Aside(x), x.kind \in Output
      PROVE  \E w \in Workers : At(w, "stream")
  <2>1. ~OtherTurnStarts
    <3>1. used.turns \in 0..MaxTurns
      BY DEF TypeInv, UsedType
    <3> QED BY <3>1 DEF OtherTurnStarts
  <2> QED BY <1>3, <2>1 DEF Aside, OtherTurnOutputs, StreamOutput, Output
<1>4. ASSUME NEW n \in 0..Len(timeline), timeline' = SubSeq(timeline, 1, n)
      PROVE  i \in DOMAIN timeline /\ timeline'[i] = timeline[i]
  <2>1. DOMAIN timeline' = 1..n /\ \A j \in 1..n : timeline'[j] = timeline[j]
    BY <1>0, <1>4, SubSeqProperties
  <2> QED BY <1>0, <2>1
<1>5. ASSUME NEW w \in Workers, At(w, "boundary"), timeline' = Append(timeline, UserItem(Key(w)))
      PROVE  i \in DOMAIN timeline /\ timeline'[i] = timeline[i]
  <2>1. Key(w) \in Keys
    BY <1>5 DEF At, Key, DeliveryInv, Shape, WorkerShape, Keyless
  <2>2. UserItem(Key(w)) \in Item /\ UserItem(Key(w)).kind \notin Output
    BY <2>1, ItemsTyped DEF UserItem, Output
  <2> QED BY <1>2, <1>5, <2>2
<1>6. ASSUME NEW Q \in SUBSET QueuedKeys, CancelBeforeDispatch(Q)
      PROVE  i \in DOMAIN timeline /\ timeline'[i] = timeline[i]
  <2>1. Q \in SUBSET Keys
    BY DEF QueuedKeys
  <2>2. \/ i \in DOMAIN timeline /\ timeline'[i] = timeline[i]
        \/ timeline'[i].kind = "user"
    BY <1>6, <2>1, CancelAdds
  <2> QED BY <2>2 DEF Output
<1> QED BY <1>1, <1>2, <1>3, <1>4, <1>5, <1>6, TimelineMoves

\* Output behind the fence of a dispatch, a turn that returned and a row with a result are
\* there only once the provider has the message.
DeliveredInv ==
    /\ ~other
    /\ \A w \in Workers : wk[w].pc \in Stretch =>
         /\ wk[w].pc \in {"stream", "returned", "complete"} => prompts[wk[w].key] > 0
         /\ \A i \in DOMAIN timeline : i > wk[w].start /\ timeline[i].kind \in Output
              => prompts[wk[w].key] > 0
    /\ \A k \in Keys : sub[k].status \in {"dispatched", "completed"} => prompts[k] > 0

LEMMA DeliveredNext ==
    /\ MaxTurns = 0 /\ DeliveryInv /\ TypeInv /\ TypeInv' /\ OneDriver /\ DeliveredInv
    /\ [Next]_vars
    => DeliveredInv'
<1> SUFFICES ASSUME MaxTurns = 0, DeliveryInv, TypeInv, TypeInv', OneDriver, DeliveredInv,
                    [Next]_vars
             PROVE  DeliveredInv'
  OBVIOUS
<1>1. CASE UNCHANGED vars
  BY <1>1 DEF vars, storeVars, ghostVars, taskVars, DeliveredInv
<1>2. CASE Next
  <2>0. /\ RowsMove /\ sub \in [Keys -> SubmissionRow] /\ prompts \in [Keys -> Nat]
        /\ wk \in [Workers -> WorkerTask] /\ timeline \in Seq(Item) /\ timeline' \in Seq(Item)
    BY <1>2, StepMovesRows DEF TypeInv, RowType, DeliveryInv, Shape, WorkerType, TimelineType
  <2>1. ~other'
    <3>1. used.turns \in 0..MaxTurns /\ ~other
      BY DEF TypeInv, UsedType, DeliveredInv
    <3>2. ~OtherTurnStarts
      BY <3>1 DEF OtherTurnStarts
    <3>3. InterruptProvider => UNCHANGED other
      BY DEF InterruptProvider
    <3> QED BY <1>2, <3>1, <3>2, <3>3, SessionMoves DEF OtherTurnEnds, CrashRestart
  <2>2. ASSUME NEW k \in Keys, prompts[k] > 0 PROVE prompts'[k] > 0
    <3>1. CASE UNCHANGED prompts
      BY <2>2, <3>1
    <3>2. ASSUME NEW w \in Workers, DeliverPrompt(w) PROVE prompts'[k] > 0
      BY <2>0, <2>2, <3>2 DEF DeliverPrompt
    <3> QED BY <1>2, <3>1, <3>2, GhostsStay DEF ghostVars
  <2>3. ASSUME NEW k \in Keys, sub'[k].status \in {"dispatched", "completed"} PROVE prompts[k] > 0
    <3>1. RowTo(k, sub'[k]) /\ sub[k] \in SubmissionRow
      BY <2>0 DEF RowsMove
    <3>2. [sub[k] EXCEPT !.status = "cancelled"].status = "cancelled"
      BY <3>1, StatusTo
    <3>3. \/ sub[k].status \in {"dispatched", "completed"}
          \/ \E first, last : Resulted(k, first, last)
      BY <2>3, <3>1, <3>2 DEF RowTo, Queued
    <3>4. ASSUME NEW first, NEW last, Resulted(k, first, last) PROVE prompts[k] > 0
      BY <3>4 DEF Resulted, At, Key, DeliveredInv, Stretch
    <3> QED BY <3>3, <3>4 DEF DeliveredInv
  <2>4. ASSUME NEW w \in Workers, wk'[w].pc \in Stretch
        PROVE  /\ wk'[w].pc \in {"stream", "returned", "complete"} => prompts'[wk'[w].key] > 0
               /\ \A i \in DOMAIN timeline' : i > wk'[w].start /\ timeline'[i].kind \in Output
                    => prompts'[wk'[w].key] > 0
    <3>1. /\ wk'[w].key = wk[w].key /\ wk[w].pc \notin Keyless
          /\ \/ wk'[w] = wk[w]
             \/ wk'[w].pc = "mark" /\ wk'[w].start = Len(timeline) /\ UNCHANGED timeline
             \/ StretchStep(w)
      BY <1>2, <2>4, StretchMoves
    <3>2. PICK k \in Keys : wk[w].key = k
      BY <3>1 DEF DeliveryInv, Shape, WorkerShape
    <3>3. wk[w].pc \in Stretch =>
            /\ wk[w].pc \in {"stream", "returned", "complete"} => prompts[k] > 0
            /\ \A i \in DOMAIN timeline : i > wk[w].start /\ timeline[i].kind \in Output
                 => prompts[k] > 0
      BY <3>2 DEF DeliveredInv
    <3>4. wk[w].start \in Nat /\ Len(timeline) \in Nat /\ DOMAIN timeline = 1..Len(timeline)
      BY <2>0 DEF WorkerTask
    <3>5. ASSUME wk[w].pc \in Stretch, wk'[w].start = wk[w].start, NEW i \in DOMAIN timeline',
                 i > wk'[w].start, timeline'[i].kind \in Output
          PROVE  prompts[k] > 0
      <4>1. \/ i \in DOMAIN timeline /\ timeline'[i] = timeline[i]
            \/ \E v \in Workers : At(v, "stream")
        BY <1>2, <3>5, OutputAdded DEF DeliveredInv
      <4>2. ASSUME NEW v \in Workers, At(v, "stream") PROVE prompts[k] > 0
        <5>1. v = w
          BY <3>1, <4>2 DEF OneDriver, At, Keyless
        <5> QED BY <3>3, <3>5, <4>2, <5>1 DEF At
      <4> QED BY <3>3, <3>5, <4>1, <4>2
    <3>6. CASE wk'[w] = wk[w]
      BY <2>2, <2>4, <3>2, <3>3, <3>5, <3>6
    <3>7. CASE wk'[w].pc = "mark" /\ wk'[w].start = Len(timeline) /\ UNCHANGED timeline
      BY <3>4, <3>7
    <3>8. CASE StretchStep(w)
      <4>1. wk[w].pc \in Stretch /\ wk'[w].start = wk[w].start
        BY <3>8 DEF StretchStep
      <4>2. CASE wk'[w].pc \in {"stream", "returned", "complete"}
        <5>1. CASE DeliverPrompt(w)
          <6>1. prompts'[k] > 0
            BY <2>0, <3>2, <5>1 DEF DeliverPrompt, Key
          <6> QED BY <3>1, <3>2, <6>1
        <5>2. CASE wk[w].pc = "stream"
          BY <2>2, <3>1, <3>2, <3>3, <4>1, <5>2
        <5>3. CASE PersistedResult(timeline, wk[w].key, wk[w].start, Len(timeline)) = "completed"
          <6>1. \E i \in (wk[w].start + 1)..Len(timeline) : timeline[i].kind \in Output
            BY <3>4, <5>3, VerdictCompleted DEF Output
          <6>2. prompts[k] > 0
            BY <3>3, <3>4, <4>1, <6>1
          <6> QED BY <2>2, <3>1, <3>2, <6>2
        <5> QED BY <3>8, <4>2, <5>1, <5>2, <5>3 DEF StretchStep
      <4>3. CASE wk'[w].pc \notin {"stream", "returned", "complete"}
        BY <2>2, <3>1, <3>2, <3>5, <4>1, <4>3
      <4> QED BY <4>2, <4>3
    <3> QED BY <3>1, <3>6, <3>7, <3>8
  <2> QED BY <2>1, <2>2, <2>3, <2>4 DEF DeliveredInv
<1> QED BY <1>1, <1>2

\* Without foreign turns, from the start.
DeliveredAlone == MaxTurns = 0 => DeliveredInv

LEMMA DeliveredAlways == Spec => []DeliveredAlone
<1>1. Init => DeliveredAlone
  BY DEF Init, DeliveredInv, DeliveredAlone, OffWorker, Stretch, NoRow
<1>2. DeliveryInv /\ TypeInv /\ TypeInv' /\ OneDriver /\ DeliveredAlone /\ [Next]_vars
        => DeliveredAlone'
  BY DeliveredNext DEF DeliveredAlone
<1> QED BY <1>1, <1>2, TypeInit, TypeNext, DeliveryInvariant, DrivenByOne, PTL DEF Spec

\* Where no command or continued turn writes into the same Timeline, a message the client
\* is told was completed was received by the provider: a result that is read back from the
\* Timeline after an error, a crash or a lost write is never made up
\* (persisted_dispatch_result, complete_dispatch, reconcile_on_startup).
THEOREM CompletedIsDelivered == MaxTurns = 0 => (Spec => []CompletedWasDelivered)
<1> SUFFICES ASSUME MaxTurns = 0 PROVE Spec => []CompletedWasDelivered
  OBVIOUS
<1>1. DeliveryInv /\ DeliveredAlone => CompletedWasDelivered
  BY DEF DeliveryInv, Shape, AtMostOnce, DeliveredAlone, DeliveredInv, CompletedWasDelivered
<1> QED BY <1>1, DeliveredAlways, DeliveryInvariant, PTL

-----------------------------------------------------------------------------
(* The result range of a message is its own. *)

\* The items from a to b of a Timeline hold the user message of k.
Holds(t, k, a, b) == \E i \in DOMAIN t : a <= i /\ i <= b /\ t[i] = UserItem(k)

\* Every item of t is in s, where it was.
Extends(s, t) ==
    Len(t) <= Len(s) /\ \A i \in DOMAIN t : i \in DOMAIN s /\ s[i] = t[i]

\* A step extends the Timeline or is an edit that cuts it.
LEMMA TimelineExtends ==
    ASSUME DeliveryInv, TypeInv, Next
    PROVE  \/ Extends(timeline', timeline)
           \/ \E n \in 0..Len(timeline) : timeline' = SubSeq(timeline, 1, n) /\ CutAt(n)
<1>0. timeline \in Seq(Item) /\ Len(timeline) \in Nat /\ DOMAIN timeline = 1..Len(timeline)
  BY DEF TypeInv, TimelineType
<1>1. CASE UNCHANGED timeline
  <2>1. Len(timeline) <= Len(timeline)
    BY <1>0
  <2>2. Extends(timeline, timeline)
    BY <2>1 DEF Extends
  <2> QED BY <1>1, <2>2
<1>2. ASSUME NEW x, timeline' = Append(timeline, x) PROVE Extends(timeline', timeline)
  <2>1. /\ Len(timeline') = Len(timeline) + 1 /\ DOMAIN timeline' = 1..(Len(timeline) + 1)
        /\ \A i \in 1..Len(timeline) : timeline'[i] = timeline[i]
    BY <1>0, <1>2
  <2> QED BY <1>0, <2>1 DEF Extends
<1>3. ASSUME NEW Q \in SUBSET QueuedKeys, CancelBeforeDispatch(Q)
      PROVE  Extends(timeline', timeline)
  <2>1. Q \in SUBSET Keys
    BY DEF QueuedKeys
  <2>2. /\ Len(timeline') >= Len(timeline)
        /\ \A i \in DOMAIN timeline : i \in DOMAIN timeline' /\ timeline'[i] = timeline[i]
    BY <1>3, <2>1, CancelAdds
  <2>3. Len(timeline) <= Len(timeline')
    BY <1>0, <2>2
  <2> QED BY <2>2, <2>3 DEF Extends
<1> QED BY <1>1, <1>2, <1>3, TimelineMoves

\* A turn that passed its user message, and one that had its prompt delivered, has that
\* message behind its fence while it is open; so has what is taken for its result, and so
\* have the ranges of the rows that have one.
RangeInv ==
    /\ \A w \in Workers : wk[w].pc \in Stretch /\ wk[w].key \in OpenKeys =>
         /\ \/ wk[w].pc \in {"prepare", "deliver", "stream", "returned"}
            \/ wk[w].pc \in {"erred", "complete"} /\ prompts[wk[w].key] > 0
            => Holds(timeline, wk[w].key, wk[w].start + 1, Len(timeline))
         /\ wk[w].pc = "complete" =>
              /\ wk[w].end <= Len(timeline)
              /\ Holds(timeline, wk[w].key, wk[w].start + 1, wk[w].end)
    /\ \A k \in Keys : sub[k].status \in {"dispatched", "completed"} =>
         /\ 1 <= sub[k].first /\ sub[k].last <= Len(timeline)
         /\ Holds(timeline, k, sub[k].first, sub[k].last)

\* What a Timeline holds, its extensions hold.
LEMMA HoldsExtended ==
    ASSUME NEW s \in Seq(Item), NEW t \in Seq(Item), Extends(s, t), NEW k, NEW a \in Nat,
           NEW b \in Nat, Holds(t, k, a, b)
    PROVE  Holds(s, k, a, b) /\ (b = Len(t) => Holds(s, k, a, Len(s)))
<1>1. PICK i \in DOMAIN t : a <= i /\ i <= b /\ t[i] = UserItem(k)
  BY DEF Holds
<1>2. i \in DOMAIN s /\ s[i] = UserItem(k) /\ i \in Nat /\ Len(t) \in Nat /\ Len(s) \in Nat
  BY <1>1 DEF Extends
<1>3. Len(t) <= Len(s)
  BY DEF Extends
<1>4. b = Len(t) => i <= Len(s)
  BY <1>1, <1>2, <1>3
<1> QED BY <1>1, <1>2, <1>4 DEF Holds

\* The range of a result lies in the Timeline and holds the message.
LEMMA ResultedRange ==
    ASSUME TypeInv, RangeInv, NEW k \in Keys, k \in OpenKeys, NEW first, NEW last,
           Resulted(k, first, last)
    PROVE  /\ first \in Nat /\ last \in Nat /\ 1 <= first /\ last <= Len(timeline)
           /\ Holds(timeline, k, first, last)
<1>1. PICK w \in Workers :
        /\ Key(w) = k
        /\ \/ At(w, "returned") /\ first = MinOf(Own(w)) /\ last = MaxOf(Own(w))
           \/ At(w, "complete") /\ first = wk[w].start + 1 /\ last = wk[w].end
  BY DEF Resulted
<1>2. /\ wk[w].start \in Nat /\ wk[w].end \in Nat /\ wk[w].key = k
      /\ Len(timeline) \in Nat /\ DOMAIN timeline = 1..Len(timeline)
  BY <1>1 DEF TypeInv, WorkerType, WorkerTask, TimelineType, Key
<1>3. CASE At(w, "complete") /\ first = wk[w].start + 1 /\ last = wk[w].end
  <2>1. last <= Len(timeline) /\ Holds(timeline, k, first, last)
    BY <1>2, <1>3 DEF RangeInv, At, Stretch
  <2> QED BY <1>2, <1>3, <2>1
<1>4. CASE At(w, "returned") /\ first = MinOf(Own(w)) /\ last = MaxOf(Own(w))
  <2>1. Holds(timeline, k, wk[w].start + 1, Len(timeline))
    BY <1>2, <1>4 DEF RangeInv, At, Stretch
  <2>2. PICK i \in DOMAIN timeline :
          wk[w].start + 1 <= i /\ i <= Len(timeline) /\ timeline[i] = UserItem(k)
    BY <2>1 DEF Holds
  <2>3. i \in Own(w)
    BY <1>1, <1>2, <2>2 DEF Own, UserItem
  <2>4. Own(w) \subseteq (wk[w].start + 1)..Len(timeline)
    BY DEF Own
  <2>5. Own(w) \in SUBSET Nat /\ \A x \in Own(w) : x <= Len(timeline)
    BY <1>2, <2>4
  <2>6. first \in Own(w) /\ first <= i
    BY <1>4, <2>3, <2>5, MinOfLeast
  <2>7. last \in Own(w) /\ i <= last
    BY <1>2, <1>4, <2>3, <2>5, MaxOfBounded
  <2>8. Holds(timeline, k, first, last)
    BY <2>2, <2>6, <2>7 DEF Holds
  <2> QED BY <1>2, <2>4, <2>5, <2>6, <2>7, <2>8
<1> QED BY <1>1, <1>3, <1>4

\* The messages have texts of their own, or no foreign turn writes into the Timeline.
Distinct == MaxTurns = 0 \/ \A j, k \in Keys : Text[j] = Text[k] => j = k

\* An error that is classified as completed has the message of its turn behind the fence.
LEMMA ClassifiedOwn ==
    ASSUME TypeInv, Distinct, DeliveredAlone, RangeInv, NEW w \in Workers, wk[w].pc = "erred",
           NEW k \in Keys, wk[w].key = k, k \in OpenKeys,
           PersistedResult(timeline, k, wk[w].start, Len(timeline)) = "completed"
    PROVE  Holds(timeline, k, wk[w].start + 1, Len(timeline))
<1>1. /\ wk[w].start \in Nat /\ Len(timeline) \in Nat /\ DOMAIN timeline = 1..Len(timeline)
      /\ \A i \in DOMAIN timeline : timeline[i] \in Item
  BY DEF TypeInv, WorkerType, WorkerTask, TimelineType
<1>2. /\ Matching(timeline, k, wk[w].start, Len(timeline)) # {}
      /\ \E i \in (wk[w].start + 1)..Len(timeline) : timeline[i].kind \in Output
  BY <1>1, VerdictCompleted DEF Output
<1>3. CASE MaxTurns = 0
  <2>1. prompts[k] > 0
    BY <1>1, <1>2, <1>3 DEF DeliveredAlone, DeliveredInv, Stretch
  <2> QED BY <2>1 DEF RangeInv, Stretch
<1>4. CASE \A j \in Keys : Text[j] = Text[k] => j = k
  <2>1. PICK i \in (wk[w].start + 1)..Len(timeline) :
          timeline[i].kind = "user" /\ timeline[i].key # NoKey /\ Text[timeline[i].key] = Text[k]
    BY <1>2 DEF Matching, Users
  <2>2. i \in DOMAIN timeline /\ timeline[i] \in Item
    BY <1>1, <2>1
  <2>3. timeline[i].key \in Keys
    BY <2>1, <2>2 DEF Item
  <2>4. timeline[i].key = k
    BY <1>4, <2>1, <2>3
  <2>5. timeline[i] = UserItem(k)
    BY <2>1, <2>2, <2>4 DEF Item, UserItem
  <2>6. wk[w].start + 1 <= i /\ i <= Len(timeline)
    BY <1>1, <2>1
  <2> QED BY <2>2, <2>5, <2>6 DEF Holds
<1> QED BY <1>3, <1>4 DEF Distinct

LEMMA RangeNext ==
    /\ Distinct /\ DeliveryInv /\ TypeInv /\ TypeInv' /\ HeadFirst /\ OneDriver /\ StartInv
    /\ DeliveredAlone /\ RangeInv /\ [Next]_vars
    => RangeInv'
<1> SUFFICES ASSUME Distinct, DeliveryInv, TypeInv, TypeInv', HeadFirst, OneDriver, StartInv,
                    DeliveredAlone, RangeInv, [Next]_vars
             PROVE  RangeInv'
  OBVIOUS
<1>1. CASE UNCHANGED vars
  BY <1>1 DEF vars, storeVars, ghostVars, RangeInv, OpenKeys, Holds
<1>2. CASE Next
  <2>0. /\ RowsMove /\ sub \in [Keys -> SubmissionRow] /\ prompts \in [Keys -> Nat]
        /\ wk \in [Workers -> WorkerTask] /\ timeline \in Seq(Item) /\ timeline' \in Seq(Item)
        /\ Len(timeline) \in Nat /\ Len(timeline') \in Nat
    BY <1>2, StepMovesRows DEF TypeInv, RowType, DeliveryInv, Shape, WorkerType, TimelineType
  <2>1. \/ Extends(timeline', timeline)
        \/ \E n \in 0..Len(timeline) : timeline' = SubSeq(timeline, 1, n) /\ CutAt(n)
    BY <1>2, TimelineExtends
  <2>2. ASSUME NEW k \in Keys, sub'[k].status \in {"dispatched", "completed"}
        PROVE  /\ 1 <= sub'[k].first /\ sub'[k].last <= Len(timeline')
               /\ Holds(timeline', k, sub'[k].first, sub'[k].last)
    <3>1. RowTo(k, sub'[k]) /\ sub[k] \in SubmissionRow
      BY <2>0 DEF RowsMove
    <3>2. sub[k].first \in Nat /\ sub[k].last \in Nat
      BY <3>1 DEF SubmissionRow
    <3>3. sub[k].status \in {"dispatched", "completed"} =>
            /\ 1 <= sub[k].first /\ sub[k].last <= Len(timeline)
            /\ Holds(timeline, k, sub[k].first, sub[k].last)
      BY DEF RangeInv
    <3>4. CASE Extends(timeline', timeline)
      <4>1. [sub[k] EXCEPT !.status = "cancelled"].status = "cancelled"
        BY <3>1, StatusTo
      <4>2. /\ [sub[k] EXCEPT !.status = "completed"].first = sub[k].first
            /\ [sub[k] EXCEPT !.status = "completed"].last = sub[k].last
        BY <3>1, StatusTo
      <4>3. \/ /\ sub[k].status \in {"dispatched", "completed"}
               /\ sub'[k].first = sub[k].first /\ sub'[k].last = sub[k].last
            \/ sub[k].status = "about" /\ Resulted(k, sub'[k].first, sub'[k].last)
        BY <2>2, <3>1, <4>1, <4>2 DEF RowTo, Queued
      <4>4. PICK a \in Nat, b \in Nat :
              /\ sub'[k].first = a /\ sub'[k].last = b
              /\ 1 <= a /\ b <= Len(timeline) /\ Holds(timeline, k, a, b)
        <5>1. CASE sub[k].status = "about" /\ Resulted(k, sub'[k].first, sub'[k].last)
          <6>1. k \in OpenKeys
            BY <5>1 DEF OpenKeys, Terminal
          <6> QED BY <5>1, <6>1, ResultedRange
        <5> QED BY <3>2, <3>3, <4>3, <5>1
      <4>5. Holds(timeline', k, a, b)
        BY <2>0, <3>4, <4>4, HoldsExtended
      <4>6. b <= Len(timeline')
        BY <2>0, <3>4, <4>4 DEF Extends
      <4> QED BY <4>4, <4>5, <4>6
    <3>5. ASSUME NEW n \in 0..Len(timeline), timeline' = SubSeq(timeline, 1, n), CutAt(n)
          PROVE  /\ 1 <= sub'[k].first /\ sub'[k].last <= Len(timeline')
                 /\ Holds(timeline', k, sub'[k].first, sub'[k].last)
      <4>1. sub'[k] = sub[k] /\ sub[k].last <= n
        BY <2>2, <3>5 DEF CutAt
      <4>2. /\ Len(timeline') = n /\ DOMAIN timeline' = 1..n
            /\ \A j \in 1..n : timeline'[j] = timeline[j]
        BY <2>0, <3>5, SubSeqProperties
      <4>3. PICK i \in DOMAIN timeline :
              sub[k].first <= i /\ i <= sub[k].last /\ timeline[i] = UserItem(k)
        BY <2>2, <3>3, <4>1 DEF Holds
      <4>4. i \in 1..n
        BY <2>0, <3>2, <4>1, <4>3
      <4> QED BY <2>2, <3>3, <4>1, <4>2, <4>3, <4>4 DEF Holds
    <3> QED BY <2>1, <3>4, <3>5
  <2>3. ASSUME NEW w \in Workers, wk'[w].pc \in Stretch, wk'[w].key \in OpenKeys'
        PROVE  /\ \/ wk'[w].pc \in {"prepare", "deliver", "stream", "returned"}
                  \/ wk'[w].pc \in {"erred", "complete"} /\ prompts'[wk'[w].key] > 0
                  => Holds(timeline', wk'[w].key, wk'[w].start + 1, Len(timeline'))
               /\ wk'[w].pc = "complete" =>
                    /\ wk'[w].end <= Len(timeline')
                    /\ Holds(timeline', wk'[w].key, wk'[w].start + 1, wk'[w].end)
    <3>1. /\ wk'[w].key = wk[w].key /\ wk[w].pc \notin Keyless
          /\ \/ wk'[w] = wk[w]
             \/ wk'[w].pc = "mark" /\ wk'[w].start = Len(timeline) /\ UNCHANGED timeline
             \/ StretchStep(w)
      BY <1>2, <2>3, StretchMoves
    <3>2. PICK k \in Keys : wk[w].key = k /\ sub[k].status # "absent"
      BY <3>1 DEF HeadFirst, DeliveryInv, Shape, WorkerShape
    <3>3. k \in OpenKeys
      BY <1>2, <2>3, <3>1, <3>2, WasOpen
    <3>4. Extends(timeline', timeline)
      BY <2>1, <3>3 DEF CutAt
    <3>5. wk[w].start \in Nat /\ wk[w].end \in Nat /\ wk[w].start + 1 \in Nat
      BY <2>0 DEF WorkerTask
    <3>6. ASSUME NEW a \in Nat, NEW b \in Nat, Holds(timeline, k, a, b)
          PROVE  Holds(timeline', k, a, b) /\ (b = Len(timeline) => Holds(timeline', k, a, Len(timeline')))
      BY <2>0, <3>4, <3>6, HoldsExtended
    <3>7. wk[w].pc \in Stretch =>
            /\ \/ wk[w].pc \in {"prepare", "deliver", "stream", "returned"}
               \/ wk[w].pc \in {"erred", "complete"} /\ prompts[k] > 0
               => Holds(timeline, k, wk[w].start + 1, Len(timeline))
            /\ wk[w].pc = "complete" =>
                 wk[w].end <= Len(timeline) /\ Holds(timeline, k, wk[w].start + 1, wk[w].end)
      BY <3>2, <3>3 DEF RangeInv
    <3>8. wk[w].pc # "deliver" => prompts'[k] = prompts[k]
      <4> SUFFICES ASSUME wk[w].pc # "deliver", prompts'[k] # prompts[k] PROVE FALSE
        OBVIOUS
      <4>1. PICK v \in Workers : wk[v].pc = "deliver" /\ wk[v].key = k
        BY <1>2, PromptsGrow
      <4>2. v = w
        BY <3>1, <4>1 DEF OneDriver, Keyless
      <4> QED BY <4>1, <4>2
    <3>9. Len(timeline) <= Len(timeline')
      BY <3>4 DEF Extends
    <3>10. CASE wk'[w] = wk[w]
      <4>1. wk[w].pc \in Stretch
        BY <2>3, <3>10
      <4>2. wk[w].pc = "complete" => wk[w].end <= Len(timeline')
        BY <2>0, <3>5, <3>7, <3>9, <4>1
      <4> QED BY <2>0, <3>2, <3>5, <3>6, <3>7, <3>8, <3>10, <4>1, <4>2
    <3>11. CASE StretchStep(w)
      <4>1. wk[w].pc \in Stretch /\ wk'[w].start = wk[w].start /\ wk'[w].key = k
        BY <3>1, <3>2, <3>11 DEF StretchStep
      <4>2. CASE wk'[w].pc \in {"prepare", "deliver", "stream", "returned"}
        <5>1. CASE wk[w].pc = "boundary" /\ timeline' = Append(timeline, UserItem(wk[w].key))
          <6>1. /\ Len(timeline') = Len(timeline) + 1 /\ timeline'[Len(timeline')] = UserItem(k)
                /\ Len(timeline') \in DOMAIN timeline'
            BY <2>0, <3>2, <5>1
          <6>2. wk[w].start <= Len(timeline)
            BY <3>2, <3>3, <5>1 DEF StartInv, Stretch
          <6>3. wk[w].start + 1 <= Len(timeline') /\ Len(timeline') <= Len(timeline')
            BY <2>0, <3>5, <6>1, <6>2
          <6>4. Holds(timeline', k, wk[w].start + 1, Len(timeline'))
            BY <6>1, <6>3 DEF Holds
          <6> QED BY <4>1, <4>2, <6>4
        <5>2. CASE wk[w].pc \in {"prepare", "deliver", "stream"}
          <6>1. Holds(timeline', k, wk[w].start + 1, Len(timeline'))
            BY <2>0, <3>5, <3>6, <3>7, <4>1, <5>2
          <6> QED BY <4>1, <4>2, <6>1
        <5> QED BY <3>11, <4>2, <5>1, <5>2 DEF StretchStep, DeliverPrompt, At
      <4>3. CASE wk'[w].pc = "erred"
        <5>1. CASE wk[w].pc \in {"prepare", "deliver", "stream", "returned"}
          <6>1. Holds(timeline', k, wk[w].start + 1, Len(timeline'))
            BY <2>0, <3>5, <3>6, <3>7, <4>1, <5>1
          <6> QED BY <4>1, <4>3, <6>1
        <5>2. CASE wk[w].pc \in {"admit", "claim", "boundary"}
          <6>1. prompts[k] = 0 /\ prompts'[k] = prompts[k]
            BY <3>2, <3>8, <5>2 DEF DeliveryInv, Fenced, PrePrompt
          <6> QED BY <4>1, <4>3, <6>1
        <5>3. wk[w].pc \in {"admit", "claim", "boundary", "prepare", "stream"}
          BY <3>11, <4>3 DEF StretchStep
        <5> QED BY <5>1, <5>2, <5>3
      <4>4. CASE wk'[w].pc = "complete"
        <5>1. /\ wk[w].pc = "erred" /\ UNCHANGED timeline /\ wk'[w].end = Len(timeline)
              /\ PersistedResult(timeline, k, wk[w].start, Len(timeline)) = "completed"
          BY <3>2, <3>11, <4>4 DEF StretchStep
        <5>2. Holds(timeline, k, wk[w].start + 1, Len(timeline))
          BY <3>2, <3>3, <5>1, ClassifiedOwn
        <5> QED BY <2>0, <4>1, <4>4, <5>1, <5>2
      <4>5. CASE wk'[w].pc \in {"admit", "claim", "boundary", "unknown"}
        BY <4>5
      <4> QED BY <3>11, <4>2, <4>3, <4>4, <4>5 DEF StretchStep
    <3>12. CASE wk'[w].pc = "mark"
      BY <3>12
    <3> QED BY <3>1, <3>10, <3>11, <3>12
  <2> QED BY <2>2, <2>3 DEF RangeInv
<1> QED BY <1>1, <1>2

\* The range load_result serves for a completed message lies in the Timeline and holds the
\* user message of that message, however its dispatch ended and whatever was edited away
\* later, where messages have texts of their own or no foreign turn writes into the
\* Timeline (complete_dispatch, persisted_dispatch_result, replace_latest_user_message).
THEOREM RangesAreOwn == Distinct => (Spec => []CompletedRangeIsOwn)
<1> SUFFICES ASSUME Distinct PROVE Spec => []CompletedRangeIsOwn
  OBVIOUS
<1>1. Init => RangeInv
  BY DEF Init, RangeInv, OffWorker, Stretch, NoRow
<1>2. TypeInv /\ RangeInv => CompletedRangeIsOwn
  <2> SUFFICES ASSUME TypeInv, RangeInv, NEW k \in Keys, sub[k].status = "completed"
               PROVE  /\ 1 <= sub[k].first /\ sub[k].last <= Len(timeline)
                      /\ \E i \in sub[k].first..sub[k].last : timeline[i] = UserItem(k)
    BY DEF CompletedRangeIsOwn
  <2>1. /\ 1 <= sub[k].first /\ sub[k].last <= Len(timeline)
        /\ Holds(timeline, k, sub[k].first, sub[k].last)
    BY DEF RangeInv
  <2>2. sub[k].first \in Nat /\ sub[k].last \in Nat /\ DOMAIN timeline = 1..Len(timeline)
    BY DEF TypeInv, RowType, SubmissionRow, TimelineType
  <2>3. PICK i \in DOMAIN timeline :
          sub[k].first <= i /\ i <= sub[k].last /\ timeline[i] = UserItem(k)
    BY <2>1 DEF Holds
  <2>4. i \in sub[k].first..sub[k].last
    BY <2>2, <2>3
  <2> QED BY <2>1, <2>3, <2>4
<1>3. DeliveryInv /\ TypeInv /\ TypeInv' /\ HeadFirst /\ OneDriver /\ StartInv /\ DeliveredAlone
        /\ RangeInv /\ [Next]_vars => RangeInv'
  BY RangeNext
<1> QED BY <1>1, <1>2, <1>3, ReceiptAlways, TypeInit, TypeNext, DeliveredAlways, DeliveryInvariant, PTL DEF Spec

-----------------------------------------------------------------------------
(* A session that is not on its desired runtime has a switch under way. *)

\* Only edited messages ask for a fresh session, and without them no switch is reserved.
EditInv ==
    /\ \A k \in Keys : sub[k].fresh => k \in EditKeys
    /\ EditKeys = {} => \A w \in Workers : wk[w].pc # "reserve"

\* A worker reserves a switch after it read the selection for a row that forces a fresh
\* session.
LEMMA ReserveEntered ==
    ASSUME DeliveryInv, TypeInv, Next, NEW w \in Workers, wk'[w].pc = "reserve",
           wk[w].pc # "reserve"
    PROVE  ForceFresh(w)
<1>0. Shape
  BY DEF DeliveryInv
<1>1. wk \in [Workers -> WorkerTask]
  BY DEF TypeInv, WorkerType
<1>2. ASSUME NEW v \in Workers, WorkerStep(v) \/ StorageError(v) PROVE v = w
  BY <1>0, <1>2, WorkerStepOwn
<1>3. ASSUME NEW p, Enter(w, p) PROVE p = "reserve"
  BY <1>1, <1>3 DEF Enter, WorkerTask
<1>4. ~Return(w)
  BY <1>1 DEF Return, OffWorker
<1>5. ASSUME NEW p, NEW x, wk' = [wk EXCEPT ![w].pc = p, ![w].snap = x] PROVE p = "reserve"
  BY <1>1, <1>5 DEF WorkerTask
<1>6. CASE AwaitRuntime(w)
  <2>1. \/ ForceFresh(w) \/ Return(w)
        \/ \E p \in {"await", "fresh", "emit", "link", "terminalize"} : Enter(w, p)
        \/ \E p \in {"decide", "link", "adopt"} : \E x : wk' = [wk EXCEPT ![w].pc = p, ![w].snap = x]
    BY <1>6 DEF AwaitRuntime, ReadSelection, Normalize, ReserveFresh, AwaitFresh,
       RuntimeReady, HandleTerminalSwitch, RuntimeUnavailable, JoinPending, RequestRuntime,
       ReadRequested, Adopt, LinkSwitch, Advance, Write
  <2> QED BY <1>3, <1>4, <1>5, <2>1
<1>7. ~DispatchMessage(w)
  <2>1. ~Classify(w)
    <3>1. PersistedResult(timeline, Key(w), wk[w].start, Len(timeline)) \in {"completed", "failed", "unknown"}
      BY DEF PersistedResult, EndVerdict
    <3> QED BY <1>1, <3>1 DEF Classify, WorkerTask
  <2>2. wk' # [wk EXCEPT ![w].pc = "mark", ![w].start = Len(timeline)]
    BY <1>1 DEF WorkerTask
  <2> QED BY <1>3, <1>4, <2>1, <2>2 DEF DispatchMessage, PauseDispatch, CheckRuntime,
          MarkAboutToPrompt, MaterializeFails, RecordReturned, RecordPersisted, FailAfterDispatch,
          Unclassified, Advance, Write
<1>8. ~RunAgentTurn(w)
  <2>1. wk' # [wk EXCEPT ![w].pc = "claim", ![w].snap = View, ![w].saw = session]
    BY <1>1 DEF WorkerTask
  <2> QED BY <1>3, <2>1 DEF RunAgentTurn, AdmitTurn, ClaimRunningTurn, AdmissionError,
          AppendUserBoundary, PrepareTurn, PrepareFails, DeliverPrompt, StreamOutput, TurnReturns,
          TurnFails
<1>9. ~TakeHead(w)
  <2> SUFFICES ASSUME TakeHead(w) PROVE FALSE
    OBVIOUS
  <2>1. OpenKeys # {} => sub[HeadKey].status \in {"awaiting", "ready", "about", "dispatched"}
    BY <1>0, HeadKeyIsFirst DEF Shape, QueueShape, OpenKeys, Status, Queued, Terminal
  <2>2. wk'[w].pc = IF OpenKeys = {} THEN "exit" ELSE DriveStart[sub[HeadKey].status]
    BY <1>1 DEF TakeHead, WorkerTask
  <2> QED BY <2>1, <2>2 DEF DriveStart
<1>10. ~Unwatch(w) /\ ~Terminalize(w) /\ ~Redrive(w) /\ ~Finish(w)
  <2>1. ~Unwatch(w)
    BY <1>1 DEF Unwatch, OffWorker
  <2>2. ~Terminalize(w)
    BY <1>1 DEF Terminalize, OffWorker
  <2> QED BY <1>3, <1>4, <2>1, <2>2 DEF Redrive, Finish, Advance, Write
<1>11. ~StorageError(w)
  <2>1. wk' # [wk EXCEPT ![w] = [OffWorker EXCEPT !.pc = "head", !.fails = wk[w].fails + 1]]
    BY <1>1 DEF OffWorker
  <2> QED BY <1>3, <2>1 DEF StorageError
<1>12. \/ UNCHANGED wk \/ CrashRestart \/ StartWorker
       \/ \E v \in Workers : WorkerStep(v) \/ StorageError(v)
  BY DEF Next, Submit, Edit, Wait, Answer, StopExecution, Recheck, Interrupt, InterruptQueue,
     InterruptProvider, StopQueued, SelectRuntime, CancelSelection, SwitchStep,
     CancelForSwitch, OtherTurnStarts, OtherTurnOutputs, OtherTurnEnds, Reconcile,
     ReconcileList, ReconcileRow, ReconcileStart
<1>13. ~UNCHANGED wk /\ ~CrashRestart /\ ~StartWorker
  <2>1. ~UNCHANGED wk /\ ~CrashRestart
    BY DEF CrashRestart, OffWorker
  <2>2. ASSUME NEW v \in Workers PROVE wk' # [wk EXCEPT ![v].pc = "head"]
    BY <1>1 DEF WorkerTask
  <2> QED BY <2>1, <2>2 DEF StartWorker
<1> QED BY <1>2, <1>6, <1>7, <1>8, <1>9, <1>10, <1>11, <1>12, <1>13 DEF WorkerStep

LEMMA EditNext == DeliveryInv /\ TypeInv /\ EditInv /\ [Next]_vars => EditInv'
<1> SUFFICES ASSUME DeliveryInv, TypeInv, EditInv, [Next]_vars PROVE EditInv'
  OBVIOUS
<1>1. CASE UNCHANGED vars
  BY <1>1 DEF vars, storeVars, EditInv
<1>2. CASE Next
  <2>1. \A k \in Keys : sub'[k].fresh => k \in EditKeys
    BY <1>2, StepKeepsOrder DEF OrderKept, RowsKept, RowAdded, RowKept, EditInv
  <2>2. ASSUME EditKeys = {}, NEW w \in Workers, wk'[w].pc = "reserve" PROVE FALSE
    <3>1. ForceFresh(w)
      BY <1>2, <2>2, ReserveEntered DEF EditInv
    <3>2. Row(w).fresh /\ wk[w].pc \notin Keyless
      BY <3>1 DEF ForceFresh, Deciding, At, Keyless
    <3>3. Key(w) \in Keys
      BY <3>2, DrivenKey DEF DeliveryInv
    <3> QED BY <2>2, <3>2, <3>3 DEF EditInv, Row
  <2> QED BY <2>1, <2>2 DEF EditInv
<1> QED BY <1>1, <1>2

\* Where nothing is reserved, the selection is written by requests, drivers and
\* cancellations only.
LEMMA SelectionMoves ==
    ASSUME DeliveryInv, TypeInv, Next, \A w \in Workers : wk[w].pc # "reserve"
    PROVE  \/ UNCHANGED selectionVars
           \/ \E r \in Runtimes, by \in Requesters \cup {NoRequester} :
                EnqueueDesired(r, by) \/ MaterializeCurrent(r)
           \/ \E s \in Switches : DriveSwitch(s) \/ CancelSwitch(s)
<1>1. ASSUME NEW w \in Workers, WorkerStep(w) \/ StorageError(w)
      PROVE  \/ UNCHANGED selectionVars
             \/ \E r \in Runtimes, by \in Requesters \cup {NoRequester} :
                  EnqueueDesired(r, by) \/ MaterializeCurrent(r)
  <2>1. CASE RequestRuntime(w)
    <3>1. wk[w].pc \notin Keyless
      BY <2>1 DEF RequestRuntime, Unlinked, Deciding, At, Keyless
    <3>2. Key(w) \in Requesters \cup {NoRequester} /\ Row(w).desired \in Runtimes
      BY <3>1, DrivenKey, SubmissionAssumption DEF DeliveryInv, SubmissionRow
    <3>3. \/ UNCHANGED selectionVars
          \/ EnqueueDesired(Row(w).desired, Key(w)) \/ MaterializeCurrent(Row(w).desired)
      BY <2>1 DEF RequestRuntime
    <3> QED BY <3>2, <3>3
  <2>2. CASE AwaitRuntime(w) /\ ~RequestRuntime(w)
    <3>1. ~ReserveFresh(w)
      BY DEF ReserveFresh, At
    <3> QED BY <2>2, <3>1 DEF AwaitRuntime, ReadSelection, Normalize, ForceFresh, AwaitFresh,
            RuntimeReady, HandleTerminalSwitch, RuntimeUnavailable, JoinPending,
            ReadRequested, Adopt, LinkSwitch
  <2>3. CASE DispatchMessage(w)
    BY <2>3 DEF DispatchMessage, PauseDispatch, CheckRuntime, MarkAboutToPrompt, MaterializeFails,
       RecordReturned, Classify, RecordPersisted, FailAfterDispatch, Unclassified
  <2>4. CASE RunAgentTurn(w)
    BY <2>4 DEF RunAgentTurn, AdmitTurn, ClaimRunningTurn, AdmissionError, AppendUserBoundary,
       PrepareTurn, PrepareFails, DeliverPrompt, StreamOutput, TurnReturns, TurnFails
  <2>5. CASE TakeHead(w) \/ Unwatch(w) \/ Terminalize(w) \/ Redrive(w) \/ Finish(w) \/ StorageError(w)
    BY <2>5 DEF TakeHead, Unwatch, Terminalize, Redrive, Finish, StorageError
  <2> QED BY <1>1, <2>1, <2>2, <2>3, <2>4, <2>5 DEF WorkerStep
<1>2. ASSUME NEW k \in Keys, Submit(k) \/ Edit(k) \/ Wait(k) \/ Answer(k) \/ StopExecution(k)
      PROVE  UNCHANGED selectionVars
  BY <1>2 DEF Submit, Edit, Wait, Answer, StopExecution
<1>3. ASSUME NEW r \in Runtimes, SelectRuntime(r)
      PROVE  \E d \in Runtimes, by \in Requesters \cup {NoRequester} :
               EnqueueDesired(d, by) \/ MaterializeCurrent(d)
  <2>1. Resolve[r] \in Runtimes /\ NoRequester \in Requesters \cup {NoRequester}
    BY SelectionAssumption
  <2>2. EnqueueDesired(Resolve[r], NoRequester) \/ MaterializeCurrent(Resolve[r])
    BY <1>3 DEF SelectRuntime
  <2> QED BY <2>1, <2>2
<1>4. ASSUME NEW s \in Switches, CancelSelection(s) \/ SwitchStep(s)
      PROVE  DriveSwitch(s) \/ CancelSwitch(s)
  BY <1>4 DEF CancelSelection, SwitchStep
<1>5. CASE \/ Recheck \/ Interrupt \/ InterruptQueue \/ InterruptProvider \/ StopQueued
           \/ CancelForSwitch \/ OtherTurnStarts \/ OtherTurnOutputs \/ OtherTurnEnds
           \/ CrashRestart \/ Reconcile
  BY <1>5 DEF Recheck, Interrupt, InterruptQueue, InterruptProvider, StopQueued, CancelForSwitch,
     OtherTurnStarts, OtherTurnOutputs, OtherTurnEnds, CrashRestart, Reconcile, ReconcileList,
     ReconcileRow, ReconcileStart
<1> QED BY <1>1, <1>2, <1>3, <1>4, <1>5 DEF Next

\* Where no message is edited, so that no switch is reserved outside a request, a session
\* that is not on the runtime it wants has a live switch of its newest intent or a claimed
\* slot: neither commits, cancellations and failures nor newer requests leave a session
\* waiting for a runtime nobody brings (set_desired_runtime, commit, finish_without_commit).
THEOREM DivergenceStaysDriven == EditKeys = {} => (Spec => []DivergenceIsDriven)
<1> SUFFICES ASSUME EditKeys = {} PROVE Spec => []DivergenceIsDriven
  OBVIOUS
<1>1. Init => EditInv /\ IntentInv
  <2> SUFFICES ASSUME Init PROVE EditInv /\ IntentInv
    OBVIOUS
  <2>1. EditInv
    BY DEF Init, EditInv, NoRow, OffWorker
  <2> QED BY <2>1, IntentStarts DEF Init
<1>2. TypeInv /\ IntentInv => DivergenceIsDriven
  BY IntentDrives DEF TypeInv
<1>3. DeliveryInv /\ TypeInv /\ EditInv /\ IntentInv /\ [Next]_vars => IntentInv'
  <2> SUFFICES ASSUME DeliveryInv, TypeInv, EditInv, IntentInv, [Next]_vars PROVE IntentInv'
    OBVIOUS
  <2>1. SelectionInv
    BY DEF TypeInv
  <2>2. CASE UNCHANGED selectionVars
    BY <2>2 DEF selectionVars, IntentInv, Used, Live, OwnsIntent
  <2>3. CASE UNCHANGED vars
    BY <2>2, <2>3 DEF vars
  <2>4. CASE Next
    <3>1. \/ UNCHANGED selectionVars
          \/ \E r \in Runtimes, by \in Requesters \cup {NoRequester} :
               EnqueueDesired(r, by) \/ MaterializeCurrent(r)
          \/ \E s \in Switches : DriveSwitch(s) \/ CancelSwitch(s)
      BY <2>4, SelectionMoves DEF EditInv
    <3> QED BY <2>1, <2>2, <3>1, EnqueueIntent, MaterializeIntent, DriveIntent
  <2> QED BY <2>3, <2>4
<1> QED BY <1>1, <1>2, <1>3, EditNext, TypeInit, TypeNext, DeliveryInvariant, PTL DEF Spec

-----------------------------------------------------------------------------
(* The queue keeps the ledger: which rows one step changes. *)

\* One row is written.
OneRow == \E k \in Keys : \A j \in Keys : j # k => sub'[j] = sub[j]

\* Queued messages are cancelled, and nothing else.
Withdrawn ==
    \A k \in Keys : \/ sub'[k] = sub[k]
                    \/ sub[k].status \in Queued /\ sub'[k].status = "cancelled"

LEMMA RowWriteIsOne ==
    ASSUME TypeInv, NEW k \in Keys, NEW r, sub' = [sub EXCEPT ![k] = r]
    PROVE  OneRow
<1>1. \A j \in Keys : j # k => sub'[j] = sub[j]
  BY DEF TypeInv, RowType
<1> QED BY <1>1 DEF OneRow

LEMMA UnchangedIsWithdrawn ==
    ASSUME UNCHANGED sub
    PROVE  Withdrawn
  BY DEF Withdrawn

\* A worker writes the row of its message.
LEMMA WorkerWritesOne ==
    ASSUME Shape, TypeInv, NEW w \in Workers, WorkerStep(w) \/ StorageError(w)
    PROVE  UNCHANGED sub \/ OneRow
<1>1. ASSUME wk[w].pc \notin Keyless PROVE Key(w) \in Keys
  BY <1>1, DrivenKey
<1>2. ASSUME NEW from, NEW row, NEW next, Write(w, from, row, next), Key(w) \in Keys
      PROVE  UNCHANGED sub \/ OneRow
  <2>1. UNCHANGED sub \/ sub' = [sub EXCEPT ![Key(w)] = row]
    BY <1>2 DEF Write
  <2> QED BY <1>2, <2>1, RowWriteIsOne
<1>3. CASE Terminalize(w)
  <2>1. Key(w) \in Keys
    BY <1>1, <1>3 DEF Terminalize, At, Keyless
  <2>2. UNCHANGED sub \/ \E r : sub' = [sub EXCEPT ![Key(w)] = r]
    BY <1>3 DEF Terminalize
  <2> QED BY <2>1, <2>2, RowWriteIsOne
<1>4. CASE Redrive(w) \/ Finish(w)
  <2>1. Key(w) \in Keys
    BY <1>1, <1>4 DEF Redrive, Finish, At, Keyless
  <2> QED BY <1>2, <1>4, <2>1 DEF Redrive, Finish, Advance
<1>5. CASE AwaitRuntime(w)
  <2>1. Key(w) \in Keys
    BY <1>1, <1>5 DEF AwaitRuntime, ReadSelection, Normalize, ForceFresh, ReserveFresh,
       AwaitFresh, RuntimeReady, HandleTerminalSwitch, RuntimeUnavailable, JoinPending,
       RequestRuntime, ReadRequested, Adopt, LinkSwitch, Unlinked, Deciding, At, Keyless
  <2>2. UNCHANGED sub \/ \E from, row, next : Write(w, from, row, next)
    BY <1>5 DEF AwaitRuntime, ReadSelection, Normalize, ForceFresh, ReserveFresh, AwaitFresh,
       RuntimeReady, HandleTerminalSwitch, RuntimeUnavailable, JoinPending, RequestRuntime,
       ReadRequested, Adopt, LinkSwitch, Advance, storeVars
  <2> QED BY <1>2, <2>1, <2>2
<1>6. CASE DispatchMessage(w)
  <2>1. Key(w) \in Keys
    BY <1>1, <1>6 DEF DispatchMessage, PauseDispatch, CheckRuntime, MarkAboutToPrompt,
       MaterializeFails, RecordReturned, Classify, RecordPersisted, FailAfterDispatch,
       Unclassified, At, Keyless
  <2>2. CASE RecordPersisted(w) \/ FailAfterDispatch(w)
    <3>1. UNCHANGED sub \/ \E r : sub' = [sub EXCEPT ![Key(w)] = r]
      BY <2>2 DEF RecordPersisted, FailAfterDispatch
    <3> QED BY <2>1, <3>1, RowWriteIsOne
  <2>3. CASE ~RecordPersisted(w) /\ ~FailAfterDispatch(w)
    <3>1. UNCHANGED sub \/ \E from, row, next : Write(w, from, row, next)
      BY <1>6, <2>3 DEF DispatchMessage, PauseDispatch, CheckRuntime, MarkAboutToPrompt,
         MaterializeFails, RecordReturned, Classify, Unclassified, Advance, storeVars
    <3> QED BY <1>2, <2>1, <3>1
  <2> QED BY <2>2, <2>3
<1>7. CASE RunAgentTurn(w) \/ TakeHead(w) \/ Unwatch(w) \/ StorageError(w)
  BY <1>7 DEF RunAgentTurn, AdmitTurn, ClaimRunningTurn, AdmissionError, AppendUserBoundary,
     PrepareTurn, PrepareFails, DeliverPrompt, StreamOutput, TurnReturns, TurnFails, TakeHead,
     Unwatch, StorageError, storeVars
<1> QED BY <1>3, <1>4, <1>5, <1>6, <1>7 DEF WorkerStep

\* A step writes one row, cancels queued ones, or is an edit.
LEMMA StepChangesRows ==
    ASSUME DeliveryInv, TypeInv, Next
    PROVE  \/ \E k \in Keys : Edit(k) /\ sub[k].status = "absent"
           \/ Withdrawn
           \/ FinalKept /\ OneRow
<1>0. Shape /\ ReconShape
  BY DEF DeliveryInv
<1>1. CASE UNCHANGED sub
  BY <1>1, UnchangedIsWithdrawn
<1>2. ASSUME NEW k \in Keys, Submit(k)
      PROVE  Withdrawn \/ (FinalKept /\ OneRow)
  <2>1. FinalKept
    BY <1>2, EnqueueKeepsFinal DEF Submit
  <2>2. UNCHANGED sub \/ \E r : sub' = [sub EXCEPT ![k] = r]
    BY <1>2 DEF Submit, Enqueue
  <2> QED BY <1>1, <2>1, <2>2, RowWriteIsOne, UnchangedIsWithdrawn
<1>3. ASSUME NEW k \in Keys, Edit(k), sub[k].status # "absent" PROVE UNCHANGED sub
  BY <1>3 DEF Edit, Enqueue
<1>4. ASSUME NEW k \in Keys, Wait(k) \/ Answer(k) \/ StopExecution(k) PROVE UNCHANGED sub
  BY <1>4 DEF Wait, Answer, StopExecution, storeVars
<1>5. ASSUME NEW w \in Workers, WorkerStep(w) \/ StorageError(w)
      PROVE  UNCHANGED sub \/ (FinalKept /\ OneRow)
  BY <1>0, <1>5, WorkerWritesOne, WorkerKeepsFinal
<1>6. ASSUME NEW Q \in SUBSET Keys, \A k \in Q : sub[k].status \in Queued, CancelBeforeDispatch(Q)
      PROVE  Withdrawn
  <2>1. PICK place \in [Q -> 1..Cardinality(Q)] : sub' = [k \in Keys |->
           IF k \in Q
           THEN [sub[k] EXCEPT !.status = "cancelled",
                   !.first = Len(timeline) + place[k], !.last = Len(timeline) + place[k]]
           ELSE sub[k]]
    BY <1>6 DEF CancelBeforeDispatch
  <2> SUFFICES ASSUME NEW k \in Keys, k \in Q PROVE sub'[k].status = "cancelled"
    BY <1>6, <2>1 DEF Withdrawn
  <2>2. \A x, y : [sub[k] EXCEPT !.status = "cancelled", !.first = x, !.last = y].status = "cancelled"
    BY DEF TypeInv, RowType, SubmissionRow
  <2> QED BY <2>1, <2>2
<1>7. CASE InterruptQueue
  <2>1. QueuedKeys \in SUBSET Keys /\ \A k \in QueuedKeys : sub[k].status \in Queued
    BY DEF QueuedKeys
  <2> QED BY <1>1, <1>6, <1>7, <2>1 DEF InterruptQueue
<1>8. CASE StopQueued
  <2>1. {gate} \in SUBSET Keys
    BY <1>8 DEF StopQueued
  <2> QED BY <1>1, <1>6, <1>8, <2>1 DEF StopQueued
<1>9. CASE CancelForSwitch
  BY <1>9 DEF CancelForSwitch, Withdrawn, TypeInv, RowType, SubmissionRow
<1>10. CASE Reconcile
  <2>1. FinalKept
    BY <1>0, <1>10, ReconcileKeepsFinal
  <2>2. UNCHANGED sub \/ \E e : /\ e \in recon.todo /\ e.status \notin Queued /\ AsListed(e)
                                /\ sub' = [sub EXCEPT ![e.key].status = Reconciled[e.status]]
    BY <1>0, <1>10, ReconciledRow
  <2>3. UNCHANGED sub \/ \E k \in Keys : \E r : sub' = [sub EXCEPT ![k] = r]
    BY <1>0, <2>2 DEF ReconShape
  <2> QED BY <1>1, <2>1, <2>3, RowWriteIsOne
<1>11. CASE \/ Recheck \/ Interrupt \/ InterruptProvider \/ CrashRestart
            \/ \E r \in Runtimes : SelectRuntime(r)
            \/ \E s \in Switches : CancelSelection(s) \/ SwitchStep(s)
            \/ OtherTurnStarts \/ OtherTurnOutputs \/ OtherTurnEnds
  BY <1>1, <1>11 DEF Recheck, Interrupt, InterruptProvider, CrashRestart, SelectRuntime,
     CancelSelection, SwitchStep, OtherTurnStarts, OtherTurnOutputs, OtherTurnEnds, storeVars
<1> QED BY <1>1, <1>2, <1>3, <1>4, <1>5, <1>7, <1>8, <1>9, <1>10, <1>11 DEF Next

-----------------------------------------------------------------------------
(* What the ledger relies on. *)

\* A queued message carries no dispatch time, and one on its way to the provider is in
\* flight or was given up as ambiguous meanwhile.
FlightInv ==
    /\ \A k \in Keys : sub[k].status \in Queued => ~sub[k].sent
    /\ \A w \in Workers : wk[w].pc \in PrePrompt => sub[wk[w].key].status \in {"about", "ambiguous"}

LEMMA FlightNext ==
    DeliveryInv /\ TypeInv /\ OneDriver /\ FlightInv /\ [Next]_vars => FlightInv'
<1> SUFFICES ASSUME DeliveryInv, TypeInv, OneDriver, FlightInv, [Next]_vars PROVE FlightInv'
  OBVIOUS
<1>1. CASE UNCHANGED vars
  BY <1>1 DEF vars, storeVars, FlightInv
<1>2. CASE Next
  <2>0. RowsMove /\ sub \in [Keys -> SubmissionRow] /\ wk \in [Workers -> WorkerTask]
    BY <1>2, StepMovesRows DEF TypeInv, RowType, WorkerType
  <2>1. ASSUME NEW k \in Keys, sub'[k].status \in Queued PROVE ~sub'[k].sent
    <3>1. RowTo(k, sub'[k]) /\ sub[k] \in SubmissionRow
      BY <2>0 DEF RowsMove
    <3>2. /\ sub'[k] # [sub[k] EXCEPT !.status = "completed"]
          /\ sub'[k] # [sub[k] EXCEPT !.status = "cancelled"]
      <4>1. /\ [sub[k] EXCEPT !.status = "completed"].status = "completed"
            /\ [sub[k] EXCEPT !.status = "cancelled"].status = "cancelled"
        BY <3>1, StatusTo
      <4> QED BY <2>1, <4>1 DEF Queued
    <3> QED BY <2>1, <3>1, <3>2 DEF RowTo, FlightInv, Queued
  <2>2. ASSUME NEW w \in Workers, wk'[w].pc \in PrePrompt
        PROVE  sub'[wk'[w].key].status \in {"about", "ambiguous"}
    <3>1. /\ wk'[w].key = wk[w].key /\ wk[w].pc \notin Keyless
          /\ \/ wk'[w] = wk[w]
             \/ CheckRuntime(w) \/ MarkAboutToPrompt(w) \/ RunAgentTurn(w) \/ Classify(w)
      BY <1>2, <2>2, StretchEntered DEF PrePrompt, Stretch
    <3> DEFINE k == wk[w].key
    <3>2. k \in Keys /\ k = Key(w)
      BY <3>1, DrivenKey DEF DeliveryInv, Key
    <3>3. \A v \in Workers : wk[v].pc # "off" => v = w
      BY <3>1 DEF OneDriver, Keyless
    <3>4. CASE MarkAboutToPrompt(w)
      <4>1. ~Enter(w, "terminalize")
        BY <2>0, <2>2 DEF Enter, WorkerTask, PrePrompt
      <4>2. sub' = [sub EXCEPT ![Key(w)] = [Row(w) EXCEPT !.status = "about"]]
        BY <3>4, <4>1 DEF MarkAboutToPrompt, Advance, Write
      <4>3. Row(w) \in SubmissionRow
        BY <2>0, <3>2 DEF Row
      <4>4. sub'[k].status = "about"
        BY <2>0, <3>2, <4>2, <4>3, StatusTo
      <4> QED BY <3>1, <4>4
    <3>5. CASE RunAgentTurn(w) /\ wk[w].pc \in PrePrompt
      <4>1. UNCHANGED sub
        BY <3>5 DEF RunAgentTurn, AdmitTurn, ClaimRunningTurn, AdmissionError, AppendUserBoundary,
           PrepareTurn, PrepareFails, DeliverPrompt, StreamOutput, TurnReturns, TurnFails, storeVars
      <4> QED BY <3>1, <3>5, <4>1 DEF FlightInv
    <3>6. CASE RunAgentTurn(w) /\ wk[w].pc \notin PrePrompt
      <4>1. wk[w].pc = "stream" /\ (UNCHANGED wk \/ Enter(w, "returned") \/ Enter(w, "erred"))
        BY <3>6 DEF RunAgentTurn, AdmitTurn, ClaimRunningTurn, AdmissionError, AppendUserBoundary,
           PrepareTurn, PrepareFails, DeliverPrompt, StreamOutput, TurnReturns, TurnFails, At, PrePrompt
      <4> QED BY <2>0, <2>2, <4>1 DEF Enter, WorkerTask, PrePrompt
    <3>7. ~CheckRuntime(w) /\ ~Classify(w)
      <4>1. ~CheckRuntime(w)
        <5>1. ~Return(w) /\ ~Enter(w, "terminalize")
          BY <2>0, <2>2 DEF Return, OffWorker, Enter, WorkerTask, PrePrompt
        <5>2. wk' # [wk EXCEPT ![w].pc = "mark", ![w].start = Len(timeline)]
          BY <2>0, <2>2 DEF WorkerTask, PrePrompt
        <5> QED BY <5>1, <5>2 DEF CheckRuntime, Advance, Write
      <4>2. ~Classify(w)
        <5>1. PersistedResult(timeline, Key(w), wk[w].start, Len(timeline)) \in {"completed", "failed", "unknown"}
          BY DEF PersistedResult, EndVerdict
        <5> QED BY <2>0, <2>2, <5>1 DEF Classify, WorkerTask, PrePrompt
      <4> QED BY <4>1, <4>2
    <3>8. CASE wk'[w] = wk[w]
      <4>1. wk[w].pc \in PrePrompt /\ sub[k].status \in {"about", "ambiguous"}
        BY <2>2, <3>8 DEF FlightInv
      <4>2. ASSUME NEW v \in Workers, wk[v].pc \in {"returned", "complete", "failAfter", "unknown"}
            PROVE  FALSE
        <5>1. v = w
          BY <3>3, <4>2
        <5> QED BY <4>1, <4>2, <5>1 DEF PrePrompt
      <4>3. /\ ~Failing(k) /\ ~Refused(k)
            /\ \A first, last : ~Resulted(k, first, last)
        BY <4>2 DEF Failing, Refused, Resulted, At
      <4>4. RowTo(k, sub'[k])
        BY <2>0, <3>2 DEF RowsMove
      <4>5. sub'[k].status \in {"about", "ambiguous"}
        BY <4>1, <4>3, <4>4 DEF RowTo, Queued
      <4> QED BY <3>1, <4>5
    <3> QED BY <3>1, <3>4, <3>5, <3>6, <3>7, <3>8
  <2> QED BY <2>1, <2>2 DEF FlightInv
<1> QED BY <1>1, <1>2

-----------------------------------------------------------------------------
(* The steps of the ledger. *)

\* What the ledger says of a row.
LEMMA LedgerOfRow ==
    ASSUME NEW r \in SubmissionRow
    PROVE  /\ LedgerOf(r) = "none" <=> r.status = "absent"
           /\ LedgerOf(r) = "queued" <=> r.status \in Queued
           /\ LedgerOf(r) = "inflight" <=> r.status \in {"about", "dispatched"}
           /\ LedgerOf(r) = "done" <=> r.status = "completed"
           /\ LedgerOf(r) = "unknown" <=> r.status = "ambiguous"
           /\ LedgerOf(r) = "unsent" <=> r.status \in {"failed", "cancelled"} /\ ~r.sent
           /\ LedgerOf(r) = "failed" <=> r.status = "failed" /\ r.sent
           /\ LedgerOf(r) = "replaced" <=> r.status = "cancelled" /\ r.sent
<1>1. r.status \in Status /\ r.sent \in BOOLEAN
  BY DEF SubmissionRow
<1> QED BY <1>1 DEF LedgerOf, LedgerEntry, Status, Queued, Terminal

\* The places of the messages, when no row is added.
LEMMA PlacesKept ==
    ASSUME DeliveryInv, TypeInv, Next, \A k \in Keys : sub[k].status = "absent" => sub'[k] = sub[k]
    PROVE  \A k \in Keys : sub'[k].seq = sub[k].seq
<1>1. QueueShape /\ SeqBounded
  BY DEF DeliveryInv, Shape
<1>2. NextSequence \in Nat /\ \A k \in Keys : sub[k].seq \in Nat /\ sub[k].seq < NextSequence
  BY <1>1, NextSequenceIsNew DEF QueueShape
<1>3. ~RowAdded
  BY <1>2 DEF RowAdded
<1> QED BY <1>3, StepKeepsOrder DEF OrderKept, RowsKept, RowKept

\* A step that changes the entry of one message at most.
LEMMA LedgerOneEntry ==
    ASSUME NEW k \in Keys, \A j \in Keys : j # k => sub'[j] = sub[j],
           \A j \in Keys : sub'[j].seq = sub[j].seq, UNCHANGED prompts
    PROVE  /\ LedgerOf(sub'[k]) = LedgerOf(sub[k]) => UNCHANGED Ledger!ledgerVars
           /\ [j \in Keys |-> LedgerOf(sub[j])]'
                = [[j \in Keys |-> LedgerOf(sub[j])] EXCEPT ![k] = LedgerOf(sub'[k])]
           /\ UNCHANGED [j \in Keys |-> sub[j].seq]
<1>1. \A j \in Keys : j # k => LedgerOf(sub'[j]) = LedgerOf(sub[j])
  OBVIOUS
<1>2. [j \in Keys |-> LedgerOf(sub'[j])]
        = [[j \in Keys |-> LedgerOf(sub[j])] EXCEPT ![k] = LedgerOf(sub'[k])]
  BY <1>1
<1>3. [j \in Keys |-> sub'[j].seq] = [j \in Keys |-> sub[j].seq]
  OBVIOUS
<1>4. LedgerOf(sub'[k]) = LedgerOf(sub[k]) =>
        [j \in Keys |-> LedgerOf(sub'[j])] = [j \in Keys |-> LedgerOf(sub[j])]
  BY <1>1
<1> QED BY <1>2, <1>3, <1>4 DEF Ledger!ledgerVars

\* The provider receives a message that is in flight or unknown, for the first time.
LEMMA LedgerReceives ==
    ASSUME DeliveryInv, TypeInv, FlightInv, NEW w \in Workers, DeliverPrompt(w)
    PROVE  Ledger!LedgerNext
<1> DEFINE k == Key(w)
<1>1. wk[w].pc = "deliver" /\ wk[w].pc \in PrePrompt /\ wk[w].pc \notin Keyless
  BY DEF DeliverPrompt, At, PrePrompt, Keyless
<1>2. k \in Keys /\ sub[k] \in SubmissionRow /\ sub[k].status \in {"about", "ambiguous"}
  BY <1>1, DrivenKey DEF DeliveryInv, FlightInv, TypeInv, RowType, Key
<1>3. prompts \in [Keys -> Nat] /\ prompts[k] = 0
  BY <1>1 DEF DeliveryInv, Shape, Fenced, Key
<1>4. prompts' = [prompts EXCEPT ![k] = 1] /\ UNCHANGED sub
  BY <1>3 DEF DeliverPrompt, storeVars
<1> HIDE DEF k
<1>5. k \in Ledger!In("inflight") \cup Ledger!In("unknown")
  <2>1. LedgerOf(sub[k]) \in {"inflight", "unknown"}
    BY <1>2, LedgerOfRow
  <2> QED BY <1>2, <2>1 DEF Ledger!In
<1>6. Ledger!Receive(k)
  BY <1>3, <1>4 DEF Ledger!Receive
<1> QED BY <1>5, <1>6 DEF Ledger!LedgerNext

\* replace_latest_user_message accepts a message and takes back what it cuts away.
LEMMA LedgerEdits ==
    ASSUME DeliveryInv, TypeInv, ReceiptInv, NEW k \in Keys, Edit(k), sub[k].status = "absent"
    PROVE  Ledger!LedgerNext
<1> DEFINE cut == MaxOf(Users(timeline, 0, Len(timeline)))
           R == {j \in Keys : j # k /\ SupersededByEdit(j, cut)}
<1>1. /\ OpenKeys = {} /\ UNCHANGED prompts
      /\ sub' = [j \in Keys |->
           IF j = k THEN [NoRow EXCEPT !.status = "awaiting",
                !.seq = NextSequence, !.desired = Wanted[k], !.fresh = TRUE]
           ELSE IF SupersededByEdit(j, cut) THEN [sub[j] EXCEPT !.status = "cancelled"]
           ELSE sub[j]]
  BY DEF Edit, ghostVars
<1> HIDE DEF cut
<1>2. /\ sub'[k].status = "awaiting" /\ sub'[k].seq = NextSequence
      /\ \A j \in R : sub'[j] = [sub[j] EXCEPT !.status = "cancelled"]
      /\ \A j \in Keys : j # k /\ j \notin R => sub'[j] = sub[j]
  BY <1>1 DEF NoRow
<1>3. /\ \A j \in Keys : sub[j] \in SubmissionRow /\ sub[j].seq \in Nat
      /\ NextSequence \in Nat /\ \A j \in Keys : sub[j].seq < NextSequence
  BY NextSequenceIsNew DEF TypeInv, RowType, SubmissionRow, DeliveryInv, Shape
<1>4. ASSUME NEW j \in R
      PROVE  /\ j # k /\ sub[j].status = "completed"
             /\ LedgerOf(sub'[j]) = "replaced" /\ sub'[j].seq = sub[j].seq
  <2>1. j # k /\ sub[j].status = "completed" /\ sub[j].sent /\ sub[j] \in SubmissionRow
    BY <1>3 DEF SupersededByEdit, ReceiptInv
  <2>2. /\ sub'[j].status = "cancelled" /\ sub'[j].sent /\ sub'[j].seq = sub[j].seq
        /\ sub'[j] \in SubmissionRow
    <3>1. "cancelled" \in Status
      BY DEF Status, Terminal
    <3> QED BY <1>2, <2>1, <3>1 DEF SubmissionRow
  <2> QED BY <2>1, <2>2, LedgerOfRow
<1>5. LedgerOf(sub'[k]) = "queued"
  BY <1>2 DEF LedgerOf, LedgerEntry
<1> HIDE DEF R
<1>6. R \in SUBSET Keys
  BY DEF R
<1>7. R \in SUBSET Ledger!In("done") /\ k \in Ledger!In("none")
  BY <1>3, <1>4, <1>6, LedgerOfRow DEF Ledger!In
<1>8. Ledger!Open = {}
  <2>1. ASSUME NEW j \in Keys PROVE LedgerOf(sub[j]) \notin {"queued", "inflight"}
    <3>1. sub[j].status \in Terminal \cup {"absent"}
      BY <1>1 DEF OpenKeys
    <3> QED BY <1>3, <3>1, LedgerOfRow DEF Terminal, Queued
  <2> QED BY <2>1 DEF Ledger!Open, Ledger!In
<1>9. [j \in Keys |-> LedgerOf(sub'[j])]
        = [n \in Keys |-> IF n = k THEN "queued" ELSE IF n \in R THEN "replaced"
                          ELSE [j \in Keys |-> LedgerOf(sub[j])][n]]
  <2>1. \A n \in Keys : LedgerOf(sub'[n]) = IF n = k THEN "queued" ELSE IF n \in R THEN "replaced"
                                             ELSE LedgerOf(sub[n])
    BY <1>2, <1>4, <1>5
  <2> QED BY <2>1
<1>10. [j \in Keys |-> sub'[j].seq] = [[j \in Keys |-> sub[j].seq] EXCEPT ![k] = sub'[k].seq]
  BY <1>2, <1>4
<1>11. \A n \in Keys : sub[n].seq < sub'[k].seq
  BY <1>2, <1>3
<1>12. PICK Q : Q = R
  OBVIOUS
<1>13. Ledger!Accept(k, Q)
  BY <1>1, <1>8, <1>9, <1>10, <1>11, <1>12 DEF Ledger!Accept
<1>14. \E m \in Ledger!In("none"), P \in SUBSET Ledger!In("done") : Ledger!Accept(m, P)
  BY <1>7, <1>12, <1>13, Zenon
<1> QED BY <1>14 DEF Ledger!LedgerNext

\* Queued messages that are cancelled are withdrawn.
LEMMA LedgerWithdraws ==
    ASSUME DeliveryInv, TypeInv, TypeInv', FlightInv, Next, UNCHANGED prompts, Withdrawn
    PROVE  Ledger!LedgerNext
<1> DEFINE S == {k \in Keys : sub'[k] # sub[k]}
<1>1. \A k \in Keys : sub[k] \in SubmissionRow /\ sub'[k] \in SubmissionRow
  BY DEF TypeInv, RowType
<1>2. ASSUME NEW k \in S
      PROVE  sub[k].status \in Queued /\ LedgerOf(sub'[k]) = "unsent"
  <2>1. sub[k].status \in Queued /\ sub'[k].status = "cancelled"
    BY DEF Withdrawn
  <2>2. RowTo(k, sub'[k])
    BY StepMovesRows DEF RowsMove
  <2>3. ~sub'[k].sent
    BY <2>1, <2>2 DEF RowTo, FlightInv, Queued
  <2> QED BY <1>1, <2>1, <2>3, LedgerOfRow
<1>3. \A k \in Keys : sub'[k].seq = sub[k].seq
  <2>1. \A k \in Keys : sub[k].status = "absent" => sub'[k] = sub[k]
    BY DEF Withdrawn, Queued
  <2> QED BY <2>1, PlacesKept
<1>4. S \in SUBSET Ledger!In("queued")
  BY <1>1, <1>2, LedgerOfRow DEF Ledger!In
<1>5. \A n \in Keys : LedgerOf(sub'[n]) = IF n \in S THEN "unsent" ELSE LedgerOf(sub[n])
  BY <1>2
<1> HIDE DEF S
<1>6. [j \in Keys |-> LedgerOf(sub'[j])]
        = [n \in Keys |-> IF n \in S THEN "unsent" ELSE [j \in Keys |-> LedgerOf(sub[j])][n]]
  BY <1>5
<1>7. [j \in Keys |-> sub'[j].seq] = [j \in Keys |-> sub[j].seq]
  BY <1>3
<1>8. Ledger!Withdraw(S)
  BY <1>6, <1>7 DEF Ledger!Withdraw
<1> QED BY <1>4, <1>8 DEF Ledger!LedgerNext

\* The outcome of a message in flight is entered.
LEMMA LedgerEnds ==
    ASSUME NEW k \in Keys, \A j \in Keys : j # k => sub'[j] = sub[j],
           \A j \in Keys : sub'[j].seq = sub[j].seq, UNCHANGED prompts,
           LedgerOf(sub[k]) = "inflight", LedgerOf(sub'[k]) \in Ledger!Final,
           LedgerOf(sub'[k]) = "unsent" => prompts[k] = 0,
           LedgerOf(sub'[k]) = "done" /\ MaxTurns = 0 => prompts[k] = 1
    PROVE  Ledger!LedgerNext
<1>1. k \in Ledger!In("inflight")
  BY DEF Ledger!In
<1>2. Ledger!End(k, LedgerOf(sub'[k]))
  BY LedgerOneEntry DEF Ledger!End
<1>3. \E m \in Ledger!In("inflight"), s \in Ledger!Final : Ledger!End(m, s)
  BY <1>1, <1>2, Zenon
<1> QED BY <1>3 DEF Ledger!LedgerNext

\* The first open message is sent.
LEMMA LedgerSends ==
    ASSUME TypeInv, HeadFirst, NEW k \in Keys, \A j \in Keys : j # k => sub'[j] = sub[j],
           \A j \in Keys : sub'[j].seq = sub[j].seq, UNCHANGED prompts,
           LedgerOf(sub[k]) = "queued", LedgerOf(sub'[k]) = "inflight", Marking(k)
    PROVE  Ledger!LedgerNext
<1>1. k \in Ledger!In("queued")
  BY DEF Ledger!In
<1>2. \A j \in Keys : sub[j].seq \in Nat /\ sub[j] \in SubmissionRow
  BY DEF TypeInv, RowType, SubmissionRow
<1>3. \A j \in Keys : sub[j].seq < sub[k].seq => j \notin OpenKeys
  BY DEF Marking, At, Key, Keyless, HeadFirst
<1>4. ASSUME NEW n \in Ledger!Open PROVE n \in Keys /\ sub[k].seq <= sub[n].seq
  <2>1. n \in Keys /\ LedgerOf(sub[n]) \in {"queued", "inflight"}
    BY <1>4 DEF Ledger!Open, Ledger!In
  <2>2. sub[n].status \in Queued \cup {"about", "dispatched"}
    BY <1>2, <2>1, LedgerOfRow
  <2>3. n \in OpenKeys
    BY <2>1, <2>2 DEF OpenKeys, Queued, Terminal
  <2> QED BY <1>2, <1>3, <2>1, <2>3
<1>5. \A n \in Ledger!Open : [j \in Keys |-> sub[j].seq][k] <= [j \in Keys |-> sub[j].seq][n]
  BY <1>4
<1>6. Ledger!Send(k)
  BY <1>5, LedgerOneEntry DEF Ledger!Send
<1> QED BY <1>1, <1>6 DEF Ledger!LedgerNext

\* create_or_get accepts a message at the end of the queue.
LEMMA LedgerAccepts ==
    ASSUME DeliveryInv, TypeInv, Next, NEW k \in Keys, \A j \in Keys : j # k => sub'[j] = sub[j],
           UNCHANGED prompts, sub[k].status = "absent", sub'[k].status = "awaiting"
    PROVE  Ledger!LedgerNext
<1>1. sub'[k].seq = NextSequence
  BY StepKeepsOrder DEF OrderKept, RowsKept, RowAdded, RowKept
<1>2. \A j \in Keys : sub[j].seq < sub'[k].seq
  BY <1>1, NextSequenceIsNew DEF DeliveryInv, Shape
<1>3. LedgerOf(sub[k]) = "none" /\ LedgerOf(sub'[k]) = "queued"
  BY DEF LedgerOf, LedgerEntry
<1>4. k \in Ledger!In("none")
  BY <1>3 DEF Ledger!In
<1>5. [j \in Keys |-> LedgerOf(sub'[j])]
        = [n \in Keys |-> IF n = k THEN "queued" ELSE IF n \in {} THEN "replaced"
                          ELSE [j \in Keys |-> LedgerOf(sub[j])][n]]
  <2>1. \A n \in Keys : LedgerOf(sub'[n]) = IF n = k THEN "queued" ELSE LedgerOf(sub[n])
    BY <1>3
  <2> QED BY <2>1
<1>6. [j \in Keys |-> sub'[j].seq] = [[j \in Keys |-> sub[j].seq] EXCEPT ![k] = sub'[k].seq]
  OBVIOUS
<1>7. Ledger!Accept(k, {})
  BY <1>2, <1>5, <1>6 DEF Ledger!Accept
<1>8. {} \in SUBSET Ledger!In("done")
  OBVIOUS
<1>9. \E m \in Ledger!In("none"), Q \in SUBSET Ledger!In("done") : Ledger!Accept(m, Q)
  BY <1>4, <1>7, <1>8, Zenon
<1> QED BY <1>9 DEF Ledger!LedgerNext

\* The write of one row is a step of the ledger or leaves it alone.
LEMMA LedgerWrites ==
    ASSUME DeliveryInv, TypeInv, TypeInv', HeadFirst, FlightInv, NotSentNotReceived',
           MaxTurns = 0 => CompletedWasDelivered', Next, UNCHANGED prompts, FinalKept, OneRow
    PROVE  Ledger!LedgerNext \/ UNCHANGED Ledger!ledgerVars
<1>1. PICK k \in Keys : \A j \in Keys : j # k => sub'[j] = sub[j]
  BY DEF OneRow
<1>2. sub[k] \in SubmissionRow /\ sub'[k] \in SubmissionRow
  BY DEF TypeInv, RowType
<1>3. RowTo(k, sub'[k])
  BY StepMovesRows DEF RowsMove
<1>4. /\ LedgerOf(sub'[k]) = "unsent" => prompts[k] = 0
      /\ LedgerOf(sub'[k]) = "done" /\ MaxTurns = 0 => prompts[k] = 1
  BY <1>2, LedgerOfRow DEF NotSentNotReceived, CompletedWasDelivered
<1>5. CASE sub[k].status = "absent" /\ sub'[k] # sub[k]
  <2>1. sub'[k].status = "awaiting"
    BY <1>3, <1>5 DEF RowTo, Queued
  <2> QED BY <1>1, <1>5, <2>1, LedgerAccepts
<1>6. CASE sub[k].status # "absent" \/ sub'[k] = sub[k]
  <2>1. \A j \in Keys : sub'[j].seq = sub[j].seq
    BY <1>1, <1>6, PlacesKept
  <2>2. CASE LedgerOf(sub'[k]) = LedgerOf(sub[k])
    BY <1>1, <2>1, <2>2, LedgerOneEntry
  <2>3. CASE sub[k].status \in Queued
    <3>1. sub'[k].status \in Queued \cup {"about", "failed", "cancelled"}
      BY <1>3, <2>3 DEF RowTo, Queued
    <3>2. CASE sub'[k].status \in Queued
      BY <1>2, <2>2, <2>3, <3>2, LedgerOfRow
    <3>3. CASE sub'[k].status = "about"
      <4>1. Marking(k)
        BY <1>3, <2>3, <3>3 DEF RowTo, Queued
      <4>2. LedgerOf(sub[k]) = "queued" /\ LedgerOf(sub'[k]) = "inflight"
        BY <1>2, <2>3, <3>3, LedgerOfRow
      <4> QED BY <1>1, <2>1, <4>1, <4>2, LedgerSends
    <3>4. CASE sub'[k].status \in {"failed", "cancelled"}
      <4>1. ~sub'[k].sent
        BY <1>3, <2>3, <3>4 DEF RowTo, FlightInv, Queued
      <4>2. LedgerOf(sub[k]) = "queued" /\ LedgerOf(sub'[k]) = "unsent"
        BY <1>2, <2>3, <3>4, <4>1, LedgerOfRow
      <4>3. {k} \in SUBSET Ledger!In("queued")
        BY <4>2 DEF Ledger!In
      <4>4. [j \in Keys |-> LedgerOf(sub'[j])]
              = [n \in Keys |-> IF n \in {k} THEN "unsent" ELSE [j \in Keys |-> LedgerOf(sub[j])][n]]
        <5>1. \A n \in Keys : LedgerOf(sub'[n]) = IF n \in {k} THEN "unsent" ELSE LedgerOf(sub[n])
          BY <1>1, <4>2
        <5> QED BY <5>1
      <4>5. [j \in Keys |-> sub'[j].seq] = [j \in Keys |-> sub[j].seq]
        BY <2>1
      <4>6. Ledger!Withdraw({k})
        BY <4>4, <4>5 DEF Ledger!Withdraw
      <4> QED BY <4>3, <4>6 DEF Ledger!LedgerNext
    <3> QED BY <3>1, <3>2, <3>3, <3>4
  <2>4. CASE sub[k].status \in {"about", "dispatched"}
    <3>1. sub'[k].status \in {"about", "dispatched", "ambiguous", "failed", "completed"}
      <4>1. [sub[k] EXCEPT !.status = "completed"].status = "completed"
        BY <1>2, StatusTo
      <4> QED BY <1>3, <2>4, <4>1 DEF RowTo, Queued
    <3>2. LedgerOf(sub[k]) = "inflight"
      BY <1>2, <2>4, LedgerOfRow
    <3>3. LedgerOf(sub'[k]) \in Ledger!Final \cup {"inflight"}
      BY <1>2, <3>1, LedgerOfRow DEF Ledger!Final
    <3> QED BY <1>1, <1>4, <2>1, <2>2, <3>2, <3>3, LedgerEnds
  <2>5. CASE sub[k].status \in Terminal \cup {"absent"}
    <3>1. sub'[k] = sub[k]
      <4>1. sub[k].status = "completed" => sub'[k].status = "completed"
        BY DEF FinalKept, Terminal
      <4>2. [sub[k] EXCEPT !.status = "cancelled"].status = "cancelled"
        BY <1>2, StatusTo
      <4> QED BY <1>3, <1>6, <2>5, <4>1, <4>2 DEF RowTo, Queued, Terminal
    <3> QED BY <2>2, <3>1
  <2>6. sub[k].status \in Status
    BY <1>2 DEF SubmissionRow
  <2> QED BY <2>3, <2>4, <2>5, <2>6 DEF Status, Queued, Terminal
<1> QED BY <1>5, <1>6

\* Every step of the queue is a step of the ledger or leaves it alone.
LEMMA LedgerStep ==
    /\ DeliveryInv /\ TypeInv /\ TypeInv' /\ HeadFirst /\ ReceiptInv /\ FlightInv
    /\ NotSentNotReceived' /\ (MaxTurns = 0 => CompletedWasDelivered') /\ [Next]_vars
    => [Ledger!LedgerNext]_(Ledger!ledgerVars)
<1> SUFFICES ASSUME DeliveryInv, TypeInv, TypeInv', HeadFirst, ReceiptInv, FlightInv,
                    NotSentNotReceived', MaxTurns = 0 => CompletedWasDelivered', [Next]_vars
             PROVE  Ledger!LedgerNext \/ UNCHANGED Ledger!ledgerVars
  OBVIOUS
<1>1. CASE UNCHANGED vars
  BY <1>1 DEF vars, storeVars, ghostVars, Ledger!ledgerVars
<1>2. CASE Next /\ prompts' # prompts
  <2>1. PICK w \in Workers : DeliverPrompt(w)
    BY <1>2, DeliversPrompt
  <2> QED BY <2>1, LedgerReceives
<1>3. CASE Next /\ UNCHANGED prompts
  <2>1. \/ \E k \in Keys : Edit(k) /\ sub[k].status = "absent"
        \/ Withdrawn
        \/ FinalKept /\ OneRow
    BY <1>3, StepChangesRows
  <2> QED BY <1>3, <2>1, LedgerEdits, LedgerWithdraws, LedgerWrites
<1> QED BY <1>1, <1>2, <1>3

\* Whatever callers, workers, interrupts, edits, storage errors and restarts do, the rows of
\* the queue stand for a ledger: a message is sent only as the first open one, is received
\* at most once and never after its row says that it was not sent, and what has left the
\* queue does not return to it (create_or_get, drain_queue, dispatch, reconcile_on_startup).
THEOREM QueueKeepsLedger == Spec => ImplementsLedger
<1>1. Init => Ledger!LedgerInit
  BY DEF Init, NoRow, LedgerOf, LedgerEntry, Ledger!LedgerInit
<1>2. Init => FlightInv
  BY DEF Init, FlightInv, NoRow, OffWorker, Queued, PrePrompt
<1>3. DeliveryInv /\ DeliveredAlone => (MaxTurns = 0 => CompletedWasDelivered)
  BY DEF DeliveryInv, Shape, AtMostOnce, DeliveredAlone, DeliveredInv, CompletedWasDelivered
<1> DEFINE Alone == MaxTurns = 0 => CompletedWasDelivered
<1>4. Spec => []Alone
  BY <1>3, DeliveredAlways, DeliveryInvariant, PTL
<1>5. DeliveryInv /\ TypeInv /\ TypeInv' /\ HeadFirst /\ ReceiptInv /\ FlightInv
        /\ NotSentNotReceived' /\ Alone' /\ [Next]_vars => [Ledger!LedgerNext]_(Ledger!ledgerVars)
  BY LedgerStep
<1> HIDE DEF Alone
<1> QED BY <1>1, <1>2, <1>4, <1>5, FlightNext, ReceiptAlways, UnsentIsUnreceived, DeliveryInvariant,
        PTL DEF Spec, ImplementsLedger, Ledger!LedgerSpec

=============================================================================
