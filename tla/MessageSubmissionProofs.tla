---------------------- MODULE MessageSubmissionProofs ----------------------
(***************************************************************************)
(* Theorems about MessageSubmission, for every set of messages, workers,   *)
(* switches and runtimes and every value of the bounds.                    *)
(***************************************************************************)
EXTENDS MessageSubmission, RuntimeSelectionProofs

-----------------------------------------------------------------------------
(* Least and greatest numbers: what MaxOf chooses. *)

\* MaxOf is the greatest element of a bounded set.
LEMMA MaxOfBounded ==
    ASSUME NEW T, T \subseteq Nat, T # {}, NEW n \in Nat, \A x \in T : x <= n
    PROVE  MaxOf(T) \in T /\ \A x \in T : x <= MaxOf(T)
  BY NatMax DEF MaxOf

-----------------------------------------------------------------------------
(* The inductive invariant. *)

\* The states a message has before the no-replay boundary.
Unsent == {"absent"} \cup Queued

\* The worker is between the no-replay boundary and the prompt.
PrePrompt == {"admit", "claim", "boundary", "prepare", "deliver"}

Keyless == {"off", "head", "exit"}

QueueShape ==
    /\ DOMAIN sub = Keys
    /\ \A k \in Keys : /\ {"status", "seq"} \subseteq DOMAIN sub[k]
                       /\ sub[k].status \in Status
                       /\ sub[k].seq \in Nat

SeqBounded == \E n \in Nat : \A k \in Keys : sub[k].seq <= n

WorkerShape ==
    /\ DOMAIN wk = Workers
    /\ \A w \in Workers : /\ {"pc", "key"} \subseteq DOMAIN wk[w]
                          /\ wk[w].pc \in WorkerPc
                          /\ wk[w].pc \notin Keyless => wk[w].key \in Keys

Shape == QueueShape /\ SeqBounded /\ WorkerShape /\ prompts \in [Keys -> Nat]

\* Startup reconciliation listed open messages.
ReconShape ==
    \A x \in recon.todo : x.key \in Keys /\ x.status \in Queued \cup {"about", "dispatched"}

\* A worker that may still prompt has passed the boundary with a message nobody
\* has received, and no other worker is there with the same message.
Fenced ==
    \A w \in Workers : wk[w].pc \in PrePrompt =>
        /\ sub[wk[w].key].status \notin Unsent
        /\ prompts[wk[w].key] = 0

OnePrompter ==
    \A v, w \in Workers :
        /\ wk[v].pc \in PrePrompt /\ wk[w].pc \in PrePrompt
        /\ wk[v].key = wk[w].key
        => v = w

\* A message the provider received has left the queue for good.
PromptedIsSent == \A k \in Keys : prompts[k] > 0 => sub[k].status \notin Unsent

DeliveryInv ==
    Shape /\ ReconShape /\ Fenced /\ OnePrompter /\ PromptedIsSent /\ AtMostOnce

\* What every step but the boundary and the prompt itself does.
Quiet ==
    /\ prompts' = prompts
    /\ \A k \in Keys : sub[k].status \notin Unsent => sub'[k].status \notin Unsent
    /\ \A w \in Workers : wk'[w].pc \in PrePrompt =>
         wk[w].pc \in PrePrompt /\ wk'[w].key = wk[w].key

\* A step that keeps the shape and is quiet keeps the invariant.
LEMMA QuietStep ==
    ASSUME DeliveryInv, Shape', ReconShape', Quiet
    PROVE  DeliveryInv'
  BY DEF DeliveryInv, Shape, WorkerShape, Fenced, OnePrompter, PromptedIsSent, AtMostOnce,
         Quiet, PrePrompt, Keyless

\* The head of a queue that is not empty is its open message with the least sequence.
LEMMA HeadKeyIsFirst ==
    ASSUME QueueShape, OpenKeys # {}
    PROVE  HeadKey \in OpenKeys /\ \A j \in OpenKeys : sub[HeadKey].seq <= sub[j].seq
<1> DEFINE S == {sub[k].seq : k \in OpenKeys}
<1>1. S \subseteq Nat /\ S # {}
  BY DEF QueueShape, OpenKeys
<1>2. PICK x \in S : \A y \in S : x <= y
  <2> HIDE DEF S
  <2> QED BY <1>1, NatMin
<1>3. PICK k \in OpenKeys : x = sub[k].seq
  BY <1>2
<1>4. \A j \in OpenKeys : sub[k].seq <= sub[j].seq
  BY <1>2, <1>3
<1> QED BY <1>4 DEF HeadKey

\* The sequence of a new message is a number above all others.
LEMMA NextSequenceIsNew ==
    ASSUME QueueShape, SeqBounded
    PROVE  NextSequence \in Nat /\ \A k \in Keys : sub[k].seq < NextSequence
<1> DEFINE S == {0} \cup {sub[k].seq : k \in Keys}
<1>1. S \subseteq Nat /\ S # {}
  BY DEF QueueShape
<1>2. PICK n \in Nat : \A x \in S : x <= n
  <2>1. PICK n \in Nat : \A k \in Keys : sub[k].seq <= n
    BY DEF SeqBounded
  <2>2. \A x \in S : x <= n
    BY <2>1
  <2> QED BY <2>2
<1>3. MaxOf(S) \in S /\ \A x \in S : x <= MaxOf(S)
  <2> HIDE DEF S
  <2> QED BY <1>1, <1>2, MaxOfBounded
<1> DEFINE m == MaxOf(S)
<1>4. m \in Nat /\ \A k \in Keys : sub[k].seq <= m
  BY <1>1, <1>3
<1>5. NextSequence = 1 + m
  BY Zenon DEF NextSequence
<1> HIDE DEF m
<1> QED BY <1>4, <1>5 DEF QueueShape

-----------------------------------------------------------------------------
(* What a step does to the queue and to the workers. *)

QueueMoves ==
    /\ QueueShape' /\ SeqBounded'
    /\ \A k \in Keys : sub[k].status \notin Unsent => sub'[k].status \notin Unsent

WorkerMoves ==
    /\ WorkerShape'
    /\ \A w \in Workers : wk'[w].pc \in PrePrompt =>
         wk[w].pc \in PrePrompt /\ wk'[w].key = wk[w].key

Moves == QueueMoves /\ WorkerMoves /\ UNCHANGED prompts

\* A step that moves the queue and the workers so keeps the invariant.
LEMMA MovesKeep ==
    ASSUME DeliveryInv, Moves, ReconShape'
    PROVE  DeliveryInv'
<1>1. Shape' /\ Quiet
  BY DEF DeliveryInv, Shape, Moves, QueueMoves, WorkerMoves, Quiet
<1> QED BY <1>1, QuietStep

\* A step that leaves the rows and the deliveries alone keeps the shape of the queue.
LEMMA QueueStays ==
    ASSUME Shape, UNCHANGED sub
    PROVE  QueueMoves
  BY DEF Shape, QueueMoves, QueueShape, SeqBounded

\* A step that leaves the workers alone keeps their shape.
LEMMA WorkersStay ==
    ASSUME Shape, UNCHANGED wk
    PROVE  WorkerMoves
  BY DEF Shape, WorkerMoves, WorkerShape

\* Rewriting one row of the queue in its place.
LEMMA RowWrite ==
    ASSUME Shape, NEW k \in Keys, NEW row,
           "status" \in DOMAIN row, "seq" \in DOMAIN row,
           row.seq = sub[k].seq, row.status \in Status,
           sub[k].status \notin Unsent => row.status \notin Unsent,
           sub' = [sub EXCEPT ![k] = row]
    PROVE  QueueMoves
<1>1. \A j \in Keys : sub'[j] = IF j = k THEN row ELSE sub[j]
  BY DEF Shape, QueueShape
<1>2. QueueShape'
  BY <1>1 DEF Shape, QueueShape
<1>3. \A j \in Keys : sub'[j].seq = sub[j].seq
  BY <1>1
<1>4. SeqBounded'
  BY <1>3 DEF Shape, SeqBounded
<1> QED BY <1>1, <1>2, <1>4 DEF QueueMoves

\* The worker that drives a message changes its status.
LEMMA StatusWrite ==
    ASSUME Shape, NEW k \in Keys, NEW to \in Status,
           sub[k].status \notin Unsent => to \notin Unsent,
           sub' = [sub EXCEPT ![k] = [sub[k] EXCEPT !.status = to]]
    PROVE  QueueMoves
<1> DEFINE row == [sub[k] EXCEPT !.status = to]
<1>1. "status" \in DOMAIN row /\ "seq" \in DOMAIN row /\ row.seq = sub[k].seq /\ row.status = to
  BY DEF Shape, QueueShape
<1> HIDE DEF row
<1> QED BY <1>1, RowWrite DEF row

\* A worker that enters another step of the drive, short of the boundary.
LEMMA EnterMoves ==
    ASSUME Shape, NEW w \in Workers, wk[w].pc \notin Keyless,
           NEW p \in WorkerPc, p \notin PrePrompt, Enter(w, p)
    PROVE  WorkerMoves
  BY DEF Shape, WorkerShape, WorkerMoves, Enter, Keyless, PrePrompt

\* A worker that goes back to the head of the queue (drive_submission returned).
LEMMA ReturnMoves ==
    ASSUME Shape, NEW w \in Workers, Return(w)
    PROVE  WorkerMoves
  BY DEF Shape, WorkerShape, WorkerMoves, Return, OffWorker, WorkerPc, Keyless, PrePrompt

\* A conditional status write of the drive, and the conflict when it is lost.
LEMMA AdvanceMoves ==
    ASSUME Shape, NEW w \in Workers, wk[w].pc \notin Keyless,
           NEW from, NEW to \in Status, from \in Unsent \/ to \notin Unsent,
           Advance(w, from, to, Return(w))
    PROVE  QueueMoves /\ WorkerMoves
<1>1. Key(w) \in Keys
  BY DEF Shape, WorkerShape, Key
<1>2. CASE Row(w).status = from
  <2>1. sub' = [sub EXCEPT ![Key(w)] = [sub[Key(w)] EXCEPT !.status = to]] /\ Return(w)
    BY <1>2 DEF Advance, Write, Row
  <2>2. QueueMoves
    BY <1>1, <1>2, <2>1, StatusWrite DEF Row
  <2> QED BY <2>1, <2>2, ReturnMoves
<1>3. CASE Row(w).status # from
  <2>1. UNCHANGED sub /\ Enter(w, "terminalize")
    BY <1>3 DEF Advance, Write
  <2>2. "terminalize" \in WorkerPc /\ "terminalize" \notin PrePrompt
    BY DEF WorkerPc, PrePrompt
  <2> QED BY <2>1, <2>2, QueueStays, EnterMoves
<1> QED BY <1>2, <1>3

\* A write that rewrites a waiting message without moving it on.
LEMMA RewriteMoves ==
    ASSUME Shape, NEW w \in Workers, wk[w].pc \notin Keyless,
           NEW row, NEW p \in WorkerPc, p \notin PrePrompt,
           "status" \in DOMAIN row, "seq" \in DOMAIN row,
           row.seq = Row(w).seq, row.status = Row(w).status,
           Write(w, "awaiting", row, Enter(w, p))
    PROVE  QueueMoves /\ WorkerMoves
<1>1. Key(w) \in Keys
  BY DEF Shape, WorkerShape, Key
<1>2. CASE Row(w).status = "awaiting"
  <2>1. sub' = [sub EXCEPT ![Key(w)] = row] /\ Enter(w, p)
    BY <1>2 DEF Write
  <2>2. QueueMoves
    BY <1>1, <2>1, RowWrite DEF Row, Shape, QueueShape
  <2> QED BY <2>1, <2>2, EnterMoves
<1>3. CASE Row(w).status # "awaiting"
  <2>1. UNCHANGED sub /\ Enter(w, "terminalize")
    BY <1>3 DEF Write
  <2>2. "terminalize" \in WorkerPc /\ "terminalize" \notin PrePrompt
    BY DEF WorkerPc, PrePrompt
  <2> QED BY <2>1, <2>2, QueueStays, EnterMoves
<1> QED BY <1>2, <1>3

-----------------------------------------------------------------------------
(* The steps of a worker. *)

\* Steps that only move the worker: TakeHead finds an open message to drive.
LEMMA TakeHeadMoves ==
    ASSUME Shape, NEW w \in Workers, TakeHead(w)
    PROVE  Moves
<1> DEFINE p == IF OpenKeys = {} THEN "exit" ELSE DriveStart[sub[HeadKey].status]
           k == IF OpenKeys = {} THEN NoKey ELSE HeadKey
<1>1. wk' = [wk EXCEPT ![w].pc = p, ![w].key = k] /\ UNCHANGED <<sub, prompts>>
  BY DEF TakeHead, storeVars, ghostVars
<1>2. p \in {"exit", "await", "dispatch", "redrive", "finish"} /\ (p # "exit" => k \in Keys)
  <2>1. CASE OpenKeys = {}
    BY <2>1
  <2>2. CASE OpenKeys # {}
    <3>1. HeadKey \in Keys /\ sub[HeadKey].status \in {"awaiting", "ready", "about", "dispatched"}
      BY <2>2, HeadKeyIsFirst DEF Shape, QueueShape, OpenKeys, Status, Queued, Terminal
    <3> QED BY <2>2, <3>1 DEF DriveStart
  <2> QED BY <2>1, <2>2
<1>3. WorkerMoves
  <2> HIDE DEF p, k
  <2> QED BY <1>1, <1>2 DEF Shape, WorkerShape, WorkerMoves, WorkerPc, StoragePcs, Keyless, PrePrompt
<1> QED BY <1>1, <1>3, QueueStays DEF Moves

\* The loop of drain_session: every step outside the runtime wait and the dispatch.
LEMMA DrainMoves ==
    ASSUME Shape, NEW w \in Workers,
           \/ TakeHead(w) \/ Unwatch(w) \/ Terminalize(w) \/ Redrive(w) \/ Finish(w)
           \/ StorageError(w)
    PROVE  Moves
<1>1. CASE TakeHead(w)
  BY <1>1, TakeHeadMoves
<1>2. CASE Unwatch(w)
  <2>1. WorkerMoves
    BY <1>2 DEF Unwatch, Shape, WorkerShape, WorkerMoves, OffWorker, WorkerPc, Keyless, PrePrompt
  <2> QED BY <1>2, <2>1, QueueStays DEF Unwatch, storeVars, ghostVars, Moves
<1>3. CASE Terminalize(w)
  <2>1. WorkerMoves /\ UNCHANGED prompts
    BY <1>3 DEF Terminalize, ghostVars, Shape, WorkerShape, WorkerMoves, OffWorker, WorkerPc,
                Keyless, PrePrompt
  <2>2. Key(w) \in Keys
    BY <1>3 DEF Terminalize, At, Key, Shape, WorkerShape, Keyless
  <2>3. GivenUp(Row(w).status) \in Status /\ (GivenUp(Row(w).status) \in Unsent => Row(w).status = "absent")
    BY <2>2 DEF GivenUp, Row, Shape, QueueShape, Status, Terminal, Queued, Unsent
  <2>4. \/ sub' = [sub EXCEPT ![Key(w)] = [sub[Key(w)] EXCEPT !.status = GivenUp(Row(w).status)]]
        \/ UNCHANGED sub
    BY <1>3 DEF Terminalize
  <2>5. QueueMoves
    BY <2>2, <2>3, <2>4, StatusWrite, QueueStays DEF Row, Unsent
  <2> QED BY <2>1, <2>5 DEF Moves
<1>4. CASE Redrive(w)
  <2>1. Advance(w, "about", "ambiguous", Return(w)) /\ wk[w].pc \notin Keyless /\ UNCHANGED prompts
    BY <1>4 DEF Redrive, At, Keyless, ghostVars
  <2>2. "ambiguous" \in Status /\ "ambiguous" \notin Unsent
    BY DEF Status, Terminal, Queued, Unsent
  <2> QED BY <2>1, <2>2, AdvanceMoves DEF Moves
<1>5. CASE Finish(w)
  <2>1. Advance(w, "dispatched", "completed", Return(w)) /\ wk[w].pc \notin Keyless /\ UNCHANGED prompts
    BY <1>5 DEF Finish, At, Keyless, ghostVars
  <2>2. "completed" \in Status /\ "completed" \notin Unsent
    BY DEF Status, Terminal, Queued, Unsent
  <2> QED BY <2>1, <2>2, AdvanceMoves DEF Moves
<1>6. CASE StorageError(w)
  <2>1. wk[w].pc \notin Keyless /\ UNCHANGED <<sub, prompts>>
    BY <1>6 DEF StorageError, StoragePcs, Keyless, storeVars, ghostVars
  <2>2. CASE Enter(w, "terminalize")
    <3>1. "terminalize" \in WorkerPc /\ "terminalize" \notin PrePrompt
      BY DEF WorkerPc, PrePrompt
    <3> QED BY <2>1, <2>2, <3>1, EnterMoves, QueueStays DEF Moves
  <2>3. CASE wk' = [wk EXCEPT ![w] = [OffWorker EXCEPT !.pc = "head", !.fails = wk[w].fails + 1]]
    <3>1. WorkerMoves
      BY <2>3 DEF Shape, WorkerShape, WorkerMoves, OffWorker, WorkerPc, Keyless, PrePrompt
    <3> QED BY <2>1, <3>1, QueueStays DEF Moves
  <2> QED BY <1>6, <2>2, <2>3 DEF StorageError
<1> QED BY <1>1, <1>2, <1>3, <1>4, <1>5, <1>6

\* The steps of await_runtime.
LEMMA AwaitRuntimeMoves ==
    ASSUME Shape, NEW w \in Workers, AwaitRuntime(w)
    PROVE  Moves
<1>1. wk[w].pc \notin Keyless /\ Key(w) \in Keys /\ UNCHANGED prompts
  BY DEF AwaitRuntime, ReadSelection, Normalize, ForceFresh, ReserveFresh, AwaitFresh, RuntimeReady,
         HandleTerminalSwitch, RuntimeUnavailable, JoinPending, RequestRuntime, ReadRequested,
         Adopt, LinkSwitch, Unlinked, Deciding, At, Keyless, Key, Shape, WorkerShape, ghostVars
<1>2. ASSUME NEW p \in {"await", "decide", "reserve", "fresh", "emit", "link", "terminalize"}
      PROVE  p \in WorkerPc /\ p \notin PrePrompt /\ p \notin Keyless
  BY DEF WorkerPc, StoragePcs, PrePrompt, Keyless
<1>3. CASE ReadSelection(w)
  <2>1. WorkerMoves
    BY <1>1, <1>3, ReturnMoves DEF ReadSelection, Shape, WorkerShape, WorkerMoves, WorkerPc, StoragePcs, Keyless, PrePrompt
  <2> QED BY <1>1, <1>3, <2>1, QueueStays DEF ReadSelection, storeVars, Moves
<1>4. CASE ForceFresh(w)
  <2>1. WorkerMoves
    BY <1>1, <1>4 DEF ForceFresh, Shape, WorkerShape, WorkerMoves, WorkerPc, StoragePcs, Keyless, PrePrompt
  <2> QED BY <1>1, <1>4, <2>1, QueueStays DEF ForceFresh, storeVars, Moves
<1>5. CASE ReserveFresh(w) \/ AwaitFresh(w) \/ JoinPending(w) \/ RequestRuntime(w)
  <2>1. UNCHANGED sub
    BY <1>5 DEF ReserveFresh, AwaitFresh, JoinPending, RequestRuntime, storeVars
  <2>2. \/ Enter(w, "fresh") \/ Enter(w, "await") \/ Enter(w, "terminalize")
        \/ Enter(w, "emit") \/ Enter(w, "link")
    BY <1>5 DEF ReserveFresh, AwaitFresh, JoinPending, RequestRuntime
  <2> QED BY <1>1, <1>2, <2>1, <2>2, EnterMoves, QueueStays DEF Moves
<1>6. CASE ReadRequested(w)
  <2>1. WorkerMoves
    BY <1>1, <1>6 DEF ReadRequested, Shape, WorkerShape, WorkerMoves, WorkerPc, StoragePcs, Keyless, PrePrompt
  <2> QED BY <1>1, <1>6, <2>1, QueueStays DEF ReadRequested, storeVars, Moves
<1>7. CASE Normalize(w) \/ Adopt(w)
  <2>1. PICK d : \/ Write(w, "awaiting", [Row(w) EXCEPT !.desired = d], Enter(w, "await"))
                 \/ Write(w, "awaiting", [Row(w) EXCEPT !.desired = d], Enter(w, "link"))
    <3>1. CASE Normalize(w)
      <4>1. Write(w, "awaiting", [Row(w) EXCEPT !.desired = Resolve[Row(w).desired]], Enter(w, "await"))
        BY <3>1 DEF Normalize
      <4> QED BY <4>1
    <3>2. CASE Adopt(w)
      <4>1. Write(w, "awaiting", [Row(w) EXCEPT !.desired = Snap(w).desired], Enter(w, "link"))
        BY <3>2 DEF Adopt
      <4> QED BY <4>1
    <3> QED BY <1>7, <3>1, <3>2
  <2> DEFINE row == [Row(w) EXCEPT !.desired = d]
  <2>2. "status" \in DOMAIN row /\ "seq" \in DOMAIN row /\ row.seq = Row(w).seq /\ row.status = Row(w).status
    BY <1>1 DEF Row, Shape, QueueShape
  <2>3. QueueMoves /\ WorkerMoves
    <3> HIDE DEF row
    <3>1. Write(w, "awaiting", row, Enter(w, "await")) \/ Write(w, "awaiting", row, Enter(w, "link"))
      BY <2>1 DEF row
    <3> QED BY <1>1, <1>2, <2>2, <3>1, RewriteMoves
  <2> QED BY <1>1, <2>3 DEF Moves
<1>8. CASE LinkSwitch(w)
  <2> DEFINE row == [Row(w) EXCEPT !.link = Snap(w).pending]
  <2>1. \/ (Enter(w, "await") \/ Enter(w, "terminalize")) /\ UNCHANGED sub
        \/ Write(w, "awaiting", row, Enter(w, "await"))
    BY <1>8 DEF LinkSwitch
  <2>2. "status" \in DOMAIN row /\ "seq" \in DOMAIN row /\ row.seq = Row(w).seq /\ row.status = Row(w).status
    BY <1>1 DEF Row, Shape, QueueShape
  <2>3. QueueMoves /\ WorkerMoves
    <3> HIDE DEF row
    <3> QED BY <1>1, <1>2, <2>1, <2>2, RewriteMoves, EnterMoves, QueueStays
  <2> QED BY <1>1, <2>3 DEF Moves
<1>9. CASE RuntimeReady(w) \/ HandleTerminalSwitch(w) \/ RuntimeUnavailable(w)
  <2>1. \A status, desired : AfterSwitch(status, desired) \in {"cancelled", "ready", "failed"}
    BY DEF AfterSwitch
  <2>2. \/ \E to \in {"cancelled", "ready", "failed"} : Advance(w, "awaiting", to, Return(w))
        \/ Enter(w, "await") /\ UNCHANGED sub
    BY <1>9, <2>1 DEF RuntimeReady, HandleTerminalSwitch, RuntimeUnavailable
  <2>3. "awaiting" \in Unsent /\ {"cancelled", "ready", "failed"} \subseteq Status
    BY DEF Unsent, Queued, Status, Terminal
  <2>4. QueueMoves /\ WorkerMoves
    BY <1>1, <1>2, <2>2, <2>3, AdvanceMoves, EnterMoves, QueueStays
  <2> QED BY <1>1, <2>4 DEF Moves
<1> QED BY <1>3, <1>4, <1>5, <1>6, <1>7, <1>8, <1>9 DEF AwaitRuntime

\* The steps of dispatch, except the no-replay boundary.
LEMMA DispatchMoves ==
    ASSUME Shape, NEW w \in Workers,
           \/ PauseDispatch(w) \/ CheckRuntime(w) \/ MaterializeFails(w)
           \/ RecordReturned(w) \/ Classify(w) \/ RecordPersisted(w)
           \/ FailAfterDispatch(w) \/ Unclassified(w)
    PROVE  Moves
<1>1. wk[w].pc \notin Keyless /\ Key(w) \in Keys /\ UNCHANGED prompts
  BY DEF PauseDispatch, CheckRuntime, MaterializeFails, RecordReturned, Classify,
         RecordPersisted, FailAfterDispatch, Unclassified, At, Keyless, Key, Shape,
         WorkerShape, ghostVars
<1>2. ASSUME NEW p \in {"check", "mark", "finish", "complete", "failAfter", "unknown", "terminalize"}
      PROVE  p \in WorkerPc /\ p \notin PrePrompt /\ p \notin Keyless
  BY DEF WorkerPc, StoragePcs, PrePrompt, Keyless
<1>3. CASE PauseDispatch(w) \/ MaterializeFails(w)
  <2>1. (Enter(w, "check") \/ Enter(w, "terminalize")) /\ UNCHANGED sub
    BY <1>3 DEF PauseDispatch, MaterializeFails, storeVars
  <2> QED BY <1>1, <1>2, <2>1, EnterMoves, QueueStays DEF Moves
<1>4. CASE CheckRuntime(w)
  <2>1. CASE Advance(w, "ready", "awaiting", Return(w))
    <3>1. "ready" \in Unsent /\ "awaiting" \in Status
      BY DEF Unsent, Queued, Status
    <3> QED BY <1>1, <2>1, <3>1, AdvanceMoves DEF Moves
  <2>2. CASE UNCHANGED sub /\ wk' = [wk EXCEPT ![w].pc = "mark", ![w].start = Len(timeline)]
    <3>1. WorkerMoves
      BY <1>1, <2>2 DEF Shape, WorkerShape, WorkerMoves, WorkerPc, StoragePcs, Keyless, PrePrompt
    <3> QED BY <1>1, <2>2, <3>1, QueueStays DEF Moves
  <2> QED BY <1>4, <2>1, <2>2 DEF CheckRuntime
<1>5. CASE Classify(w)
  <2> DEFINE verdict == PersistedResult(timeline, Key(w), wk[w].start, Len(timeline))
  <2>1. verdict \in {"completed", "failed", "unknown"}
    BY DEF PersistedResult, EndVerdict
  <2>2. PICK p \in {"complete", "failAfter", "unknown"} :
          wk' = [wk EXCEPT ![w].end = Len(timeline), ![w].pc = p]
    <3> HIDE DEF verdict
    <3>1. wk' = [wk EXCEPT ![w].end = Len(timeline),
                   ![w].pc = CASE verdict = "completed" -> "complete"
                               [] verdict = "failed" -> "failAfter"
                               [] verdict = "unknown" -> "unknown"]
      BY <1>5 DEF Classify, verdict
    <3>2. CASE verdict = "completed"
      BY <3>1, <3>2
    <3>3. CASE verdict = "failed"
      BY <3>1, <3>3
    <3>4. CASE verdict = "unknown"
      BY <3>1, <3>4
    <3> QED BY <2>1, <3>2, <3>3, <3>4
  <2>3. WorkerMoves
    BY <1>1, <1>2, <2>2 DEF Shape, WorkerShape, WorkerMoves
  <2> QED BY <1>1, <1>5, <2>3, QueueStays DEF Classify, storeVars, Moves
<1>6. CASE Unclassified(w)
  <2>1. \E to \in {"failed", "ambiguous"} : Advance(w, "about", to, Return(w))
    BY <1>6 DEF Unclassified
  <2>2. {"failed", "ambiguous"} \subseteq Status /\ "failed" \notin Unsent /\ "ambiguous" \notin Unsent
    BY DEF Unsent, Queued, Status, Terminal
  <2> QED BY <1>1, <2>1, <2>2, AdvanceMoves DEF Moves
<1>7. CASE RecordReturned(w) \/ RecordPersisted(w) \/ FailAfterDispatch(w)
  <2> DEFINE rowOf(to, first, last) ==
               [Row(w) EXCEPT !.status = to, !.first = first, !.last = last, !.sent = TRUE]
             outcome(to, first, last) ==
               \/ /\ sub' = [sub EXCEPT ![Key(w)] = rowOf(to, first, last)]
                  /\ Enter(w, "finish") \/ Return(w)
               \/ UNCHANGED sub /\ Enter(w, "terminalize")
  <2>1. \E to \in {"dispatched", "failed"} : \E first, last : outcome(to, first, last)
    <3>1. CASE RecordReturned(w)
      BY <3>1 DEF RecordReturned, Write, Recorded
    <3>2. CASE RecordPersisted(w)
      BY <3>2 DEF RecordPersisted, Recorded
    <3>3. CASE FailAfterDispatch(w)
      BY <3>3 DEF FailAfterDispatch
    <3> QED BY <1>7, <3>1, <3>2, <3>3
  <2>2. PICK to \in {"dispatched", "failed"} : \E first, last : outcome(to, first, last)
    BY <2>1
  <2>3. PICK first, last : outcome(to, first, last)
    BY <2>2
  <2> DEFINE row == rowOf(to, first, last)
  <2>4. "status" \in DOMAIN row /\ "seq" \in DOMAIN row /\ row.seq = Row(w).seq /\ row.status = to
    BY <1>1 DEF Row, Shape, QueueShape
  <2>5. to \in Status /\ to \notin Unsent
    BY DEF Unsent, Queued, Status, Terminal
  <2>6. \/ sub' = [sub EXCEPT ![Key(w)] = row] /\ (Enter(w, "finish") \/ Return(w))
        \/ UNCHANGED sub /\ Enter(w, "terminalize")
    BY <2>3
  <2>7. QueueMoves
    <3> HIDE DEF row
    <3> QED BY <1>1, <2>4, <2>5, <2>6, RowWrite, QueueStays DEF Row
  <2> QED BY <1>1, <1>2, <2>6, <2>7, EnterMoves, ReturnMoves DEF Moves
<1> QED BY <1>3, <1>4, <1>5, <1>6, <1>7

\* The steps of run_agent_turn, except the prompt.
LEMMA TurnMoves ==
    ASSUME Shape, NEW w \in Workers,
           \/ AdmitTurn(w) \/ ClaimRunningTurn(w) \/ AdmissionError(w)
           \/ AppendUserBoundary(w)
           \/ PrepareTurn(w) \/ PrepareFails(w)
           \/ StreamOutput(w) \/ TurnReturns(w) \/ TurnFails(w)
    PROVE  Moves
<1>1. UNCHANGED <<sub, prompts>>
  BY DEF AdmitTurn, ClaimRunningTurn, AdmissionError, AppendUserBoundary, PrepareTurn, PrepareFails,
         StreamOutput, TurnReturns, TurnFails, storeVars, ghostVars
<1>2. WorkerMoves
  <2>1. CASE AdmitTurn(w)
    BY <2>1 DEF AdmitTurn, At, Enter, Shape, WorkerShape, WorkerMoves, WorkerPc, StoragePcs, Keyless, PrePrompt
  <2>2. CASE ClaimRunningTurn(w) \/ AdmissionError(w)
    BY <2>2 DEF ClaimRunningTurn, AdmissionError, At, Enter, Shape, WorkerShape, WorkerMoves, WorkerPc, StoragePcs, Keyless, PrePrompt
  <2>3. CASE AppendUserBoundary(w)
    BY <2>3, SMTT(30) DEF AppendUserBoundary, At, Enter, Shape, WorkerShape, WorkerMoves, WorkerPc, StoragePcs, Keyless, PrePrompt
  <2>4. CASE PrepareTurn(w) \/ PrepareFails(w)
    BY <2>4 DEF PrepareTurn, PrepareFails, At, Enter, Shape, WorkerShape, WorkerMoves, WorkerPc, StoragePcs, Keyless, PrePrompt
  <2>5. CASE StreamOutput(w)
    BY <2>5, WorkersStay DEF StreamOutput
  <2>6. CASE TurnReturns(w) \/ TurnFails(w)
    BY <2>6 DEF TurnReturns, TurnFails, At, Enter, Shape, WorkerShape, WorkerMoves, WorkerPc, StoragePcs, Keyless, PrePrompt
  <2> QED BY <2>1, <2>2, <2>3, <2>4, <2>5, <2>6
<1> QED BY <1>1, <1>2, QueueStays DEF Moves

-----------------------------------------------------------------------------
(* Everything else that touches the queue or the workers. *)

\* start_session_worker: at most one idle slot enters the loop.
LEMMA StartWorkerMoves ==
    ASSUME Shape, StartWorker
    PROVE  WorkerMoves
<1>1. CASE UNCHANGED wk
  BY <1>1, WorkersStay
<1>2. CASE \E w \in Workers : wk[w].pc = "off" /\ wk' = [wk EXCEPT ![w].pc = "head"]
  BY <1>2 DEF Shape, WorkerShape, WorkerMoves, WorkerPc, Keyless, PrePrompt
<1> QED BY <1>1, <1>2 DEF StartWorker

\* A new row at the end of the queue, replacing no message that left it.
LEMMA NewRowMoves ==
    ASSUME Shape, NEW k \in Keys, sub[k].status = "absent",
           DOMAIN sub' = Keys,
           {"status", "seq"} \subseteq DOMAIN sub'[k],
           sub'[k].status = "awaiting", sub'[k].seq = NextSequence,
           \A j \in Keys \ {k} : \/ sub'[j] = sub[j]
                                 \/ sub'[j] = [sub[j] EXCEPT !.status = "cancelled"]
    PROVE  QueueMoves
<1>1. NextSequence \in Nat /\ \A j \in Keys : sub[j].seq < NextSequence
  BY NextSequenceIsNew DEF Shape
<1>2. ASSUME NEW j \in Keys
      PROVE  /\ {"status", "seq"} \subseteq DOMAIN sub'[j]
             /\ sub'[j].seq \in Nat /\ sub'[j].seq <= NextSequence
             /\ sub'[j].status \in Status
             /\ sub[j].status \notin Unsent => sub'[j].status \notin Unsent
  BY <1>1 DEF Shape, QueueShape, Status, Terminal, Queued, Unsent
<1> QED BY <1>1, <1>2 DEF QueueMoves, QueueShape, SeqBounded

\* enqueue: a new row, or the row of the key as it is.
LEMMA EnqueueMoves ==
    ASSUME Shape, NEW k \in Keys, NEW fresh, Enqueue(k, fresh)
    PROVE  QueueMoves
<1>1. CASE sub[k].status = "absent"
  <2> DEFINE row == [NoRow EXCEPT !.status = "awaiting", !.seq = NextSequence,
                                  !.desired = Wanted[k], !.fresh = fresh]
  <2>1. sub' = [sub EXCEPT ![k] = row]
    BY <1>1 DEF Enqueue
  <2>2. {"status", "seq"} \subseteq DOMAIN row /\ row.status = "awaiting" /\ row.seq = NextSequence
    BY DEF NoRow
  <2>3. DOMAIN sub' = Keys /\ sub'[k] = row /\ \A j \in Keys \ {k} : sub'[j] = sub[j]
    <3> HIDE DEF row
    <3> QED BY <2>1 DEF Shape, QueueShape
  <2> HIDE DEF row
  <2> QED BY <1>1, <2>2, <2>3, NewRowMoves
<1>2. CASE sub[k].status # "absent"
  BY <1>2, QueueStays DEF Enqueue
<1> QED BY <1>1, <1>2

\* replace_latest_user_message: a new row, and superseded rows that were completed.
LEMMA EditMoves ==
    ASSUME Shape, NEW k \in Keys, Edit(k)
    PROVE  QueueMoves
<1>1. CASE sub[k].status # "absent"
  BY <1>1, EnqueueMoves DEF Edit
<1>2. CASE sub[k].status = "absent"
  <2> DEFINE row == [NoRow EXCEPT !.status = "awaiting", !.seq = NextSequence,
                                  !.desired = Wanted[k], !.fresh = TRUE]
             cut == MaxOf(Users(timeline, 0, Len(timeline)))
  <2>1. sub' = [j \in Keys |->
            IF j = k THEN row
            ELSE IF SupersededByEdit(j, cut) THEN [sub[j] EXCEPT !.status = "cancelled"]
            ELSE sub[j]]
    BY <1>2, Zenon DEF Edit
  <2>2. {"status", "seq"} \subseteq DOMAIN row /\ row.status = "awaiting" /\ row.seq = NextSequence
    BY DEF NoRow
  <2>3. /\ DOMAIN sub' = Keys /\ sub'[k] = row
        /\ \A j \in Keys \ {k} : \/ sub'[j] = sub[j]
                                 \/ sub'[j] = [sub[j] EXCEPT !.status = "cancelled"]
    <3> HIDE DEF row, cut
    <3> QED BY <2>1
  <2> HIDE DEF row, cut
  <2> QED BY <1>2, <2>2, <2>3, NewRowMoves
<1> QED BY <1>1, <1>2

\* Cancelling queued messages, whichever and for whatever reason.
LEMMA CancelMoves ==
    ASSUME Shape, DOMAIN sub' = Keys,
           \A k \in Keys : \/ sub'[k] = sub[k]
                           \/ /\ {"status", "seq"} \subseteq DOMAIN sub'[k]
                              /\ sub'[k].status = "cancelled" /\ sub'[k].seq = sub[k].seq
    PROVE  QueueMoves
<1>1. ASSUME NEW k \in Keys
      PROVE  /\ {"status", "seq"} \subseteq DOMAIN sub'[k]
             /\ sub'[k].seq = sub[k].seq
             /\ sub'[k].status \in Status
             /\ sub[k].status \notin Unsent => sub'[k].status \notin Unsent
  BY DEF Shape, QueueShape, Status, Terminal, Queued, Unsent
<1>2. SeqBounded'
  BY <1>1 DEF Shape, SeqBounded
<1> QED BY <1>1, <1>2 DEF Shape, QueueMoves, QueueShape

\* cancel_before_dispatch: queued rows become final.
LEMMA CancelBeforeDispatchMoves ==
    ASSUME Shape, NEW Q, CancelBeforeDispatch(Q)
    PROVE  QueueMoves
<1>0. PICK place \in [Q -> 1..Cardinality(Q)] :
         sub' = [k \in Keys |->
           IF k \in Q THEN [sub[k] EXCEPT !.status = "cancelled",
             !.first = Len(timeline) + place[k], !.last = Len(timeline) + place[k]]
           ELSE sub[k]]
  BY Zenon DEF CancelBeforeDispatch
<1> DEFINE row(k) == [sub[k] EXCEPT !.status = "cancelled",
                        !.first = Len(timeline) + place[k], !.last = Len(timeline) + place[k]]
<1>1. sub' = [k \in Keys |-> IF k \in Q THEN row(k) ELSE sub[k]]
  BY <1>0
<1>2. ASSUME NEW k \in Keys
      PROVE  {"status", "seq"} \subseteq DOMAIN row(k) /\ row(k).status = "cancelled" /\ row(k).seq = sub[k].seq
  BY DEF Shape, QueueShape
<1> HIDE DEF row
<1>3. /\ DOMAIN sub' = Keys
      /\ \A k \in Keys : \/ sub'[k] = sub[k]
                         \/ /\ {"status", "seq"} \subseteq DOMAIN sub'[k]
                            /\ sub'[k].status = "cancelled" /\ sub'[k].seq = sub[k].seq
  BY <1>1, <1>2
<1> QED BY <1>3, CancelMoves

\* cancel_for_switch: the queued rows of the cancelled switch become final.
LEMMA CancelForSwitchMoves ==
    ASSUME Shape, CancelForSwitch
    PROVE  QueueMoves
<1>1. sub' = [k \in Keys |->
         IF sub[k].link = dropping /\ sub[k].status \in Queued
         THEN [sub[k] EXCEPT !.status = "cancelled"] ELSE sub[k]]
  BY DEF CancelForSwitch
<1>2. /\ DOMAIN sub' = Keys
      /\ \A k \in Keys : \/ sub'[k] = sub[k]
                         \/ /\ {"status", "seq"} \subseteq DOMAIN sub'[k]
                            /\ sub'[k].status = "cancelled" /\ sub'[k].seq = sub[k].seq
  BY <1>1 DEF Shape, QueueShape
<1> QED BY <1>2, CancelMoves

\* A crash and restart: no worker survives, every row does.
LEMMA CrashMoves ==
    ASSUME Shape, CrashRestart
    PROVE  Moves /\ ReconShape'
<1>1. WorkerMoves
  BY DEF CrashRestart, Shape, WorkerShape, WorkerMoves, OffWorker, WorkerPc, Keyless, PrePrompt
<1>2. QueueMoves /\ UNCHANGED prompts
  BY QueueStays DEF CrashRestart, ghostVars
<1>3. recon'.todo = {}
  BY DEF CrashRestart
<1> QED BY <1>1, <1>2, <1>3 DEF Moves, ReconShape

\* reconcile_on_startup: rows past the boundary become final, queued ones stay.
LEMMA ReconcileMoves ==
    ASSUME Shape, ReconShape, Reconcile
    PROVE  Moves /\ ReconShape'
<1>1. CASE ReconcileList
  <2>1. UNCHANGED <<sub, wk, prompts>>
    BY <1>1 DEF ReconcileList, storeVars, ghostVars
  <2>2. recon'.todo \in {{}, {[key |-> k, status |-> sub[k].status] : k \in OpenKeys}}
    BY <1>1 DEF ReconcileList, ReconTo
  <2>3. ReconShape'
    BY <2>2 DEF ReconShape, OpenKeys, Shape, QueueShape, Status, Queued, Terminal
  <2> QED BY <2>1, <2>3, QueueStays, WorkersStay DEF Moves
<1>2. CASE ReconcileRow
  <2> DEFINE e == CHOOSE x \in recon.todo :
                    \A y \in recon.todo : sub[x.key].seq <= sub[y.key].seq
             S == {sub[x.key].seq : x \in recon.todo}
  <2>1. S \subseteq Nat /\ S # {}
    BY <1>2 DEF ReconcileRow, ReconShape, Shape, QueueShape
  <2>2. PICK m \in S : \A n \in S : m <= n
    <3> HIDE DEF S
    <3> QED BY <2>1, NatMin
  <2>3. \E x \in recon.todo : \A y \in recon.todo : sub[x.key].seq <= sub[y.key].seq
    BY <2>2
  <2>4. e \in recon.todo
    BY <2>3
  <2>5. /\ \/ UNCHANGED sub
           \/ /\ e.status \notin Queued /\ AsListed(e)
              /\ sub' = [sub EXCEPT ![e.key].status = Reconciled[e.status]]
        /\ recon'.todo \in {{}, recon.todo \ {e}}
        /\ UNCHANGED <<wk, prompts>>
    <3>1. \/ ReconTo("step", recon.todo \ {e}) /\ UNCHANGED sub
          \/ /\ e.status \notin Queued /\ AsListed(e)
             /\ sub' = [sub EXCEPT ![e.key].status = Reconciled[e.status]]
             /\ ReconTo("step", recon.todo \ {e})
          \/ ReconTo("done", {}) /\ UNCHANGED sub
      BY <1>2, Zenon DEF ReconcileRow
    <3>2. UNCHANGED <<wk, prompts>>
      BY <1>2 DEF ReconcileRow, ghostVars
    <3> HIDE DEF e
    <3> QED BY <3>1, <3>2 DEF ReconTo
  <2> HIDE DEF e
  <2>6. ReconShape'
    BY <2>5 DEF ReconShape
  <2>7. CASE /\ e.status \notin Queued /\ AsListed(e)
             /\ sub' = [sub EXCEPT ![e.key].status = Reconciled[e.status]]
    <3>1. e.key \in Keys /\ e.status \in {"about", "dispatched"} /\ sub[e.key].status = e.status
      BY <2>4, <2>7 DEF ReconShape, AsListed
    <3>2. Reconciled[e.status] \in Status /\ Reconciled[e.status] \notin Unsent
      BY <3>1 DEF Reconciled, Status, Terminal, Queued, Unsent
    <3> QED BY <2>5, <2>6, <2>7, <3>1, <3>2, StatusWrite, WorkersStay DEF Moves
  <2> QED BY <2>5, <2>6, <2>7, QueueStays, WorkersStay DEF Moves
<1>3. CASE ReconcileStart
  <2>1. UNCHANGED <<sub, prompts>> /\ recon'.todo = {}
    BY <1>3 DEF ReconcileStart, ReconTo, storeVars, ghostVars
  <2>2. WorkerMoves
    BY <1>3, StartWorkerMoves, WorkersStay DEF ReconcileStart
  <2> QED BY <2>1, <2>2, QueueStays DEF Moves, ReconShape
<1> QED BY <1>1, <1>2, <1>3 DEF Reconcile

-----------------------------------------------------------------------------
(* The two steps that are not quiet. *)

\* mark_about_to_prompt takes the message over the no-replay boundary.
LEMMA MarkKeeps ==
    ASSUME DeliveryInv, NEW w \in Workers, MarkAboutToPrompt(w)
    PROVE  DeliveryInv'
<1>1. wk[w].pc = "mark" /\ Key(w) \in Keys /\ UNCHANGED <<prompts, recon>>
  BY DEF MarkAboutToPrompt, At, ghostVars, taskVars, DeliveryInv, Shape, WorkerShape, Keyless, Key
<1>2. ReconShape' /\ Shape
  BY <1>1 DEF ReconShape, DeliveryInv
<1>3. CASE Enter(w, "terminalize") /\ UNCHANGED sub
  <2>1. "terminalize" \in WorkerPc /\ "terminalize" \notin PrePrompt /\ "mark" \notin Keyless
    BY DEF WorkerPc, PrePrompt, Keyless
  <2> QED BY <1>1, <1>2, <1>3, <2>1, EnterMoves, QueueStays, MovesKeep DEF Moves
<1>4. CASE /\ Row(w).status = "ready"
           /\ sub' = [sub EXCEPT ![Key(w)] = [sub[Key(w)] EXCEPT !.status = "about"]]
           /\ Enter(w, "admit")
  <2>1. "about" \in Status /\ "about" \notin Unsent /\ "ready" \in Unsent
    BY DEF Status, Queued, Terminal, Unsent
  <2>2. QueueMoves
    BY <1>1, <1>2, <1>4, <2>1, StatusWrite
  <2>3. /\ sub'[Key(w)].status = "about"
        /\ \A k \in Keys : k # Key(w) => sub'[k] = sub[k]
    BY <1>1, <1>2, <1>4 DEF Shape, QueueShape
  <2>4. /\ DOMAIN wk' = Workers /\ wk'[w].pc = "admit" /\ wk'[w].key = Key(w)
        /\ \A v \in Workers : v # w => wk'[v] = wk[v]
        /\ DOMAIN wk'[w] = DOMAIN wk[w]
    BY <1>2, <1>4 DEF Enter, Key, Shape, WorkerShape
  <2>5. Shape'
    BY <1>1, <1>2, <2>2, <2>4 DEF Shape, QueueMoves, WorkerShape, WorkerPc
  <2>6. prompts[Key(w)] = 0
    BY <1>1, <1>4, <2>1 DEF Row, DeliveryInv, PromptedIsSent, Shape
  <2>7. \A v \in Workers : wk[v].pc \in PrePrompt => wk[v].key # Key(w)
    BY <1>4, <2>1 DEF Row, DeliveryInv, Fenced
  <2>8. Fenced'
    <3> SUFFICES ASSUME NEW v \in Workers, wk'[v].pc \in PrePrompt
                 PROVE  sub'[wk'[v].key].status \notin Unsent /\ prompts'[wk'[v].key] = 0
      BY DEF Fenced
    <3>1. CASE v = w
      BY <1>1, <2>1, <2>3, <2>4, <2>6, <3>1
    <3>2. CASE v # w
      <4>1. wk[v].pc \in PrePrompt /\ wk[v].key # Key(w) /\ wk[v].key \in Keys /\ wk'[v] = wk[v]
        BY <1>2, <2>4, <2>7, <3>2 DEF Shape, WorkerShape, PrePrompt, Keyless
      <4> QED BY <1>1, <2>3, <4>1 DEF DeliveryInv, Fenced
    <3> QED BY <3>1, <3>2
  <2>9. OnePrompter'
    BY <2>4, <2>7 DEF DeliveryInv, OnePrompter
  <2> QED BY <1>1, <1>2, <2>2, <2>5, <2>8, <2>9
          DEF DeliveryInv, PromptedIsSent, AtMostOnce, QueueMoves
<1> QED BY <1>3, <1>4 DEF MarkAboutToPrompt, Advance, Write, Row

\* The prompt itself: the message was not received before, and the worker that
\* could have sent it has done so.
LEMMA DeliverKeeps ==
    ASSUME DeliveryInv, NEW w \in Workers, DeliverPrompt(w)
    PROVE  DeliveryInv'
<1>1. /\ wk[w].pc = "deliver" /\ Key(w) \in Keys /\ Shape /\ ReconShape'
      /\ UNCHANGED sub
      /\ prompts' = [prompts EXCEPT ![Key(w)] = @ + 1]
      /\ Enter(w, "stream")
  BY DEF DeliverPrompt, At, storeVars, taskVars, DeliveryInv, ReconShape, Shape, WorkerShape, Keyless, Key
<1>2. prompts[Key(w)] = 0 /\ sub[Key(w)].status \notin Unsent
  BY <1>1 DEF DeliveryInv, Fenced, PrePrompt, Key
<1>3. /\ prompts' \in [Keys -> Nat] /\ prompts'[Key(w)] = 1
      /\ \A k \in Keys : k # Key(w) => prompts'[k] = prompts[k]
  BY <1>1, <1>2 DEF Shape
<1>4. WorkerMoves
  <2>1. "stream" \in WorkerPc /\ "stream" \notin PrePrompt /\ "deliver" \notin Keyless
    BY DEF WorkerPc, PrePrompt, Keyless
  <2> QED BY <1>1, <2>1, EnterMoves
<1>5. wk'[w].pc = "stream" /\ \A v \in Workers : v # w => wk'[v] = wk[v]
  BY <1>1 DEF Enter, Shape, WorkerShape
<1>6. Shape'
  BY <1>1, <1>3, <1>4, QueueStays DEF Shape, WorkerMoves, QueueMoves
<1>7. Fenced'
  <2> SUFFICES ASSUME NEW v \in Workers, wk'[v].pc \in PrePrompt
               PROVE  sub'[wk'[v].key].status \notin Unsent /\ prompts'[wk'[v].key] = 0
    BY DEF Fenced
  <2>1. v # w
    BY <1>5 DEF PrePrompt
  <2>2. wk'[v] = wk[v] /\ wk[v].pc \in PrePrompt /\ wk[v].key \in Keys
    BY <1>1, <1>5, <2>1 DEF Shape, WorkerShape, PrePrompt, Keyless
  <2>3. wk[v].key # Key(w)
    BY <1>1, <2>1, <2>2 DEF DeliveryInv, OnePrompter, PrePrompt, Key
  <2> QED BY <1>1, <1>3, <2>2, <2>3 DEF DeliveryInv, Fenced
<1>8. OnePrompter'
  BY <1>5 DEF DeliveryInv, OnePrompter, PrePrompt
<1>9. PromptedIsSent' /\ AtMostOnce'
  BY <1>1, <1>2, <1>3 DEF DeliveryInv, PromptedIsSent, AtMostOnce
<1> QED BY <1>1, <1>6, <1>7, <1>8, <1>9 DEF DeliveryInv

-----------------------------------------------------------------------------
(* At most once. *)

\* The invariant holds of a session with an empty queue.
LEMMA DeliveryInit == Init => DeliveryInv
<1> SUFFICES ASSUME Init PROVE DeliveryInv
  OBVIOUS
<1>1. QueueShape
  BY DEF Init, QueueShape, NoRow, Status
<1>2. SeqBounded
  <2>1. \A k \in Keys : sub[k].seq <= 0
    BY DEF Init, NoRow
  <2> QED BY <2>1 DEF SeqBounded
<1>3. WorkerShape /\ \A w \in Workers : wk[w].pc \notin PrePrompt
  BY DEF Init, WorkerShape, OffWorker, WorkerPc, Keyless, PrePrompt
<1>4. prompts \in [Keys -> Nat] /\ \A k \in Keys : prompts[k] = 0
  BY DEF Init
<1>5. ReconShape
  BY DEF Init, ReconShape
<1> QED BY <1>1, <1>2, <1>3, <1>4, <1>5
        DEF DeliveryInv, Shape, Fenced, OnePrompter, PromptedIsSent, AtMostOnce

\* Every step of the system keeps the invariant.
LEMMA DeliveryNext == DeliveryInv /\ [Next]_vars => DeliveryInv'
<1> SUFFICES ASSUME DeliveryInv, [Next]_vars PROVE DeliveryInv'
  OBVIOUS
<1>0. Shape /\ ReconShape
  BY DEF DeliveryInv
<1>1. CASE UNCHANGED vars
  <2>1. UNCHANGED <<sub, wk, prompts, recon>>
    BY <1>1 DEF vars, storeVars, taskVars, ghostVars
  <2> QED BY <1>0, <2>1, QueueStays, WorkersStay, MovesKeep DEF Moves, ReconShape
<1>2. ASSUME NEW k \in Keys, Submit(k) \/ Edit(k) \/ Wait(k) \/ Answer(k) \/ StopExecution(k)
      PROVE  DeliveryInv'
  <2>1. UNCHANGED <<prompts, recon>>
    BY <1>2 DEF Submit, Edit, Wait, Answer, StopExecution, ghostVars, taskVars
  <2>2. QueueMoves
    BY <1>0, <1>2, EnqueueMoves, EditMoves, QueueStays DEF Submit, Wait, Answer, StopExecution, storeVars
  <2>3. WorkerMoves
    BY <1>0, <1>2, StartWorkerMoves, WorkersStay DEF Submit, Edit, Wait, Answer, StopExecution
  <2> QED BY <1>0, <2>1, <2>2, <2>3, MovesKeep DEF Moves, ReconShape
<1>3. ASSUME NEW w \in Workers, WorkerStep(w) \/ StorageError(w)
      PROVE  DeliveryInv'
  <2>1. CASE MarkAboutToPrompt(w)
    BY <2>1, MarkKeeps
  <2>2. CASE DeliverPrompt(w)
    BY <2>2, DeliverKeeps
  <2>3. CASE ~MarkAboutToPrompt(w) /\ ~DeliverPrompt(w)
    <3>1. Moves
      BY <1>0, <1>3, <2>3, DrainMoves, AwaitRuntimeMoves, DispatchMoves, TurnMoves
         DEF WorkerStep, DispatchMessage, RunAgentTurn
    <3>2. UNCHANGED recon
      <4>1. CASE TakeHead(w) \/ Unwatch(w) \/ Terminalize(w) \/ Redrive(w) \/ Finish(w) \/ StorageError(w)
        BY <4>1 DEF TakeHead, Unwatch, Terminalize, Redrive, Finish, StorageError, taskVars
      <4>2. CASE AwaitRuntime(w)
        BY <4>2 DEF AwaitRuntime, ReadSelection, Normalize, ForceFresh, ReserveFresh, AwaitFresh,
             RuntimeReady, HandleTerminalSwitch, RuntimeUnavailable, JoinPending, RequestRuntime,
             ReadRequested, Adopt, LinkSwitch, taskVars
      <4>3. CASE DispatchMessage(w)
        BY <4>3 DEF DispatchMessage, PauseDispatch, CheckRuntime, MarkAboutToPrompt, MaterializeFails,
             RecordReturned, Classify, RecordPersisted, FailAfterDispatch, Unclassified, taskVars
      <4>4. CASE RunAgentTurn(w)
        BY <4>4 DEF RunAgentTurn, AdmitTurn, ClaimRunningTurn, AdmissionError, AppendUserBoundary, PrepareTurn,
             PrepareFails, DeliverPrompt, StreamOutput, TurnReturns, TurnFails, taskVars
      <4> QED BY <1>3, <4>1, <4>2, <4>3, <4>4 DEF WorkerStep
    <3> QED BY <1>0, <3>1, <3>2, MovesKeep DEF ReconShape
  <2> QED BY <2>1, <2>2, <2>3
<1>4. CASE Recheck
  <2>1. UNCHANGED <<sub, prompts, recon>>
    BY <1>4 DEF Recheck, storeVars, ghostVars, taskVars
  <2>2. WorkerMoves
    BY <1>0, <1>4, StartWorkerMoves, WorkersStay DEF Recheck
  <2> QED BY <1>0, <2>1, <2>2, QueueStays, MovesKeep DEF Moves, ReconShape
<1>5. CASE Interrupt \/ InterruptQueue \/ InterruptProvider \/ StopQueued
  <2>1. UNCHANGED <<wk, prompts, recon>>
    BY <1>5 DEF Interrupt, InterruptQueue, InterruptProvider, StopQueued, ghostVars, taskVars
  <2>2. QueueMoves
    BY <1>0, <1>5, QueueStays, CancelBeforeDispatchMoves
       DEF Interrupt, InterruptQueue, InterruptProvider, StopQueued, storeVars
  <2> QED BY <1>0, <2>1, <2>2, WorkersStay, MovesKeep DEF Moves, ReconShape
<1>6. CASE CancelForSwitch
  <2>1. UNCHANGED <<wk, prompts, recon>>
    BY <1>6 DEF CancelForSwitch, ghostVars
  <2> QED BY <1>0, <1>6, <2>1, CancelForSwitchMoves, WorkersStay, MovesKeep DEF Moves, ReconShape
<1>7. CASE \/ \E r \in Runtimes : SelectRuntime(r)
           \/ \E s \in Switches : CancelSelection(s) \/ SwitchStep(s)
           \/ OtherTurnStarts \/ OtherTurnOutputs \/ OtherTurnEnds
  <2>1. UNCHANGED <<sub, wk, prompts, recon>>
    BY <1>7 DEF SelectRuntime, CancelSelection, SwitchStep, OtherTurnStarts, OtherTurnOutputs,
                OtherTurnEnds, storeVars, ghostVars, taskVars
  <2> QED BY <1>0, <2>1, QueueStays, WorkersStay, MovesKeep DEF Moves, ReconShape
<1>8. CASE CrashRestart
  BY <1>0, <1>8, CrashMoves, MovesKeep
<1>9. CASE Reconcile
  BY <1>0, <1>9, ReconcileMoves, MovesKeep
<1> QED BY <1>1, <1>2, <1>3, <1>4, <1>5, <1>6, <1>7, <1>8, <1>9 DEF Next

\* The fence holds in every reachable state: a worker that may still prompt owns a
\* message nobody received, and a message that was received never returns to the
\* queue (mark_about_to_prompt, reconcile_on_startup and terminalize_drive_error).
THEOREM DeliveryInvariant == Spec => []DeliveryInv
  BY DeliveryInit, DeliveryNext, PTL DEF Spec

\* The provider receives every message at most once, through retries, several
\* workers, storage errors, interrupts, edits and restarts: dispatch and its fence.
THEOREM DeliveredAtMostOnce == Spec => []AtMostOnce
<1>1. DeliveryInv => AtMostOnce
  BY DEF DeliveryInv
<1> QED BY <1>1, DeliveryInvariant, PTL

-----------------------------------------------------------------------------
(* One driver per session. *)

\* What a worker's step may do to the workers and the registry.
LEMMA WorkerStepOwn ==
    ASSUME Shape, NEW w \in Workers, WorkerStep(w) \/ StorageError(w)
    PROVE  /\ wk[w].pc # "off"
           /\ \A v \in Workers : v # w => wk'[v] = wk[v]
           /\ \/ wk'[w].pc = "off" /\ watched' = FALSE
              \/ wk'[w].pc # "off" /\ watched' = watched
<1>1. CASE TakeHead(w)
  <2>1. wk'[w].pc = IF OpenKeys = {} THEN "exit" ELSE DriveStart[sub[HeadKey].status]
    BY <1>1 DEF TakeHead, Shape, WorkerShape
  <2>2. OpenKeys # {} => sub[HeadKey].status \in {"awaiting", "ready", "about", "dispatched"}
    BY HeadKeyIsFirst DEF Shape, QueueShape, OpenKeys, Status, Queued, Terminal
  <2>3. wk'[w].pc # "off"
    BY <2>1, <2>2 DEF DriveStart
  <2> QED BY <1>1, <2>3 DEF TakeHead, At, Shape, WorkerShape, queueVars
<1>2. CASE Unwatch(w)
  BY <1>2 DEF Unwatch, At, OffWorker, Shape, WorkerShape
<1>3. CASE Terminalize(w) \/ StorageError(w)
  BY <1>3 DEF Terminalize, StorageError, StoragePcs, At, Enter, OffWorker, Shape, WorkerShape, queueVars
<1>4. CASE Redrive(w) \/ Finish(w)
  BY <1>4 DEF Redrive, Finish, Advance, Write, Return, At, Enter, OffWorker, Shape, WorkerShape, queueVars
<1>5. CASE AwaitRuntime(w)
  <2>1. wk[w].pc # "off" /\ watched' = watched
    BY <1>5 DEF AwaitRuntime, ReadSelection, Normalize, ForceFresh, ReserveFresh, AwaitFresh,
         RuntimeReady, HandleTerminalSwitch, RuntimeUnavailable, JoinPending, RequestRuntime,
         ReadRequested, Adopt, LinkSwitch, Unlinked, Deciding, At, queueVars
  <2>2. \/ Return(w)
        \/ \E p \in {"await", "reserve", "fresh", "emit", "link", "terminalize"} : Enter(w, p)
        \/ \E p \in {"decide", "reserve", "link", "adopt"} : \E v : wk' = [wk EXCEPT ![w].pc = p, ![w].snap = v]
    BY <1>5 DEF AwaitRuntime, ReadSelection, Normalize, ForceFresh, ReserveFresh, AwaitFresh,
         RuntimeReady, HandleTerminalSwitch, RuntimeUnavailable, JoinPending, RequestRuntime,
         ReadRequested, Adopt, LinkSwitch, Advance, Write
  <2> QED BY <2>1, <2>2 DEF Return, Enter, OffWorker, Shape, WorkerShape
<1>6. CASE DispatchMessage(w)
  <2>1. wk[w].pc # "off" /\ watched' = watched
    BY <1>6 DEF DispatchMessage, PauseDispatch, CheckRuntime, MarkAboutToPrompt, MaterializeFails,
         RecordReturned, Classify, RecordPersisted, FailAfterDispatch, Unclassified, At, queueVars
  <2>2. CASE Classify(w)
    <3>1. PersistedResult(timeline, Key(w), wk[w].start, Len(timeline)) \in {"completed", "failed", "unknown"}
      BY DEF PersistedResult, EndVerdict
    <3> QED BY <2>1, <2>2, <3>1 DEF Classify, Shape, WorkerShape
  <2>3. CASE ~Classify(w)
    <3>1. \/ Return(w)
          \/ \E p \in {"check", "admit", "finish", "terminalize"} : Enter(w, p)
          \/ wk' = [wk EXCEPT ![w].pc = "mark", ![w].start = Len(timeline)]
      BY <1>6, <2>3 DEF DispatchMessage, PauseDispatch, CheckRuntime, MarkAboutToPrompt,
           MaterializeFails, RecordReturned, RecordPersisted, FailAfterDispatch, Unclassified,
           Advance, Write
    <3> QED BY <2>1, <3>1 DEF Return, Enter, OffWorker, Shape, WorkerShape
  <2> QED BY <2>2, <2>3
<1>7. CASE RunAgentTurn(w)
  <2>1. wk[w].pc # "off" /\ watched' = watched
    BY <1>7 DEF RunAgentTurn, AdmitTurn, ClaimRunningTurn, AdmissionError, AppendUserBoundary, PrepareTurn,
         PrepareFails, DeliverPrompt, StreamOutput, TurnReturns, TurnFails, At, queueVars
  <2>2. \/ UNCHANGED wk
        \/ \E p \in {"erred", "boundary", "prepare", "deliver", "stream", "returned"} : Enter(w, p)
        \/ wk' = [wk EXCEPT ![w].pc = "claim", ![w].snap = View, ![w].saw = session]
    BY <1>7 DEF RunAgentTurn, AdmitTurn, ClaimRunningTurn, AdmissionError, AppendUserBoundary, PrepareTurn,
         PrepareFails, DeliverPrompt, StreamOutput, TurnReturns, TurnFails
  <2> QED BY <2>1, <2>2 DEF Enter, Shape, WorkerShape
<1> QED BY <1>1, <1>2, <1>3, <1>4, <1>5, <1>6, <1>7 DEF WorkerStep

\* start_session_worker keeps the entry and the driver together.
LEMMA StartWorkerKeepsOneDriver ==
    ASSUME Shape, OneDriver, StartWorker
    PROVE  OneDriver'
<1>1. CASE watched
  BY <1>1 DEF StartWorker, AlreadyRunning, OneDriver
<1>2. CASE ~watched
  <2>1. PICK w \in Workers : wk[w].pc = "off" /\ wk' = [wk EXCEPT ![w].pc = "head"]
    BY <1>2 DEF StartWorker, AlreadyRunning
  <2>2. watched' = TRUE
    BY <1>2 DEF StartWorker, AlreadyRunning
  <2>3. wk'[w].pc = "head" /\ \A v \in Workers : v # w => wk'[v].pc = "off"
    BY <1>2, <2>1 DEF OneDriver, Shape, WorkerShape
  <2> QED BY <2>2, <2>3 DEF OneDriver
<1> QED BY <1>1, <1>2

\* The registry entry watched_sessions is held exactly while one drain_session task
\* is in its loop, so two callers, a leaving worker and startup reconciliation can
\* never drive the same session together (start_session_worker, finish_session_worker).
THEOREM DrivenByOne == Spec => []OneDriver
<1>1. Init => OneDriver
  BY DEF Init, OneDriver, OffWorker
<1>2. DeliveryInv /\ OneDriver /\ [Next]_vars => OneDriver'
  <2> SUFFICES ASSUME DeliveryInv, OneDriver, [Next]_vars PROVE OneDriver'
    OBVIOUS
  <2>0. Shape
    BY DEF DeliveryInv
  <2>1. CASE UNCHANGED <<watched, wk>>
    BY <2>1 DEF OneDriver
  <2>2. CASE StartWorker
    BY <2>0, <2>2, StartWorkerKeepsOneDriver
  <2>3. ASSUME NEW w \in Workers, WorkerStep(w) \/ StorageError(w) PROVE OneDriver'
    <3>1. /\ wk[w].pc # "off"
          /\ \A v \in Workers : v # w => wk'[v] = wk[v]
          /\ \/ wk'[w].pc = "off" /\ watched' = FALSE
             \/ wk'[w].pc # "off" /\ watched' = watched
      BY <2>0, <2>3, WorkerStepOwn
    <3>2. \A v \in Workers : v # w => wk'[v].pc = "off"
      BY <3>1 DEF OneDriver
    <3>3. watched = TRUE
      BY <3>1 DEF OneDriver
    <3> QED BY <3>1, <3>2, <3>3 DEF OneDriver
  <2>4. CASE CrashRestart
    BY <2>4 DEF CrashRestart, OneDriver, OffWorker
  <2>5. \/ UNCHANGED <<watched, wk>> \/ StartWorker \/ CrashRestart
        \/ \E w \in Workers : WorkerStep(w) \/ StorageError(w)
    BY DEF Next, vars, queueVars, Submit, Edit, Wait, Answer, StopExecution, Recheck, Interrupt,
           InterruptQueue, InterruptProvider, StopQueued, SelectRuntime, CancelSelection,
           SwitchStep, CancelForSwitch, OtherTurnStarts, OtherTurnOutputs, OtherTurnEnds,
           Reconcile, ReconcileList, ReconcileRow, ReconcileStart
  <2> QED BY <2>1, <2>2, <2>3, <2>4, <2>5
<1> QED BY <1>1, <1>2, DeliveryInvariant, PTL DEF Spec

=============================================================================
