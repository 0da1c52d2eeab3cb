-------------------------- MODULE MessageSubmission --------------------------
(***************************************************************************)
(* The durable message queue of one Logical Session: the rows of           *)
(* agent_message_submissions, the worker that drains them, the Agent turn  *)
(* a dispatch runs, and everything else that writes the same rows: callers *)
(* that submit, retry and wait, interrupts, message edits, runtime         *)
(* selection, startup reconciliation and a crash of the process.           *)
(*                                                                         *)
(* crates/agent/src/message_submission.rs   the coordinator and its worker *)
(* crates/db/src/runtime.rs                 MessageSubmissionRepository    *)
(* crates/agent/src/manager.rs              run_agent_turn, interrupt      *)
(*                                                                         *)
(* One action is one SQLite transaction or one in-memory critical section, *)
(* so every window the code leaves between two of them is a state.         *)
(***************************************************************************)
EXTENDS RuntimeSelection, SubmissionTimeline

CONSTANTS
    Wanted,         \* the runtime the client asks for, per message
    EditKeys,       \* the messages sent as an edit of the latest user message
    Executions,     \* the messages that are delegated executions
    Workers,        \* slots for drain_session tasks
    MaxExits,       \* bound: finished workers still rechecking at one time
    MaxTransient,   \* MAX_TRANSIENT_DRIVE_FAILURES
    MaxFaults,      \* bound: storage and provider-side write errors
    MaxCrashes,     \* bound: crashes of the process
    MaxTurns,       \* bound: turns that are not a submission's
    MaxSelections,  \* bound: runtime selections the user makes
    MaxInterrupts,  \* bound: session-wide interrupts
    MaxTimeline     \* bound: provider output stops at this Timeline length

ASSUME SubmissionAssumption ==
    /\ Wanted \in [Keys -> Runtimes]
    /\ EditKeys \subseteq Keys
    /\ Executions \subseteq Keys
    /\ Requesters = Keys
    /\ Workers \cap (Keys \cup {NoKey}) = {}
    /\ MaxExits \in Nat /\ MaxTransient \in Nat /\ MaxFaults \in Nat
    /\ MaxCrashes \in Nat /\ MaxTurns \in Nat /\ MaxSelections \in Nat
    /\ MaxInterrupts \in Nat /\ MaxTimeline \in Nat

VARIABLES
    sub,        \* durable: agent_message_submissions and their payloads
    timeline,   \* durable: agent_timeline_items
    session,    \* durable: agent_sessions.state
    stop,       \* durable: interrupt_requested_at_ms of each execution
    caller,     \* the client call that waits for each message
    watched,    \* whether watched_sessions holds the session
    wk,         \* the drain_session tasks
    exits,      \* drain_session tasks that left the loop and still recheck
    gate,       \* the holder of the session's dispatch gate
    other,      \* whether a turn that is not a submission's is running
    intr,       \* the session-wide interrupt in progress
    dropping,   \* the cancelled switch whose messages are still to be dropped
    recon,      \* the startup reconciliation task
    prompts,    \* how often the provider received each message
    ranOn,      \* the runtime it was delivered to
    used        \* what was spent of each bound

storeVars == <<sub, timeline, session, stop>>
queueVars == <<caller, watched, exits, gate>>
taskVars == <<other, intr, dropping, recon>>
ghostVars == <<prompts, ranOn>>
vars == <<selectionVars, storeVars, queueVars, wk, taskVars, ghostVars, used>>

Queued == {"awaiting", "ready"}
Terminal == {"completed", "failed", "cancelled", "ambiguous"}
Status == {"absent", "about", "dispatched"} \cup Queued \cup Terminal

NoRow ==
    [status |-> "absent", seq |-> 0, desired |-> InitialRuntime, fresh |-> FALSE,
     link |-> NoSwitch, first |-> 0, last |-> 0, sent |-> FALSE]

NoView ==
    [desired |-> InitialRuntime, effective |-> InitialRuntime, status |-> "ready",
     pending |-> NoSwitch, revision |-> 0, selRevision |-> 0]

OffWorker ==
    [pc |-> "off", key |-> NoKey, snap |-> NoView, saw |-> "idle",
     start |-> 0, end |-> 0, fails |-> 0]

Init ==
    /\ SelectionInit
    /\ sub = [k \in Keys |-> NoRow]
    /\ timeline = <<>>
    /\ session = "idle"
    /\ stop = [k \in Keys |-> "none"]
    /\ caller = [k \in Keys |-> "none"]
    /\ watched = FALSE
    /\ wk = [w \in Workers |-> OffWorker]
    /\ exits = [first |-> 0, second |-> 0]
    /\ gate = NoKey
    /\ other = FALSE
    /\ intr = "none"
    /\ dropping = NoSwitch
    /\ recon = [pc |-> "list", todo |-> {}]
    /\ prompts = [k \in Keys |-> 0]
    /\ ranOn = [k \in Keys |-> InitialRuntime]
    /\ used = [faults |-> 0, crashes |-> 0, turns |-> 0, selections |-> 0,
              interrupts |-> 0]

-----------------------------------------------------------------------------
(* Reading and writing the queue. *)

OpenKeys == {k \in Keys : sub[k].status \notin Terminal \cup {"absent"}}
\* Defect: the newest open message is taken first.
HeadKeyNewest == CHOOSE k \in OpenKeys : \A j \in OpenKeys : sub[k].seq >= sub[j].seq
HeadKey == CHOOSE k \in OpenKeys : \A j \in OpenKeys : sub[k].seq <= sub[j].seq
NextSequence == 1 + MaxOf({0} \cup {sub[k].seq : k \in Keys})

SpendFault ==
    /\ used.faults < MaxFaults
    /\ used' = [used EXCEPT !.faults = @ + 1]

UserItem(k) == [kind |-> "user", key |-> k]
ErrorItem(k) == [kind |-> "error", key |-> k]

\* Defect: the registry entry is not looked at.
NeverRunning == FALSE
AlreadyRunning == watched

\* start_session_worker: the registry entry makes the spawn exclusive.
StartWorker ==
    IF AlreadyRunning THEN UNCHANGED <<watched, wk>>
    ELSE /\ watched' = TRUE
         /\ \E w \in Workers :
              /\ wk[w].pc = "off"
              /\ wk' = [wk EXCEPT ![w].pc = "head"]

Key(w) == wk[w].key
Row(w) == sub[Key(w)]
At(w, pc) == wk[w].pc = pc
Enter(w, pc) == wk' = [wk EXCEPT ![w].pc = pc]

\* drive_submission returns Ok: the transient failure count starts again.
Return(w) == wk' = [wk EXCEPT ![w] = [OffWorker EXCEPT !.pc = "head"]]

\* A write conditional on the status it expects.  Losing it is a conflict, which
\* is not transient, so the drive ends in terminalize_drive_error.
Write(w, from, row, next) ==
    IF Row(w).status = from
    THEN sub' = [sub EXCEPT ![Key(w)] = row] /\ next
    ELSE UNCHANGED sub /\ Enter(w, "terminalize")

Advance(w, from, to, next) == Write(w, from, [Row(w) EXCEPT !.status = to], next)

-----------------------------------------------------------------------------
(* Callers. *)

\* enqueue: a new row at the end of the queue, or the existing row of the key if
\* its selection and payload are the ones of the request.
Enqueue(k, fresh) ==
    IF sub[k].status = "absent"
    THEN /\ sub' = [sub EXCEPT ![k] = [NoRow EXCEPT !.status = "awaiting",
                      !.seq = NextSequence, !.desired = Wanted[k], !.fresh = fresh]]
         /\ caller' = [caller EXCEPT ![k] = "prepared"]
    ELSE /\ UNCHANGED sub
         /\ caller' = [caller EXCEPT ![k] =
              IF sub[k].desired = Wanted[k] THEN "prepared" ELSE "refused"]

Submit(k) ==
    /\ k \notin EditKeys
    /\ caller[k] = "none"
    /\ Enqueue(k, FALSE)
    /\ UNCHANGED <<selectionVars, timeline, session, stop, watched, exits, gate,
                   wk, taskVars, ghostVars, used>>

\* Defect: completed rows keep their result range when the edit cuts it away.
NotSuperseded(j, cut) == FALSE
SupersededByEdit(j, cut) == sub[j].status = "completed" /\ sub[j].last >= cut

\* replace_latest_user_message: truncates the Timeline at the latest user message,
\* supersedes the completed rows it cuts, and queues the replacement.
Edit(k) ==
    /\ k \in EditKeys
    /\ caller[k] = "none"
    /\ LET userItems == Users(timeline, 0, Len(timeline))
           cut == MaxOf(userItems)
       IN  IF sub[k].status # "absent"
           THEN Enqueue(k, TRUE) /\ UNCHANGED timeline
           ELSE /\ session # "running"
                /\ OpenKeys = {}
                /\ userItems # {}
                /\ timeline' = SubSeq(timeline, 1, cut - 1)
                /\ sub' = [j \in Keys |->
                     IF j = k THEN [NoRow EXCEPT !.status = "awaiting",
                          !.seq = NextSequence, !.desired = Wanted[k], !.fresh = TRUE]
                     ELSE IF SupersededByEdit(j, cut) THEN [sub[j] EXCEPT !.status = "cancelled"]
                     ELSE sub[j]]
                /\ caller' = [caller EXCEPT ![k] = "prepared"]
    /\ UNCHANGED <<selectionVars, session, stop, watched, exits, gate,
                   wk, taskVars, ghostVars, used>>

\* wait_for_submission: start the worker, then poll the row until it is terminal.
Wait(k) ==
    /\ caller[k] = "prepared"
    /\ caller' = [caller EXCEPT ![k] = "waiting"]
    /\ StartWorker
    /\ UNCHANGED <<selectionVars, storeVars, exits, gate, taskVars, ghostVars, used>>

Answer(k) ==
    /\ \/ caller[k] = "waiting" /\ sub[k].status \in Terminal
       \/ caller[k] = "refused"
    /\ caller' = [caller EXCEPT ![k] = "none"]
    /\ UNCHANGED <<selectionVars, storeVars, watched, exits, gate, wk, taskVars,
                   ghostVars, used>>

-----------------------------------------------------------------------------
(* drain_session: the loop of the worker. *)

DriveStart == [awaiting |-> "await", ready |-> "dispatch",
               about |-> "redrive", dispatched |-> "finish"]

TakeHead(w) ==
    /\ At(w, "head")
    /\ wk' = [wk EXCEPT
         ![w].pc = IF OpenKeys = {} THEN "exit" ELSE DriveStart[sub[HeadKey].status],
         ![w].key = IF OpenKeys = {} THEN NoKey ELSE HeadKey]
    /\ UNCHANGED <<selectionVars, storeVars, queueVars, taskVars, ghostVars, used>>

\* finish_session_worker gives the registry entry back ...
Unwatch(w) ==
    /\ At(w, "exit")
    /\ exits.first + exits.second < MaxExits
    /\ watched' = FALSE
    /\ wk' = [wk EXCEPT ![w] = OffWorker]
    /\ exits' = [exits EXCEPT !.first = @ + 1]
    /\ UNCHANGED <<selectionVars, storeVars, caller, gate, taskVars, ghostVars, used>>

\* Defect: the worker leaves without looking again.
NothingLeft == FALSE
WorkIsLeft == OpenKeys # {}

\* ... and then the task looks twice for a row that was queued meanwhile.  A
\* failed read counts as an empty queue both times.
Recheck ==
    /\ \/ exits.first > 0 /\ exits' = [first |-> exits.first - 1, second |-> exits.second + 1]
       \/ exits.second > 0 /\ exits' = [exits EXCEPT !.second = @ - 1]
    /\ \/ /\ IF WorkIsLeft THEN StartWorker ELSE UNCHANGED <<watched, wk>>
          /\ UNCHANGED used
       \/ SpendFault /\ UNCHANGED <<watched, wk>>
    /\ UNCHANGED <<selectionVars, storeVars, caller, gate, taskVars, ghostVars>>

StoragePcs == {"await", "decide", "reserve", "emit", "adopt", "link", "check", "mark",
               "redrive", "returned", "erred", "complete", "failAfter", "unknown", "finish"}

\* Defect: transient failures are retried without a limit.
RetriesForEver(w) == TRUE
MayRetry(w) == wk[w].fails < MaxTransient

\* An error in a step of the drive: while it is transient and retries are left the
\* row is driven again from its stored status, otherwise it is given up.
StorageError(w) ==
    /\ wk[w].pc \in StoragePcs
    /\ SpendFault
    /\ \/ /\ MayRetry(w)
          /\ wk' = [wk EXCEPT ![w] =
               [OffWorker EXCEPT !.pc = "head", !.fails = wk[w].fails + 1]]
       \/ Enter(w, "terminalize")
    /\ gate' = IF gate = w THEN NoKey ELSE gate
    /\ UNCHANGED <<selectionVars, storeVars, caller, watched, exits, taskVars, ghostVars>>

GivenUp(status) ==
    CASE status \in Queued -> "failed"
      [] status = "about" -> "ambiguous"
      [] status = "dispatched" -> "completed"
      [] OTHER -> status

\* terminalize_drive_error; the count of transient failures survives it.
Terminalize(w) ==
    /\ At(w, "terminalize")
    /\ \/ /\ sub' = [sub EXCEPT ![Key(w)].status = GivenUp(Row(w).status)]
          /\ UNCHANGED used
       \/ SpendFault /\ UNCHANGED sub
    /\ wk' = [wk EXCEPT ![w] = [OffWorker EXCEPT !.pc = "head", !.fails = wk[w].fails]]
    /\ UNCHANGED <<selectionVars, timeline, session, stop, queueVars, taskVars, ghostVars>>

\* Defect: a row found about to prompt is dispatched again.
RedriveResends(w) ==
    /\ At(w, "redrive")
    /\ Advance(w, "about", "ready", Return(w))
    /\ UNCHANGED <<selectionVars, timeline, session, stop, queueVars, taskVars,
                   ghostVars, used>>

\* A row found about to prompt has an unknown outcome and is never sent again.
Redrive(w) ==
    /\ At(w, "redrive")
    /\ Advance(w, "about", "ambiguous", Return(w))
    /\ UNCHANGED <<selectionVars, timeline, session, stop, queueVars, taskVars,
                   ghostVars, used>>

Finish(w) ==
    /\ At(w, "finish")
    /\ Advance(w, "dispatched", "completed", Return(w))
    /\ UNCHANGED <<selectionVars, timeline, session, stop, queueVars, taskVars,
                   ghostVars, used>>

-----------------------------------------------------------------------------
(* await_runtime: bring the session to the runtime of the head message. *)

Snap(w) == wk[w].snap

ReadSelection(w) ==
    /\ At(w, "await")
    /\ IF Row(w).status = "awaiting"
       THEN wk' = [wk EXCEPT ![w].pc = "decide", ![w].snap = View]
       ELSE Return(w)
    /\ UNCHANGED <<selectionVars, storeVars, queueVars, taskVars, ghostVars, used>>

Uncanonical(w) ==
    Snap(w).desired # Row(w).desired /\ Resolve[Row(w).desired] # Row(w).desired
Deciding(w) == At(w, "decide") /\ ~Uncanonical(w)
SeesReady(w) == Snap(w).effective = Row(w).desired /\ Snap(w).status = "ready"
SeesFailed(w) == Snap(w).status = "failed" /\ Snap(w).pending = NoSwitch
Unlinked(w) ==
    Deciding(w) /\ ~Row(w).fresh /\ ~SeesReady(w) /\ Row(w).link = NoSwitch

Normalize(w) ==
    /\ At(w, "decide") /\ Uncanonical(w)
    /\ Write(w, "awaiting", [Row(w) EXCEPT !.desired = Resolve[@]], Enter(w, "await"))
    /\ UNCHANGED <<selectionVars, timeline, session, stop, queueVars, taskVars,
                   ghostVars, used>>

\* An edited message first forces a fresh session on its runtime: a fresh read of
\* the selection ...
ForceFresh(w) ==
    /\ Deciding(w)
    /\ Row(w).fresh /\ Row(w).link = NoSwitch
    /\ wk' = [wk EXCEPT ![w].pc = "reserve", ![w].snap = View]
    /\ UNCHANGED <<selectionVars, storeVars, queueVars, taskVars, ghostVars, used>>

\* ... then the reservation, unless the key already has its switch, the session
\* revision moved (read again) or another switch holds the slot (an error).
ReserveFresh(w) ==
    /\ At(w, "reserve")
    /\ LET k == Key(w)
           moved == sel.revision # Snap(w).revision
       IN  \/ SwitchOf(k) # NoSwitch /\ Enter(w, "fresh") /\ UNCHANGED selectionVars
           \/ /\ SwitchOf(k) = NoSwitch /\ moved
              /\ Enter(w, "await") /\ UNCHANGED selectionVars
           \/ /\ SwitchOf(k) = NoSwitch /\ ~moved /\ sel.pending # NoSwitch
              /\ Enter(w, "terminalize") /\ UNCHANGED selectionVars
           \/ /\ SwitchOf(k) = NoSwitch /\ ~moved
              /\ Reserve(Resolve[Row(w).desired], Snap(w).selRevision, k)
              /\ Enter(w, "fresh")
    /\ UNCHANGED <<storeVars, queueVars, taskVars, ghostVars, used>>

\* switch_runtime returns when the switch has ended; a driver that gave up may
\* report its error instead.
AwaitFresh(w) ==
    /\ At(w, "fresh")
    /\ ~Live(SwitchOf(Key(w)))
    /\ \/ Enter(w, "emit")
       \/ sw[SwitchOf(Key(w))].status # "committed" /\ Enter(w, "terminalize")
    /\ UNCHANGED <<selectionVars, storeVars, queueVars, taskVars, ghostVars, used>>

RuntimeReady(w) ==
    /\ Deciding(w)
    /\ ~Row(w).fresh /\ SeesReady(w)
    /\ Advance(w, "awaiting", "ready", Return(w))
    /\ UNCHANGED <<selectionVars, timeline, session, stop, queueVars, taskVars,
                   ghostVars, used>>

\* Defect: a message goes on waiting for a switch that was superseded.
AfterSwitchWaits(status, desired) ==
    CASE status = "cancelled" -> "cancelled"
      [] status = "superseded" -> "awaiting"
      [] status = "committed" /\ View.effective = desired /\ View.status = "ready" -> "ready"
      [] OTHER -> "failed"

AfterSwitch(status, desired) ==
    CASE status = "cancelled" -> "cancelled"
      [] status = "committed" /\ View.effective = desired /\ View.status = "ready" -> "ready"
      [] OTHER -> "failed"

\* handle_terminal_switch: the fate of the required switch decides, a committed one
\* together with a selection read afresh.
HandleTerminalSwitch(w) ==
    /\ Deciding(w)
    /\ Row(w).link # NoSwitch
    /\ Row(w).fresh \/ ~SeesReady(w)
    /\ IF Live(Row(w).link)
       THEN Enter(w, "await") /\ UNCHANGED sub
       ELSE Advance(w, "awaiting",
              AfterSwitch(sw[Row(w).link].status, Row(w).desired), Return(w))
    /\ UNCHANGED <<selectionVars, timeline, session, stop, queueVars, taskVars,
                   ghostVars, used>>

RuntimeUnavailable(w) ==
    /\ Unlinked(w) /\ SeesFailed(w)
    /\ Advance(w, "awaiting", "failed", Return(w))
    /\ UNCHANGED <<selectionVars, timeline, session, stop, queueVars, taskVars,
                   ghostVars, used>>

\* The session already wants this runtime: wait for the switch that brings it.
JoinPending(w) ==
    /\ Unlinked(w) /\ ~SeesFailed(w)
    /\ Snap(w).desired = Row(w).desired
    /\ Enter(w, "link")
    /\ UNCHANGED <<selectionVars, storeVars, queueVars, taskVars, ghostVars, used>>

\* set_desired_runtime on behalf of the message.
RequestRuntime(w) ==
    /\ Unlinked(w) /\ ~SeesFailed(w)
    /\ Snap(w).desired # Row(w).desired
    /\ LET k == Key(w)
           d == Row(w).desired
           current == RevisionsMatch(Snap(w).revision, Snap(w).selRevision)
           rematerialize == Unchanged(d) /\ ~Coalesces(d) /\ sel.status = "failed"
       IN  \/ /\ SwitchOf(k) # NoSwitch
              /\ Enter(w, IF sw[SwitchOf(k)].target = d THEN "emit" ELSE "terminalize")
              /\ UNCHANGED selectionVars
           \/ /\ SwitchOf(k) = NoSwitch /\ ~current
              /\ Enter(w, "await") /\ UNCHANGED selectionVars
           \/ /\ SwitchOf(k) = NoSwitch /\ current /\ ~rematerialize
              /\ Coalesces(d) \/ Unchanged(d)
              /\ Enter(w, "emit") /\ UNCHANGED selectionVars
           \/ /\ SwitchOf(k) = NoSwitch /\ current
              /\ EnqueueDesired(d, k) \/ MaterializeCurrent(d)
              /\ Enter(w, "emit")
           \/ /\ SwitchOf(k) = NoSwitch /\ current /\ rematerialize
              /\ Enter(w, "terminalize") /\ UNCHANGED selectionVars
    /\ UNCHANGED <<storeVars, queueVars, taskVars, ghostVars, used>>

\* The state the request returns is read after its transaction.
ReadRequested(w) ==
    /\ At(w, "emit")
    /\ wk' = [wk EXCEPT
         ![w].pc = IF View.desired = Row(w).desired THEN "link" ELSE "adopt",
         ![w].snap = IF Row(w).fresh THEN [View EXCEPT !.pending = SwitchOf(Key(w))]
                     ELSE View]
    /\ UNCHANGED <<selectionVars, storeVars, queueVars, taskVars, ghostVars, used>>

Adopt(w) ==
    /\ At(w, "adopt")
    /\ Write(w, "awaiting", [Row(w) EXCEPT !.desired = Snap(w).desired], Enter(w, "link"))
    /\ UNCHANGED <<selectionVars, timeline, session, stop, queueVars, taskVars,
                   ghostVars, used>>

\* associate_required_switch
LinkSwitch(w) ==
    /\ At(w, "link")
    /\ IF Snap(w).pending = NoSwitch
       THEN Enter(w, "await") /\ UNCHANGED sub
       ELSE IF Row(w).link \in {NoSwitch, Snap(w).pending}
       THEN Write(w, "awaiting", [Row(w) EXCEPT !.link = Snap(w).pending], Enter(w, "await"))
       ELSE Enter(w, "terminalize") /\ UNCHANGED sub
    /\ UNCHANGED <<selectionVars, timeline, session, stop, queueVars, taskVars,
                   ghostVars, used>>

AwaitRuntime(w) ==
    \/ ReadSelection(w) \/ Normalize(w) \/ ForceFresh(w) \/ ReserveFresh(w) \/ AwaitFresh(w)
    \/ RuntimeReady(w) \/ HandleTerminalSwitch(w) \/ RuntimeUnavailable(w)
    \/ JoinPending(w) \/ RequestRuntime(w)
    \/ ReadRequested(w) \/ Adopt(w) \/ LinkSwitch(w)

-----------------------------------------------------------------------------
(* dispatch, up to the point where the row says a prompt may be on its way. *)

\* Defect: the dispatch gate is not handed back.
KeepGate == UNCHANGED gate
OpenGate == gate' = NoKey

PauseDispatch(w) ==
    /\ At(w, "dispatch") /\ gate = NoKey
    /\ gate' = w
    /\ Enter(w, "check")
    /\ UNCHANGED <<selectionVars, storeVars, caller, watched, exits, taskVars,
                   ghostVars, used>>

\* Under the gate: the runtime is still the one required, else the row waits again.
CheckRuntime(w) ==
    /\ At(w, "check")
    /\ IF View.status = "ready" /\ View.effective = Row(w).desired
       THEN /\ wk' = [wk EXCEPT ![w].pc = "mark", ![w].start = Len(timeline)]
            /\ UNCHANGED <<sub, gate>>
       ELSE /\ Advance(w, "ready", "awaiting", Return(w))
            /\ OpenGate
    /\ UNCHANGED <<selectionVars, timeline, session, stop, caller, watched, exits,
                   taskVars, ghostVars, used>>

\* mark_about_to_prompt, after the runtime was materialised; an execution that was
\* told to stop is not authorised.
MarkAboutToPrompt(w) ==
    /\ At(w, "mark")
    /\ IF stop[Key(w)] = "none" THEN Advance(w, "ready", "about", Enter(w, "admit"))
       ELSE Enter(w, "terminalize") /\ UNCHANGED sub
    /\ OpenGate
    /\ UNCHANGED <<selectionVars, timeline, session, stop, caller, watched, exits,
                   taskVars, ghostVars, used>>

MaterializeFails(w) ==
    /\ At(w, "mark")
    /\ Enter(w, "terminalize")
    /\ OpenGate
    /\ UNCHANGED <<selectionVars, storeVars, caller, watched, exits, taskVars,
                   ghostVars, used>>

-----------------------------------------------------------------------------
(* run_agent_turn for the submission the worker dispatched. *)

\* What admission demands of the selection columns themselves.
Admits(r) ==
    /\ sel.desired = r /\ sel.effective = r
    /\ sel.status = "ready" /\ sel.pending = NoSwitch

\* Defect: the turn starts on whatever runtime is effective.
AdmissibleAnywhere(w) == session # "running" /\ stop[Key(w)] = "none"
Admissible(w) ==
    session # "running" /\ Admits(Row(w).desired) /\ stop[Key(w)] = "none"

AdmitTurn(w) ==
    /\ At(w, "admit")
    /\ IF Admissible(w)
       THEN wk' = [wk EXCEPT ![w].pc = "claim", ![w].snap = View, ![w].saw = session]
       ELSE Enter(w, "erred")
    /\ UNCHANGED <<selectionVars, storeVars, queueVars, taskVars, ghostVars, used>>

\* Defect: the claim does not compare the session state that was read.
ClaimsAnyway(w) == TRUE
StateUnmoved(w) == session = wk[w].saw

ClaimRunningTurn(w) ==
    /\ At(w, "claim")
    /\ IF StateUnmoved(w) THEN session' = "running" /\ Enter(w, "boundary")
       ELSE UNCHANGED session /\ Enter(w, "erred")
    /\ UNCHANGED <<selectionVars, sub, timeline, stop, queueVars, taskVars,
                   ghostVars, used>>

\* A read or write of the admission itself fails, and nothing is in the Timeline.
AdmissionError(w) ==
    /\ At(w, "admit") \/ At(w, "claim")
    /\ SpendFault
    /\ Enter(w, "erred")
    /\ UNCHANGED <<selectionVars, storeVars, queueVars, taskVars, ghostVars>>

\* finish_turn_with_error: a failed append is ignored, and a storage error can also
\* leave the session running.
FinishTurnWithError(k) ==
    \/ /\ timeline' = Append(timeline, ErrorItem(k))
       /\ session' = "error"
       /\ UNCHANGED used
    \/ /\ SpendFault
       /\ timeline' \in {timeline, Append(timeline, ErrorItem(k))}
       /\ session' \in {session, "error"}

\* The user message is in the Timeline before the provider is called.
AppendUserBoundary(w) ==
    /\ At(w, "boundary")
    /\ \/ /\ timeline' = Append(timeline, UserItem(Key(w)))
          /\ Enter(w, "prepare")
          /\ UNCHANGED <<session, used>>
       \/ /\ SpendFault
          /\ timeline' \in {timeline, Append(timeline, ErrorItem(Key(w)))}
          /\ session' \in {session, "error"}
          /\ Enter(w, "erred")
    /\ UNCHANGED <<selectionVars, sub, stop, queueVars, taskVars, ghostVars>>

\* Defect: the execution is not authorised again before the prompt.
NoAuthorisation(w) == TRUE
Authorised(w) ==
    Key(w) \in Executions => stop[Key(w)] = "none" /\ Admits(Row(w).desired)

\* The last fences: the provider prepares the runtime that was admitted, and an
\* execution is authorised once more against the stored selection.
PrepareTurn(w) ==
    /\ At(w, "prepare")
    /\ sel.revision = Snap(w).revision
    /\ Authorised(w)
    /\ Enter(w, "deliver")
    /\ UNCHANGED <<selectionVars, storeVars, queueVars, taskVars, ghostVars, used>>

\* A fence or the provider refuses before anything was sent.
PrepareFails(w) ==
    /\ At(w, "prepare")
    /\ FinishTurnWithError(Key(w))
    /\ Enter(w, "erred")
    /\ UNCHANGED <<selectionVars, sub, stop, queueVars, taskVars, ghostVars>>

DeliverPrompt(w) ==
    /\ At(w, "deliver")
    /\ prompts' = [prompts EXCEPT ![Key(w)] = @ + 1]
    /\ ranOn' = [ranOn EXCEPT ![Key(w)] = Snap(w).effective]
    /\ Enter(w, "stream")
    /\ UNCHANGED <<selectionVars, storeVars, queueVars, taskVars, used>>

StreamOutput(w) ==
    /\ At(w, "stream")
    /\ Len(timeline) < MaxTimeline
    /\ \E kind \in {"partial", "final", "exhausted"} :
         timeline' = Append(timeline, [kind |-> kind, key |-> Key(w)])
    /\ UNCHANGED <<selectionVars, sub, session, stop, queueVars, wk, taskVars,
                   ghostVars, used>>

\* The items of this turn: what run_agent_turn returns.
Own(w) == {i \in (wk[w].start + 1)..Len(timeline) : timeline[i].key = Key(w)}
Exhausted(w) == \E i \in Own(w) : timeline[i].kind = "exhausted"

\* The session settles before the turn returns its items, and reading it back for
\* the clients may still fail.
TurnReturns(w) ==
    /\ At(w, "stream")
    /\ ~Exhausted(w)
    /\ session' = "idle"
    /\ \/ Enter(w, "returned") /\ UNCHANGED used
       \/ SpendFault /\ Enter(w, "erred")
    /\ UNCHANGED <<selectionVars, sub, timeline, stop, queueVars, taskVars, ghostVars>>

TurnFails(w) ==
    /\ At(w, "stream")
    /\ FinishTurnWithError(Key(w))
    /\ Enter(w, "erred")
    /\ UNCHANGED <<selectionVars, sub, stop, queueVars, taskVars, ghostVars>>

RunAgentTurn(w) ==
    \/ AdmitTurn(w) \/ ClaimRunningTurn(w) \/ AdmissionError(w) \/ AppendUserBoundary(w)
    \/ PrepareTurn(w) \/ PrepareFails(w) \/ DeliverPrompt(w)
    \/ StreamOutput(w) \/ TurnReturns(w) \/ TurnFails(w)

-----------------------------------------------------------------------------
(* dispatch, after the turn. *)

\* Defect: the result is stored before the row leaves about to prompt.
RecordedEarly(w, first, last) ==
    [Row(w) EXCEPT !.first = first, !.last = last, !.sent = TRUE]

Recorded(w, first, last) ==
    [Row(w) EXCEPT !.status = "dispatched", !.first = first, !.last = last, !.sent = TRUE]

\* complete_dispatch with the items the turn returned.
RecordReturned(w) ==
    /\ At(w, "returned")
    /\ Write(w, "about", Recorded(w, MinOf(Own(w)), MaxOf(Own(w))), Enter(w, "finish"))
    /\ UNCHANGED <<selectionVars, timeline, session, stop, queueVars, taskVars,
                   ghostVars, used>>

\* The turn returned an error: read what it left in the Timeline.
Classify(w) ==
    /\ At(w, "erred")
    /\ LET verdict == PersistedResult(timeline, Key(w), wk[w].start, Len(timeline))
       IN  wk' = [wk EXCEPT ![w].end = Len(timeline),
             ![w].pc = CASE verdict = "completed" -> "complete"
                         [] verdict = "failed" -> "failAfter"
                         [] verdict = "unknown" -> "unknown"]
    /\ UNCHANGED <<selectionVars, storeVars, queueVars, taskVars, ghostVars, used>>

\* complete_dispatch with the items read from the Timeline; it insists on a single
\* user message among them.
RecordPersisted(w) ==
    /\ At(w, "complete")
    /\ IF Row(w).status = "about"
          /\ Cardinality(Users(timeline, wk[w].start, wk[w].end)) = 1
       THEN /\ sub' = [sub EXCEPT ![Key(w)] = Recorded(w, wk[w].start + 1, wk[w].end)]
            /\ Enter(w, "finish")
       ELSE UNCHANGED sub /\ Enter(w, "terminalize")
    /\ UNCHANGED <<selectionVars, timeline, session, stop, queueVars, taskVars,
                   ghostVars, used>>

\* fail_after_prompt_dispatch: from the user message to the end, with no other user
\* message after it.
FailAfterDispatch(w) ==
    /\ At(w, "failAfter")
    /\ IF /\ Row(w).status = "about"
          /\ Users(timeline, FirstMatch(timeline, Key(w), wk[w].start, wk[w].end),
                   wk[w].end) = {}
       THEN /\ sub' = [sub EXCEPT ![Key(w)] = [Row(w) EXCEPT
                 !.status = "failed",
                 !.first = FirstMatch(timeline, Key(w), wk[w].start, wk[w].end),
                 !.last = wk[w].end, !.sent = TRUE]]
            /\ Return(w)
       ELSE UNCHANGED sub /\ Enter(w, "terminalize")
    /\ UNCHANGED <<selectionVars, timeline, session, stop, queueVars, taskVars,
                   ghostVars, used>>

\* Defect: an error without a result always counts as refused before the provider.
AlwaysRefused(w) == TRUE
NothingAppended(w) == Len(timeline) <= wk[w].start

\* Nothing was appended: the turn was refused before the provider.  Otherwise the
\* provider may have the message.
Unclassified(w) ==
    /\ At(w, "unknown")
    /\ Advance(w, "about",
         IF NothingAppended(w) THEN "failed" ELSE "ambiguous", Return(w))
    /\ UNCHANGED <<selectionVars, timeline, session, stop, queueVars, taskVars,
                   ghostVars, used>>

DispatchMessage(w) ==
    \/ PauseDispatch(w) \/ CheckRuntime(w) \/ MarkAboutToPrompt(w) \/ MaterializeFails(w)
    \/ RecordReturned(w) \/ Classify(w) \/ RecordPersisted(w) \/ FailAfterDispatch(w)
    \/ Unclassified(w)

WorkerStep(w) ==
    \/ TakeHead(w) \/ Unwatch(w) \/ Terminalize(w) \/ Redrive(w) \/ Finish(w)
    \/ AwaitRuntime(w) \/ DispatchMessage(w) \/ RunAgentTurn(w)

-----------------------------------------------------------------------------
(* Interrupts. *)

\* cancel_before_dispatch: the queued messages Q leave the queue in order, each
\* with its user message in the Timeline.
CancelBeforeDispatch(Q) ==
    \E order \in [1..Cardinality(Q) -> Q], place \in [Q -> 1..Cardinality(Q)] :
        /\ \A k \in Q : order[place[k]] = k
        /\ \A j, k \in Q : sub[j].seq < sub[k].seq => place[j] < place[k]
        /\ timeline' = timeline \o [i \in 1..Cardinality(Q) |-> UserItem(order[i])]
        /\ sub' = [k \in Keys |->
             IF k \in Q
             THEN [sub[k] EXCEPT !.status = "cancelled",
                     !.first = Len(timeline) + place[k], !.last = Len(timeline) + place[k]]
             ELSE sub[k]]

\* Defect: the interrupt also takes a message that is about to prompt.
QueuedOrAboutKeys == {k \in Keys : sub[k].status \in Queued \cup {"about"}}
QueuedKeys == {k \in Keys : sub[k].status \in Queued}

\* interrupt: the session state is read first; the queue is only cancelled when no
\* turn was running then, and the provider is interrupted when nothing was queued.
Interrupt ==
    /\ intr = "none"
    /\ used.interrupts < MaxInterrupts
    /\ intr' = IF session = "running" THEN "provider" ELSE "cancel"
    /\ used' = [used EXCEPT !.interrupts = @ + 1]
    /\ UNCHANGED <<selectionVars, storeVars, queueVars, wk, other, dropping, recon,
                   ghostVars>>

InterruptQueue ==
    /\ intr = "cancel"
    /\ IF QueuedKeys = {} THEN intr' = "provider" /\ UNCHANGED <<sub, timeline>>
       ELSE intr' = "none" /\ CancelBeforeDispatch(QueuedKeys)
    /\ UNCHANGED <<selectionVars, session, stop, queueVars, wk, other, dropping, recon,
                   ghostVars, used>>

InterruptProvider ==
    /\ intr = "provider"
    /\ intr' = "none"
    /\ session' \in {session, "idle"}
    /\ UNCHANGED <<selectionVars, sub, timeline, stop, queueVars, wk, other, dropping,
                   recon, ghostVars, used>>

\* The last authorisation of k is behind it.
PromptPassed(k) == prompts[k] > 0 \/ \E w \in Workers : Key(w) = k /\ At(w, "deliver")

\* interrupt_execution: holding the dispatch gate, first the durable marker ...
StopExecution(k) ==
    /\ k \in Executions
    /\ gate = NoKey
    /\ k \in OpenKeys /\ stop[k] = "none"
    /\ gate' = k
    /\ stop' = [stop EXCEPT ![k] = IF PromptPassed(k) THEN "late" ELSE "early"]
    /\ UNCHANGED <<selectionVars, sub, timeline, session, caller, watched, exits, wk,
                   taskVars, ghostVars, used>>

\* ... then the row leaves the queue if it is still there, or the provider is told,
\* which writes nothing here.
StopQueued ==
    /\ gate \in Keys
    /\ gate' = NoKey
    /\ IF sub[gate].status \in Queued THEN CancelBeforeDispatch({gate})
       ELSE UNCHANGED <<sub, timeline>>
    /\ UNCHANGED <<selectionVars, session, stop, caller, watched, exits, wk, taskVars,
                   ghostVars, used>>

-----------------------------------------------------------------------------
(* Runtime selection by the user, and the switch drivers. *)

SelectRuntime(r) ==
    /\ used.selections < MaxSelections
    /\ EnqueueDesired(Resolve[r], NoRequester) \/ MaterializeCurrent(Resolve[r])
    /\ used' = [used EXCEPT !.selections = @ + 1]
    /\ UNCHANGED <<storeVars, queueVars, wk, taskVars, ghostVars>>

\* cancel_switch, and the messages of the switch in a transaction of their own.
CancelSelection(s) ==
    /\ dropping = NoSwitch
    /\ CancelSwitch(s)
    /\ dropping' = s
    /\ UNCHANGED <<storeVars, queueVars, wk, other, intr, recon, ghostVars, used>>

CancelForSwitch ==
    /\ dropping # NoSwitch
    /\ sub' = [k \in Keys |->
         IF sub[k].link = dropping /\ sub[k].status \in Queued
         THEN [sub[k] EXCEPT !.status = "cancelled"] ELSE sub[k]]
    /\ dropping' = NoSwitch
    /\ UNCHANGED <<selectionVars, timeline, session, stop, queueVars, wk, other, intr,
                   recon, ghostVars, used>>

\* A switch commits only while ensure_commit_idle finds no running turn.
SwitchStep(s) ==
    /\ DriveSwitch(s)
    /\ sw'[s].status = "committed" => session # "running"
    /\ UNCHANGED <<storeVars, queueVars, wk, taskVars, ghostVars, used>>

-----------------------------------------------------------------------------
(* Turns that are not a submission's: commands and continue_turn. *)

OtherTurnStarts ==
    /\ used.turns < MaxTurns
    /\ ~other
    /\ session # "running"
    /\ Admits(sel.effective)
    /\ session' = "running"
    /\ other' = TRUE
    /\ timeline' \in {timeline, Append(timeline, UserItem(NoKey))}
    /\ used' = [used EXCEPT !.turns = @ + 1]
    /\ UNCHANGED <<selectionVars, sub, stop, queueVars, wk, intr, dropping, recon, ghostVars>>

OtherTurnOutputs ==
    /\ other
    /\ Len(timeline) < MaxTimeline
    /\ timeline' = Append(timeline, [kind |-> "final", key |-> NoKey])
    /\ UNCHANGED <<selectionVars, sub, session, stop, queueVars, wk, taskVars, ghostVars, used>>

OtherTurnEnds ==
    /\ other
    /\ other' = FALSE
    /\ \/ session' = "idle" /\ UNCHANGED <<timeline, used>>
       \/ FinishTurnWithError(NoKey)
    /\ UNCHANGED <<selectionVars, sub, stop, queueVars, wk, intr, dropping, recon, ghostVars>>

-----------------------------------------------------------------------------
(* A crash, the restart, and reconcile_on_startup running in the background. *)

\* Defect: the restart leaves the interrupted turn open.
RecoverNothing == UNCHANGED <<session, timeline>>

\* recover_interrupted_sessions closes the turn the crash cut short.
RecoverInterruptedSession ==
    IF session = "running"
    THEN session' = "error" /\ timeline' = Append(timeline, ErrorItem(NoKey))
    ELSE UNCHANGED <<session, timeline>>

CrashRestart ==
    /\ used.crashes < MaxCrashes
    /\ used' = [used EXCEPT !.crashes = @ + 1]
    /\ caller' = [k \in Keys |-> "none"]
    /\ watched' = FALSE
    /\ wk' = [w \in Workers |-> OffWorker]
    /\ exits' = [first |-> 0, second |-> 0]
    /\ gate' = NoKey
    /\ other' = FALSE
    /\ intr' = "none"
    /\ dropping' = NoSwitch
    /\ recon' = [pc |-> "list", todo |-> {}]
    /\ RecoverInterruptedSession
    /\ UNCHANGED <<selectionVars, sub, stop, ghostVars>>

ReconTo(pc, todo) == recon' = [pc |-> pc, todo |-> todo]

\* The selection is reconciled first, and its failure ends the task; then the rows
\* to look at are listed.
ReconcileList ==
    /\ recon.pc = "list"
    /\ \/ /\ ReconTo(IF OpenKeys = {} THEN "done" ELSE "step",
                     {[key |-> k, status |-> sub[k].status] : k \in OpenKeys})
          /\ UNCHANGED used
       \/ SpendFault /\ ReconTo("done", {})
    /\ UNCHANGED <<selectionVars, storeVars, queueVars, wk, other, intr, dropping, ghostVars>>

Reconciled == [about |-> "ambiguous", dispatched |-> "completed"]

\* Defect: the row is rewritten whatever its status is by now.
AsListedAnyway(e) == TRUE
AsListed(e) == sub[e.key].status = e.status

\* One listed row.  The status listed is the one the write expects; a conflict or
\* a storage error aborts the whole reconciliation.
ReconcileRow ==
    /\ recon.pc = "step" /\ recon.todo # {}
    /\ LET e == CHOOSE x \in recon.todo :
                  \A y \in recon.todo : sub[x.key].seq <= sub[y.key].seq
       IN  IF e.status \in Queued
           THEN ReconTo("step", recon.todo \ {e}) /\ UNCHANGED <<sub, used>>
           ELSE \/ /\ AsListed(e)
                   /\ sub' = [sub EXCEPT ![e.key].status = Reconciled[e.status]]
                   /\ ReconTo("step", recon.todo \ {e})
                   /\ UNCHANGED used
                \/ /\ ~AsListed(e)
                   /\ ReconTo("done", {}) /\ UNCHANGED <<sub, used>>
                \/ SpendFault /\ ReconTo("done", {}) /\ UNCHANGED sub
    /\ UNCHANGED <<selectionVars, timeline, session, stop, queueVars, wk, other, intr,
                   dropping, ghostVars>>

\* The session of the listed rows gets its worker back.
ReconcileStart ==
    /\ recon.pc = "step" /\ recon.todo = {}
    /\ ReconTo("done", {})
    /\ IF WorkIsLeft THEN StartWorker ELSE UNCHANGED <<watched, wk>>
    /\ UNCHANGED <<selectionVars, storeVars, caller, exits, gate, other, intr, dropping,
                   ghostVars, used>>

Reconcile == ReconcileList \/ ReconcileRow \/ ReconcileStart

-----------------------------------------------------------------------------
Next ==
    \/ \E k \in Keys : Submit(k) \/ Edit(k) \/ Wait(k) \/ Answer(k) \/ StopExecution(k)
    \/ \E w \in Workers : WorkerStep(w) \/ StorageError(w)
    \/ Recheck
    \/ Interrupt \/ InterruptQueue \/ InterruptProvider \/ StopQueued
    \/ \E r \in Runtimes : SelectRuntime(r)
    \/ \E s \in Switches : CancelSelection(s) \/ SwitchStep(s)
    \/ CancelForSwitch
    \/ OtherTurnStarts \/ OtherTurnOutputs \/ OtherTurnEnds
    \/ CrashRestart
    \/ Reconcile

Spec == Init /\ [][Next]_vars

\* Every task of the runtime is eventually scheduled, every provider call returns,
\* and every switch driver ends its switch (its phases have deadlines).  Clients,
\* users, faults and crashes are under no obligation.
Fairness ==
    /\ \A k \in Keys : WF_vars(Wait(k)) /\ WF_vars(Answer(k))
    /\ \A w \in Workers : WF_vars(WorkerStep(w))
    /\ WF_vars(Recheck)
    /\ WF_vars(InterruptQueue \/ InterruptProvider)
    /\ WF_vars(StopQueued)
    /\ WF_vars(CancelForSwitch)
    /\ \A s \in Switches : WF_vars(SwitchStep(s))
    /\ WF_vars(OtherTurnOutputs \/ OtherTurnEnds)
    /\ WF_vars(Reconcile)

FairSpec == Spec /\ Fairness

-----------------------------------------------------------------------------
(* Properties. *)

WorkerPc ==
    {"off", "head", "exit", "fresh", "dispatch", "admit", "claim", "boundary",
     "prepare", "deliver", "stream", "terminalize"} \cup StoragePcs

SubmissionRow ==
    [status : Status, seq : Nat, desired : Runtimes, fresh : BOOLEAN,
     link : Switches \cup {NoSwitch}, first : Nat, last : Nat, sent : BOOLEAN]

SessionState == {"idle", "running", "error"}

WorkerTask ==
    [pc : WorkerPc, key : Keys \cup {NoKey}, snap : Selection, saw : SessionState,
     start : Nat, end : Nat, fails : 0..MaxTransient]

\* Every variable holds a value of its declared shape: statuses, program counters
\* and references of the rows and tasks above.
TypeOK ==
    /\ SelectionTypeOK
    /\ sub \in [Keys -> SubmissionRow]
    /\ timeline \in Seq(Item)
    /\ session \in SessionState
    /\ stop \in [Keys -> {"none", "early", "late"}]
    /\ caller \in [Keys -> {"none", "prepared", "waiting", "refused"}]
    /\ watched \in BOOLEAN
    /\ wk \in [Workers -> WorkerTask]
    /\ exits \in [first : 0..MaxExits, second : 0..MaxExits]
    /\ gate \in Workers \cup Keys \cup {NoKey}
    /\ other \in BOOLEAN
    /\ intr \in {"none", "cancel", "provider"}
    /\ dropping \in Switches \cup {NoSwitch}
    /\ recon \in [pc : {"list", "step", "done"},
                  todo : SUBSET [key : Keys, status : Status]]
    /\ prompts \in [Keys -> Nat]
    /\ ranOn \in [Keys -> Runtimes]
    /\ used \in [faults : 0..MaxFaults, crashes : 0..MaxCrashes, turns : 0..MaxTurns,
                 selections : 0..MaxSelections, interrupts : 0..MaxInterrupts]

\* However callers retry, workers race, storage fails and the process restarts, the
\* provider receives a message at most once (mark_about_to_prompt is the fence).
AtMostOnce == \A k \in Keys : prompts[k] <= 1

\* The registry entry is held exactly while one drain_session task is in its loop:
\* no session ever has two drivers, and none drives without the entry.
OneDriver ==
    /\ watched <=> \E w \in Workers : wk[w].pc # "off"
    /\ \A v, w \in Workers : wk[v].pc # "off" /\ wk[w].pc # "off" => v = w

\* No lost wakeup: while a message is open somebody will look at the queue again - the
\* worker, a task that left its loop and still rechecks, a caller about to start one, or
\* the reconciliation - unless a storage operation failed.
QueueIsDriven ==
    OpenKeys # {} /\ used.faults = 0 =>
        \/ watched \/ exits.first + exits.second > 0 \/ recon.pc # "done"
        \/ \E k \in Keys : caller[k] = "prepared"

\* A message the client is told was not sent (failed or cancelled with no dispatch
\* time), or that is still queued, never reached the provider.
NotSentNotReceived ==
    \A k \in Keys :
        (sub[k].status \in {"failed", "cancelled"} /\ ~sub[k].sent) \/ sub[k].status \in Queued
            => prompts[k] = 0

\* With no foreign turn in the session, a completed message was delivered.
CompletedWasDelivered == \A k \in Keys : sub[k].status = "completed" => prompts[k] = 1

\* The result range load_result serves for a completed message lies in the Timeline
\* and holds its own user message, also after later messages were edited away.
CompletedRangeIsOwn ==
    \A k \in Keys : sub[k].status = "completed" =>
        /\ 1 <= sub[k].first /\ sub[k].last <= Len(timeline)
        /\ \E i \in sub[k].first..sub[k].last : timeline[i] = UserItem(k)

\* A message appears once in the Timeline, whether a turn or an interrupt wrote it.
ShownOnce ==
    \A i, j \in DOMAIN timeline :
        /\ timeline[i].kind = "user" /\ timeline[i].key # NoKey
        /\ timeline[j] = timeline[i]
        => i = j

\* A message is delivered to the runtime its row asks for.
DeliveredOnDesired == \A k \in Keys : prompts[k] > 0 => ranOn[k] = sub[k].desired

\* Claiming the running state is exclusive: without interrupts, the turn of a
\* message and a command or continued turn never run at the same time.
OneTurn ==
    ~ (other /\ \E w \in Workers : wk[w].pc \in {"boundary", "prepare", "deliver", "stream"})

\* An execution that was told to stop before its last authorisation is not sent.
StoppedIsNotSent == \A k \in Keys : stop[k] = "early" => prompts[k] = 0

\* A row that is about to prompt has no result range yet, so the reconciliation
\* branch that completes such a row from its range is never taken.
AboutHasNoResult == \A k \in Keys : sub[k].status = "about" => sub[k].first = 0

\* Messages reach the provider in queue order: when one does, every earlier one has
\* a final status.
InOrder ==
    [][\A j, k \in Keys :
         prompts'[k] > prompts[k] /\ sub[j].seq < sub[k].seq => j \notin OpenKeys]_vars

\* A final status is final; only an edit takes a completed message back.
FinalStays ==
    [][\A k \in Keys :
         /\ sub[k].status \in Terminal
         /\ sub'[k].status # sub[k].status
         => /\ sub[k].status = "completed" /\ sub'[k].status = "cancelled"
            /\ Len(timeline') < Len(timeline)]_vars

\* Every queued message gets a final status, whoever enqueued it and whether or not
\* its process survived.
EventuallyFinal == \A k \in Keys : k \in OpenKeys ~> k \notin OpenKeys

\* The dispatch gate is always handed back.
GateReopens == gate # NoKey ~> gate = NoKey

\* A session does not stay in the running state for ever.
SessionSettles == session = "running" ~> session # "running"

-----------------------------------------------------------------------------
(* The ledger these rows stand for. *)

LedgerEntry ==
    [absent |-> "none", awaiting |-> "queued", ready |-> "queued",
     about |-> "inflight", dispatched |-> "inflight", completed |-> "done",
     failed |-> "failed", cancelled |-> "replaced", ambiguous |-> "unknown"]

LedgerOf(r) ==
    IF r.status \in {"failed", "cancelled"} /\ ~r.sent THEN "unsent" ELSE LedgerEntry[r.status]

Ledger ==
    INSTANCE DeliveryLedger WITH
        Messages <- Keys, Exclusive <- (MaxTurns = 0),
        state <- [k \in Keys |-> LedgerOf(sub[k])],
        place <- [k \in Keys |-> sub[k].seq],
        received <- prompts

\* Whatever its callers, workers, storage and restarts do, the queue keeps the ledger.
ImplementsLedger == Ledger!LedgerSpec

=============================================================================
