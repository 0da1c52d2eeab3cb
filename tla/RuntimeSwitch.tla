---------------------------- MODULE RuntimeSwitch ----------------------------
(***************************************************************************)
(* The runtime switch saga of one Logical Session: RuntimeSwitchCoordinator *)
(* (crates/agent/src/runtime_switch.rs) over the runtime_switches,          *)
(* runtime_switch_operations, session_runtime_bindings and agent_sessions   *)
(* rows (crates/db/src/runtime.rs), with the watchers that supervise its    *)
(* drivers (crates/agent/src/runtime_selection.rs).                         *)
(*                                                                         *)
(* A worker is one process with a coordinator on the database.  It drives   *)
(* at most one switch of the session at a time (session_driver_lock), under *)
(* a lease kept in the switch row.  A step is one SQLite transaction or one *)
(* awaited external call.  Deadlines are not counted: another worker may    *)
(* take a lease over from an owner that died, or MaxStalls times from one   *)
(* that was suspended past its heartbeats and comes back later.            *)
(*                                                                         *)
(* The target binding of a switch has the switch's own identity unless the  *)
(* switch is a live mutation of the source binding.  The four kinds of      *)
(* active work are one flag, and all of them follow one disposition.       *)
(***************************************************************************)
EXTENDS Naturals, FiniteSets

CONSTANTS
    Runtimes,        \* canonical SessionRuntimeSelection values
    InitialRuntime,  \* the selection of the binding the session starts with
    LiveRuntimes,    \* the ones a live mutation of the source can reach
    ForcedRuntimes,  \* the ones request_switch is called with (forced fresh sessions)
    Switches,        \* identities runtime_switches rows may use
    NoSwitch,        \* a NULL switch reference
    SourceBinding,   \* the binding the session starts with
    Workers,         \* processes with a coordinator on the database
    NoOwner,         \* a NULL worker_lease_owner
    Orphan,          \* the lease of an owner that died
    Canceller,       \* the lease owner a cancellation acts as
    Policies,        \* what the policies of request_switch say of a busy session
    MaxCrashes,      \* bound on process crashes
    MaxStalls,       \* bound on takeovers from a live owner
    MaxTurns,        \* bound on turns that start while prompts are open
    MaxCancels       \* bound on cancellations

ASSUME SwitchAssumption ==
    /\ InitialRuntime \in Runtimes
    /\ LiveRuntimes \subseteq Runtimes
    /\ ForcedRuntimes \subseteq Runtimes
    /\ IsFiniteSet(Switches)
    /\ NoSwitch \notin Switches
    /\ SourceBinding \notin Switches
    /\ Policies \subseteq {"wait", "cancel", "reject"}
    /\ {NoOwner, Orphan, Canceller} \cap Workers = {}
    /\ NoOwner # Orphan /\ NoOwner # Canceller /\ Orphan # Canceller

VARIABLES
    ses,    \* the agent_sessions row
    row,    \* the runtime_switches rows
    jr,     \* the newest journaled operation of each kind of each switch
    bind,   \* the state of the session_runtime_bindings rows
    made,   \* how many native sessions each switch had created
    busy,   \* whether the session has active work
    gate,   \* the processes that have closed the session to prompts
    drv,    \* the driver of each process
    can,    \* the cancellation under way
    watch,  \* how each process supervises each switch
    boot,   \* what is left of the startup scan of each process
    used    \* how much of each bound is spent

storeVars == <<ses, row, jr, bind>>
worldVars == <<made, busy, gate>>
taskVars == <<drv, can, watch, boot>>
switchVars == <<storeVars, worldVars, taskVars, used>>

-----------------------------------------------------------------------------
(* RuntimeSwitchStatus. *)

Terminal == {"committed", "failed", "cancelled", "superseded", "ambiguous"}
Held == {"reserved", "waiting", "preparing", "prepared", "committing"}
Stage == {"absent", "requested"} \cup Held \cup Terminal

CanTransition(from, to) ==
    \/ from = "requested" /\ to \in {"reserved", "failed", "cancelled", "superseded"}
    \/ from \in Held /\ to \in {"failed", "superseded", "ambiguous"}
    \/ from \in Held \ {"committing"} /\ to = "cancelled"
    \/ from = "reserved" /\ to = "waiting"
    \/ from \in {"reserved", "waiting"} /\ to = "preparing"
    \/ from = "preparing" /\ to = "prepared"
    \/ from = "prepared" /\ to = "committing"
    \/ from = "committing" /\ to \in {"committed", "prepared"}

Bindings == Switches \cup {SourceBinding}
Owners == Workers \cup {NoOwner, Orphan, Canceller}
OpKinds == {"cancel", "mutate", "spawn", "restore", "create", "config"}

\* Defect: the creation of a native session is taken to be idempotent.
CreateAgain(op) == IF op \in {"cancel", "restore"} THEN "reconcile" ELSE "idempotent"

\* RetrySemantics of each kind of operation.
Retry(op) ==
    CASE op \in {"mutate", "spawn", "config"} -> "idempotent"
      [] op \in {"cancel", "restore"} -> "reconcile"
      [] op = "create" -> "never"

NoOp == [n |-> 0, st |-> "none"]
Idle == [pc |-> "idle", s |-> NoSwitch, op |-> "spawn", n |-> 0, ok |-> FALSE,
         seen |-> "absent", then |-> "idle"]
NoCancel == [pc |-> "idle", s |-> NoSwitch, w |-> NoOwner, seen |-> "absent"]

Init ==
    /\ ses = [revision |-> 0, selRevision |-> 0, current |-> SourceBinding,
              pending |-> NoSwitch, desired |-> InitialRuntime,
              effective |-> InitialRuntime, status |-> "ready"]
    /\ row = [s \in Switches |->
                [stage |-> "absent", runtime |-> InitialRuntime, created |-> 0,
                 source |-> SourceBinding, sourceRevision |-> 0, selRevision |-> 0,
                 target |-> s, policy |-> "wait", owner |-> NoOwner,
                 activated |-> FALSE]]
    /\ jr = [s \in Switches |-> [op \in OpKinds |-> NoOp]]
    /\ bind = [b \in Bindings |-> IF b = SourceBinding THEN "current" ELSE "none"]
    /\ made = [s \in Switches |-> 0]
    /\ busy = FALSE
    /\ gate = {}
    /\ drv = [w \in Workers |-> Idle]
    /\ can = NoCancel
    /\ watch = [w \in Workers |-> [s \in Switches |-> "none"]]
    /\ boot = [w \in Workers |-> [on |-> FALSE, pending |-> {}, left |-> {}]]
    /\ used = [crashes |-> 0, stalls |-> 0, turns |-> 0, cancels |-> 0]

-----------------------------------------------------------------------------
(* Reading the rows. *)

Live(s) == row[s].stage \in {"requested"} \cup Held
Used == {s \in Switches : row[s].stage # "absent"}
OwnsIntent(s) == row[s].selRevision = ses.selRevision
OwnsSource(s) == row[s].source = ses.current /\ row[s].sourceRevision = ses.revision
LiveMutation(s) == row[s].target = row[s].source

\* The newest live switch of the current selection revision.
LiveIntent ==
    LET intents == {s \in Used : Live(s) /\ OwnsIntent(s)} IN
    IF intents = {} THEN NoSwitch
    ELSE CHOOSE s \in intents : \A t \in intents : row[t].created <= row[s].created

-----------------------------------------------------------------------------
(* Requests. *)

NewRow(s, r, selRevision, stage, policy) ==
    row' = [row EXCEPT ![s] =
              [stage |-> stage, runtime |-> r, created |-> Cardinality(Used) + 1,
               source |-> ses.current, sourceRevision |-> ses.revision,
               selRevision |-> selRevision, target |-> s, policy |-> policy,
               owner |-> NoOwner, activated |-> FALSE]]

Unchanged(r) == ses.effective = r /\ ses.pending = NoSwitch /\ LiveIntent = NoSwitch

\* select_runtime: enqueue_desired_switch writes the desired selection with its
\* Requested switch, which waits for active work, and a watcher supervises it.  A
\* live intent for the same runtime is answered as it stands.
SelectRuntime(w, r) ==
    /\ LiveIntent # NoSwitch => row[LiveIntent].runtime # r
    /\ ~Unchanged(r)
    /\ \E s \in Switches :
         /\ row[s].stage = "absent"
         /\ NewRow(s, r, ses.selRevision + 1, "requested", "wait")
         /\ watch' = [watch EXCEPT ![w][s] = "watch"]
    /\ ses' = [ses EXCEPT !.desired = r, !.status = "preparing", !.selRevision = @ + 1]
    /\ UNCHANGED <<jr, bind, worldVars, drv, can, boot, used>>

\* Selecting the effective runtime again after a failure only clears the failure.
MaterializeCurrent(r) ==
    /\ Unchanged(r) /\ ses.status = "failed" /\ ses.desired = ses.effective
    /\ ses' = [ses EXCEPT !.status = "ready"]
    /\ UNCHANGED <<row, jr, bind, worldVars, taskVars, used>>

\* request_switch: reserves the pending slot at once, with the selection revision it
\* read before, and drives the switch itself with no watcher to start it again.
RequestSwitch(w, r) ==
    /\ ses.pending = NoSwitch
    /\ \E s \in Switches, selRevision \in 0 .. ses.selRevision, policy \in Policies :
         /\ row[s].stage = "absent"
         /\ NewRow(s, r, selRevision, "reserved", policy)
         /\ ses' = [ses EXCEPT !.pending = s]
         /\ watch' = [watch EXCEPT ![w][s] = "once"]
    /\ UNCHANGED <<jr, bind, worldVars, drv, can, boot, used>>

-----------------------------------------------------------------------------
(* What the steps below write. *)

At(w, pc) == drv[w].pc = pc
Goto(w, pc) == drv' = [drv EXCEPT ![w] = [Idle EXCEPT !.pc = pc, !.s = drv[w].s]]
Begin(w, op) ==
    drv' = [drv EXCEPT ![w] = [Idle EXCEPT !.pc = "begin", !.s = drv[w].s, !.op = op]]

\* Defect: a driver that stops keeps its switch.
StopKeepsSwitch(w) == drv' = [drv EXCEPT ![w].pc = "idle"]

Stop(w) == drv' = [drv EXCEPT ![w] = Idle]

\* renew_worker_lease succeeds exactly while the driver still owns the lease.
Holds(w) == row[drv[w].s].owner = w

\* try_acquire_worker_lease: a free lease, one whose owner died, or one whose owner
\* was suspended past its deadline.
Takeable(s) == row[s].owner \in {NoOwner, Orphan} \/ used.stalls < MaxStalls

TakeLease(s, o) ==
    /\ Live(s) /\ Takeable(s)
    /\ row' = [row EXCEPT ![s].owner = o]
    /\ used' = [used EXCEPT !.stalls = IF row[s].owner \in {NoOwner, Orphan} THEN @ ELSE @ + 1]

\* release_worker_lease: a lease somebody else took over is left alone.
Released(s, o) == [row EXCEPT ![s].owner = IF @ = o THEN NoOwner ELSE @]

\* project_active_work_phase.
Projected(s, phase) ==
    [ses EXCEPT !.status = IF ses.pending = s THEN phase ELSE @]

\* Defect: the status that is replaced is not looked at.
FinishAnyway(s, outcome) ==
    /\ row' = [row EXCEPT ![s].stage = outcome]
    /\ ses' = [ses EXCEPT !.pending = IF @ = s THEN NoSwitch ELSE @]

\* finish_without_commit: one transaction over the switch and the session.
FinishWithoutCommit(s, outcome) ==
    /\ row[s].stage = outcome \/ CanTransition(row[s].stage, outcome)
    /\ row' = [row EXCEPT ![s].stage = outcome]
    /\ ses' = [ses EXCEPT
                 !.pending = IF @ = s THEN NoSwitch ELSE @,
                 !.desired = IF OwnsIntent(s) /\ outcome # "superseded"
                             THEN ses.effective ELSE @,
                 !.status = IF ~OwnsIntent(s) \/ outcome = "superseded" THEN @
                            ELSE IF outcome = "cancelled" THEN "ready" ELSE "failed"]

\* An operation can be marked while its attempt is the one still about to be sent.
Open(s, op, n) == jr[s][op] = [n |-> n, st |-> "about"]

\* cleanup of a target that will not be committed; the source is never touched.
TargetFailed(s) ==
    bind' = IF LiveMutation(s) \/ bind[row[s].target] = "none" THEN bind
            ELSE [bind EXCEPT ![row[s].target] = "failed"]

-----------------------------------------------------------------------------
(* claim_and_drive. *)

\* The watcher of a switch, or the task of its request, starts a driver once the
\* session's driver lock is free.
DriveSwitch(w, s) ==
    /\ At(w, "idle") /\ watch[w][s] # "none"
    /\ TakeLease(s, w)
    /\ drv' = [drv EXCEPT ![w] = [Idle EXCEPT !.pc = "loop", !.s = s]]
    /\ watch' = [watch EXCEPT ![w][s] = IF @ = "once" THEN "none" ELSE @]
    /\ UNCHANGED <<ses, jr, bind, worldVars, can, boot>>

\* The watcher ends with its switch; a request's task ends with its one driver.
Unwatch(w, s) ==
    /\ watch[w][s] # "none"
    /\ \/ ~Live(s)
       \/ watch[w][s] = "once" /\ At(w, "idle") /\ ~Takeable(s)
    /\ watch' = [watch EXCEPT ![w][s] = "none"]
    /\ UNCHANGED <<storeVars, worldVars, drv, can, boot, used>>

\* A driver that finds its lease gone stops at once and leaves everything as it is.
LeaseLost(w) ==
    /\ \/ drv[w].pc \in {"loop", "target", "settle", "work", "begin", "answer", "send",
                         "sent", "revalidate"}
       \/ At(w, "prepared") /\ drv[w].op = "config"
    /\ ~Holds(w)
    /\ Stop(w)
    /\ UNCHANGED <<storeVars, worldVars, can, watch, boot, used>>

\* validate_switch_ownership.
Supersede(w) ==
    /\ ~OwnsIntent(drv[w].s)
    /\ \/ FinishWithoutCommit(drv[w].s, "superseded")
       \/ row[drv[w].s].stage \in Terminal \ {"superseded"} /\ UNCHANGED <<ses, row>>
    /\ Goto(w, "error")
    /\ UNCHANGED <<jr, bind, worldVars, can, watch, boot, used>>

SourceConflict(w) ==
    /\ OwnsIntent(drv[w].s)
    /\ ~OwnsSource(drv[w].s) \/ ses.pending # drv[w].s
    /\ Goto(w, "error")
    /\ UNCHANGED <<storeVars, worldVars, can, watch, boot, used>>

\* Defect: a switch whose selection was replaced still counts as owned.
OwningSource(w) == OwnsSource(drv[w].s) /\ ses.pending = drv[w].s

Owning(w) ==
    OwnsIntent(drv[w].s) /\ OwnsSource(drv[w].s) /\ ses.pending = drv[w].s

\* claim_requested: supersedes a stale intent, fails on a moved source, waits for
\* another holder of the slot, or takes the slot.
ClaimRequested(w) ==
    LET s == drv[w].s IN
    /\ At(w, "loop") /\ Holds(w) /\ row[s].stage = "requested"
    /\ \/ /\ ~OwnsIntent(s)
          /\ row' = [row EXCEPT ![s].stage = "superseded"]
          /\ Goto(w, "release")
          /\ UNCHANGED ses
       \/ /\ OwnsIntent(s) /\ ~OwnsSource(s)
          /\ Goto(w, "error")
          /\ UNCHANGED <<ses, row>>
       \/ /\ Owning(w) \/ (OwnsIntent(s) /\ OwnsSource(s) /\ ses.pending = NoSwitch)
          /\ row' = [row EXCEPT ![s].stage = "reserved"]
          /\ ses' = [ses EXCEPT !.pending = s]
          /\ UNCHANGED drv
    /\ UNCHANGED <<jr, bind, worldVars, can, watch, boot, used>>

\* The loop of drive_state_machine: what the next step is for each status.
Dispatch(w) ==
    LET s == drv[w].s IN
    /\ At(w, "loop") /\ Holds(w)
    /\ \/ row[s].stage \in Terminal /\ Goto(w, "release") /\ UNCHANGED gate
       \/ row[s].stage = "committing" /\ Goto(w, "reconcile") /\ UNCHANGED gate
       \/ /\ Owning(w)
          /\ \/ row[s].stage = "reserved" /\ Goto(w, "target") /\ UNCHANGED gate
             \/ row[s].stage = "waiting" /\ Goto(w, "settle") /\ gate' = gate \cup {w}
             \/ /\ row[s].stage \in {"preparing", "prepared"}
                /\ drv' = [drv EXCEPT ![w].pc = "work",
                             ![w].then = IF row[s].stage = "preparing" THEN "prepare"
                                         ELSE "revalidate"]
                /\ gate' = gate \cup {w}
    /\ UNCHANGED <<storeVars, made, busy, can, watch, boot, used>>

\* The two ways a held switch can turn out not to be this driver's any more.
Disown(w) ==
    /\ \/ At(w, "loop") /\ row[drv[w].s].stage \in Held \ {"committing"}
       \/ drv[w].pc \in {"settle", "work"}
    /\ Holds(w)
    /\ Supersede(w) \/ SourceConflict(w)

\* stabilize_reserved_target: a live mutation targets the source binding.  Assessing
\* the target may fail.
StabilizeTarget(w) ==
    LET s == drv[w].s IN
    /\ At(w, "target")
    /\ \/ /\ Holds(w) /\ row[s].stage = "reserved"
          /\ \E target \in {s} \cup (IF row[s].runtime \in LiveRuntimes
                                     THEN {row[s].source} ELSE {}) :
               row' = [row EXCEPT ![s].target = target]
          /\ Goto(w, "settle")
       \/ Goto(w, "error") /\ UNCHANGED row
    /\ UNCHANGED <<ses, jr, bind, worldVars, can, watch, boot, used>>

-----------------------------------------------------------------------------
(* settle_active_work and ensure_commit_idle. *)

\* What a driver does on seeing the session busy: reject, cancel the work through the
\* journal and look again, or wait.  "then" is where it goes once the work is over.
Meets(w, policy) == busy /\ row[drv[w].s].policy = policy

Reject(w) == Meets(w, "reject") /\ Goto(w, "error")

CancelWork(w, then) ==
    /\ Meets(w, "cancel")
    /\ drv' = [drv EXCEPT ![w].pc = "begin", ![w].op = "cancel", ![w].then = then]

\* One round of settle_active_work after the lease and the ownership were checked.
SettleActiveWork(w) ==
    /\ At(w, "settle") /\ Holds(w) /\ Owning(w)
    /\ \/ Reject(w) \/ CancelWork(w, "fence")
       \/ Meets(w, "wait") /\ Goto(w, "wait")
       \/ ~busy /\ Goto(w, "fence")
    /\ UNCHANGED <<storeVars, worldVars, can, watch, boot, used>>

\* The wait is made durable the first time ...
BeginWaiting(w) ==
    LET s == drv[w].s IN
    /\ At(w, "wait")
    /\ \/ /\ row[s].stage = "reserved"
          /\ row' = [row EXCEPT ![s].stage = "waiting"]
          /\ ses' = Projected(s, "waiting")
          /\ Goto(w, "park")
       \/ row[s].stage = "waiting" /\ Goto(w, "park") /\ UNCHANGED <<ses, row>>
       \/ row[s].stage \notin {"reserved", "waiting"} /\ Goto(w, "error")
          /\ UNCHANGED <<ses, row>>
    /\ UNCHANGED <<jr, bind, worldVars, can, watch, boot, used>>

\* ... and prompts are closed before every sleep.
Park(w) ==
    /\ At(w, "park")
    /\ gate' = gate \cup {w}
    /\ Goto(w, "settle")
    /\ UNCHANGED <<storeVars, made, busy, can, watch, boot, used>>

\* An idle session is closed to prompts, the switch advances to Preparing if its row
\* still is as it was read, and the work is probed once more behind the gate.
Fence(w) ==
    /\ At(w, "fence")
    /\ gate' = gate \cup {w}
    /\ drv' = [drv EXCEPT ![w].pc = "advance", ![w].seen = row[drv[w].s].stage]
    /\ UNCHANGED <<storeVars, made, busy, can, watch, boot, used>>

AdvanceToPreparing(w) ==
    LET s == drv[w].s IN
    /\ At(w, "advance")
    /\ \/ /\ drv[w].seen \in {"reserved", "waiting"} /\ row[s].stage = drv[w].seen
          /\ row' = [row EXCEPT ![s].stage = "preparing"]
          /\ ses' = Projected(s, "preparing")
          /\ Goto(w, "fenced")
       \/ /\ drv[w].seen \notin {"reserved", "waiting"} \/ row[s].stage # drv[w].seen
          /\ Goto(w, "error")
          /\ UNCHANGED <<ses, row>>
    /\ UNCHANGED <<jr, bind, worldVars, can, watch, boot, used>>

ProbeFenced(w) ==
    /\ At(w, "fenced")
    /\ Goto(w, IF busy THEN "error" ELSE "loop")
    /\ UNCHANGED <<storeVars, worldVars, can, watch, boot, used>>

\* Defect: the work that runs by then is not looked for again.
TrustFence(w) ==
    /\ At(w, "work") /\ Holds(w) /\ Owning(w)
    /\ gate' = gate \cup {w}
    /\ Goto(w, drv[w].then)
    /\ UNCHANGED <<storeVars, made, busy, can, watch, boot, used>>

\* ensure_commit_idle, before preparing and before committing.
EnsureCommitIdle(w) ==
    /\ At(w, "work") /\ Holds(w) /\ Owning(w)
    /\ gate' = gate \cup {w}
    /\ \/ Reject(w) \/ CancelWork(w, drv[w].then)
       \/ Meets(w, "wait") /\ UNCHANGED drv
       \/ ~busy /\ Goto(w, drv[w].then)
    /\ UNCHANGED <<storeVars, made, busy, can, watch, boot, used>>

\* The probe after a cancellation; work that is still there is a failure.
Recheck(w) ==
    /\ At(w, "recheck")
    /\ Goto(w, IF busy THEN "error" ELSE drv[w].then)
    /\ UNCHANGED <<storeVars, worldVars, can, watch, boot, used>>

-----------------------------------------------------------------------------
(* prepare_target: journaled external operations. *)

\* Defect: a new native session is taken as configured.
AfterUnconfigured(s, op) ==
    CASE op = "cancel" -> "recheck"
      [] op = "spawn" -> "begin"
      [] OTHER -> "prepared"

\* The operation that follows one that is done.
After(s, op) ==
    CASE op = "cancel" -> "recheck"
      [] op \in {"mutate", "config"} -> "prepared"
      [] OTHER -> "begin"

NextOp(s, op) ==
    IF op = "spawn" THEN {"restore", "create"}
    ELSE IF op \in {"restore", "create"} THEN {"config"} ELSE {op}

\* The strategy is decided again; a target that no longer fits it is an error, and
\* assessing the target or acquiring the source attachment may fail.
ChooseStrategy(w) ==
    LET s == drv[w].s IN
    /\ At(w, "prepare")
    /\ \/ Goto(w, "error")
       \/ Begin(w, IF LiveMutation(s) THEN "mutate" ELSE "spawn")
    /\ UNCHANGED <<storeVars, worldVars, can, watch, boot, used>>

Journaled(s, op) == [jr EXCEPT ![s][op] = [n |-> @.n + 1, st |-> "about"]]

\* The driver goes on to what follows an operation that is done.
Proceed(w, op) ==
    \E next \in NextOp(drv[w].s, op) :
      drv' = [drv EXCEPT ![w].pc = After(drv[w].s, op), ![w].op = next,
                         ![w].n = 0, ![w].ok = FALSE]

Execute(w, op, n) ==
    drv' = [drv EXCEPT ![w].pc = "send", ![w].op = op, ![w].n = n]

\* An operation that is already done is not sent again; what it left behind is
\* acquired again, which may fail.
Skip(w, op) == Goto(w, "error") \/ Proceed(w, op)

\* mark_operation_and_switch_ambiguous: a switch that already ended keeps its end.
Ambiguous(w, op) ==
    LET s == drv[w].s IN
    /\ jr' = [jr EXCEPT ![s][op].st = "ambiguous"]
    /\ IF Live(s) THEN FinishWithoutCommit(s, "ambiguous") ELSE UNCHANGED <<ses, row>>
    /\ Goto(w, "error")

\* begin_operation, and confirm_session_operation_from_binding before it: a target
\* binding proves that the operation that creates the native session succeeded.
BeginOperation(w) ==
    LET s == drv[w].s
        op == drv[w].op
        last == jr[s][op]
        proved == op \in {"restore", "create"} /\ bind[row[s].target] # "none"
    IN
    /\ At(w, "begin") /\ Holds(w)
    /\ \/ /\ last.st = "done" \/ (last.st = "about" /\ proved)
          /\ jr' = [jr EXCEPT ![s][op].st = "done"]
          /\ Skip(w, op)
          /\ UNCHANGED <<ses, row>>
       \/ /\ \/ last.st \in {"none", "failed"}
             \/ last.st = "about" /\ ~proved /\ Retry(op) = "idempotent"
          /\ jr' = Journaled(s, op)
          /\ Execute(w, op, last.n + 1)
          /\ UNCHANGED <<ses, row>>
       \/ /\ last.st = "about" /\ ~proved /\ Retry(op) = "reconcile"
          /\ drv' = [drv EXCEPT ![w].pc = "answer", ![w].n = last.n]
          /\ UNCHANGED <<ses, row, jr>>
       \/ /\ \/ last.st = "ambiguous"
             \/ last.st = "about" /\ ~proved /\ Retry(op) = "never"
          /\ Ambiguous(w, op)
    /\ UNCHANGED <<bind, worldVars, can, watch, boot, used>>

\* The answer of reconcile_operation about an operation whose outcome is unknown.
ReconcileOperation(w) ==
    LET s == drv[w].s
        op == drv[w].op
    IN
    /\ At(w, "answer") /\ Holds(w)
    /\ \/ /\ Open(s, op, drv[w].n) /\ (op = "cancel" => ~busy)
          /\ jr' = [jr EXCEPT ![s][op].st = "done"]
          /\ Skip(w, op)
          /\ UNCHANGED <<ses, row>>
       \/ /\ Open(s, op, drv[w].n) /\ (op = "cancel" => busy)
          /\ jr' = Journaled(s, op)
          /\ Execute(w, op, drv[w].n + 1)
          /\ UNCHANGED <<ses, row>>
       \/ Open(s, op, drv[w].n) /\ op # "cancel" /\ Ambiguous(w, op)
       \/ ~Open(s, op, drv[w].n) /\ Goto(w, "error") /\ UNCHANGED <<ses, row, jr>>
    /\ UNCHANGED <<bind, worldVars, can, watch, boot, used>>

\* The external call itself.  An agent that answers a new session with an error has
\* created none; a cancellation may fail with the work over or not.
Send(w) ==
    LET s == drv[w].s
        op == drv[w].op
    IN
    /\ At(w, "send") /\ Holds(w)
    /\ \E ok \in BOOLEAN :
         /\ drv' = [drv EXCEPT ![w].pc = "sent", ![w].ok = ok]
         /\ made' = [made EXCEPT ![s] = IF op = "create" /\ ok THEN @ + 1 ELSE @]
         /\ busy' \in IF op = "cancel" THEN {FALSE, busy} ELSE {busy}
    /\ UNCHANGED <<storeVars, gate, can, watch, boot, used>>

\* The answer: a new native session gets its binding row first, a failure is
\* journaled, and a failed restore may fall back to a fresh session.
Answer(w) ==
    LET s == drv[w].s
        op == drv[w].op
        opened == op \in {"restore", "create"}
    IN
    /\ At(w, "sent") /\ Holds(w)
    /\ \/ /\ drv[w].ok
          /\ bind' = IF opened /\ bind[row[s].target] = "none"
                     THEN [bind EXCEPT ![row[s].target] = "preparing"] ELSE bind
          /\ \/ drv' = [drv EXCEPT ![w].pc = "mark"]
             \/ opened /\ bind[row[s].target] # "none" /\ Goto(w, "error")
          /\ UNCHANGED jr
       \/ /\ ~drv[w].ok /\ Open(s, op, drv[w].n)
          /\ jr' = [jr EXCEPT ![s][op].st = "failed"]
          /\ \/ Goto(w, "error")
             \/ op = "restore" /\ Begin(w, "create")
          /\ UNCHANGED bind
       \/ ~drv[w].ok /\ ~Open(s, op, drv[w].n) /\ Goto(w, "error") /\ UNCHANGED <<jr, bind>>
    /\ UNCHANGED <<ses, row, worldVars, can, watch, boot, used>>

MarkSucceeded(w) ==
    LET s == drv[w].s
        op == drv[w].op
    IN
    /\ At(w, "mark")
    /\ \/ /\ Open(s, op, drv[w].n)
          /\ jr' = [jr EXCEPT ![s][op].st = "done"]
          /\ Proceed(w, op)
       \/ ~Open(s, op, drv[w].n) /\ Goto(w, "error") /\ UNCHANGED jr
    /\ UNCHANGED <<ses, row, bind, worldVars, can, watch, boot, used>>

\* The context delta is built for a restarted target, which may fail, and the switch
\* becomes Prepared.
AdvanceToPrepared(w) ==
    LET s == drv[w].s IN
    /\ At(w, "prepared")
    /\ drv[w].op = "config" => Holds(w)
    /\ \/ /\ row[s].stage = "preparing"
          /\ row' = [row EXCEPT ![s].stage = "prepared"]
          /\ Goto(w, "loop")
       \/ /\ row[s].stage # "preparing" \/ drv[w].op = "config"
          /\ Goto(w, "error")
          /\ UNCHANGED row
    /\ UNCHANGED <<ses, jr, bind, worldVars, can, watch, boot, used>>

-----------------------------------------------------------------------------
(* commit_prepared. *)

\* Acquiring or revalidating the prepared target may fail, the lease is renewed.
Revalidate(w) ==
    /\ At(w, "revalidate")
    /\ \/ Goto(w, "error")
       \/ Holds(w) /\ bind[row[drv[w].s].target] # "none" /\ Goto(w, "committing")
    /\ UNCHANGED <<storeVars, worldVars, can, watch, boot, used>>

AdvanceToCommitting(w) ==
    LET s == drv[w].s IN
    /\ At(w, "committing")
    /\ \/ /\ row[s].stage = "prepared"
          /\ row' = [row EXCEPT ![s].stage = "committing"]
          /\ Goto(w, "commit")
       \/ row[s].stage # "prepared" /\ Goto(w, "error") /\ UNCHANGED row
    /\ UNCHANGED <<ses, jr, bind, worldVars, can, watch, boot, used>>

\* commit: the four fences are compared and the pointer, the selection and the
\* bindings move in one transaction.  A moved selection revision supersedes the
\* switch, and any other failure leaves everything to be reverted.
Commit(w) ==
    LET s == drv[w].s IN
    /\ At(w, "commit")
    /\ \/ /\ Owning(w)
          /\ ses' = [ses EXCEPT !.revision = @ + 1, !.current = row[s].target,
                       !.effective = row[s].runtime, !.status = "ready",
                       !.pending = NoSwitch]
          /\ row' = [row EXCEPT ![s].stage = "committed"]
          /\ bind' = [bind EXCEPT ![row[s].source] = "inactive", ![row[s].target] = "current"]
          /\ Goto(w, "activate")
       \/ /\ ~OwnsIntent(s)
          /\ ses' = [ses EXCEPT !.pending = IF @ = s THEN NoSwitch ELSE @]
          /\ row' = [row EXCEPT ![s].stage = "superseded"]
          /\ Goto(w, "error")
          /\ UNCHANGED bind
       \/ /\ OwnsIntent(s)
          /\ drv' = [drv EXCEPT ![w].pc = "revert", ![w].then = "error"]
          /\ UNCHANGED <<ses, row, bind>>
    /\ UNCHANGED <<jr, worldVars, can, watch, boot, used>>

\* revert_committing_to_prepared, while the session still is on the source.
Revert(w) ==
    LET s == drv[w].s
        reverts == row[s].stage = "committing" /\ ses.current = row[s].source
    IN
    /\ At(w, "revert")
    /\ row' = IF reverts THEN [row EXCEPT ![s].stage = "prepared"] ELSE row
    /\ Goto(w, IF reverts THEN drv[w].then ELSE "error")
    /\ UNCHANGED <<ses, jr, bind, worldVars, can, watch, boot, used>>

\* Defect: a switch found Committing is taken as committed wherever the session is.
ConfirmAnyway(w) ==
    LET s == drv[w].s IN
    /\ At(w, "reconcile")
    /\ row' = [row EXCEPT ![s].stage = "committed"]
    /\ ses' = [ses EXCEPT !.pending = NoSwitch]
    /\ drv' = [drv EXCEPT ![w].pc = "activate", ![w].then = "loop"]
    /\ UNCHANGED <<jr, bind, worldVars, can, watch, boot, used>>

\* confirm_committed, for a switch found Committing: the session already on the
\* target is taken as proof that the commit happened.
ConfirmCommitted(w) ==
    LET s == drv[w].s
        there == row[s].stage = "committing" /\ ses.current = row[s].target
    IN
    /\ At(w, "reconcile")
    /\ row' = IF there THEN [row EXCEPT ![s].stage = "committed"] ELSE row
    /\ ses' = IF there /\ ses.pending = s THEN [ses EXCEPT !.pending = NoSwitch] ELSE ses
    /\ drv' = [drv EXCEPT ![w].pc = IF there \/ row[s].stage = "committed" THEN "activate"
                                    ELSE "revert",
                          ![w].then = "loop"]
    /\ UNCHANGED <<jr, bind, worldVars, can, watch, boot, used>>

\* activate may fail; the switch stays committed and prompts stay closed until a
\* restart replays the activation.
Activate(w) ==
    LET s == drv[w].s IN
    /\ At(w, "activate")
    /\ \/ /\ row[s].stage = "committed"
          /\ row' = [row EXCEPT ![s].activated = TRUE]
          /\ gate' = gate \ {w}
          /\ Goto(w, "release")
       \/ Goto(w, "error") /\ UNCHANGED <<row, gate>>
    /\ UNCHANGED <<ses, jr, bind, made, busy, can, watch, boot, used>>

-----------------------------------------------------------------------------
(* The error path of drive_claimed.  The row is read once, and that reading decides *)
(* what is failed and cleaned up.                                                  *)

ReadFailed(w) ==
    /\ At(w, "error")
    /\ drv' = [drv EXCEPT ![w].seen = row[drv[w].s].stage,
                          ![w].pc = IF Live(drv[w].s) THEN "fail" ELSE "clean"]
    /\ UNCHANGED <<storeVars, worldVars, can, watch, boot, used>>

FailSwitch(w) ==
    LET s == drv[w].s IN
    /\ At(w, "fail")
    /\ \/ FinishWithoutCommit(s, "failed") /\ drv' = [drv EXCEPT ![w].pc = "clean"]
       \/ /\ row[s].stage \in Terminal \ {"failed"}
          /\ Goto(w, "release")
          /\ UNCHANGED <<ses, row>>
    /\ UNCHANGED <<jr, bind, worldVars, can, watch, boot, used>>

\* Defects: the target of a committed switch is cleaned up too, and the prompts of a
\* superseded one stay closed.
CleansCommitted ==
    {"preparing", "prepared", "committing", "committed", "superseded", "ambiguous"}
ReopensLive == {"waiting", "preparing", "prepared", "committing", "ambiguous"}

\* The statuses whose target is cleaned up, and the ones that had closed prompts.
CleansTarget == {"preparing", "prepared", "committing", "superseded", "ambiguous"}
ReopensGate == CleansTarget \cup {"waiting"}

CleanUp(w) ==
    /\ At(w, "clean")
    /\ IF drv[w].seen \in CleansTarget THEN TargetFailed(drv[w].s) ELSE UNCHANGED bind
    /\ gate' = IF drv[w].seen \in ReopensGate THEN gate \ {w} ELSE gate
    /\ Goto(w, "release")
    /\ UNCHANGED <<ses, row, jr, made, busy, can, watch, boot, used>>

Release(w) ==
    /\ At(w, "release")
    /\ row' = Released(drv[w].s, w)
    /\ Stop(w)
    /\ UNCHANGED <<ses, jr, bind, worldVars, can, watch, boot, used>>

-----------------------------------------------------------------------------
(* cancel_switch, from a task of its own in some process. *)

\* The service refuses a switch that is not the current intent; a switch that is not
\* being prepared is cancelled without its lease.
BeginCancel(w, s) ==
    /\ can.pc = "idle" /\ used.cancels < MaxCancels
    /\ Live(s) /\ OwnsIntent(s)
    /\ can' = [pc |-> IF row[s].stage \in {"requested", "waiting"} THEN "direct" ELSE "lease",
               s |-> s, w |-> w, seen |-> row[s].stage]
    /\ used' = [used EXCEPT !.cancels = @ + 1]
    /\ UNCHANGED <<storeVars, worldVars, drv, watch, boot>>

CancelDirect ==
    /\ can.pc = "direct"
    /\ \/ /\ FinishWithoutCommit(can.s, "cancelled")
          /\ gate' = IF can.seen = "waiting" THEN gate \ {can.w} ELSE gate
       \/ /\ ~CanTransition(row[can.s].stage, "cancelled") /\ row[can.s].stage # "cancelled"
          /\ UNCHANGED <<ses, row, gate>>
    /\ can' = NoCancel
    /\ UNCHANGED <<jr, bind, made, busy, drv, watch, boot, used>>

CancelLease ==
    /\ can.pc = "lease"
    /\ \/ TakeLease(can.s, Canceller) /\ can' = [can EXCEPT !.pc = "locked"]
       \/ /\ row[can.s].owner # NoOwner \/ ~Live(can.s)
          /\ can' = NoCancel
          /\ UNCHANGED <<row, used>>
    /\ UNCHANGED <<ses, jr, bind, worldVars, drv, watch, boot>>

CancelLocked ==
    /\ can.pc = "locked"
    /\ \/ /\ Live(can.s)
          /\ FinishWithoutCommit(can.s, "cancelled")
          /\ TargetFailed(can.s)
          /\ gate' = gate \ {can.w}
       \/ /\ ~CanTransition(row[can.s].stage, "cancelled")
          /\ UNCHANGED <<ses, row, bind, gate>>
    /\ can' = [can EXCEPT !.pc = "release"]
    /\ UNCHANGED <<jr, made, busy, drv, watch, boot, used>>

CancelRelease ==
    /\ can.pc = "release"
    /\ row' = Released(can.s, Canceller)
    /\ can' = NoCancel
    /\ UNCHANGED <<ses, jr, bind, worldVars, drv, watch, boot, used>>

-----------------------------------------------------------------------------
(* Turns, crashes and reconcile_on_startup. *)

\* A turn starts only in a process that has not closed prompts.
BeginTurn(w) ==
    /\ w \notin gate /\ ~busy /\ used.turns < MaxTurns
    /\ busy' = TRUE
    /\ used' = [used EXCEPT !.turns = @ + 1]
    /\ UNCHANGED <<storeVars, made, gate, taskVars>>

EndTurn ==
    /\ busy
    /\ busy' = FALSE
    /\ UNCHANGED <<storeVars, made, gate, taskVars, used>>

\* list_committed_current_pending_activation.
PendingActivation ==
    {s \in Used : /\ row[s].stage = "committed" /\ ses.current = row[s].target
                  /\ ~row[s].activated
                  /\ \A t \in Used : row[t].stage = "committed" /\ row[t].target = ses.current
                                       => row[t].sourceRevision <= row[s].sourceRevision}

\* A process dies and starts again: its tasks and its prompt gate are gone, its leases
\* are nobody's, and it reads what the startup reconciliation will go through.
Crash(w) ==
    /\ used.crashes < MaxCrashes
    /\ used' = [used EXCEPT !.crashes = @ + 1]
    /\ row' = [s \in Switches |->
                 [row[s] EXCEPT !.owner =
                    IF @ = w \/ (@ = Canceller /\ can.w = w) THEN Orphan ELSE @]]
    /\ drv' = [drv EXCEPT ![w] = Idle]
    /\ can' = IF can.w = w THEN NoCancel ELSE can
    /\ gate' = gate \ {w}
    /\ busy' \in {FALSE, busy}
    /\ watch' = [watch EXCEPT ![w] = [s \in Switches |-> "none"]]
    /\ boot' = [boot EXCEPT ![w] =
                  [on |-> TRUE, pending |-> PendingActivation,
                   left |-> {s \in Used : Live(s)}]]
    /\ UNCHANGED <<ses, jr, bind, made>>

\* Each non-terminal switch is driven once, oldest first; one whose lease another
\* owner seems to hold is passed over.
DriveNext(w) ==
    /\ boot[w].on /\ At(w, "idle")
    /\ \E s \in boot[w].left :
         /\ \A t \in boot[w].left : row[s].created <= row[t].created
         /\ boot' = [boot EXCEPT ![w].left = @ \ {s}]
         /\ \/ /\ TakeLease(s, w)
               /\ drv' = [drv EXCEPT ![w] = [Idle EXCEPT !.pc = "loop", !.s = s]]
            \/ /\ ~Live(s) \/ row[s].owner # NoOwner
               /\ UNCHANGED <<row, drv, used>>
    /\ UNCHANGED <<ses, jr, bind, worldVars, can, watch>>

\* Defect: the switches that were passed over get no watcher.
FinishUnwatched(w) ==
    /\ boot[w].on /\ boot[w].left = {} /\ At(w, "idle")
    /\ boot' = [boot EXCEPT ![w] = [on |-> FALSE, pending |-> {}, left |-> {}]]
    /\ UNCHANGED <<storeVars, worldVars, drv, can, watch, used>>

\* Then the activations that were pending are replayed, each may fail, and the live
\* intents of the current selection get their watchers back.
FinishBoot(w) ==
    /\ boot[w].on /\ boot[w].left = {} /\ At(w, "idle")
    /\ \E done \in SUBSET {s \in boot[w].pending : row[s].stage = "committed"} :
         /\ row' = [s \in Switches |->
                      IF s \in done THEN [row[s] EXCEPT !.activated = TRUE] ELSE row[s]]
         /\ gate' = IF done = {} THEN gate ELSE gate \ {w}
    /\ watch' = [watch EXCEPT ![w] =
                   [s \in Switches |-> IF Live(s) /\ OwnsIntent(s) THEN "watch" ELSE @[s]]]
    /\ boot' = [boot EXCEPT ![w] = [on |-> FALSE, pending |-> {}, left |-> {}]]
    /\ UNCHANGED <<ses, jr, bind, made, busy, drv, can, used>>

-----------------------------------------------------------------------------

DriverStep(w) ==
    \/ LeaseLost(w) \/ ClaimRequested(w) \/ Dispatch(w) \/ Disown(w)
    \/ StabilizeTarget(w) \/ SettleActiveWork(w) \/ BeginWaiting(w) \/ Park(w)
    \/ Fence(w) \/ AdvanceToPreparing(w) \/ ProbeFenced(w) \/ EnsureCommitIdle(w)
    \/ Recheck(w) \/ ChooseStrategy(w) \/ BeginOperation(w) \/ ReconcileOperation(w)
    \/ Send(w) \/ Answer(w) \/ MarkSucceeded(w) \/ AdvanceToPrepared(w)
    \/ Revalidate(w) \/ AdvanceToCommitting(w) \/ Commit(w) \/ Revert(w)
    \/ ConfirmCommitted(w) \/ Activate(w) \/ ReadFailed(w) \/ FailSwitch(w)
    \/ CleanUp(w) \/ Release(w)

CancelStep == CancelDirect \/ CancelLease \/ CancelLocked \/ CancelRelease

Next ==
    \/ EndTurn
    \/ CancelStep
    \/ \E r \in Runtimes : MaterializeCurrent(r)
    \/ \E w \in Workers :
         \/ DriverStep(w) \/ DriveNext(w) \/ FinishBoot(w)
         \/ BeginTurn(w) \/ Crash(w)
         \/ \E r \in Runtimes : SelectRuntime(w, r)
         \/ \E r \in ForcedRuntimes : RequestSwitch(w, r)
         \/ \E s \in Switches : DriveSwitch(w, s) \/ Unwatch(w, s) \/ BeginCancel(w, s)

Spec == Init /\ [][Next]_switchVars

\* Tasks run on, a started turn ends, the driver lock and an orphaned lease are granted
\* in the end.
Fairness ==
    /\ WF_switchVars(EndTurn)
    /\ WF_switchVars(CancelStep)
    /\ \A w \in Workers :
         /\ WF_switchVars(DriverStep(w))
         /\ WF_switchVars(DriveNext(w) \/ FinishBoot(w))
         /\ \A s \in Switches : SF_switchVars(DriveSwitch(w, s))

FairSpec == Spec /\ Fairness

-----------------------------------------------------------------------------
(* Properties. *)

Pcs == {"idle", "loop", "target", "settle", "wait", "park", "fence", "advance", "fenced",
        "work", "recheck", "prepare", "begin", "answer", "send", "sent", "mark",
        "prepared", "revalidate", "committing", "commit", "revert", "reconcile",
        "activate", "error", "fail", "clean", "release"}

\* The shape of the rows and of the tasks; a driver that ended drives nothing.
SwitchTypeOK ==
    /\ ses \in [revision : Nat, selRevision : Nat, current : Bindings,
                pending : Switches \cup {NoSwitch}, desired : Runtimes,
                effective : Runtimes, status : {"ready", "waiting", "preparing", "failed"}]
    /\ row \in [Switches ->
                  [stage : Stage, runtime : Runtimes, created : Nat, source : Bindings,
                   sourceRevision : Nat, selRevision : Nat, target : Bindings,
                   policy : {"wait", "cancel", "reject"}, owner : Owners,
                   activated : BOOLEAN]]
    /\ jr \in [Switches ->
                 [OpKinds -> [n : Nat, st : {"none", "about", "done", "failed", "ambiguous"}]]]
    /\ bind \in [Bindings -> {"none", "preparing", "current", "inactive", "failed"}]
    /\ made \in [Switches -> Nat]
    /\ busy \in BOOLEAN
    /\ gate \in SUBSET Workers
    /\ drv \in [Workers ->
                  [pc : Pcs, s : Switches \cup {NoSwitch}, op : OpKinds, n : Nat,
                   ok : BOOLEAN, seen : Stage, then : Pcs]]
    /\ \A w \in Workers : drv[w].s = NoSwitch <=> drv[w].pc = "idle"
    /\ can \in [pc : {"idle", "direct", "lease", "locked", "release"},
                s : Switches \cup {NoSwitch}, w : Workers \cup {NoOwner}, seen : Stage]
    /\ watch \in [Workers -> [Switches -> {"none", "once", "watch"}]]
    /\ boot \in [Workers -> [on : BOOLEAN, pending : SUBSET Switches, left : SUBSET Switches]]

\* However often the creation of a native session is journaled, interrupted by a crash
\* and taken up again, the agent is made to create at most one for a switch.
CreatedOnce == \A s \in Switches : made[s] <= 1

\* The binding the session points at is the one that is marked current: no commit,
\* cleanup, cancellation or replay after a crash marks another or takes the mark away.
CurrentIsUsable == \A b \in Bindings : bind[b] = "current" <=> ses.current = b

\* A committed switch went through its operations, whatever part of them ran before a
\* crash: the mutation of the live binding, or a native session and its configuration.
CommittedWasPrepared ==
    \A s \in Switches : row[s].stage = "committed" =>
      IF LiveMutation(s) THEN jr[s]["mutate"].st = "done"
      ELSE /\ jr[s]["config"].st = "done"
           /\ \E op \in {"restore", "create"} : jr[s][op].st = "done"

\* The runtime is not exchanged under a running turn, although turns start at any time
\* while prompts are open and a restart opens them again.
CommitIsIdle == [][ses'.revision # ses.revision => ~busy]_switchVars

\* Prompts stay closed without a driver only behind a commit whose activation failed,
\* or after a cancellation met a driver on its way into a sleep.
ClosedIsExplained ==
    \A w \in gate : At(w, "idle") =>
      \E s \in Switches : \/ row[s].stage = "committed" /\ ~row[s].activated
                         \/ row[s].stage = "cancelled"

\* The doc of commit: pointer, effective selection and revision advance atomically with
\* the status of the switch.
CommitIsWhole ==
    [][\A s \in Switches : row[s].stage # "committed" /\ row'[s].stage = "committed" =>
         /\ ses'.effective = row[s].runtime
         /\ ses'.revision = ses.revision + 1]_switchVars

\* The doc of can_transition_to: a switch that ended keeps the status it ended with.
TerminalIsFinal ==
    [][\A s \in Switches :
         row[s].stage \in Terminal => row'[s].stage = row[s].stage]_switchVars

\* A watcher's promise: every switch that was requested reaches a terminal status.
EventuallyTerminal ==
    \A s \in Switches : row[s].stage # "absent" ~> row[s].stage \in Terminal

-----------------------------------------------------------------------------
(* The selection these rows stand for: the stages a driver walks through while it   *)
(* holds the pending slot are one, and so are the two phases it projects.            *)

AbstractSelection ==
    [desired |-> ses.desired, effective |-> ses.effective,
     status |-> IF ses.status = "waiting" THEN "preparing" ELSE ses.status,
     pending |-> ses.pending, revision |-> ses.revision, selRevision |-> ses.selRevision]

AbstractSwitches ==
    [s \in Switches |->
       [status |-> IF row[s].stage \in Held THEN "claimed" ELSE row[s].stage,
        target |-> row[s].runtime, sourceRevision |-> row[s].sourceRevision,
        selRevision |-> row[s].selRevision, created |-> row[s].created, by |-> NoOwner]]

Selected ==
    INSTANCE RuntimeSelection WITH
        sel <- AbstractSelection, sw <- AbstractSwitches,
        Resolve <- [r \in Runtimes |-> r], Requesters <- {}, NoRequester <- NoOwner

\* Every step of the saga is a step of the selection the message queue is checked
\* against, or changes nothing of it.
ImplementsSelection == Selected!SelectionSpec

=============================================================================
