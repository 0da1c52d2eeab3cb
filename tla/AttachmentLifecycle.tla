------------------------ MODULE AttachmentLifecycle ------------------------
\* The processes and attachments behind one logical session, as the lifecycle service,
\* the attachment registry, the process registry and the switch bridge share them
\* (agent/src/runtime_lifecycle.rs; agent-acp/src/runtime.rs,
\* session_attachment_registry.rs, process_registry.rs).
\*
\* A client and a message dispatch materialise the durable current binding under the
\* lifecycle gate and the session lock and then hold a lease; the switch bridge prepares
\* and activates another binding beside them, taking the gate only to place its leases;
\* the sweeper closes what nobody uses with the gate to itself. Processes exit at any
\* time and a credential change shuts them all down. Every process is dedicated to one
\* attachment, so its number also stands for the fence of the attachment.
EXTENDS Integers, Sequences, FiniteSets

CONSTANTS
    Processes,      \* process instances alive or referred to at the same time
    MaxAttaches,    \* attach requests of the client
    MaxTurns,       \* message dispatches
    MaxSwitches,    \* switches, by the user or to refresh a stale binding
    MaxFaults       \* processes that exit by themselves, and credential changes

ASSUME BoundsAssumption ==
    /\ 1 \in Processes /\ Processes \subseteq Nat \ {0} /\ IsFiniteSet(Processes)
    /\ {MaxAttaches, MaxTurns, MaxSwitches, MaxFaults} \subseteq Nat

Bindings == 1 .. MaxSwitches + 1
Users == {"client", "dispatch"}
LeaseHolders == Users \cup {"switchProcess", "switchTarget"}

VARIABLES
    reg,        \* the two registries: attachments, current pointer, newest generation, processes
    db,         \* what is durable: current binding, generations, authentication revisions
    fenced,     \* prompt_gate_sessions holds the session
    gate,       \* mutation_gate: who waits, in order, and who is inside
    lock,       \* who holds the session lock of the lifecycle service
    lease,      \* the process (fence) each holder keeps from being swept
    user,       \* the materialising tasks
    sw,         \* the driver of the switch
    sweep,      \* the sweeper and the candidates nobody touched since it listed them
    auth,       \* the credential change
    used,       \* how much of each bound is spent
    slip        \* what the last closing or opening of prompts came too late for

vars == <<reg, db, fenced, gate, lock, lease, user, sw, sweep, auth, used, slip>>

NoProcess == 0
NoBinding == 0
NoOne == "nobody"

NoAttachment ==
    [st |-> "none", gen |-> 0, p |-> NoProcess, closed |-> FALSE, prompt |-> FALSE,
     turn |-> FALSE]

Resting == [pc |-> "idle", b |-> NoBinding, gen |-> 0, p |-> NoProcess,
            shut |-> FALSE, retried |-> FALSE]

NoSwitchRuns == [pc |-> "idle", src |-> NoBinding, b |-> NoBinding, p |-> NoProcess,
                 gen |-> 0, shut |-> FALSE, by |-> NoOne]

NotSweeping == [pc |-> "idle", listed |-> {}, b |-> NoBinding]

-----------------------------------------------------------------------------
\* The registries

IsLive(a) == a.st \in {"Prepared", "Committed"}
Up(r, p) == p # NoProcess /\ r.proc[p] = "up"

\* A process number nothing refers to any more.
Unused(p) ==
    /\ reg.proc[p] = "gone"
    /\ \A b \in Bindings : reg.att[b].p # p
    /\ \A h \in LeaseHolders : lease[h] # p
    /\ \A u \in Users : user[u].p # p
    /\ sw.p # p

\* acquire_initialized_process: a dedicated process, reserved by whoever asked for it.
Spawned(r, p) == [r EXCEPT !.proc[p] = "up"]

\* release_process_reservation: nothing else is on a dedicated process.
Released(r, p) == IF p = NoProcess THEN r ELSE [r EXCEPT !.proc[p] = "gone"]

\* register_created: the attachment is Prepared.
Registered(r, b, g, p) ==
    [r EXCEPT !.att[b] = [NoAttachment EXCEPT !.st = "Prepared", !.gen = g, !.p = p],
              !.last = IF g > @ THEN g ELSE @]

\* activate_with_prompt_closed: may the attachment with fence p become the current one?
Activatable(r, b, p) ==
    LET a == r.att[b] IN
    /\ a.p = p /\ IsLive(a)
    /\ r.cur # b => IF r.cur # NoBinding THEN a.gen > r.att[r.cur].gen ELSE a.gen >= r.last

Activated(r, b, shut) ==
    [r EXCEPT !.att = [c \in Bindings |->
                  CASE c = b -> [@[c] EXCEPT !.st = "Committed", !.closed = shut]
                    [] c = r.cur /\ c # b ->
                         [@[c] EXCEPT !.st = "Inactive", !.closed = FALSE, !.prompt = FALSE]
                    [] OTHER -> @[c]],
              !.cur = b,
              !.last = IF r.att[b].gen > @ THEN r.att[b].gen ELSE @]

\* Defect: the current pointer survives the crash.
CrashedStaysCurrent(r, b) ==
    [r EXCEPT !.att[b].st = "Crashed", !.att[b].prompt = FALSE, !.att[b].closed = FALSE]

\* mark_crashed, of a live attachment
Crashed(r, b) ==
    [r EXCEPT !.att[b].st = "Crashed", !.att[b].prompt = FALSE, !.att[b].closed = FALSE,
              !.cur = IF @ = b THEN NoBinding ELSE @]

\* detach_attachment: the record goes, and the process with its only attachment.
Detached(r, b) ==
    IF r.att[b].st = "none" THEN r
    ELSE Released([r EXCEPT !.att[b] = NoAttachment,
                            !.cur = IF @ = b THEN NoBinding ELSE @], r.att[b].p)

\* current_attachment: a current attachment whose process is closed counts as crashed.
Current(r) ==
    IF r.cur # NoBinding /\ ~Up(r, r.att[r.cur].p) THEN Crashed(r, r.cur) ELSE r

\* Defect: only the set is changed.
SetPromptGateOfSet(closed) ==
    /\ fenced' = closed /\ reg' = Current(reg)
    /\ slip' = [slip EXCEPT !.prompt = closed /\ user["dispatch"].pc = "begin"]

\* set_session_prompt_gate: the set is changed, then the current attachment if any.
SetPromptGate(closed) ==
    LET r == Current(reg) IN
    /\ fenced' = closed
    /\ reg' = IF r.cur = NoBinding THEN r ELSE [r EXCEPT !.att[r.cur].closed = closed]
    /\ slip' = [slip EXCEPT
                  !.gate = \E u \in Users : user[u].pc = "activate" /\ user[u].shut # closed,
                  !.prompt = closed /\ user["dispatch"].pc = "begin"]

\* probe: the work of the current attachment, or what the session row says.
Busy == IF reg.cur # NoBinding THEN reg.att[reg.cur].turn ELSE db.running

\* Reading or touching an attachment moves its last use, which voids the sweep's claim.
Touched(b) == [sweep EXCEPT !.listed = @ \ {b}]

-----------------------------------------------------------------------------
\* The lifecycle gate, a fair read-write lock, and the session lock

Queued(t) == [gate EXCEPT !.queue = Append(@, t)]

\* A reader passes in its turn; a waiting writer holds up the readers behind it.
EnterShared(t) ==
    /\ gate.queue # <<>> /\ Head(gate.queue) = t /\ ~gate.writer
    /\ gate' = [gate EXCEPT !.queue = Tail(@), !.readers = @ \cup {t}]

EnterAlone(t) ==
    /\ gate.queue # <<>> /\ Head(gate.queue) = t /\ ~gate.writer /\ gate.readers = {}
    /\ gate' = [gate EXCEPT !.queue = Tail(@), !.writer = TRUE]

Left(t) == [gate EXCEPT !.readers = @ \ {t}]

\* A materialisation returns: gate and session lock are given back.
Unlocked(u) == /\ gate' = Left(u) /\ lock' = IF lock = u THEN NoOne ELSE lock

Goto(u, pc) == user' = [user EXCEPT ![u].pc = pc]
AtUser(u, pc) == user[u].pc = pc

\* The call of u fails and its guards are dropped.
Fails(u) == /\ Unlocked(u) /\ user' = [user EXCEPT ![u] = Resting]

-----------------------------------------------------------------------------
\* attach of an Owner, and materialize_internal of a dispatch

RequestRuntime(u) ==
    /\ AtUser(u, "idle")
    /\ \/ u = "client" /\ used.attaches < MaxAttaches
          /\ used' = [used EXCEPT !.attaches = @ + 1]
       \/ u = "dispatch" /\ used.turns < MaxTurns /\ used' = [used EXCEPT !.turns = @ + 1]
    /\ gate' = Queued(u)
    /\ Goto(u, "gate")
    /\ UNCHANGED <<reg, db, fenced, lock, lease, sw, sweep, auth, slip>>

EnterGate(u) ==
    /\ AtUser(u, "gate") /\ EnterShared(u) /\ Goto(u, "lock")
    /\ UNCHANGED <<reg, db, fenced, lock, lease, sw, sweep, auth, used, slip>>

\* The session lock, and under it snapshot: any current attachment counts as available,
\* whatever its process does.
Look(u) ==
    /\ AtUser(u, "lock") /\ lock = NoOne /\ lock' = u
    /\ user' = [user EXCEPT ![u] =
                  IF reg.cur = NoBinding THEN [@ EXCEPT !.pc = "read"]
                  ELSE [Resting EXCEPT !.pc = "touch", !.b = reg.cur, !.p = reg.att[reg.cur].p]]
    /\ sweep' = Touched(reg.cur)
    /\ UNCHANGED <<reg, db, fenced, gate, lease, sw, auth, used, slip>>

\* materialize_current_runtime reads the durable current binding and its generation.
ReadDurable(u) ==
    /\ AtUser(u, "read")
    /\ user' = [user EXCEPT ![u].pc = "existing", ![u].b = db.cur, ![u].gen = db.gen]
    /\ UNCHANGED <<reg, db, fenced, gate, lock, lease, sw, sweep, auth, used, slip>>

\* An attachment of the binding that fits is activated as it is; any other is detached.
TakeExisting(u) ==
    LET b == user[u].b
        a == reg.att[b] IN
    /\ AtUser(u, "existing")
    /\ IF IsLive(a) /\ a.gen = user[u].gen /\ Up(reg, a.p)
       THEN /\ user' = [user EXCEPT ![u].pc = "promptGate", ![u].p = a.p]
            /\ UNCHANGED reg
       ELSE /\ reg' = Detached(reg, b)
            /\ Goto(u, "revision")
    /\ UNCHANGED <<db, fenced, gate, lock, lease, sw, sweep, auth, used, slip>>

IsStale(b) == db.rev[b] # auth.rev

\* ensure_auth_source_revision_is_current: a stale binding is left to a switch, which
\* needs the gate itself, so it is asked for after the guards are gone.
CheckRevision(u) ==
    /\ AtUser(u, "revision")
    /\ IF IsStale(user[u].b)
       THEN /\ Unlocked(u)
            /\ user' = [user EXCEPT ![u] =
                          [Resting EXCEPT !.pc = IF user[u].retried THEN "idle" ELSE "refresh"]]
       ELSE Goto(u, "spawn") /\ UNCHANGED <<gate, lock>>
    /\ UNCHANGED <<reg, db, fenced, lease, sw, sweep, auth, used, slip>>

Spawn(u) ==
    /\ AtUser(u, "spawn")
    /\ \/ \E p \in Processes :
             /\ Unused(p) /\ \A q \in Processes : Unused(q) => p <= q
             /\ reg' = Spawned(reg, p)
             /\ user' = [user EXCEPT ![u].pc = "open", ![u].p = p]
             /\ UNCHANGED <<gate, lock>>
       \/ Fails(u) /\ UNCHANGED reg
    /\ UNCHANGED <<db, fenced, lease, sw, sweep, auth, used, slip>>

\* Defect: an attachment that cannot be opened leaves its process behind.
OpenSessionLeaks(u) ==
    LET b == user[u].b
        p == user[u].p IN
    /\ AtUser(u, "open")
    /\ \/ /\ Up(reg, p) /\ ~IsLive(reg.att[b])
          /\ reg' = Registered(reg, b, user[u].gen + 1, p) /\ Goto(u, "advance")
          /\ UNCHANGED <<gate, lock>>
       \/ UNCHANGED reg /\ Fails(u)
    /\ UNCHANGED <<db, fenced, lease, sw, sweep, auth, used, slip>>

\* acquire_attachment: the agent restores the session and the attachment is registered
\* as Prepared one generation ahead. A refusal, a live attachment of the binding or a
\* process that is gone by then gives the process back; so does a configuration that
\* cannot be replayed, but then the attachment stays behind.
OpenSession(u) ==
    LET b == user[u].b
        p == user[u].p
        r == Registered(reg, b, user[u].gen + 1, p) IN
    /\ AtUser(u, "open")
    /\ \/ /\ Up(reg, p) /\ ~IsLive(reg.att[b])
          /\ \/ reg' = r /\ Goto(u, "advance") /\ UNCHANGED <<gate, lock>>
             \/ reg' = Released(r, p) /\ Fails(u)
       \/ reg' = Released(reg, p) /\ Fails(u)
    /\ UNCHANGED <<db, fenced, lease, sw, sweep, auth, used, slip>>

\* Defect: the generation is advanced whatever binding is current.
GenerationAdvancesAnyway(u) == TRUE

\* advance_current_activation_generation: session and binding move together, if both
\* are as they were read; otherwise the prepared attachment is detached.
GenerationAdvances(u) == db.cur = user[u].b /\ db.gen = user[u].gen

\* The rebuilt configuration is stored after the generation moved, and that may fail too.
AdvanceGeneration(u) ==
    LET b == user[u].b
        Undone == /\ reg' = IF reg.att[b].p = user[u].p THEN Detached(reg, b) ELSE reg
                  /\ Fails(u) IN
    /\ AtUser(u, "advance")
    /\ IF GenerationAdvances(u)
       THEN /\ db' = [db EXCEPT !.gen = user[u].gen + 1, !.row[b] = user[u].gen + 1]
            /\ Undone \/ (Goto(u, "promptGate") /\ UNCHANGED <<reg, gate, lock>>)
       ELSE Undone /\ UNCHANGED db
    /\ UNCHANGED <<fenced, lease, sw, sweep, auth, used, slip>>

\* activate_attachment reads the set of fenced sessions first ...
ReadPromptGate(u) ==
    /\ AtUser(u, "promptGate")
    /\ user' = [user EXCEPT ![u].pc = "activate", ![u].shut = fenced]
    /\ UNCHANGED <<reg, db, fenced, gate, lock, lease, sw, sweep, auth, used, slip>>

\* ... and then replaces the current attachment under the registry lock; if the selection
\* cannot be marked ready afterwards the attachment stays.
Activate(u) ==
    LET b == user[u].b
        p == user[u].p IN
    /\ AtUser(u, "activate")
    /\ IF Activatable(reg, b, p)
       THEN /\ reg' = Activated(reg, b, user[u].shut)
            /\ \/ /\ user' = [user EXCEPT ![u] = [Resting EXCEPT !.pc = "touch", !.b = b, !.p = p]]
                  /\ UNCHANGED <<gate, lock>>
               \/ Fails(u)
       ELSE /\ reg' = IF reg.att[b].p = p /\ reg.att[b].gen > user[u].gen
                     THEN Detached(reg, b) ELSE reg
            /\ Fails(u)
    /\ sweep' = Touched(b)
    /\ UNCHANGED <<db, fenced, lease, sw, auth, used, slip>>

\* touch: the fence must still be registered and its process live.
Touch(u) ==
    LET b == user[u].b
        p == user[u].p IN
    /\ AtUser(u, "touch")
    /\ IF reg.att[b].p = p /\ Up(reg, p)
       THEN Goto(u, "lease") /\ sweep' = Touched(b) /\ UNCHANGED <<gate, lock>>
       ELSE Fails(u) /\ sweep' = IF reg.att[b].p = p THEN Touched(b) ELSE sweep
    /\ UNCHANGED <<reg, db, fenced, lease, sw, auth, used, slip>>

\* upsert_client_lease, or the guard of materialize_internal
TakeLease(u) ==
    /\ AtUser(u, "lease")
    /\ lease' = [lease EXCEPT ![u] = user[u].p]
    /\ Unlocked(u)
    /\ user' = [user EXCEPT ![u] =
                  [Resting EXCEPT !.pc = IF u = "client" THEN "idle" ELSE "admit"]]
    /\ UNCHANGED <<reg, db, fenced, sw, sweep, auth, used, slip>>

\* detach: the client gives its lease back, in a turn of the gate and the session lock.
DetachClient ==
    /\ lease["client"] # NoProcess
    /\ gate.queue = <<>> /\ ~gate.writer /\ lock = NoOne
    /\ lease' = [lease EXCEPT !["client"] = NoProcess]
    /\ UNCHANGED <<reg, db, fenced, gate, lock, user, sw, sweep, auth, used, slip>>

-----------------------------------------------------------------------------
\* The switch, driven by AcpRuntimeSwitchBridge

SwitchRuns == sw.pc # "idle"
AtSwitch(pc) == sw.pc = pc
GotoSwitch(pc) == sw' = [sw EXCEPT !.pc = pc]

\* reserve: one switch at a time; its target is a new binding of today's revision.
Begin(by) ==
    /\ ~SwitchRuns /\ ~db.pending /\ used.switches < MaxSwitches
    /\ used' = [used EXCEPT !.switches = @ + 1]
    /\ db' = [db EXCEPT !.pending = TRUE, !.rev[used.switches + 2] = auth.rev]
    /\ sw' = [NoSwitchRuns EXCEPT !.pc = "probe", !.src = db.cur,
                                  !.b = used.switches + 2, !.by = by]

UserSwitches ==
    /\ Begin(NoOne)
    /\ UNCHANGED <<reg, fenced, gate, lock, lease, user, sweep, auth, slip>>

\* refresh_stale_auth_source_revision: nothing to do if the binding was replaced
\* meanwhile, a switch of its own otherwise; a switch already pending is an error.
Refresh(u) ==
    /\ AtUser(u, "refresh")
    /\ \/ /\ ~IsStale(db.cur)
          /\ user' = [user EXCEPT ![u].pc = "gate", ![u].retried = TRUE]
          /\ gate' = Queued(u)
          /\ UNCHANGED <<db, sw, used>>
       \/ /\ IsStale(db.cur) /\ Begin(u)
          /\ Goto(u, "await") /\ UNCHANGED gate
       \/ /\ IsStale(db.cur) /\ (SwitchRuns \/ used.switches = MaxSwitches)
          /\ user' = [user EXCEPT ![u] = Resting]
          /\ UNCHANGED <<db, gate, sw, used>>
    /\ UNCHANGED <<reg, fenced, lock, lease, sweep, auth, slip>>

\* Defect: a refresh is told of its switch only if that committed.
EndedTellsCommit(committed) ==
    /\ sw' = NoSwitchRuns
    /\ IF sw.by # NoOne /\ committed
       THEN /\ user' = [user EXCEPT ![sw.by] = [Resting EXCEPT !.pc = "gate", !.retried = TRUE]]
            /\ gate' = Queued(sw.by)
       ELSE UNCHANGED <<user, gate>>

\* The switch ended and the call that asked for it returns; a refresh that committed is
\* followed by the one repetition of the materialisation.
Ended(committed) ==
    /\ sw' = NoSwitchRuns
    /\ IF sw.by = NoOne THEN UNCHANGED <<user, gate>>
       ELSE IF committed
       THEN /\ user' = [user EXCEPT ![sw.by] = [Resting EXCEPT !.pc = "gate", !.retried = TRUE]]
            /\ gate' = Queued(sw.by)
       ELSE user' = [user EXCEPT ![sw.by] = Resting] /\ UNCHANGED gate

\* settle_active_work and ensure_commit_idle under the seamless policy: as long as there
\* is work prompts are closed and the switch waits.
WaitIdle(pc, next) ==
    /\ AtSwitch(pc)
    /\ IF Busy THEN SetPromptGate(TRUE) /\ UNCHANGED sw
       ELSE GotoSwitch(next) /\ UNCHANGED <<reg, fenced, slip>>
    /\ sweep' = Touched(reg.cur)
    /\ UNCHANGED <<db, gate, lock, lease, user, auth, used>>

\* Prompts are closed when the session was seen idle, before the target is prepared and
\* before the commit: an attachment may have been activated or lost meanwhile.
ClosePrompts(pc, next) ==
    /\ AtSwitch(pc) /\ SetPromptGate(TRUE) /\ GotoSwitch(next)
    /\ sweep' = Touched(reg.cur)
    /\ UNCHANGED <<db, gate, lock, lease, user, auth, used>>

\* Work that began before prompts were closed the first time fails the switch.
Reprobe ==
    /\ AtSwitch("reprobe") /\ GotoSwitch(IF Busy THEN "fail" ELSE "closeToPrepare")
    /\ sweep' = Touched(reg.cur)
    /\ UNCHANGED <<reg, db, fenced, gate, lock, lease, user, auth, used, slip>>

SpawnTarget ==
    /\ AtSwitch("spawn")
    /\ \/ \E p \in Processes :
             /\ Unused(p) /\ \A q \in Processes : Unused(q) => p <= q
             /\ reg' = Spawned(reg, p)
             /\ sw' = [sw EXCEPT !.pc = "protectProcess", !.p = p]
             /\ gate' = Queued("switch")
       \/ GotoSwitch("fail") /\ UNCHANGED <<reg, gate>>
    /\ UNCHANGED <<db, fenced, lock, lease, user, sweep, auth, used, slip>>

\* acquire_internal: in its turn of the gate the switch touches what it is to keep and
\* places its lease.
Protect(pc, next) ==
    /\ AtSwitch(pc)
    /\ EnterShared("switch") /\ GotoSwitch(next)
    /\ UNCHANGED <<reg, db, fenced, lock, lease, user, sweep, auth, used, slip>>

PlaceLease(pc, holder, next) ==
    /\ AtSwitch(pc)
    /\ gate' = Left("switch")
    /\ IF Up(reg, sw.p)
       THEN lease' = [lease EXCEPT ![holder] = sw.p] /\ GotoSwitch(next)
       ELSE GotoSwitch("fail") /\ UNCHANGED lease
    /\ UNCHANGED <<reg, db, fenced, lock, user, sweep, auth, used, slip>>

\* restore_or_create_session takes the next generation from the session row ...
ReadGeneration ==
    /\ AtSwitch("generation")
    /\ sw' = [sw EXCEPT !.pc = "create", !.gen = db.gen + 1]
    /\ UNCHANGED <<reg, db, fenced, gate, lock, lease, user, sweep, auth, used, slip>>

\* ... and registers the new native session, unless the agent or the process fails.
CreateSession ==
    /\ AtSwitch("create")
    /\ \/ /\ Up(reg, sw.p)
          /\ reg' = Registered(reg, sw.b, sw.gen, sw.p)
          /\ gate' = Queued("switch")
          /\ GotoSwitch("protectTarget")
       \/ /\ reg' = Released(reg, sw.p) /\ GotoSwitch("fail") /\ UNCHANGED gate
    /\ UNCHANGED <<db, fenced, lock, lease, user, sweep, auth, used, slip>>

\* ensure_prepared_binding writes the row, again one generation ahead of the session;
\* the configuration that follows may fail.
InsertBinding ==
    /\ AtSwitch("insert")
    /\ db' = [db EXCEPT !.row[sw.b] = db.gen + 1]
    /\ \/ GotoSwitch("closeToCommit") \/ GotoSwitch("fail")
    /\ UNCHANGED <<reg, fenced, gate, lock, lease, user, sweep, auth, used, slip>>

\* acquire_prepared and revalidate_prepared
Revalidate ==
    LET a == reg.att[sw.b] IN
    /\ AtSwitch("revalidate")
    /\ GotoSwitch(IF IsLive(a) /\ a.gen = db.row[sw.b] /\ Up(reg, a.p)
                  THEN "commit" ELSE "fail")
    /\ UNCHANGED <<reg, db, fenced, gate, lock, lease, user, sweep, auth, used, slip>>

\* commit: the session moves to the target and both to the next generation; the
\* generation the target was prepared for (sw.gen) is not among the conditions.
Commit ==
    /\ AtSwitch("commit") /\ db.pending /\ db.cur = sw.src
    /\ db' = [db EXCEPT !.cur = sw.b, !.gen = @ + 1, !.row[sw.b] = db.gen + 1,
                        !.pending = FALSE]
    /\ sw' = [sw EXCEPT !.pc = "fit", !.gen = db.row[sw.b]]
    /\ UNCHANGED <<reg, fenced, gate, lock, lease, user, sweep, auth, used, slip>>

\* activate: the generation read back after the commit has to be the prepared one.
FitsFence == sw.gen = db.gen /\ reg.att[sw.b].st # "none"

\* The switch stays committed without activation: prompts remain closed and its leases
\* stay until the application restarts.
ActivationFails ==
    /\ \/ AtSwitch("fit") /\ ~FitsFence
       \/ AtSwitch("activate") /\ ~Activatable(reg, sw.b, sw.p)
    /\ Ended(FALSE)
    /\ slip' = [slip EXCEPT !.stranded = TRUE]
    /\ UNCHANGED <<reg, db, fenced, lock, lease, sweep, auth, used>>

ReadGateForTarget ==
    /\ AtSwitch("fit") /\ FitsFence
    /\ sw' = [sw EXCEPT !.pc = "activate", !.shut = fenced, !.p = reg.att[sw.b].p]
    /\ UNCHANGED <<reg, db, fenced, gate, lock, lease, user, sweep, auth, used, slip>>

NoSwitchLease == [lease EXCEPT !["switchProcess"] = NoProcess, !["switchTarget"] = NoProcess]

ActivateTarget ==
    /\ AtSwitch("activate") /\ Activatable(reg, sw.b, sw.p)
    /\ reg' = Activated(reg, sw.b, sw.shut)
    /\ lease' = NoSwitchLease
    /\ GotoSwitch("open")
    /\ sweep' = Touched(sw.b)
    /\ UNCHANGED <<db, fenced, gate, lock, user, auth, used, slip>>

\* mark_activation_completed, and prompts open again.
OpenPrompts ==
    /\ AtSwitch("open") /\ SetPromptGate(FALSE) /\ Ended(TRUE)
    /\ sweep' = Touched(reg.cur)
    /\ UNCHANGED <<db, lock, lease, auth, used>>

\* The error path of drive_claimed: the row fails and the slot is free ...
FailSwitch ==
    /\ AtSwitch("fail") /\ GotoSwitch("cleanup")
    /\ db' = [db EXCEPT !.pending = FALSE]
    /\ UNCHANGED <<reg, fenced, gate, lock, lease, user, sweep, auth, used, slip>>

\* ... cleanup_target detaches what was registered or gives the process back, the leases
\* of the switch are dropped, and prompts open again.
CleanupTarget ==
    /\ AtSwitch("cleanup")
    /\ reg' = IF reg.att[sw.b].st # "none" THEN Detached(reg, sw.b) ELSE Released(reg, sw.p)
    /\ lease' = NoSwitchLease
    /\ GotoSwitch("reopen")
    /\ UNCHANGED <<db, fenced, gate, lock, user, sweep, auth, used, slip>>

ReopenPrompts ==
    /\ AtSwitch("reopen") /\ SetPromptGate(FALSE) /\ Ended(FALSE)
    /\ sweep' = Touched(reg.cur)
    /\ UNCHANGED <<db, lock, lease, auth, used>>

-----------------------------------------------------------------------------
\* The turn of a dispatch, under its lease

\* The turn is over or refused: the session is idle again and the lease is dropped.
Over(running) ==
    /\ user' = [user EXCEPT !["dispatch"] = Resting]
    /\ lease' = [lease EXCEPT !["dispatch"] = NoProcess]
    /\ db' = [db EXCEPT !.running = running]

\* Admission: not while a switch is pending; the durable binding and generation become
\* the identity of the execution.
AdmitTurn ==
    /\ AtUser("dispatch", "admit")
    /\ IF db.pending \/ db.running THEN Over(db.running)
       ELSE /\ db' = [db EXCEPT !.running = TRUE]
            /\ user' = [user EXCEPT !["dispatch"].pc = "send", !["dispatch"].b = db.cur,
                                    !["dispatch"].gen = db.gen]
            /\ UNCHANGED lease
    /\ UNCHANGED <<reg, fenced, gate, lock, sw, sweep, auth, used, slip>>

\* send_turn: the current attachment has to be the identity's, on a live process.
SendTurn ==
    LET r == Current(reg)
        t == user["dispatch"] IN
    /\ AtUser("dispatch", "send")
    /\ reg' = r
    /\ IF r.cur = t.b /\ r.att[r.cur].gen = t.gen
       THEN /\ user' = [user EXCEPT !["dispatch"].pc = "prompt", !["dispatch"].p = r.att[r.cur].p, !["dispatch"].gen = 0]
            /\ UNCHANGED <<db, lease>>
       ELSE Over(FALSE)
    /\ sweep' = Touched(reg.cur)
    /\ UNCHANGED <<fenced, gate, lock, sw, auth, used, slip>>

IsCurrentFence(b, p) == reg.cur = b /\ reg.att[b].p = p /\ reg.att[b].st = "Committed"

\* Defect: the prompt gate of the attachment is not looked at.
PromptAdmittedClosed(b, p) == IsCurrentFence(b, p) /\ ~reg.att[b].prompt

\* acquire_prompt
PromptAdmitted(b, p) ==
    IsCurrentFence(b, p) /\ ~reg.att[b].closed /\ ~reg.att[b].prompt

AcquirePrompt ==
    LET t == user["dispatch"] IN
    /\ AtUser("dispatch", "prompt")
    /\ IF PromptAdmitted(t.b, t.p)
       THEN /\ reg' = [reg EXCEPT !.att[t.b].prompt = TRUE]
            /\ Goto("dispatch", "begin") /\ sweep' = Touched(t.b)
            /\ UNCHANGED <<db, lease>>
       ELSE Over(FALSE) /\ UNCHANGED <<reg, sweep>>
    /\ UNCHANGED <<fenced, gate, lock, sw, auth, used, slip>>

\* apply_current and begin_turn under one registry lock, then the prompt is sent.
BeginTurn ==
    LET t == user["dispatch"] IN
    /\ AtUser("dispatch", "begin")
    /\ IF IsCurrentFence(t.b, t.p) /\ Up(reg, t.p)
       THEN /\ reg' = [reg EXCEPT !.att[t.b].turn = TRUE]
            /\ Goto("dispatch", "turn") /\ UNCHANGED <<db, lease>>
       ELSE /\ reg' = IF reg.att[t.b].p = t.p THEN [reg EXCEPT !.att[t.b].prompt = FALSE] ELSE reg
            /\ Over(FALSE)
    /\ UNCHANGED <<fenced, gate, lock, sw, sweep, auth, used, slip>>

\* The agent answers, or the request ends with its process.
EndTurn ==
    LET t == user["dispatch"] IN
    /\ AtUser("dispatch", "turn")
    /\ reg' = IF reg.att[t.b].p = t.p
              THEN [reg EXCEPT !.att[t.b].prompt = FALSE, !.att[t.b].turn = FALSE] ELSE reg
    /\ Over(FALSE)
    /\ UNCHANGED <<fenced, gate, lock, sw, sweep, auth, used, slip>>

-----------------------------------------------------------------------------
\* The sweeper

Tick ==
    /\ sweep.pc = "idle"
    /\ gate' = Queued("sweep") /\ sweep' = [sweep EXCEPT !.pc = "gate"]
    /\ UNCHANGED <<reg, db, fenced, lock, lease, user, sw, auth, used, slip>>

\* With the gate to itself the sweep drops expired client leases and lists what nobody
\* holds and nothing runs on.
Kept(l) == {l[h] : h \in LeaseHolders}

Candidates(l) ==
    {b \in Bindings : /\ reg.att[b].st \in {"Committed", "Inactive"} /\ ~reg.att[b].turn
                      /\ reg.att[b].p \notin Kept(l)}

\* Defect: the sweep shares the gate with those who place leases.
StartSweepShared ==
    /\ sweep.pc = "gate" /\ EnterShared("sweep")
    /\ lease' = lease
    /\ sweep' = [sweep EXCEPT !.pc = "sweep", !.listed = Candidates(lease)]
    /\ UNCHANGED <<reg, db, fenced, lock, user, sw, auth, used, slip>>

StartSweep ==
    /\ sweep.pc = "gate" /\ EnterAlone("sweep")
    /\ \E expired \in BOOLEAN :
          LET l == IF expired THEN [lease EXCEPT !["client"] = NoProcess] ELSE lease IN
          /\ lease' = l
          /\ sweep' = [sweep EXCEPT !.pc = "sweep", !.listed = Candidates(l)]
    /\ UNCHANGED <<reg, db, fenced, lock, user, sw, auth, used, slip>>

\* claim_idle_close_if: everything is checked again under the registry lock. Whether the
\* attachment is idle long enough, stale or over the warm limit is left open.
ClaimClose(b) ==
    LET a == reg.att[b] IN
    /\ sweep.pc = "sweep" /\ b \in sweep.listed
    /\ \/ a.st = "Committed" /\ reg.cur = b
       \/ a.st = "Inactive" /\ reg.cur # b
    /\ ~a.turn /\ Up(reg, a.p)
    /\ reg' = [reg EXCEPT !.att[b].st = "Closing", !.att[b].prompt = FALSE,
                          !.att[b].closed = FALSE,
                          !.cur = IF @ = b THEN NoBinding ELSE @]
    /\ sweep' = [sweep EXCEPT !.pc = "detach", !.b = b, !.listed = @ \ {b}]
    /\ UNCHANGED <<db, fenced, gate, lock, lease, user, sw, auth, used, slip>>

DetachSwept ==
    /\ sweep.pc = "detach"
    /\ reg' = Detached(reg, sweep.b)
    /\ sweep' = [sweep EXCEPT !.pc = "sweep", !.b = NoBinding]
    /\ UNCHANGED <<db, fenced, gate, lock, lease, user, sw, auth, used, slip>>

EndSweep ==
    /\ sweep.pc = "sweep"
    /\ sweep' = NotSweeping
    /\ gate' = [gate EXCEPT !.writer = FALSE, !.readers = @ \ {"sweep"}]
    /\ UNCHANGED <<reg, db, fenced, lock, lease, user, sw, auth, used, slip>>

-----------------------------------------------------------------------------
\* Processes and credentials

\* handle_process_exit: the process is reported as crashed ...
ExitProcess(p) ==
    /\ Up(reg, p) /\ used.faults < MaxFaults
    /\ reg' = [reg EXCEPT !.proc[p] = "crashed"]
    /\ used' = [used EXCEPT !.faults = @ + 1]
    /\ UNCHANGED <<db, fenced, sweep, auth, slip, gate, lock, lease, user, sw>>

\* ... and the watcher of a live attachment on it marks that crashed.
NoticeCrash(b) ==
    /\ IsLive(reg.att[b]) /\ reg.proc[reg.att[b].p] = "crashed"
    /\ reg' = Crashed(reg, b)
    /\ UNCHANGED <<db, fenced, gate, lock, lease, user, sw, sweep, auth, used, slip>>

\* shutdown_auth_source_processes: shut down and removed, which no watcher is told;
\* the revision follows.
ShutdownAuthSource ==
    /\ ~auth.changing /\ used.faults < MaxFaults
    /\ reg' = [reg EXCEPT !.proc = [p \in Processes |-> "gone"]]
    /\ auth' = [auth EXCEPT !.changing = TRUE]
    /\ used' = [used EXCEPT !.faults = @ + 1]
    /\ UNCHANGED <<db, fenced, gate, lock, lease, user, sw, sweep, slip>>

RaiseRevision ==
    /\ auth.changing
    /\ auth' = [rev |-> auth.rev + 1, changing |-> FALSE]
    /\ UNCHANGED <<reg, db, fenced, gate, lock, lease, user, sw, sweep, used, slip>>
-----------------------------------------------------------------------------
\* The session was created: its binding is activated, which the sweeper may undo.
Init ==
    /\ reg = [att |-> [b \in Bindings |->
                         IF b = 1
                         THEN [NoAttachment EXCEPT !.st = "Committed", !.gen = 1, !.p = 1]
                         ELSE NoAttachment],
              cur |-> 1, last |-> 1,
              proc |-> [p \in Processes |-> IF p = 1 THEN "up" ELSE "gone"]]
    /\ db = [cur |-> 1, gen |-> 1, row |-> [b \in Bindings |-> IF b = 1 THEN 1 ELSE 0],
             rev |-> [b \in Bindings |-> 1], pending |-> FALSE, running |-> FALSE]
    /\ fenced = FALSE
    /\ gate = [queue |-> <<>>, readers |-> {}, writer |-> FALSE]
    /\ lock = NoOne
    /\ lease = [h \in LeaseHolders |-> NoProcess]
    /\ user = [u \in Users |-> Resting]
    /\ sw = NoSwitchRuns
    /\ sweep = NotSweeping
    /\ auth = [rev |-> 1, changing |-> FALSE]
    /\ used = [attaches |-> 0, turns |-> 0, switches |-> 0, faults |-> 0]
    /\ slip = [gate |-> FALSE, prompt |-> FALSE, stranded |-> FALSE]

Materialise(u) ==
    \/ EnterGate(u) \/ Look(u) \/ ReadDurable(u) \/ TakeExisting(u)
    \/ CheckRevision(u) \/ Spawn(u) \/ OpenSession(u) \/ AdvanceGeneration(u)
    \/ ReadPromptGate(u) \/ Activate(u) \/ Touch(u) \/ TakeLease(u) \/ Refresh(u)

Turn == AdmitTurn \/ SendTurn \/ AcquirePrompt \/ BeginTurn

DriveSwitch ==
    \/ WaitIdle("probe", "close") \/ ClosePrompts("close", "reprobe") \/ Reprobe
    \/ ClosePrompts("closeToPrepare", "prepareIdle") \/ WaitIdle("prepareIdle", "spawn")
    \/ SpawnTarget
    \/ Protect("protectProcess", "placeProcess")
    \/ PlaceLease("placeProcess", "switchProcess", "generation")
    \/ ReadGeneration \/ CreateSession
    \/ Protect("protectTarget", "placeTarget")
    \/ PlaceLease("placeTarget", "switchTarget", "insert")
    \/ InsertBinding
    \/ ClosePrompts("closeToCommit", "commitIdle") \/ WaitIdle("commitIdle", "revalidate")
    \/ Revalidate \/ Commit
    \/ ActivationFails \/ ReadGateForTarget \/ ActivateTarget \/ OpenPrompts
    \/ FailSwitch \/ CleanupTarget \/ ReopenPrompts

Sweep == StartSweep \/ (\E b \in Bindings : ClaimClose(b)) \/ DetachSwept \/ EndSweep

Next ==
    \/ \E u \in Users : RequestRuntime(u) \/ Materialise(u)
    \/ DetachClient \/ UserSwitches \/ DriveSwitch
    \/ Turn \/ EndTurn
    \/ Tick \/ Sweep
    \/ \E p \in Processes : ExitProcess(p)
    \/ \E b \in Bindings : NoticeCrash(b)
    \/ ShutdownAuthSource \/ RaiseRevision

Spec == Init /\ [][Next]_vars

\* Every task that runs is polled again, a request to an agent returns or fails (a
\* prompt too: its process answers or ends), and both locks serve in order. Nobody has to
\* ask for anything and no process has to exit.
FairSpec ==
    /\ Spec
    /\ \A u \in Users : WF_vars(Materialise(u))
    /\ WF_vars(Turn) /\ WF_vars(EndTurn) /\ WF_vars(DriveSwitch) /\ WF_vars(Sweep)
    /\ WF_vars(\E b \in Bindings : NoticeCrash(b)) /\ WF_vars(RaiseRevision)

-----------------------------------------------------------------------------
\* Properties

Attachments ==
    [st : {"none", "Prepared", "Committed", "Inactive", "Crashed", "Closing"}, gen : Nat,
     p : Processes \cup {NoProcess}, closed : BOOLEAN, prompt : BOOLEAN, turn : BOOLEAN]

\* The state has its types, and the registry has at most one Committed attachment, the
\* one its current pointer names (activate_with_prompt_closed, mark_crashed).
AttachTypeOK ==
    /\ reg.att \in [Bindings -> Attachments]
    /\ reg.cur \in Bindings \cup {NoBinding} /\ reg.last \in Nat
    /\ reg.proc \in [Processes -> {"up", "crashed", "gone"}]
    /\ \A b \in Bindings : reg.att[b].st = "Committed" <=> reg.cur = b
    /\ db.cur \in Bindings /\ db.gen \in Nat
    /\ lease \in [LeaseHolders -> Processes \cup {NoProcess}]
    /\ lock \in Users \cup {NoOne}
    /\ gate.readers \subseteq Users \cup {"switch", "sweep"}

\* A task with a materialisation or a switch under way, whose next step will look at
\* the registries again.
Materialising(u) == user[u].pc \notin {"idle", "admit", "send", "prompt", "begin", "turn"}

AtRest == ~SwitchRuns /\ \A u \in Users : ~Materialising(u)

\* With no materialisation and no switch under way the current attachment is the durable
\* current binding at its durable generation, whatever raced before: two-phase
\* activation, the generation CAS and the registry's own check of generations together
\* (materialize_current_runtime, advance_current_activation_generation, activate). The
\* exception is a committed switch whose activation failed.
QuietAgrees ==
    AtRest /\ ~slip.stranded /\ reg.cur # NoBinding
      => reg.cur = db.cur /\ reg.att[reg.cur].gen = db.gen

\* At rest the current attachment refuses prompts exactly if the session is fenced, so no
\* session is left mute by a switch that is over. The exception is an activation that
\* read the set before it was changed (activate_attachment).
GateFollowsFence ==
    AtRest /\ ~slip.gate /\ reg.cur # NoBinding => reg.att[reg.cur].closed = fenced

\* A process that is up belongs to an attachment or to the task that spawned it, on every
\* error path of acquire_attachment, prepare_target and cleanup_target.
NoOrphan ==
    \A p \in Processes :
        Up(reg, p) => \/ \E b \in Bindings : reg.att[b].p = p
                      \/ \E u \in Users : user[u].p = p
                      \/ sw.p = p

\* What the sweeper closes is on no process someone holds a lease on, although leases are
\* placed after the touch that voids the sweeper's claim (sweep_idle, acquire_internal).
LeaseProtects ==
    [][\A b \in Bindings :
          reg.att[b].st # "Closing" /\ reg'.att[b].st = "Closing"
            => reg.att[b].p \notin Kept(lease)]_vars

\* A switch commits while no turn runs on the attachment of its source or on the current
\* one: the source is fenced before it is probed, and an attachment rebuilt meanwhile is
\* fenced too. The exceptions are a prompt acquired before the fence and begun after it,
\* and an activation that read the set before the fence (WaitIdle, ensure_commit_idle).
CommitMeetsNoTurn ==
    [][AtSwitch("commit") /\ sw'.pc = "fit" /\ ~slip.prompt /\ ~slip.gate
         => \A b \in Bindings \cap {sw.src, reg.cur} : ~reg.att[b].turn]_vars

\* The generation a switch prepared its target for is the one its commit gives the
\* session; a preparation that lost the generation to someone else does not commit
\* (runtime-switch-coordinator.md: "Prepared generation CAS loses | clean only the losing
\* prepared fence"; commit, activate).
CommitFitsFence == AtSwitch("fit") => sw.gen = db.gen

\* Whoever asks for a runtime is answered and every switch ends (the bounds end the
\* requests), although the sweeper queues for the gate between readers and a stale
\* binding makes a materialisation wait for a switch that needs the gate itself
\* (refresh_stale_auth_source_revision, mutation_gate).
EveryoneReturns == <>[]AtRest
=============================================================================
