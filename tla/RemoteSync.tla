------------------------------ MODULE RemoteSync ------------------------------
(***************************************************************************)
(* How a paired client keeps its picture of a session current: the event   *)
(* tasks of one gateway connection (crates/remote/src/gateway.rs), the     *)
(* wire, the client's DomainSyncEngine and bounded event queue             *)
(* (crates/vibex-remote-client), and the mobile shell that applies events  *)
(* to its timeline and reads it again when it is told to                   *)
(* (crates/desktop-model, crates/vibex-ui, apps/mobile).                   *)
(*                                                                         *)
(* Three domains stand for the nine the client subscribes to: Timeline     *)
(* ("agent_session": numbered by the connection, kept across a handoff),   *)
(* Notice ("agent_notification": numbered by the connection, ephemeral)    *)
(* and Sidebar (the projection invalidations: numbered by the gateway,     *)
(* coalesced in the queue).  A timeline item is its sequence number; what  *)
(* the client shows is the set of items it holds.  Every connection is a   *)
(* fresh transport seeded with the cursors of the one before it, as        *)
(* AutoRemoteTransport builds them.                                        *)
(***************************************************************************)
EXTENDS Integers, Sequences, FiniteSets, SequencesExt

CONSTANTS
    Opened,         \* items the session had when the client opened it
    MaxFacts,       \* how many facts each domain may publish: [Domains -> Nat]
    FeedCap,        \* slots of a broadcast receiver of an event task
    WireCap,        \* frames between the event tasks and the client
    QueueCap,       \* event_queue_capacity
    MaxOutages,     \* connections that break and restarts of the gateway
    MaxGestures     \* terminals the reader attaches and readings the reader asks for

Timeline == "agent_session"
Notice   == "agent_notification"
Sidebar  == "sidebar"
Domains  == {Timeline, Notice, Sidebar}

ASSUME OpenedAssumption == Opened \in Nat \ {0}

ASSUME BoundsAssumption ==
    /\ MaxFacts \in [Domains -> Nat] /\ MaxFacts[Timeline] >= Opened
    /\ FeedCap \in Nat \ {0} /\ WireCap \in Nat \ {0} /\ QueueCap \in Nat \ {0}
    /\ MaxOutages \in Nat /\ MaxGestures \in Nat

VARIABLES
    server,   \* the gateway: what is published, its numbering, its event tasks
    wire,     \* frames the connection carries, oldest first
    conn,     \* its phase, and the domains its subscription told to resync
    engine,   \* DomainSyncEngine: cursor of each domain, paused
    queue,    \* TransportInner.events
    waiting,  \* a control operation of the client waits for its answer
    ui,       \* the shell: items, needs, load, page, told
    lost,     \* history: the ways news has been lost so far
    count     \* the bounded steps taken so far

vars == <<server, wire, conn, engine, queue, waiting, ui, lost, count>>

(***************************************************************************)
(* Frames and queue entries.                                               *)
(***************************************************************************)
Decisions == {"apply", "duplicate", "stale", "resync"}

\* How news is lost although no step reports an error.
Causes == {"ignored", "overwritten", "skipped", "unannounced", "evicted"}

EventFrame(d, g, n, f) == [kind |-> "event", domain |-> d, gen |-> g, seq |-> n, fact |-> f]
ResyncFrame(d, g)      == [kind |-> "control", domain |-> d, gen |-> g, seq |-> 0, fact |-> 0]

Inbound(m, decision) ==
    [kind |-> m.kind, domain |-> m.domain, decision |-> decision, fact |-> m.fact]

\* A coalesced reserve slot, as against an entry of the bounded business queue.
IsProjection(e) == e.kind = "event" /\ e.domain = Sidebar
IsBusiness(e)   == ~ IsProjection(e)

Cursor == [gen : Nat, cur : Nat]
Fresh0 == [gen |-> 0, cur |-> 0]

-----------------------------------------------------------------------------
(***************************************************************************)
(* The client's sync engine.  Each operator returns the engine after the   *)
(* event and the decision.  The events an engine keeps in pending_events   *)
(* are never read, so they are left out.                                   *)
(***************************************************************************)
Seen(e, m, decision) ==
    [engine |-> [e EXCEPT !.cursor[m.domain] =
                    IF decision = "apply" THEN [gen |-> m.gen, cur |-> m.seq] ELSE @,
                          !.paused = @ \/ decision = "resync"],
     decision |-> decision]

\* DomainSyncEngine::observe; a catch-up and a resync are handled alike.
Observe(e, m) ==
    LET c == e.cursor[m.domain] IN
    Seen(e, m, IF e.paused              THEN "resync"
               ELSE IF c = Fresh0       THEN IF m.seq = 1 THEN "apply" ELSE "resync"
               ELSE IF m.gen # c.gen    THEN IF m.gen < c.gen THEN "stale" ELSE "resync"
               ELSE IF m.seq <= c.cur   THEN "duplicate"
               ELSE IF m.seq = c.cur + 1 THEN "apply" ELSE "resync")

\* DomainSyncEngine::observe_invalidation: a gap is no reason to stop.
ObserveInvalidation(e, m) ==
    LET c == e.cursor[m.domain] IN
    Seen(e, m, IF m.gen < c.gen                       THEN "stale"
               ELSE IF m.gen = c.gen /\ m.seq <= c.cur THEN "duplicate" ELSE "apply")

\* What a transport starts with: seed_cursors of the cursors() of the one before,
\* which leave the ephemeral domain out.
SeedCursors(e) == [cursor |-> [e.cursor EXCEPT ![Notice] = Fresh0], paused |-> FALSE]

-----------------------------------------------------------------------------
(***************************************************************************)
(* push_domain_event.  At its capacity the queue gives up its business     *)
(* entries for one resync marker when an event arrives, and its oldest     *)
(* business entry when a control message does.                             *)
(***************************************************************************)
Full(q) == Cardinality({i \in DOMAIN q : IsBusiness(q[i])}) >= QueueCap

\* One slot is reserved for each projection channel, and there is one here.
Projections(q) ==
    IF \E i \in DOMAIN q : IsProjection(q[i])
    THEN <<q[CHOOSE i \in DOMAIN q : IsProjection(q[i])]>>
    ELSE <<>>

OldestBusiness(q) == CHOOSE i \in DOMAIN q :
    IsBusiness(q[i]) /\ \A j \in 1..(i - 1) : IsProjection(q[j])

\* Defect: every invalidation takes a slot.
PushUncoalesced(q, e) == Append(q, e)

PushProjection(q, e) ==
    IF \E i \in DOMAIN q : IsProjection(q[i])
    THEN [i \in DOMAIN q |-> IF IsProjection(q[i]) THEN e ELSE q[i]]
    ELSE Append(q, e)

\* Defect: an event that finds the queue full is dropped.
PushDropping(q, e) ==
    IF ~ Full(q) THEN Append(q, e)
    ELSE IF e.kind = "event" THEN q
    ELSE Append(RemoveAt(q, OldestBusiness(q)), e)

\* Defect: the marker takes the place of the projections too.
PushForgetting(q, e) ==
    IF ~ Full(q) THEN Append(q, e)
    ELSE IF e.kind = "event" THEN <<[e EXCEPT !.decision = "resync"]>>
    ELSE Append(RemoveAt(q, OldestBusiness(q)), e)

PushBusiness(q, e) ==
    IF ~ Full(q) THEN Append(q, e)
    ELSE IF e.kind = "event" THEN <<[e EXCEPT !.decision = "resync"]>> \o Projections(q)
    ELSE Append(RemoveAt(q, OldestBusiness(q)), e)

Push(q, e) == IF IsProjection(e) THEN PushProjection(q, e) ELSE PushBusiness(q, e)

\* Pushing this entry makes the queue overflow, which pauses the engine.
Overflows(q, e) == IsBusiness(e) /\ e.kind = "event" /\ Full(q)

\* A resync of the sidebar that was queued and is not any more.
Evicts(q, e) ==
    LET resyncs(s) == {i \in DOMAIN s : s[i].kind = "control" /\ s[i].domain = Sidebar}
    IN  Cardinality(resyncs(Push(q, e))) < Cardinality(resyncs(Append(q, e)))

-----------------------------------------------------------------------------
(***************************************************************************)
(* The mobile shell: TimelineModel, AgentController::apply_event and       *)
(* reload_selected_session.                                                *)
(***************************************************************************)
End(items) == CHOOSE i \in items : \A j \in items : j <= i

\* Defect: the next item is taken for the one after the last.
ApplyTrusting(u, i) == [u EXCEPT !.items = @ \cup {i}]

\* apply_live: the item is taken in either way, and a gap asks for a reading.
ApplyLive(u, i) ==
    [u EXCEPT !.items = @ \cup {i}, !.needs = @ \/ i > End(u.items) + 1]

\* A reading asked for while one is under way is not asked for again.
Reload(u) == [u EXCEPT !.load = IF @ = "idle" THEN "asked" ELSE @]

\* BackendEvent::Lagged of domain d.
Lagged(u, d) ==
    Reload([u EXCEPT !.needs = @ \/ d = Timeline,
                     !.told  = IF d = Sidebar THEN server.head[Sidebar] ELSE @])

\* RemoteEventSubscription::next and apply_event_batch for one entry.
ApplyEvent(u, e) ==
    IF e.decision = "resync" THEN Lagged(u, e.domain)
    ELSE IF e.decision # "apply" \/ e.domain = Notice THEN u
    ELSE IF e.domain = Sidebar THEN [u EXCEPT !.told = server.head[Sidebar]]
    ELSE LET v == ApplyLive(u, e.fact) IN IF v.needs THEN Reload(v) ELSE v

\* The entry asks for a reading, and the one under way is of an older state.
Skips(u, e) ==
    /\ ApplyEvent([u EXCEPT !.load = "idle"], e).load = "asked"
    /\ \/ u.load = "broken"
       \/ u.load = "read" /\ u.page < server.head[Timeline]

-----------------------------------------------------------------------------
Init ==
    /\ server = [head  |-> [d \in Domains |-> IF d = Timeline THEN Opened ELSE 0],
                 epoch |-> 1,
                 seq   |-> [d \in Domains |-> 0],
                 feed  |-> [d \in Domains |-> <<>>],
                 lag   |-> [d \in Domains |-> FALSE]]
    /\ wire = <<>> /\ queue = <<>> /\ waiting = FALSE /\ lost = {}
    /\ conn = [phase |-> "online", resync |-> {}]
    /\ engine = [cursor |-> [d \in Domains |-> Fresh0], paused |-> FALSE]
    /\ ui = [items |-> 1..Opened, needs |-> FALSE, load |-> "idle", page |-> 0, told |-> 0]
    /\ count = [outages |-> 0, gestures |-> 0]

Connected == conn.phase # "down"
Online    == conn.phase = "online"
Room      == Len(wire) < WireCap

(***************************************************************************)
(* The gateway.                                                            *)
(***************************************************************************)
\* tokio's broadcast: a receiver that is behind loses its oldest event.
Broadcast(s, d, x) ==
    [s EXCEPT !.feed[d] = IF Len(@) < FeedCap THEN Append(@, x) ELSE Append(Tail(@), x),
              !.lag[d]  = @ \/ Len(s.feed[d]) >= FeedCap]

\* A fact becomes authoritative and is broadcast; the sidebar's are numbered here.
Publish(d) ==
    /\ server.head[d] < MaxFacts[d]
    /\ LET f == server.head[d] + 1
           n == IF d = Sidebar THEN server.seq[d] + 1 ELSE 0
           s == [server EXCEPT !.head[d] = f, !.seq[d] = IF d = Sidebar THEN n ELSE @]
       IN  server' = IF Connected THEN Broadcast(s, d, [seq |-> n, fact |-> f]) ELSE s
    /\ UNCHANGED <<wire, conn, engine, queue, waiting, ui, lost, count>>

\* The event task of d reads an event, numbers it and sends it.
Emit(d) ==
    /\ Connected /\ Room /\ server.feed[d] # <<>> /\ ~ server.lag[d]
    /\ LET x == Head(server.feed[d])
           n == IF d = Sidebar THEN x.seq ELSE server.seq[d] + 1
       IN  /\ wire' = Append(wire, EventFrame(d, server.epoch, n, x.fact))
           /\ server' = [server EXCEPT !.feed[d] = Tail(@),
                                       !.seq[d] = IF d = Sidebar THEN @ ELSE n]
    /\ UNCHANGED <<conn, engine, queue, waiting, ui, lost, count>>

\* RecvError::Lagged: the client is told to read again, but not about notices.
EmitLag(d) ==
    /\ Connected /\ server.lag[d] /\ (d # Notice => Room)
    /\ wire' = IF d = Notice THEN wire
               ELSE Append(wire, ResyncFrame(d, IF d = Timeline THEN server.epoch ELSE 0))
    /\ server' = [server EXCEPT !.lag[d] = FALSE]
    /\ UNCHANGED <<conn, engine, queue, waiting, ui, lost, count>>

-----------------------------------------------------------------------------
(***************************************************************************)
(* The connection.                                                         *)
(***************************************************************************)
\* mark_disconnected, and the queue of the transport is never read again.
Disconnect(s) ==
    /\ server' = [s EXCEPT !.feed = [d \in Domains |-> <<>>], !.lag = [d \in Domains |-> FALSE]]
    /\ conn' = [phase |-> "down", resync |-> {}]
    /\ wire' = <<>> /\ queue' = <<>> /\ waiting' = FALSE
    /\ engine' = SeedCursors(engine)
    /\ ui' = [ui EXCEPT !.load = IF @ = "asked" /\ Online THEN "broken" ELSE @]
    /\ UNCHANGED lost

Drop ==
    /\ Connected /\ count.outages < MaxOutages
    /\ count' = [count EXCEPT !.outages = @ + 1]
    /\ Disconnect(server)

\* The gateway starts again: a new session epoch, and its numbering with it.
Restart ==
    /\ count.outages < MaxOutages
    /\ count' = [count EXCEPT !.outages = @ + 1]
    /\ Disconnect([server EXCEPT !.epoch = @ + 1, !.seq[Sidebar] = 0])

\* update_subscriptions: a domain the client has a position in is read again.
Resyncs == {d \in {Timeline, Sidebar} : engine.cursor[d].gen # 0}

\* The handshake and the subscription; the event tasks number from one.
Connect ==
    /\ ~ Connected
    /\ conn' = [phase |-> "syncing", resync |-> Resyncs]
    /\ server' = [server EXCEPT !.seq[Timeline] = 0, !.seq[Notice] = 0]
    /\ lost' = IF \/ Resyncs = {} /\ ui.items # 1..server.head[Timeline]
                  \/ Sidebar \notin Resyncs /\ ui.told # server.head[Sidebar]
               THEN lost \cup {"unannounced"} ELSE lost
    /\ UNCHANGED <<wire, engine, queue, waiting, ui, count>>

\* The rest of connect_inner: the resyncs of the subscription are queued.
Announce ==
    /\ conn.phase = "syncing"
    /\ conn' = [phase |-> "online", resync |-> {}]
    /\ LET add(q, d) == IF d \in conn.resync
                        THEN Push(q, Inbound(ResyncFrame(d, 0), "resync")) ELSE q
       IN  queue' = add(add(queue, Timeline), Sidebar)
    /\ UNCHANGED <<server, wire, engine, waiting, ui, lost, count>>

-----------------------------------------------------------------------------
(***************************************************************************)
(* The client.                                                             *)
(***************************************************************************)
Arrives(kind) == Connected /\ wire # <<>> /\ Head(wire).kind = kind

\* dispatch_text of an event.
ReceiveEvent ==
    /\ Arrives("event")
    /\ LET m == Head(wire)
           r == IF m.domain = Sidebar THEN ObserveInvalidation(engine, m) ELSE Observe(engine, m)
           e == Inbound(m, r.decision)
           ignored == /\ m.domain = Timeline /\ r.decision \in {"duplicate", "stale"}
                      /\ m.fact \notin ui.items
       IN  /\ engine' = [r.engine EXCEPT !.paused = @ \/ Overflows(queue, e)]
           /\ queue' = Push(queue, e)
           /\ lost' = lost \cup (IF ignored THEN {"ignored"} ELSE {})
                           \cup (IF Evicts(queue, e) THEN {"evicted"} ELSE {})
    /\ wire' = Tail(wire)
    /\ UNCHANGED <<server, conn, waiting, ui, count>>

\* dispatch_control of a ResyncRequired; a waiting operation takes it as its answer.
ReceiveControl ==
    /\ Arrives("control")
    /\ LET e == Inbound(Head(wire), "resync") IN
       /\ queue' = IF waiting THEN queue ELSE Push(queue, e)
       /\ lost' = lost \cup (IF ~ waiting /\ Evicts(queue, e) THEN {"evicted"} ELSE {})
    /\ waiting' = FALSE
    /\ wire' = Tail(wire)
    /\ UNCHANGED <<server, conn, engine, ui, count>>

\* A terminal is attached: a control operation that waits for its answer.
Attach ==
    /\ Online /\ ~ waiting /\ count.gestures < MaxGestures
    /\ waiting' = TRUE
    /\ count' = [count EXCEPT !.gestures = @ + 1]
    /\ UNCHANGED <<server, wire, conn, engine, queue, ui, lost>>

Attached ==
    /\ Online /\ waiting
    /\ waiting' = FALSE
    /\ UNCHANGED <<server, wire, conn, engine, queue, ui, lost, count>>

\* The shell takes the oldest entry and applies it.
Consume ==
    /\ Online /\ queue # <<>>
    /\ ui' = ApplyEvent(ui, Head(queue))
    /\ queue' = Tail(queue)
    /\ lost' = lost \cup (IF Skips(ui, Head(queue)) THEN {"skipped"} ELSE {})
    /\ UNCHANGED <<server, wire, conn, engine, waiting, count>>

\* The reader asks for a refresh.
Refresh ==
    /\ Online /\ count.gestures < MaxGestures
    /\ ui' = Reload(ui)
    /\ count' = [count EXCEPT !.gestures = @ + 1]
    /\ UNCHANGED <<server, wire, conn, engine, queue, waiting, lost>>

\* load_session: the gateway reads the newest window; the answer is on its way.
ReadPage ==
    /\ Online /\ ui.load = "asked"
    /\ ui' = [ui EXCEPT !.load = "read", !.page = server.head[Timeline]]
    /\ UNCHANGED <<server, wire, conn, engine, queue, waiting, lost, count>>

\* apply_session_snapshot of a window: it replaces what is shown.
FinishLoad ==
    /\ ui.load = "read"
    /\ ui' = [ui EXCEPT !.items = 1..ui.page, !.needs = FALSE, !.load = "idle", !.page = 0]
    /\ lost' = IF ui.items \subseteq 1..ui.page THEN lost ELSE lost \cup {"overwritten"}
    /\ UNCHANGED <<server, wire, conn, engine, queue, waiting, count>>

\* apply_session_snapshot of an error: the connection broke under the request.
FailLoad ==
    /\ ui.load = "broken"
    /\ ui' = [ui EXCEPT !.load = "idle"]
    /\ UNCHANGED <<server, wire, conn, engine, queue, waiting, lost, count>>

-----------------------------------------------------------------------------
Next ==
    \/ \E d \in Domains : Publish(d) \/ Emit(d) \/ EmitLag(d)
    \/ Drop \/ Restart \/ Connect \/ Announce
    \/ ReceiveEvent \/ ReceiveControl \/ Attach \/ Attached
    \/ Consume \/ Refresh \/ ReadPage \/ FinishLoad \/ FailLoad

Spec == Init /\ [][Next]_vars

\* Tasks run on, the socket is read, and a lost route is selected again until it works.
Fairness ==
    /\ \A d \in Domains : WF_vars(Emit(d)) /\ WF_vars(EmitLag(d))
    /\ WF_vars(Connect) /\ WF_vars(Announce)
    /\ WF_vars(ReceiveEvent) /\ WF_vars(ReceiveControl) /\ WF_vars(Attached)
    /\ WF_vars(Consume) /\ WF_vars(ReadPage) /\ WF_vars(FinishLoad) /\ WF_vars(FailLoad)

FairSpec == Spec /\ Fairness

-----------------------------------------------------------------------------
Frame == [kind : {"event", "control"}, domain : Domains, gen : Nat, seq : Nat, fact : Nat]
Entry == [kind : {"event", "control"}, domain : Domains, decision : Decisions, fact : Nat]

\* The shape of the state, and the bound of the client's queue: its capacity of
\* business entries and one slot for each projection.
SyncTypeOK ==
    /\ server \in [head : [Domains -> Nat], epoch : Nat, seq : [Domains -> Nat],
                   feed : [Domains -> Seq([seq : Nat, fact : Nat])],
                   lag : [Domains -> BOOLEAN]]
    /\ wire \in Seq(Frame) /\ Len(wire) <= WireCap
    /\ conn \in [phase : {"down", "syncing", "online"}, resync : SUBSET Domains]
    /\ engine \in [cursor : [Domains -> Cursor], paused : BOOLEAN]
    /\ queue \in Seq(Entry) /\ Len(queue) <= QueueCap + 1
    /\ waiting \in BOOLEAN
    /\ ui \in [items : SUBSET (1..server.head[Timeline]), needs : BOOLEAN,
               load : {"idle", "asked", "read", "broken"}, page : 0..server.head[Timeline],
               told : 0..server.head[Sidebar]]
    /\ lost \subseteq Causes
    /\ count \in [outages : 0..MaxOutages, gestures : 0..MaxGestures]

\* A conversation that shows an item and misses an earlier one is marked to be read
\* again: whatever was lost on the way, the reader is never left with a hole that
\* nothing knows of (TimelineModel::apply_live, replace_authoritative).
HoleIsFlagged ==
    (\E i \in ui.items : \E j \in 1..i : j \notin ui.items) => ui.needs

\* The ways a timeline and the sidebar fall behind for good.
TimelineCauses == {"ignored", "overwritten", "skipped", "unannounced"}
SidebarCauses  == {"unannounced", "evicted"}

\* After the last event the client shows the whole timeline, through lagging tasks,
\* a full queue, lost connections and restarts, unless the news was lost in one of
\* the ways named above (push_domain_event, update_subscriptions, reload).
EventuallyCurrent ==
    <>[](ui.items = 1..server.head[Timeline] \/ lost \cap TimelineCauses # {})

\* The sidebar is invalidated after its last change, with the same exceptions.
EventuallyTold ==
    <>[](ui.told = server.head[Sidebar] \/ lost \cap SidebarCauses # {})

\* "The event was already applied (or is an exact replay)": what sync.rs says of an
\* event the engine ignores as a duplicate.
DuplicateWasApplied ==
    \A i \in DOMAIN queue :
        queue[i].domain = Timeline /\ queue[i].decision = "duplicate"
            => queue[i].fact \in ui.items

=============================================================================
