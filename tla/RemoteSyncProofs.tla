--------------------------- MODULE RemoteSyncProofs ---------------------------
(***************************************************************************)
(* A hole in the conversation a client shows is always marked to be read   *)
(* again, for every capacity and every number of events, outages and       *)
(* gestures.  The inductive invariant adds to HoleIsFlagged the shape of   *)
(* what the event can pass through on its way (the feeds, the wire, the    *)
(* engine's decision and the queue), and that the items shown have a last  *)
(* one, against which a gap is measured.  A second invariant on top of it  *)
(* bounds the client's queue and what it shows.                            *)
(***************************************************************************)
EXTENDS RemoteSync, WellFoundedInduction, SequenceTheorems, FiniteSetTheorems, TLAPS

Fact   == [seq : Nat, fact : Nat]
Server == [head : [Domains -> Nat], epoch : Nat, seq : [Domains -> Nat],
           feed : [Domains -> Seq(Fact)], lag : [Domains -> BOOLEAN]]
Engine == [cursor : [Domains -> Cursor], paused : BOOLEAN]
Shell  == [items : SUBSET Nat, needs : BOOLEAN, load : {"idle", "asked", "read", "broken"},
           page : Nat, told : Nat]

\* What is published, and what carries it to the queue.
Carried ==
    /\ server \in Server /\ server.head[Timeline] >= 1
    /\ wire \in Seq(Frame)
    /\ engine \in Engine
    /\ queue \in Seq(Entry)

\* The items shown have a last one, and a hole below it is marked.
Shown(u) ==
    /\ u \in Shell
    /\ u.load = "read" => u.page >= 1
    /\ \E e \in u.items : \A i \in u.items : i <= e
    /\ (\E i \in u.items : \E j \in 1..i : j \notin u.items) => u.needs

IInv == Carried /\ Shown(ui)

-----------------------------------------------------------------------------
(* The queue. *)

Below == {p \in Nat \X Nat : p[1] < p[2]}

\* A full queue has an oldest business entry.
LEMMA OldestExists ==
    ASSUME NEW S, NEW q \in Seq(S), Full(q)
    PROVE  OldestBusiness(q) \in 1..Len(q) /\ IsBusiness(q[OldestBusiness(q)])
<1> DEFINE B == {i \in DOMAIN q : IsBusiness(q[i])}
<1>1. B # {}
  <2>1. Cardinality({}) = 0
    BY FS_EmptySet
  <2>2. Cardinality(B) >= QueueCap /\ QueueCap \in Nat \ {0}
    BY BoundsAssumption DEF Full
  <2>3. ASSUME B = {} PROVE Cardinality(B) = 0
    <3> HIDE DEF B
    <3> QED BY <2>1, <2>3, Zenon
  <2>4. ASSUME Cardinality(B) = 0 PROVE FALSE
    <3> HIDE DEF B
    <3> QED BY <2>2, <2>4
  <2> QED BY <2>3, <2>4
<1>2. B \subseteq Nat /\ DOMAIN q = 1..Len(q) /\ Len(q) \in Nat
  OBVIOUS
<1>3. IsWellFoundedOn(Below, Nat)
  BY NatLessThanWellFounded DEF OpToRel, Below
<1>4. PICK i \in B : \A j \in B : ~ (<<j, i>> \in Below)
  <2> HIDE DEF B
  <2> QED BY <1>1, <1>2, <1>3, WFMin
<1>5. \A j \in 1..(i - 1) : IsProjection(q[j])
  <2> SUFFICES ASSUME NEW j \in 1..(i - 1) PROVE IsProjection(q[j])
    OBVIOUS
  <2>1. j \in DOMAIN q /\ j \in Nat /\ i \in Nat /\ j < i
    BY <1>2
  <2>2. j \notin B
    BY <2>1, <1>4 DEF Below
  <2> QED BY <2>1, <2>2 DEF IsBusiness
<1>6. IsBusiness(q[i]) /\ i \in DOMAIN q
  OBVIOUS
<1> HIDE DEF B
<1> QED BY <1>2, <1>5, <1>6 DEF OldestBusiness

\* A marker or a reserved slot is an entry like any other.
LEMMA ProjectionsShape ==
    ASSUME NEW S, NEW q \in Seq(S)
    PROVE  Projections(q) \in Seq(S)
<1>1. CASE \E i \in DOMAIN q : IsProjection(q[i])
  <2> DEFINE k == CHOOSE i \in DOMAIN q : IsProjection(q[i])
  <2>1. k \in DOMAIN q
    BY <1>1
  <2>2. q[k] \in S
    BY <2>1
  <2> HIDE DEF k
  <2>3. <<q[k]>> \in Seq(S)
    BY <2>2
  <2> QED BY <1>1, <2>3 DEF Projections, k
<1>2. CASE ~ \E i \in DOMAIN q : IsProjection(q[i])
  BY <1>2, EmptySeq DEF Projections
<1> QED BY <1>1, <1>2

\* push_domain_event keeps a queue a queue.
LEMMA PushShape ==
    ASSUME NEW S, NEW q \in Seq(S), NEW e \in S, [e EXCEPT !.decision = "resync"] \in S
    PROVE  Push(q, e) \in Seq(S)
<1>1. Append(q, e) \in Seq(S)
  OBVIOUS
<1>2. PushProjection(q, e) \in Seq(S)
  <2>1. [i \in DOMAIN q |-> IF IsProjection(q[i]) THEN e ELSE q[i]] \in Seq(S)
    <3> DEFINE f == [i \in 1..Len(q) |-> IF IsProjection(q[i]) THEN e ELSE q[i]]
    <3>1. f \in [1..Len(q) -> S] /\ Len(q) \in Nat
      OBVIOUS
    <3>2. f \in Seq(S)
      <4> HIDE DEF f
      <4> QED BY <3>1
    <3>3. DOMAIN q = 1..Len(q)
      OBVIOUS
    <3> QED BY <3>2, <3>3
  <2> QED BY <1>1, <2>1 DEF PushProjection
<1>3. PushBusiness(q, e) \in Seq(S)
  <2>1. CASE ~ Full(q)
    BY <1>1, <2>1 DEF PushBusiness
  <2>2. CASE Full(q) /\ e.kind = "event"
    <3>1. [e EXCEPT !.decision = "resync"] \in S
      OBVIOUS
    <3>2. <<[e EXCEPT !.decision = "resync"]>> \in Seq(S)
      BY <3>1
    <3>3. <<[e EXCEPT !.decision = "resync"]>> \o Projections(q) \in Seq(S)
      BY <3>2, ProjectionsShape, ConcatProperties
    <3> QED BY <2>2, <3>3 DEF PushBusiness
  <2>3. CASE Full(q) /\ e.kind # "event"
    <3> DEFINE k == OldestBusiness(q)
    <3>1. k \in 1..Len(q)
      BY <2>3, OldestExists
    <3> HIDE DEF k
    <3>2. SubSeq(q, 1, k - 1) \in Seq(S)
      BY <3>1, SubSeqProperties
    <3>3. SubSeq(q, k + 1, Len(q)) \in Seq(S)
      BY <3>1, SubSeqProperties
    <3>4. RemoveAt(q, k) \in Seq(S)
      BY <3>2, <3>3, ConcatProperties DEF RemoveAt
    <3>5. Append(RemoveAt(q, k), e) \in Seq(S)
      BY <3>4
    <3> QED BY <2>3, <3>5 DEF PushBusiness, k
  <2> QED BY <2>1, <2>2, <2>3
<1> QED BY <1>2, <1>3 DEF Push

\* A marker is an entry.
LEMMA MarkerShape ==
    ASSUME NEW e \in Entry
    PROVE  [e EXCEPT !.decision = "resync"] \in Entry
BY DEF Entry, Decisions

-----------------------------------------------------------------------------
(* The engine. *)

\* The engine always comes to one of the four decisions.
LEMMA ObserveShape ==
    ASSUME NEW e \in Engine, NEW m \in Frame
    PROVE  /\ Observe(e, m).engine \in Engine /\ Observe(e, m).decision \in Decisions
           /\ ObserveInvalidation(e, m).engine \in Engine
           /\ ObserveInvalidation(e, m).decision \in Decisions
<1>1. e.cursor[m.domain] \in Cursor /\ m.domain \in Domains /\ m.gen \in Nat /\ m.seq \in Nat
  BY DEF Engine, Frame
<1>2. ASSUME NEW d \in Decisions
      PROVE  Seen(e, m, d).engine \in Engine /\ Seen(e, m, d).decision = d
  BY <1>1 DEF Seen, Engine, Cursor
<1>3. PICK od \in Decisions : Observe(e, m) = Seen(e, m, od)
  BY <1>1 DEF Observe, Decisions
<1>4. PICK id \in Decisions : ObserveInvalidation(e, m) = Seen(e, m, id)
  BY <1>1 DEF ObserveInvalidation, Decisions, Cursor
<1> QED BY <1>2, <1>3, <1>4

-----------------------------------------------------------------------------
(* The shell. *)

\* An item is either next to the last one or leaves a mark.
LEMMA ApplyLiveShown ==
    ASSUME NEW u, Shown(u), NEW i \in Nat
    PROVE  Shown(ApplyLive(u, i))
<1> DEFINE v == ApplyLive(u, i)
<1>1. PICK e \in u.items : \A k \in u.items : k <= e
  BY DEF Shown
<1>2. u.items \subseteq Nat /\ u.needs \in BOOLEAN /\ e \in Nat
  BY DEF Shown, Shell
<1>3. End(u.items) = e
  <2>1. End(u.items) \in u.items /\ \A k \in u.items : k <= End(u.items)
    BY <1>1 DEF End
  <2> QED BY <1>1, <1>2, <2>1
<1>4. v.items = u.items \cup {i} /\ v.needs = (u.needs \/ i > e + 1)
      /\ v.load = u.load /\ v.page = u.page /\ v \in Shell
  <2>1. v = [u EXCEPT !.items = u.items \cup {i}, !.needs = u.needs \/ i > e + 1]
    BY <1>3 DEF ApplyLive
  <2>2. (u.needs \/ i > e + 1) \in BOOLEAN
    BY <1>2, Zenon
  <2> DEFINE n == u.needs \/ i > e + 1
  <2>3. n \in BOOLEAN /\ v = [u EXCEPT !.items = u.items \cup {i}, !.needs = n]
    BY <2>1, <2>2
  <2> HIDE DEF n, v
  <2>4. u \in Shell
    BY DEF Shown
  <2>5. v.items = u.items \cup {i} /\ v.needs = n /\ v.load = u.load /\ v.page = u.page
        /\ v \in Shell
    BY <2>3, <2>4, <1>2 DEF Shell
  <2> QED BY <2>5 DEF n
<1> HIDE DEF v
<1>5. \E x \in v.items : \A k \in v.items : k <= x
  <2>1. CASE i <= e
    BY <1>1, <1>2, <1>4, <2>1
  <2>2. CASE i > e
    BY <1>1, <1>2, <1>4, <2>2
  <2> QED BY <1>2, <2>1, <2>2
<1>6. ASSUME NEW k \in v.items, NEW j \in 1..k, j \notin v.items
      PROVE  v.needs
  <2>1. CASE k \in u.items
    BY <2>1, <1>4, <1>6 DEF Shown
  <2>2. CASE k = i
    <3>1. CASE i > e + 1
      BY <3>1, <1>4
    <3>2. CASE i <= e + 1
      <4>1. j \in 1..e /\ j \notin u.items
        BY <1>2, <1>4, <1>6, <2>2, <3>2
      <4> QED BY <4>1, <1>1, <1>4 DEF Shown
    <3> QED BY <3>1, <3>2, <1>2
  <2> QED BY <2>1, <2>2, <1>4, <1>6
<1>7. v.load = "read" => v.page >= 1
  BY <1>4 DEF Shown
<1>8. Shown(v)
  BY <1>4, <1>5, <1>6, <1>7 DEF Shown
<1> QED BY <1>8 DEF v

\* Asking for a reading shows nothing new.
LEMMA ReloadShown ==
    ASSUME NEW u, Shown(u)
    PROVE  Shown(Reload(u))
BY DEF Shown, Shell, Reload

\* A lag notice only marks.
LEMMA LaggedShown ==
    ASSUME NEW u, Shown(u), NEW d \in Domains, Carried
    PROVE  Shown(Lagged(u, d))
<1> DEFINE n == u.needs \/ d = Timeline
           t == IF d = Sidebar THEN server.head[Sidebar] ELSE u.told
           v == [u EXCEPT !.needs = n, !.told = t]
<1>1. n \in BOOLEAN
  BY Zenon
<1>2. t \in Nat /\ u \in Shell
  BY DEF Carried, Server, Shown, Shell, Domains
<1>3. u.needs => n
  OBVIOUS
<1>4. Shown(v)
  <2> HIDE DEF n, t
  <2> QED BY <1>1, <1>2, <1>3 DEF Shown, Shell
<1>5. Lagged(u, d) = Reload(v)
  BY DEF Lagged
<1> HIDE DEF v
<1> QED BY <1>4, <1>5, ReloadShown

\* The shell keeps the mark through every entry it applies.
LEMMA ApplyEventShown ==
    ASSUME NEW u, Shown(u), NEW e \in Entry, Carried
    PROVE  Shown(ApplyEvent(u, e))
<1>1. e.decision \in Decisions /\ e.domain \in Domains /\ e.fact \in Nat
  BY DEF Entry
<1>2. CASE e.decision = "resync"
  BY <1>1, <1>2, LaggedShown DEF ApplyEvent
<1>3. CASE e.decision \in {"duplicate", "stale"}
  BY <1>3 DEF ApplyEvent
<1>4. CASE e.decision = "apply" /\ e.domain = Timeline
  <2> DEFINE v == ApplyLive(u, e.fact)
  <2>1. ApplyEvent(u, e) = IF v.needs THEN Reload(v) ELSE v
    BY <1>4 DEF ApplyEvent, Timeline, Sidebar, Notice
  <2>2. Shown(v)
    BY <1>1, ApplyLiveShown
  <2> HIDE DEF v
  <2> QED BY <2>1, <2>2, ReloadShown
<1>5. CASE e.decision = "apply" /\ e.domain = Sidebar
  <2>1. ApplyEvent(u, e) = [u EXCEPT !.told = server.head[Sidebar]]
    BY <1>5 DEF ApplyEvent, Timeline, Sidebar, Notice
  <2>2. server.head[Sidebar] \in Nat
    BY DEF Carried, Server, Domains
  <2> QED BY <2>1, <2>2 DEF Shown, Shell
<1>6. CASE e.decision = "apply" /\ e.domain = Notice
  BY <1>6 DEF ApplyEvent, Timeline, Sidebar, Notice
<1> QED BY <1>1, <1>2, <1>3, <1>4, <1>5, <1>6 DEF Decisions, Domains

-----------------------------------------------------------------------------
(* The invariant. *)

\* It holds when the client opens the session.
LEMMA InitIInv ==
    ASSUME Init
    PROVE  IInv
<1>1. Opened \in Nat /\ Opened >= 1
  BY OpenedAssumption
<1>2. Carried
  <2>1. server.head = [d \in Domains |-> IF d = Timeline THEN Opened ELSE 0]
        /\ server.feed = [d \in Domains |-> <<>>] /\ server \in Server
    BY <1>1 DEF Init, Server
  <2>2. server.head[Timeline] >= 1
    BY <1>1, <2>1 DEF Domains
  <2>3. wire \in Seq(Frame) /\ queue \in Seq(Entry)
    BY DEF Init
  <2>4. engine \in Engine
    BY DEF Init, Engine, Cursor, Fresh0
  <2> QED BY <2>1, <2>2, <2>3, <2>4 DEF Carried
<1>3. Shown(ui)
  <2>1. /\ ui.items = 1..Opened /\ ui.needs = FALSE /\ ui.load = "idle"
        /\ ui \in Shell
    BY <1>1 DEF Init, Shell
  <2>2. \E e \in ui.items : \A i \in ui.items : i <= e
    BY <1>1, <2>1
  <2>3. \A i \in ui.items : \A j \in 1..i : j \in ui.items
    BY <1>1, <2>1
  <2> QED BY <2>1, <2>2, <2>3 DEF Shown
<1> QED BY <1>2, <1>3 DEF IInv

\* A broadcast keeps the shape of the gateway.
LEMMA BroadcastShape ==
    ASSUME NEW s \in Server, NEW d \in Domains, NEW x \in Fact
    PROVE  /\ Broadcast(s, d, x) \in Server
           /\ Broadcast(s, d, x).head = s.head
<1> DEFINE f == IF Len(s.feed[d]) < FeedCap THEN Append(s.feed[d], x)
                ELSE Append(Tail(s.feed[d]), x)
           l == s.lag[d] \/ Len(s.feed[d]) >= FeedCap
<1>1. s.feed[d] \in Seq(Fact) /\ s.lag[d] \in BOOLEAN
  BY DEF Server
<1>2. f \in Seq(Fact)
  <2>1. CASE Len(s.feed[d]) < FeedCap
    BY <1>1, <2>1
  <2>2. CASE ~ (Len(s.feed[d]) < FeedCap)
    <3>1. Len(s.feed[d]) # 0
      BY <1>1, <2>2, BoundsAssumption
    <3>2. Tail(s.feed[d]) \in Seq(Fact)
      BY <1>1, <3>1
    <3> QED BY <2>2, <3>2
  <2> QED BY <2>1, <2>2
<1>3. l \in BOOLEAN
  BY <1>1, Zenon
<1>4. Broadcast(s, d, x) = [s EXCEPT !.feed[d] = f, !.lag[d] = l]
  BY DEF Broadcast
<1> HIDE DEF f, l
<1>5. [s.feed EXCEPT ![d] = f] \in [Domains -> Seq(Fact)]
      /\ [s.lag EXCEPT ![d] = l] \in [Domains -> BOOLEAN]
  BY <1>2, <1>3 DEF Server
<1> QED BY <1>4, <1>5 DEF Server

\* The shell alone does not disturb what carries the news, and the reverse.
LEMMA CarriedFrame ==
    ASSUME IInv, UNCHANGED <<server, wire, engine, queue>>
    PROVE  Carried'
BY DEF IInv, Carried

\* What the shell shows is its own.
LEMMA ShownFrame ==
    ASSUME IInv, UNCHANGED ui
    PROVE  Shown(ui)'
BY DEF IInv, Shown

\* Publishing.
LEMMA PublishStep ==
    ASSUME IInv, NEW d \in Domains, Publish(d)
    PROVE  IInv'
<1> DEFINE f == server.head[d] + 1
           n == IF d = Sidebar THEN server.seq[d] + 1 ELSE 0
           t == [server EXCEPT !.head[d] = f, !.seq[d] = IF d = Sidebar THEN n ELSE @]
<1>1. server \in Server /\ server.head[Timeline] >= 1
  BY DEF IInv, Carried
<1>2. f \in Nat /\ n \in Nat /\ f >= 1
  BY <1>1 DEF Server
<1>3. t \in Server /\ t.head[Timeline] >= 1
  <2>1. t.head = [server.head EXCEPT ![d] = f]
    BY <1>1 DEF Server
  <2>2. t \in Server
    <3> DEFINE q == IF d = Sidebar THEN n ELSE server.seq[d]
    <3>1. q \in Nat
      BY <1>1, <1>2 DEF Server
    <3>2. t = [server EXCEPT !.head[d] = f, !.seq[d] = q]
      OBVIOUS
    <3> HIDE DEF f, n, q, t
    <3> QED BY <1>1, <1>2, <3>1, <3>2 DEF Server
  <2> HIDE DEF f, t
  <2>3. t.head[Timeline] = IF d = Timeline THEN f ELSE server.head[Timeline]
    BY <1>1, <2>1 DEF Server, Domains
  <2> QED BY <1>1, <1>2, <2>2, <2>3
<1>4. server' = IF Connected THEN Broadcast(t, d, [seq |-> n, fact |-> f]) ELSE t
  BY DEF Publish
<1>5. server' \in Server /\ server'.head[Timeline] >= 1
  <2> HIDE DEF f, n, t
  <2>1. [seq |-> n, fact |-> f] \in Fact
    BY <1>2 DEF Fact
  <2>2. CASE Connected
    BY <2>1, <2>2, <1>3, <1>4, BroadcastShape
  <2>3. CASE ~ Connected
    BY <2>3, <1>3, <1>4
  <2> QED BY <2>2, <2>3
<1>6. Carried'
  BY <1>5 DEF Publish, IInv, Carried
<1>7. Shown(ui)'
  BY ShownFrame DEF Publish
<1> QED BY <1>6, <1>7 DEF IInv

\* An event task sends its oldest event.
LEMMA EmitStep ==
    ASSUME IInv, NEW d \in Domains, Emit(d)
    PROVE  IInv'
<1> DEFINE x == Head(server.feed[d])
           n == IF d = Sidebar THEN x.seq ELSE server.seq[d] + 1
           q == IF d = Sidebar THEN server.seq[d] ELSE n
<1>1. server \in Server /\ server.head[Timeline] >= 1 /\ wire \in Seq(Frame)
  BY DEF IInv, Carried
<1>2. server.feed[d] \in Seq(Fact) /\ server.feed[d] # <<>>
  BY <1>1 DEF Server, Emit
<1>3. x \in Fact /\ Tail(server.feed[d]) \in Seq(Fact)
  BY <1>2
<1>4. n \in Nat /\ q \in Nat /\ server.epoch \in Nat /\ x.fact \in Nat
  BY <1>1, <1>3 DEF Server, Fact
<1>5. /\ wire' = Append(wire, EventFrame(d, server.epoch, n, x.fact))
      /\ server' = [server EXCEPT !.feed[d] = Tail(server.feed[d]), !.seq[d] = q]
  BY DEF Emit
<1> HIDE DEF x, n, q
<1>6. EventFrame(d, server.epoch, n, x.fact) \in Frame
  BY <1>4 DEF EventFrame, Frame
<1>7. wire' \in Seq(Frame)
  BY <1>1, <1>5, <1>6
<1>8. server' \in Server /\ server'.head = server.head
  BY <1>1, <1>3, <1>4, <1>5 DEF Server
<1>9. Carried'
  BY <1>1, <1>7, <1>8 DEF Emit, IInv, Carried
<1>10. Shown(ui)'
  BY ShownFrame DEF Emit
<1> QED BY <1>9, <1>10 DEF IInv

\* An event task that lagged says so.
LEMMA EmitLagStep ==
    ASSUME IInv, NEW d \in Domains, EmitLag(d)
    PROVE  IInv'
<1> DEFINE g == IF d = Timeline THEN server.epoch ELSE 0
<1>1. server \in Server /\ server.head[Timeline] >= 1 /\ wire \in Seq(Frame)
  BY DEF IInv, Carried
<1>2. g \in Nat
  BY <1>1 DEF Server
<1>3. /\ wire' = (IF d = Notice THEN wire ELSE Append(wire, ResyncFrame(d, g)))
      /\ server' = [server EXCEPT !.lag[d] = FALSE]
  BY DEF EmitLag
<1> HIDE DEF g
<1>4. ResyncFrame(d, g) \in Frame
  BY <1>2 DEF ResyncFrame, Frame
<1>5. wire' \in Seq(Frame)
  BY <1>1, <1>3, <1>4
<1>6. server' \in Server /\ server'.head = server.head
  BY <1>1, <1>3 DEF Server
<1>7. Carried'
  BY <1>1, <1>5, <1>6 DEF EmitLag, IInv, Carried
<1>8. Shown(ui)'
  BY ShownFrame DEF EmitLag
<1> QED BY <1>7, <1>8 DEF IInv

\* A connection that breaks takes nothing from what is shown.
LEMMA DisconnectStep ==
    ASSUME IInv, NEW s \in Server, s.head = server.head, Disconnect(s)
    PROVE  IInv'
<1>1. server' \in Server /\ server'.head = server.head
  <2> DEFINE none == [d \in Domains |-> <<>>]
             calm == [d \in Domains |-> FALSE]
  <2>1. none \in [Domains -> Seq(Fact)] /\ calm \in [Domains -> BOOLEAN]
    OBVIOUS
  <2>2. server' = [s EXCEPT !.feed = none, !.lag = calm]
    BY DEF Disconnect
  <2> HIDE DEF none, calm
  <2> QED BY <2>1, <2>2 DEF Server
<1>2. engine' \in Engine
  <2>1. engine \in Engine
    BY DEF IInv, Carried
  <2> QED BY <2>1 DEF Disconnect, SeedCursors, Engine, Cursor, Fresh0
<1>3. wire' \in Seq(Frame) /\ queue' \in Seq(Entry)
  BY DEF Disconnect
<1>4. Carried'
  BY <1>1, <1>2, <1>3 DEF IInv, Carried
<1>5. Shown(ui')
  <2> DEFINE l == IF ui.load = "asked" /\ Online THEN "broken" ELSE ui.load
  <2>1. ui' = [ui EXCEPT !.load = l]
    BY DEF Disconnect
  <2>2. l \in {"idle", "asked", "read", "broken"} /\ (l = "read" => ui.load = "read")
    BY DEF IInv, Shown, Shell
  <2> HIDE DEF l
  <2> QED BY <2>1, <2>2 DEF IInv, Shown, Shell
<1> QED BY <1>4, <1>5 DEF IInv, Shown

\* The gateway starts again with another epoch and what it has published.
LEMMA RestartShape ==
    ASSUME server \in Server, Restart
    PROVE  \E s \in Server : s.head = server.head /\ Disconnect(s)
<1> DEFINE s == [server EXCEPT !.epoch = @ + 1, !.seq[Sidebar] = 0]
<1>1. s \in Server /\ s.head = server.head
  <2> DEFINE e == server.epoch + 1
             t == [server EXCEPT !.epoch = e]
             q == [t.seq EXCEPT ![Sidebar] = 0]
  <2>1. e \in Nat
    BY DEF Server
  <2>2. s = [t EXCEPT !.seq = q]
    OBVIOUS
  <2> HIDE DEF e, s
  <2>3. t \in Server /\ t.head = server.head
    BY <2>1 DEF Server
  <2> HIDE DEF t
  <2>4. q \in [Domains -> Nat]
    BY <2>3 DEF Server
  <2> HIDE DEF q
  <2> QED BY <2>2, <2>3, <2>4 DEF Server
<1>2. Disconnect(s)
  BY DEF Restart
<1> HIDE DEF s
<1> QED BY <1>1, <1>2

\* So it takes nothing from what is shown.
LEMMA RestartStep ==
    ASSUME IInv, Restart
    PROVE  IInv'
BY RestartShape, DisconnectStep DEF IInv, Carried

\* The handshake numbers the events from one.
LEMMA ConnectStep ==
    ASSUME IInv, Connect
    PROVE  IInv'
<1>1. server \in Server /\ server' = [server EXCEPT !.seq[Timeline] = 0, !.seq[Notice] = 0]
  BY DEF IInv, Carried, Connect
<1>2. server' \in Server /\ server'.head = server.head
  BY <1>1 DEF Server
<1>3. Carried'
  BY <1>2 DEF Connect, IInv, Carried
<1>4. Shown(ui)'
  BY ShownFrame DEF Connect
<1> QED BY <1>3, <1>4 DEF IInv

\* The announced resyncs are queued.
LEMMA AnnounceStep ==
    ASSUME IInv, Announce
    PROVE  IInv'
<1> DEFINE add(q, d) == IF d \in conn.resync
                        THEN Push(q, Inbound(ResyncFrame(d, 0), "resync")) ELSE q
<1>1. ASSUME NEW q \in Seq(Entry), NEW d \in Domains
      PROVE  add(q, d) \in Seq(Entry)
  <2>1. Inbound(ResyncFrame(d, 0), "resync") \in Entry
    BY DEF Inbound, ResyncFrame, Entry, Decisions
  <2> QED BY <2>1, PushShape, MarkerShape
<1>2. queue \in Seq(Entry)
  BY DEF IInv, Carried
<1>3. queue' = add(add(queue, Timeline), Sidebar)
  BY DEF Announce
<1> HIDE DEF add
<1>4. add(queue, Timeline) \in Seq(Entry)
  BY <1>1, <1>2 DEF Domains
<1>5. queue' \in Seq(Entry)
  BY <1>1, <1>3, <1>4 DEF Domains
<1>6. Carried'
  BY <1>5 DEF Announce, IInv, Carried
<1>7. Shown(ui)'
  BY ShownFrame DEF Announce
<1> QED BY <1>6, <1>7 DEF IInv

\* A frame becomes an entry of the queue.
LEMMA InboundShape ==
    ASSUME NEW m \in Frame, NEW r \in Decisions
    PROVE  Inbound(m, r) \in Entry
BY DEF Frame, Inbound, Entry

\* An event is judged by the engine and queued.
LEMMA ReceiveEventStep ==
    ASSUME IInv, ReceiveEvent
    PROVE  IInv'
<1> DEFINE m == Head(wire)
           r == IF m.domain = Sidebar THEN ObserveInvalidation(engine, m) ELSE Observe(engine, m)
           e == Inbound(m, r.decision)
           p == r.engine.paused \/ Overflows(queue, e)
<1>1. wire \in Seq(Frame) /\ engine \in Engine /\ queue \in Seq(Entry) /\ wire # <<>>
  BY DEF IInv, Carried, ReceiveEvent, Arrives
<1>2. m \in Frame /\ Tail(wire) \in Seq(Frame)
  BY <1>1
<1>3. /\ engine' = [r.engine EXCEPT !.paused = p]
      /\ queue' = Push(queue, e)
      /\ wire' = Tail(wire)
      /\ UNCHANGED <<server, ui>>
  BY DEF ReceiveEvent
<1> HIDE DEF m
<1>4. r.engine \in Engine /\ r.decision \in Decisions
  BY <1>1, <1>2, ObserveShape
<1> HIDE DEF r
<1>5. e \in Entry
  BY <1>2, <1>4, InboundShape
<1> HIDE DEF e
<1>6. queue' \in Seq(Entry)
  BY <1>1, <1>3, <1>5, PushShape, MarkerShape
<1>7. p \in BOOLEAN
  BY <1>4, Zenon DEF Engine
<1> HIDE DEF p
<1>8. engine' \in Engine
  BY <1>3, <1>4, <1>7 DEF Engine
<1>9. Carried'
  BY <1>2, <1>3, <1>6, <1>8 DEF IInv, Carried
<1>10. Shown(ui)'
  BY <1>3, ShownFrame
<1> QED BY <1>9, <1>10 DEF IInv

\* A resync is queued, or taken by the operation that waits.
LEMMA ReceiveControlStep ==
    ASSUME IInv, ReceiveControl
    PROVE  IInv'
<1> DEFINE e == Inbound(Head(wire), "resync")
<1>1. wire \in Seq(Frame) /\ queue \in Seq(Entry) /\ wire # <<>>
  BY DEF IInv, Carried, ReceiveControl, Arrives
<1>2. Head(wire) \in Frame /\ Tail(wire) \in Seq(Frame)
  BY <1>1
<1>3. e \in Entry
  BY <1>2, InboundShape DEF Decisions
<1>4. /\ queue' = IF waiting THEN queue ELSE Push(queue, e)
      /\ wire' = Tail(wire)
      /\ UNCHANGED <<server, engine, ui>>
  BY DEF ReceiveControl
<1> HIDE DEF e
<1>5. queue' \in Seq(Entry)
  BY <1>1, <1>3, <1>4, PushShape, MarkerShape
<1>6. Carried'
  BY <1>2, <1>4, <1>5 DEF IInv, Carried
<1>7. Shown(ui)'
  BY <1>4, ShownFrame
<1> QED BY <1>6, <1>7 DEF IInv

\* The shell applies the oldest entry.
LEMMA ConsumeStep ==
    ASSUME IInv, Consume
    PROVE  IInv'
<1>1. queue \in Seq(Entry) /\ queue # <<>> /\ Carried /\ Shown(ui)
  BY DEF IInv, Carried, Consume
<1>2. Head(queue) \in Entry /\ Tail(queue) \in Seq(Entry)
  BY <1>1
<1>3. Shown(ui')
  BY <1>1, <1>2, ApplyEventShown DEF Consume
<1>4. Carried'
  BY <1>2 DEF Consume, IInv, Carried
<1> QED BY <1>3, <1>4 DEF IInv, Shown

\* The readings: asked for, answered with the newest window, applied or given up.
LEMMA ReadingStep ==
    ASSUME IInv, Refresh \/ ReadPage \/ FinishLoad \/ FailLoad
    PROVE  IInv'
<1>1. UNCHANGED <<server, wire, engine, queue>>
  BY DEF Refresh, ReadPage, FinishLoad, FailLoad
<1>2. Carried'
  BY <1>1, CarriedFrame
<1>3. Shown(ui) /\ server.head[Timeline] \in Nat /\ server.head[Timeline] >= 1
  BY DEF IInv, Carried, Server, Domains
<1>4. Shown(ui')
  <2>1. CASE Refresh
    BY <2>1, <1>3, ReloadShown DEF Refresh
  <2>2. CASE ReadPage
    BY <2>2, <1>3 DEF ReadPage, Shown, Shell
  <2>3. CASE FinishLoad
    <3>1. ui.page \in Nat /\ ui.page >= 1 /\ ui \in Shell
      BY <2>3, <1>3 DEF FinishLoad, Shown, Shell
    <3>2. ui' \in Shell /\ ui'.items = 1..ui.page /\ ui'.load = "idle"
      <4> DEFINE w == 1..ui.page
      <4>1. w \subseteq Nat /\ ui' = [ui EXCEPT !.items = w, !.needs = FALSE,
                                                !.load = "idle", !.page = 0]
        BY <3>1, <2>3 DEF FinishLoad
      <4> HIDE DEF w
      <4>2. ui' \in Shell /\ ui'.items = w /\ ui'.load = "idle"
        BY <3>1, <4>1 DEF Shell
      <4> QED BY <4>2 DEF w
    <3>3. \E x \in ui'.items : \A i \in ui'.items : i <= x
      BY <3>1, <3>2
    <3>4. \A i \in ui'.items : \A j \in 1..i : j \in ui'.items
      BY <3>1, <3>2
    <3> QED BY <3>2, <3>3, <3>4 DEF Shown
  <2>4. CASE FailLoad
    BY <2>4, <1>3 DEF FailLoad, Shown, Shell
  <2> QED BY <2>1, <2>2, <2>3, <2>4
<1> QED BY <1>2, <1>4 DEF IInv, Shown

\* Every step keeps the invariant.
LEMMA NextIInv ==
    ASSUME IInv, [Next]_vars
    PROVE  IInv'
<1>1. ASSUME NEW d \in Domains, Publish(d) \/ Emit(d) \/ EmitLag(d)
      PROVE  IInv'
  BY <1>1, PublishStep, EmitStep, EmitLagStep
<1>2. CASE Drop
  BY <1>2, DisconnectStep DEF Drop, IInv, Carried
<1>3. CASE Restart
  BY <1>3, RestartStep
<1>4. CASE Connect
  BY <1>4, ConnectStep
<1>5. CASE Announce
  BY <1>5, AnnounceStep
<1>6. CASE ReceiveEvent
  BY <1>6, ReceiveEventStep
<1>7. CASE ReceiveControl
  BY <1>7, ReceiveControlStep
<1>8. CASE Attach \/ Attached \/ UNCHANGED vars
  <2>1. UNCHANGED <<server, wire, engine, queue, ui>>
    BY <1>8 DEF Attach, Attached, vars
  <2> QED BY <2>1, CarriedFrame, ShownFrame DEF IInv
<1>9. CASE Consume
  BY <1>9, ConsumeStep
<1>10. CASE Refresh \/ ReadPage \/ FinishLoad \/ FailLoad
  BY <1>10, ReadingStep
<1> QED BY <1>1, <1>2, <1>3, <1>4, <1>5, <1>6, <1>7, <1>8, <1>9, <1>10 DEF Next

\* Whatever is lost between the gateway and the shell, for every capacity of the
\* feeds, the wire and the queue: a conversation that shows an item and misses an
\* earlier one is marked to be read again (TimelineModel::apply_live).
THEOREM HoleIsAlwaysFlagged == Spec => []HoleIsFlagged
<1>1. Init => IInv
  BY InitIInv
<1>2. IInv /\ [Next]_vars => IInv'
  BY NextIInv
<1>3. IInv => HoleIsFlagged
  BY DEF IInv, Shown, HoleIsFlagged
<1> QED BY <1>1, <1>2, <1>3, PTL DEF Spec

-----------------------------------------------------------------------------
(***************************************************************************)
(* The shape of the whole state.  The queue is bounded because it holds at *)
(* most one projection, so that its business entries are all the others;   *)
(* what is shown stays within what was published because every Timeline    *)
(* fact on its way was.                                                    *)
(***************************************************************************)
HasProjection(q) == \E i \in DOMAIN q : IsProjection(q[i])

OneProjection(q) ==
    \A i, j \in DOMAIN q : IsProjection(q[i]) /\ IsProjection(q[j]) => i = j

\* The slots the queue may fill as it stands.
Slots(q) == QueueCap + (IF HasProjection(q) THEN 1 ELSE 0)

Bounded(q) == OneProjection(q) /\ Len(q) <= Slots(q)

\* What carries an item of the timeline, when the gateway has published h of them.
Facts(h)   == {x \in Fact : x.fact \in 1..h}
Frames(h)  == {m \in Frame : m.kind = "event" /\ m.domain = Timeline => m.fact \in 1..h}
Entries(h) == {e \in Entry : e.decision = "apply" /\ e.domain = Timeline => e.fact \in 1..h}

Genuine ==
    LET h == server.head[Timeline] IN
    /\ server.feed[Timeline] \in Seq(Facts(h))
    /\ wire \in Seq(Frames(h))
    /\ queue \in Seq(Entries(h))

Published ==
    /\ ui.items \subseteq 1..server.head[Timeline]
    /\ ui.page <= server.head[Timeline]
    /\ ui.told <= server.head[Sidebar]

Counted ==
    /\ conn \in [phase : {"down", "syncing", "online"}, resync : SUBSET Domains]
    /\ waiting \in BOOLEAN
    /\ lost \subseteq Causes
    /\ count \in [outages : 0..MaxOutages, gestures : 0..MaxGestures]

Limits == Len(wire) <= WireCap /\ Bounded(queue)

SyncInv == IInv /\ Genuine /\ Published /\ Counted /\ Limits

-----------------------------------------------------------------------------
(* The bound of the queue. *)

\* With at most one projection, the queue is full when its length says so.
LEMMA FullIsLength ==
    ASSUME NEW S, NEW q \in Seq(S), OneProjection(q)
    PROVE  Full(q) <=> Len(q) >= Slots(q)
<1> DEFINE B == {i \in DOMAIN q : IsBusiness(q[i])}
           n == Len(q)
<1>1. DOMAIN q = 1..n /\ n \in Nat /\ QueueCap \in Nat
  BY BoundsAssumption
<1>2. IsFiniteSet(1..n) /\ Cardinality(1..n) = n
  BY <1>1, FS_Interval
<1>3. Full(q) <=> Cardinality(B) >= QueueCap
  BY DEF Full
<1>4. CASE ~ HasProjection(q)
  <2>1. B = 1..n
    BY <1>1, <1>4 DEF HasProjection, IsBusiness
  <2>2. Cardinality(B) = n
    <3> HIDE DEF B, n
    <3> QED BY <2>1, <1>2
  <2>3. Slots(q) = QueueCap
    BY <1>1, <1>4 DEF Slots
  <2> HIDE DEF B
  <2> QED BY <1>3, <2>2, <2>3
<1>5. CASE HasProjection(q)
  <2>1. PICK p \in DOMAIN q : IsProjection(q[p])
    BY <1>5 DEF HasProjection
  <2>2. B = (1..n) \ {p}
    BY <1>1, <2>1 DEF OneProjection, IsBusiness
  <2>3. Cardinality((1..n) \ {p}) = n - 1
    <3> HIDE DEF n
    <3> QED BY <1>1, <1>2, <2>1, FS_RemoveElement
  <2>4. Cardinality(B) = n - 1
    <3> HIDE DEF B, n
    <3> QED BY <2>2, <2>3
  <2>5. Slots(q) = QueueCap + 1
    BY <1>1, <1>5 DEF Slots
  <2> HIDE DEF B, n
  <2>6. Full(q) <=> n >= QueueCap + 1
    BY <1>1, <1>3, <2>4
  <2> QED BY <2>5, <2>6 DEF n
<1> QED BY <1>4, <1>5

\* A reserved slot that is filled already is filled again, and an empty one is added.
LEMMA PushProjectionBounded ==
    ASSUME NEW S, NEW q \in Seq(S), NEW e \in S, Bounded(q), IsProjection(e)
    PROVE  Bounded(PushProjection(q, e))
<1>1. DOMAIN q = 1..Len(q) /\ Len(q) \in Nat /\ QueueCap \in Nat
  BY BoundsAssumption
<1>2. CASE HasProjection(q)
  <2> DEFINE f == [i \in DOMAIN q |-> IF IsProjection(q[i]) THEN e ELSE q[i]]
  <2>1. PushProjection(q, e) = f
    BY <1>2 DEF PushProjection, HasProjection
  <2>2. DOMAIN f = DOMAIN q /\ \A i \in DOMAIN q : IsProjection(f[i]) <=> IsProjection(q[i])
    OBVIOUS
  <2>3. f \in Seq(S) /\ Len(f) = Len(q)
    <3> DEFINE g == [i \in 1..Len(q) |-> IF IsProjection(q[i]) THEN e ELSE q[i]]
    <3>1. g \in [1..Len(q) -> S] /\ Len(q) \in Nat
      OBVIOUS
    <3>2. g \in Seq(S) /\ Len(g) = Len(q)
      <4> HIDE DEF g
      <4> QED BY <3>1
    <3> QED BY <3>2, <1>1
  <2> HIDE DEF f
  <2>4. Len(f) = Len(q)
    BY <2>3
  <2>5. OneProjection(f) /\ HasProjection(f)
    BY <2>2, <1>2 DEF Bounded, OneProjection, HasProjection
  <2> QED BY <1>2, <2>1, <2>4, <2>5 DEF Bounded, Slots
<1>3. CASE ~ HasProjection(q)
  <2> DEFINE f == Append(q, e)
  <2>1. PushProjection(q, e) = f
    BY <1>3 DEF PushProjection, HasProjection
  <2>2. /\ Len(f) = Len(q) + 1 /\ DOMAIN f = 1..(Len(q) + 1)
        /\ f[Len(q) + 1] = e /\ \A i \in 1..Len(q) : f[i] = q[i]
    OBVIOUS
  <2> HIDE DEF f
  <2>3. \A i \in DOMAIN f : IsProjection(f[i]) => i = Len(q) + 1
    BY <1>1, <1>3, <2>2 DEF HasProjection
  <2>4. OneProjection(f) /\ HasProjection(f)
    BY <1>1, <2>2, <2>3 DEF OneProjection, HasProjection
  <2> QED BY <1>1, <1>3, <2>1, <2>2, <2>4 DEF Bounded, Slots
<1> QED BY <1>2, <1>3

\* An overflow leaves the marker and the reserved slot.
LEMMA MarkerBounded ==
    ASSUME NEW S, NEW q \in Seq(S), NEW e \in S, IsBusiness(e)
    PROVE  Bounded(<<e>> \o Projections(q))
<1>1. QueueCap \in Nat /\ QueueCap >= 1
  BY BoundsAssumption
<1>2. CASE ~ HasProjection(q)
  <2> DEFINE f == <<e>>
  <2>1. <<e>> \o Projections(q) = f
    BY <1>2, EmptySeq DEF Projections, HasProjection
  <2>2. Len(f) = 1 /\ DOMAIN f = {1} /\ f[1] = e
    OBVIOUS
  <2> HIDE DEF f
  <2>3. OneProjection(f) /\ ~ HasProjection(f)
    BY <2>2 DEF OneProjection, HasProjection, IsBusiness
  <2>4. Slots(f) = QueueCap
    BY <1>1, <2>3 DEF Slots
  <2> QED BY <1>1, <2>1, <2>2, <2>3, <2>4 DEF Bounded
<1>3. CASE HasProjection(q)
  <2> DEFINE p == q[CHOOSE i \in DOMAIN q : IsProjection(q[i])]
             f == <<e>> \o <<p>>
  <2>1. IsProjection(p)
    BY <1>3 DEF HasProjection
  <2>2. Projections(q) = <<p>>
    BY <1>3 DEF Projections, HasProjection
  <2> HIDE DEF p
  <2>3. <<e>> \o Projections(q) = f
    BY <2>2
  <2>4. Len(f) = 2 /\ DOMAIN f = {1, 2} /\ f[1] = e /\ f[2] = p
    <3>1. <<e>> \in Seq({e, p}) /\ Len(<<e>>) = 1 /\ <<p>> \in Seq({e, p}) /\ Len(<<p>>) = 1
      OBVIOUS
    <3>2. /\ Len(f) = 2
          /\ \A i \in 1..2 : f[i] = IF i <= 1 THEN <<e>>[i] ELSE <<p>>[i - 1]
          /\ f \in Seq({e, p})
      BY <3>1, ConcatProperties
    <3> HIDE DEF f
    <3> QED BY <3>2
  <2> HIDE DEF f
  <2>5. OneProjection(f) /\ HasProjection(f)
    BY <2>1, <2>4 DEF OneProjection, HasProjection, IsBusiness
  <2>6. Slots(f) = QueueCap + 1
    BY <1>1, <2>5 DEF Slots
  <2>7. Len(f) <= Slots(f)
    BY <1>1, <2>4, <2>6
  <2>8. Bounded(f)
    BY <2>5, <2>7 DEF Bounded
  <2> QED BY <2>3, <2>8, Zenon
<1> QED BY <1>2, <1>3

\* A queue that gives up its oldest business entry keeps its reserved slot.
LEMMA RemovedBounded ==
    ASSUME NEW S, NEW q \in Seq(S), NEW k \in 1..Len(q), IsBusiness(q[k]), Bounded(q)
    PROVE  /\ RemoveAt(q, k) \in Seq(S) /\ OneProjection(RemoveAt(q, k))
           /\ Len(RemoveAt(q, k)) = Len(q) - 1
           /\ HasProjection(RemoveAt(q, k)) <=> HasProjection(q)
<1> DEFINE n == Len(q)
           a == SubSeq(q, 1, k - 1)
           b == SubSeq(q, k + 1, n)
           f == RemoveAt(q, k)
<1>1. n \in Nat /\ k \in Nat /\ 1 <= k /\ k <= n /\ DOMAIN q = 1..n
  OBVIOUS
<1>2. a \in Seq(S) /\ Len(a) = k - 1 /\ \A i \in 1..(k - 1) : a[i] = q[i]
  BY <1>1, SubSeqProperties
<1>3. b \in Seq(S) /\ Len(b) = n - k /\ \A i \in 1..(n - k) : b[i] = q[k + i]
  <2> DEFINE m == k + 1
  <2>1. /\ m \in Int /\ n \in Int /\ n - m + 1 = n - k
        /\ \A i \in m..n : q[i] \in S
    <3>1. \A i \in m..n : i \in DOMAIN q
      BY <1>1
    <3> QED BY <1>1, <3>1
  <2>2. b \in Seq(S) /\ Len(b) = n - k /\ \A i \in 1..(n - k) : b[i] = q[m + i - 1]
    <3> HIDE DEF m, n
    <3>1. /\ SubSeq(q, m, n) \in Seq(S)
          /\ Len(SubSeq(q, m, n)) = IF m <= n THEN n - m + 1 ELSE 0
          /\ \A i \in 1..(n - m + 1) : SubSeq(q, m, n)[i] = q[m + i - 1]
      BY <2>1, SubSeqProperties
    <3>2. (IF m <= n THEN n - m + 1 ELSE 0) = n - k
      BY <1>1 DEF m
    <3> QED BY <2>1, <3>1, <3>2 DEF m
  <2>3. \A i \in 1..(n - k) : (k + 1) + i - 1 = k + i
    BY <1>1
  <2> HIDE DEF b
  <2> QED BY <2>2, <2>3
<1>4. f = a \o b
  BY DEF RemoveAt
<1> HIDE DEF a, b, f, n
<1>5. /\ f \in Seq(S) /\ Len(f) = n - 1 /\ DOMAIN f = 1..(n - 1)
      /\ \A i \in 1..(n - 1) : f[i] = IF i < k THEN q[i] ELSE q[i + 1]
  <2>1. /\ f \in Seq(S) /\ Len(f) = Len(a) + Len(b)
        /\ \A i \in 1..(Len(a) + Len(b)) : f[i] = IF i <= Len(a) THEN a[i] ELSE b[i - Len(a)]
    BY <1>2, <1>3, <1>4, ConcatProperties
  <2>2. Len(f) = n - 1 /\ DOMAIN f = 1..(n - 1)
    BY <1>1, <1>2, <1>3, <2>1
  <2>3. ASSUME NEW i \in 1..(n - 1) PROVE f[i] = IF i < k THEN q[i] ELSE q[i + 1]
    <3>1. f[i] = IF i <= k - 1 THEN a[i] ELSE b[i - (k - 1)]
      BY <1>1, <1>2, <1>3, <2>1
    <3>2. CASE i < k
      BY <1>1, <1>2, <3>1, <3>2
    <3>3. CASE ~ (i < k)
      <4>1. i - (k - 1) \in 1..(n - k) /\ k + (i - (k - 1)) = i + 1
        BY <1>1, <3>3
      <4>2. b[i - (k - 1)] = q[i + 1]
        BY <1>3, <4>1
      <4> QED BY <1>1, <3>1, <3>3, <4>2
    <3> QED BY <3>2, <3>3
  <2> QED BY <2>1, <2>2, <2>3
<1>6. OneProjection(f)
  <2> SUFFICES ASSUME NEW i \in 1..(n - 1), NEW j \in 1..(n - 1),
                      IsProjection(f[i]), IsProjection(f[j])
               PROVE  i = j
    BY <1>5 DEF OneProjection
  <2> DEFINE x(m) == IF m < k THEN m ELSE m + 1
  <2>1. x(i) \in 1..n /\ x(j) \in 1..n /\ f[i] = q[x(i)] /\ f[j] = q[x(j)]
    BY <1>1, <1>5
  <2>2. x(i) = x(j)
    BY <1>1, <2>1 DEF Bounded, OneProjection
  <2> QED BY <1>1, <2>2
<1>7. HasProjection(f) => HasProjection(q)
  <2> SUFFICES ASSUME NEW i \in 1..(n - 1), IsProjection(f[i])
               PROVE  HasProjection(q)
    BY <1>5 DEF HasProjection
  <2>1. i \in 1..n /\ i + 1 \in 1..n /\ (f[i] = q[i] \/ f[i] = q[i + 1])
    BY <1>1, <1>5
  <2> QED BY <1>1, <2>1 DEF HasProjection
<1>8. HasProjection(q) => HasProjection(f)
  <2> SUFFICES ASSUME NEW p \in 1..n, IsProjection(q[p])
               PROVE  HasProjection(f)
    BY <1>1 DEF HasProjection
  <2>1. p # k
    BY DEF IsBusiness
  <2>2. CASE p < k
    <3>1. p \in 1..(n - 1) /\ f[p] = q[p]
      BY <1>1, <1>5, <2>2
    <3> QED BY <1>5, <3>1 DEF HasProjection
  <2>3. CASE p > k
    <3>1. p - 1 \in 1..(n - 1) /\ f[p - 1] = q[(p - 1) + 1] /\ (p - 1) + 1 = p
      BY <1>1, <1>5, <2>3
    <3> QED BY <1>5, <3>1 DEF HasProjection
  <2> QED BY <1>1, <2>1, <2>2, <2>3
<1> QED BY <1>5, <1>6, <1>7, <1>8 DEF f, n

\* An entry that is added at the end.
LEMMA AppendedBounded ==
    ASSUME NEW S, NEW q \in Seq(S), NEW e \in S, IsBusiness(e), OneProjection(q),
           Len(q) < Slots(q)
    PROVE  Bounded(Append(q, e))
<1> DEFINE f == Append(q, e)
<1>1. /\ Len(f) = Len(q) + 1 /\ DOMAIN f = 1..(Len(q) + 1) /\ DOMAIN q = 1..Len(q)
      /\ f[Len(q) + 1] = e /\ \A i \in 1..Len(q) : f[i] = q[i]
      /\ Len(q) \in Nat /\ QueueCap \in Nat
  BY BoundsAssumption
<1> HIDE DEF f
<1>2. \A i \in DOMAIN f : IsProjection(f[i]) => i \in DOMAIN q /\ f[i] = q[i]
  BY <1>1 DEF IsBusiness
<1>3. OneProjection(f)
  BY <1>2 DEF OneProjection
<1>4. HasProjection(f) <=> HasProjection(q)
  BY <1>1, <1>2 DEF HasProjection
<1>5. Slots(f) = Slots(q) /\ Slots(q) \in Nat
  BY <1>1, <1>4 DEF Slots
<1> QED BY <1>1, <1>3, <1>5 DEF Bounded, f

\* push_domain_event keeps the queue within its capacity and the reserved slot.
LEMMA PushBounded ==
    ASSUME NEW S, NEW q \in Seq(S), NEW e \in S, [e EXCEPT !.decision = "resync"] \in S,
           S \subseteq Entry, Bounded(q)
    PROVE  Bounded(Push(q, e))
<1>1. CASE IsProjection(e)
  BY <1>1, PushProjectionBounded DEF Push
<1>2. CASE IsBusiness(e)
  <2>1. Push(q, e) = PushBusiness(q, e)
    BY <1>2 DEF Push, IsBusiness
  <2>2. OneProjection(q) /\ (Full(q) <=> Len(q) >= Slots(q)) /\ Len(q) <= Slots(q)
    BY FullIsLength DEF Bounded
  <2>3. Len(q) \in Nat /\ Slots(q) \in Nat
    BY BoundsAssumption DEF Slots
  <2>4. CASE ~ Full(q)
    <3>1. Len(q) < Slots(q)
      BY <2>2, <2>3, <2>4
    <3>2. Bounded(Append(q, e))
      BY <1>2, <2>2, <3>1, AppendedBounded
    <3> QED BY <2>1, <2>4, <3>2 DEF PushBusiness
  <2>5. CASE Full(q) /\ e.kind = "event"
    <3> DEFINE m == [e EXCEPT !.decision = "resync"]
    <3>1. m \in S /\ m.kind = e.kind /\ m.domain = e.domain
      BY DEF Entry
    <3>2. IsBusiness(m)
      BY <1>2, <3>1 DEF IsBusiness, IsProjection
    <3>3. Push(q, e) = <<m>> \o Projections(q)
      BY <2>1, <2>5 DEF PushBusiness
    <3> HIDE DEF m
    <3>4. Bounded(<<m>> \o Projections(q))
      BY <3>1, <3>2, MarkerBounded
    <3> QED BY <3>3, <3>4, Zenon
  <2>6. CASE Full(q) /\ e.kind # "event"
    <3> DEFINE k == OldestBusiness(q)
               f == RemoveAt(q, k)
    <3>1. k \in 1..Len(q) /\ IsBusiness(q[k])
      BY <2>6, OldestExists
    <3>2. Push(q, e) = Append(f, e)
      BY <2>1, <2>6 DEF PushBusiness
    <3> HIDE DEF k
    <3>3. /\ f \in Seq(S) /\ OneProjection(f) /\ Len(f) = Len(q) - 1
          /\ HasProjection(f) <=> HasProjection(q)
      BY <3>1, RemovedBounded
    <3> HIDE DEF f
    <3>4. Slots(f) = Slots(q)
      BY <3>3 DEF Slots
    <3>5. Len(f) < Slots(f)
      BY <2>2, <2>3, <3>3, <3>4
    <3>6. Bounded(Append(f, e))
      BY <1>2, <3>3, <3>5, AppendedBounded
    <3> QED BY <3>2, <3>6, Zenon
  <2> QED BY <2>4, <2>5, <2>6
<1> QED BY <1>1, <1>2 DEF IsBusiness

-----------------------------------------------------------------------------
(* The steps. *)

\* The gateway only publishes more.
LEMMA MoreIsGenuine ==
    ASSUME NEW h \in Nat, NEW g \in Nat, h <= g
    PROVE  /\ Seq(Facts(h)) \subseteq Seq(Facts(g))
           /\ Seq(Frames(h)) \subseteq Seq(Frames(g))
           /\ Seq(Entries(h)) \subseteq Seq(Entries(g))
<1>1. Facts(h) \subseteq Facts(g) /\ Frames(h) \subseteq Frames(g) /\ Entries(h) \subseteq Entries(g)
  BY DEF Facts, Frames, Entries
<1>2. ASSUME NEW S, NEW T, S \subseteq T PROVE Seq(S) \subseteq Seq(T)
  <2> SUFFICES ASSUME NEW s \in Seq(S) PROVE s \in Seq(T)
    OBVIOUS
  <2>1. s \in [1..Len(s) -> T] /\ Len(s) \in Nat
    BY <1>2
  <2> QED BY <2>1
<1> QED BY <1>1, <1>2

\* The published counts are numbers.
LEMMA Heads ==
    ASSUME Carried
    PROVE  server.head[Timeline] \in Nat /\ server.head[Sidebar] \in Nat
BY DEF Carried, Server, Domains

\* A step of the gateway and its tasks that publishes nothing.
LEMMA SameHead ==
    ASSUME SyncInv, server'.head = server.head, UNCHANGED ui
    PROVE  Published'
BY DEF SyncInv, Published

\* What the shell does alone disturbs nothing on the way.
LEMMA GenuineFrame ==
    ASSUME SyncInv, UNCHANGED <<server, wire, queue>>
    PROVE  Genuine' /\ Limits'
BY DEF SyncInv, Genuine, Limits, Bounded, OneProjection, Slots, HasProjection

\* Publishing: a new item is one the gateway has, and the older ones stay.
LEMMA PublishTyped ==
    ASSUME SyncInv, NEW d \in Domains, Publish(d)
    PROVE  Genuine' /\ Published' /\ Counted' /\ Limits'
<1> DEFINE f == server.head[d] + 1
           n == IF d = Sidebar THEN server.seq[d] + 1 ELSE 0
           q == IF d = Sidebar THEN n ELSE server.seq[d]
           s == [server EXCEPT !.head[d] = f, !.seq[d] = q]
           x == [seq |-> n, fact |-> f]
           h == server.head[Timeline]
           g == server'.head[Timeline]
<1>1. server \in Server /\ h \in Nat /\ server.head[Sidebar] \in Nat
  BY Heads DEF SyncInv, IInv, Carried
<1>2. f \in Nat /\ n \in Nat /\ q \in Nat /\ f = server.head[d] + 1
  BY <1>1 DEF Server
<1>3. server' = IF Connected THEN Broadcast(s, d, x) ELSE s
  BY DEF Publish
<1>4. UNCHANGED <<wire, conn, engine, queue, waiting, ui, lost, count>>
  BY DEF Publish
<1>5. x \in Fact /\ x.fact = f
  <2> HIDE DEF f, n
  <2> QED BY <1>2 DEF Fact
<1> HIDE DEF f, n, q, x
<1>6. s \in Server /\ s.head = [server.head EXCEPT ![d] = f] /\ s.feed = server.feed
  BY <1>1, <1>2 DEF Server
<1> HIDE DEF s
<1>7. server'.head = [server.head EXCEPT ![d] = f] /\ server' \in Server
  BY <1>3, <1>5, <1>6, BroadcastShape
<1>8. /\ server'.head[Sidebar] \in Nat /\ server'.head[Sidebar] >= server.head[Sidebar]
      /\ g \in Nat /\ g >= h /\ (d = Timeline => g = f)
  <2>1. server.head \in [Domains -> Nat] /\ {Timeline, Sidebar} \subseteq Domains
    BY <1>1 DEF Server, Domains
  <2>2. \A c \in Domains : server'.head[c] = IF c = d THEN f ELSE server.head[c]
    BY <1>7, <2>1
  <2>3. \A c \in Domains : server'.head[c] \in Nat /\ server'.head[c] >= server.head[c]
    BY <1>2, <2>1, <2>2
  <2> QED BY <2>1, <2>2, <2>3
<1>9. server.feed[Timeline] \in Seq(Facts(h)) /\ wire \in Seq(Frames(h)) /\ queue \in Seq(Entries(h))
  BY DEF SyncInv, Genuine
<1> HIDE DEF h, g
<1>10. server.feed[Timeline] \in Seq(Facts(g)) /\ wire \in Seq(Frames(g)) /\ queue \in Seq(Entries(g))
  BY <1>1, <1>8, <1>9, MoreIsGenuine
<1>11. server'.feed[Timeline] \in Seq(Facts(g))
  <2>1. CASE ~ Connected \/ d # Timeline
    <3>1. server'.feed[Timeline] = server.feed[Timeline]
      BY <1>3, <1>6, <2>1 DEF Broadcast, Server, Domains
    <3> QED BY <3>1, <1>10
  <2>2. CASE Connected /\ d = Timeline
    <3> DEFINE o == server.feed[Timeline]
               p == IF Len(o) < FeedCap THEN Append(o, x) ELSE Append(Tail(o), x)
    <3>1. server'.feed[Timeline] = p
      BY <1>3, <1>6, <2>2 DEF Broadcast, Server, Domains
    <3>2. x \in Facts(g)
      BY <1>2, <1>5, <1>8, <2>2, <1>1 DEF Facts, Server
    <3> HIDE DEF o
    <3>3. o \in Seq(Facts(g))
      BY <1>10 DEF o
    <3>4. p \in Seq(Facts(g))
      <4>1. CASE Len(o) < FeedCap
        BY <4>1, <3>2, <3>3
      <4>2. CASE ~ (Len(o) < FeedCap)
        <5>1. Len(o) # 0
          BY <3>3, <4>2, BoundsAssumption
        <5>2. Tail(o) \in Seq(Facts(g))
          BY <3>3, <5>1
        <5> QED BY <4>2, <3>2, <5>2
      <4> QED BY <4>1, <4>2
    <3> QED BY <3>1, <3>4
  <2> QED BY <2>1, <2>2
<1>12. Genuine'
  BY <1>4, <1>10, <1>11 DEF Genuine, g
<1>13. Published'
  <2>1. ui \in Shell /\ ui.items \subseteq 1..h /\ ui.page <= h /\ ui.told <= server.head[Sidebar]
    BY DEF SyncInv, IInv, Shown, Published, h
  <2>2. ui.items \subseteq 1..g /\ ui.page <= g /\ ui.told <= server'.head[Sidebar]
    BY <1>1, <1>8, <2>1 DEF Shell
  <2> QED BY <1>4, <2>2 DEF Published, g
<1>14. Counted' /\ Limits'
  BY <1>4 DEF SyncInv, Counted, Limits, Bounded, OneProjection, Slots, HasProjection
<1> QED BY <1>12, <1>13, <1>14

\* A frame that is sent finds room on the wire.
LEMMA EmitTyped ==
    ASSUME SyncInv, NEW d \in Domains, Emit(d)
    PROVE  Genuine' /\ Published' /\ Counted' /\ Limits'
<1> DEFINE x == Head(server.feed[d])
           n == IF d = Sidebar THEN x.seq ELSE server.seq[d] + 1
           q == IF d = Sidebar THEN server.seq[d] ELSE n
           m == EventFrame(d, server.epoch, n, x.fact)
           h == server.head[Timeline]
<1>1. server \in Server /\ wire \in Seq(Frame) /\ h \in Nat
  BY Heads DEF SyncInv, IInv, Carried
<1>2. server.feed[d] \in Seq(Fact) /\ server.feed[d] # <<>>
  BY <1>1 DEF Server, Emit
<1>3. x \in Fact /\ x \in {server.feed[d][i] : i \in DOMAIN server.feed[d]}
  BY <1>2
<1>4. n \in Nat /\ server.epoch \in Nat /\ x.fact \in Nat
  BY <1>1, <1>3, SMTT(30) DEF Server, Fact
<1>5. /\ wire' = Append(wire, m)
      /\ server' = [server EXCEPT !.feed[d] = Tail(server.feed[d]), !.seq[d] = q]
      /\ UNCHANGED <<conn, queue, waiting, ui, lost, count>> /\ Len(wire) < WireCap
  BY DEF Emit, Room
<1>6. d = Timeline => x \in Facts(h) /\ Tail(server.feed[d]) \in Seq(Facts(h))
  <2> SUFFICES ASSUME d = Timeline PROVE x \in Facts(h) /\ Tail(server.feed[d]) \in Seq(Facts(h))
    OBVIOUS
  <2>1. server.feed[d] \in Seq(Facts(h))
    BY DEF SyncInv, Genuine
  <2> HIDE DEF h
  <2> QED BY <1>2, <2>1
<1> HIDE DEF x, n, q, h
<1>7. m \in Frames(h)
  BY <1>4, <1>6 DEF EventFrame, Frame, Frames, Facts
<1>8. server'.head = server.head
  BY <1>1, <1>5 DEF Server
<1>9. server'.feed[Timeline] \in Seq(Facts(h))
  <2>1. server'.feed = [server.feed EXCEPT ![d] = Tail(server.feed[d])]
    BY <1>1, <1>5 DEF Server
  <2>2. server.feed[Timeline] \in Seq(Facts(h))
    BY DEF SyncInv, Genuine, h
  <2> QED BY <1>1, <1>6, <2>1, <2>2 DEF Server, Domains
<1> HIDE DEF m
<1>10. wire' \in Seq(Frames(h)) /\ Len(wire') <= WireCap
  <2>1. wire \in Seq(Frames(h))
    BY DEF SyncInv, Genuine, h
  <2> QED BY <1>5, <1>7, <2>1, BoundsAssumption
<1>11. Genuine'
  BY <1>5, <1>8, <1>9, <1>10 DEF SyncInv, Genuine, h
<1>12. Published'
  BY <1>5, <1>8, SameHead
<1>13. Counted' /\ Limits'
  BY <1>5, <1>10 DEF SyncInv, Counted, Limits, Bounded, OneProjection, Slots, HasProjection
<1> QED BY <1>11, <1>12, <1>13

\* A resync carries no item.
LEMMA EmitLagTyped ==
    ASSUME SyncInv, NEW d \in Domains, EmitLag(d)
    PROVE  Genuine' /\ Published' /\ Counted' /\ Limits'
<1> DEFINE g == IF d = Timeline THEN server.epoch ELSE 0
           m == ResyncFrame(d, g)
           h == server.head[Timeline]
<1>1. server \in Server /\ wire \in Seq(Frame) /\ h \in Nat
  BY Heads DEF SyncInv, IInv, Carried
<1>2. g \in Nat
  BY <1>1 DEF Server
<1>3. /\ wire' = (IF d = Notice THEN wire ELSE Append(wire, m))
      /\ server' = [server EXCEPT !.lag[d] = FALSE] /\ (d # Notice => Len(wire) < WireCap)
      /\ UNCHANGED <<conn, queue, waiting, ui, lost, count>>
  BY DEF EmitLag, Room
<1> HIDE DEF g, h
<1>4. m \in Frames(h)
  BY <1>2 DEF ResyncFrame, Frame, Frames
<1>5. server'.head = server.head /\ server'.feed = server.feed
  BY <1>1, <1>3 DEF Server
<1> HIDE DEF m
<1>6. wire' \in Seq(Frames(h)) /\ Len(wire') <= WireCap
  <2>1. wire \in Seq(Frames(h)) /\ Len(wire) <= WireCap
    BY DEF SyncInv, Genuine, Limits, h
  <2> QED BY <1>3, <1>4, <2>1, BoundsAssumption
<1>7. Genuine'
  BY <1>3, <1>5, <1>6 DEF SyncInv, Genuine, h
<1>8. Published'
  BY <1>3, <1>5, SameHead
<1>9. Counted' /\ Limits'
  BY <1>3, <1>6 DEF SyncInv, Counted, Limits, Bounded, OneProjection, Slots, HasProjection
<1> QED BY <1>7, <1>8, <1>9

\* A broken connection leaves nothing on the way.
LEMMA DisconnectTyped ==
    ASSUME SyncInv, NEW s \in Server, s.head = server.head, Disconnect(s)
    PROVE  /\ Genuine' /\ Published' /\ Limits' /\ waiting' \in BOOLEAN /\ lost' = lost
           /\ conn' \in [phase : {"down", "syncing", "online"}, resync : SUBSET Domains]
<1>1. server'.head = server.head /\ server'.feed = [d \in Domains |-> <<>>]
  BY DEF Disconnect, Server
<1>2. wire' = <<>> /\ queue' = <<>> /\ waiting' = FALSE
      /\ conn' = [phase |-> "down", resync |-> {}] /\ lost' = lost
  BY DEF Disconnect
<1>3. Genuine'
  BY <1>1, <1>2 DEF Genuine, Domains
<1>4. Limits'
  BY <1>2, BoundsAssumption DEF Limits, Bounded, OneProjection, Slots, HasProjection
<1>5. Published'
  <2>1. ui'.items = ui.items /\ ui'.page = ui.page /\ ui'.told = ui.told
    BY DEF Disconnect, SyncInv, IInv, Shown, Shell
  <2> QED BY <1>1, <2>1 DEF SyncInv, Published
<1> QED BY <1>2, <1>3, <1>4, <1>5

\* The outages are counted.
LEMMA OutageTyped ==
    ASSUME SyncInv, Drop \/ Restart
    PROVE  Genuine' /\ Published' /\ Counted' /\ Limits'
<1>1. \E s \in Server : s.head = server.head /\ Disconnect(s)
  <2>1. server \in Server
    BY DEF SyncInv, IInv, Carried
  <2>2. CASE Drop
    BY <2>1, <2>2 DEF Drop
  <2>3. CASE Restart
    BY <2>1, <2>3, RestartShape
  <2> QED BY <2>2, <2>3
<1>2. /\ Genuine' /\ Published' /\ Limits' /\ waiting' \in BOOLEAN /\ lost' = lost
      /\ conn' \in [phase : {"down", "syncing", "online"}, resync : SUBSET Domains]
  BY <1>1, DisconnectTyped
<1>3. count' \in [outages : 0..MaxOutages, gestures : 0..MaxGestures]
  BY BoundsAssumption DEF Drop, Restart, SyncInv, Counted
<1> QED BY <1>2, <1>3 DEF SyncInv, Counted

\* Subscribing.
LEMMA ConnectTyped ==
    ASSUME SyncInv, Connect
    PROVE  Genuine' /\ Published' /\ Counted' /\ Limits'
<1>1. server \in Server /\ server' = [server EXCEPT !.seq[Timeline] = 0, !.seq[Notice] = 0]
  BY DEF SyncInv, IInv, Carried, Connect
<1>2. server'.head = server.head /\ server'.feed = server.feed
  BY <1>1 DEF Server
<1>3. UNCHANGED <<wire, queue, waiting, ui, count>>
  BY DEF Connect
<1>4. Genuine' /\ Limits'
  BY <1>2, <1>3 DEF SyncInv, Genuine, Limits, Bounded, OneProjection, Slots, HasProjection
<1>5. Published'
  BY <1>2, <1>3, SameHead
<1>6. conn' \in [phase : {"down", "syncing", "online"}, resync : SUBSET Domains]
  <2>1. Resyncs \subseteq Domains
    BY DEF Resyncs, Domains
  <2> QED BY <2>1 DEF Connect
<1>7. lost' \subseteq Causes
  BY DEF Connect, SyncInv, Counted, Causes
<1> QED BY <1>3, <1>4, <1>5, <1>6, <1>7 DEF SyncInv, Counted

\* A push of a genuine entry.
LEMMA PushTyped ==
    ASSUME NEW h \in Nat, NEW q \in Seq(Entries(h)), Bounded(q), NEW e \in Entries(h)
    PROVE  Push(q, e) \in Seq(Entries(h)) /\ Bounded(Push(q, e))
<1>1. [e EXCEPT !.decision = "resync"] \in Entries(h)
  BY DEF Entries, Entry, Decisions
<1>2. Entries(h) \subseteq Entry
  BY DEF Entries
<1> QED BY <1>1, <1>2, PushShape, PushBounded

\* A resync can always be queued.
LEMMA ResyncEntry ==
    ASSUME NEW h \in Nat, NEW m \in Frame
    PROVE  Inbound(m, "resync") \in Entries(h)
BY DEF Frame, Inbound, Entries, Entry, Decisions

\* The resyncs of the subscription.
LEMMA AnnounceTyped ==
    ASSUME SyncInv, Announce
    PROVE  Genuine' /\ Published' /\ Counted' /\ Limits'
<1> DEFINE h == server.head[Timeline]
           add(q, d) == IF d \in conn.resync
                        THEN Push(q, Inbound(ResyncFrame(d, 0), "resync")) ELSE q
<1>1. h \in Nat /\ queue \in Seq(Entries(h)) /\ Bounded(queue)
  BY Heads DEF SyncInv, IInv, Genuine, Limits
<1>2. ASSUME NEW q \in Seq(Entries(h)), Bounded(q), NEW d \in Domains
      PROVE  add(q, d) \in Seq(Entries(h)) /\ Bounded(add(q, d))
  <2>1. ResyncFrame(d, 0) \in Frame
    BY DEF ResyncFrame, Frame
  <2> QED BY <1>1, <1>2, <2>1, ResyncEntry, PushTyped
<1>3. queue' = add(add(queue, Timeline), Sidebar)
  BY DEF Announce
<1>4. UNCHANGED <<server, wire, waiting, ui, lost, count>>
      /\ conn' = [phase |-> "online", resync |-> {}]
  BY DEF Announce
<1> HIDE DEF add
<1>5. queue' \in Seq(Entries(h)) /\ Bounded(queue')
  <2>1. add(queue, Timeline) \in Seq(Entries(h)) /\ Bounded(add(queue, Timeline))
    BY <1>1, <1>2 DEF Domains
  <2> QED BY <1>2, <1>3, <2>1 DEF Domains
<1>6. Genuine'
  BY <1>4, <1>5 DEF SyncInv, Genuine
<1>7. Published'
  BY <1>4, SameHead
<1>8. Counted'
  BY <1>4 DEF SyncInv, Counted
<1>9. Limits'
  BY <1>4, <1>5 DEF SyncInv, Limits, Bounded, OneProjection, Slots, HasProjection
<1> QED BY <1>6, <1>7, <1>8, <1>9

\* An event is queued with the item it carried.
LEMMA ReceiveEventTyped ==
    ASSUME SyncInv, ReceiveEvent
    PROVE  Genuine' /\ Published' /\ Counted' /\ Limits'
<1> DEFINE h == server.head[Timeline]
           m == Head(wire)
           r == IF m.domain = Sidebar THEN ObserveInvalidation(engine, m) ELSE Observe(engine, m)
           e == Inbound(m, r.decision)
<1>1. /\ h \in Nat /\ queue \in Seq(Entries(h)) /\ Bounded(queue) /\ wire \in Seq(Frames(h))
      /\ engine \in Engine /\ Len(wire) <= WireCap /\ wire \in Seq(Frame)
  BY Heads DEF SyncInv, IInv, Carried, Genuine, Limits
<1>2. wire # <<>> /\ m.kind = "event"
  BY DEF ReceiveEvent, Arrives
<1>3. /\ queue' = Push(queue, e) /\ wire' = Tail(wire)
      /\ UNCHANGED <<server, conn, waiting, ui, count>>
  BY DEF ReceiveEvent
<1>4. lost' \subseteq Causes
  BY DEF ReceiveEvent, SyncInv, Counted, Causes
<1> HIDE DEF h
<1>5. m \in Frames(h) /\ m \in Frame /\ wire' \in Seq(Frames(h)) /\ Len(wire') <= WireCap
  BY <1>1, <1>2, <1>3, BoundsAssumption
<1> HIDE DEF m
<1>6. r.decision \in Decisions
  BY <1>1, <1>5, ObserveShape
<1> HIDE DEF r
<1>7. e \in Entries(h)
  BY <1>2, <1>5, <1>6 DEF Frames, Frame, Inbound, Entries, Entry
<1> HIDE DEF e
<1>8. queue' \in Seq(Entries(h)) /\ Bounded(queue')
  BY <1>1, <1>3, <1>7, PushTyped
<1>9. Genuine'
  BY <1>3, <1>5, <1>8 DEF SyncInv, Genuine, h
<1>10. Published'
  BY <1>3, SameHead
<1>11. Counted'
  BY <1>3, <1>4 DEF SyncInv, Counted
<1>12. Limits'
  BY <1>5, <1>8 DEF Limits, Bounded, OneProjection, Slots, HasProjection
<1> QED BY <1>9, <1>10, <1>11, <1>12

\* A resync is queued or taken.
LEMMA ReceiveControlTyped ==
    ASSUME SyncInv, ReceiveControl
    PROVE  Genuine' /\ Published' /\ Counted' /\ Limits'
<1> DEFINE h == server.head[Timeline]
           e == Inbound(Head(wire), "resync")
<1>1. /\ h \in Nat /\ queue \in Seq(Entries(h)) /\ Bounded(queue) /\ wire \in Seq(Frames(h))
      /\ Len(wire) <= WireCap /\ wire \in Seq(Frame) /\ wire # <<>>
  BY Heads DEF SyncInv, IInv, Carried, Genuine, Limits, ReceiveControl, Arrives
<1>2. /\ queue' = (IF waiting THEN queue ELSE Push(queue, e)) /\ wire' = Tail(wire)
      /\ UNCHANGED <<server, conn, ui, count>> /\ waiting' = FALSE
  BY DEF ReceiveControl
<1>3. lost' \subseteq Causes
  BY DEF ReceiveControl, SyncInv, Counted, Causes
<1> HIDE DEF h
<1>4. Head(wire) \in Frame /\ wire' \in Seq(Frames(h)) /\ Len(wire') <= WireCap
  BY <1>1, <1>2, BoundsAssumption
<1>5. e \in Entries(h)
  BY <1>1, <1>4, ResyncEntry
<1> HIDE DEF e
<1>6. queue' \in Seq(Entries(h)) /\ Bounded(queue')
  BY <1>1, <1>2, <1>5, PushTyped
<1>7. Genuine'
  BY <1>2, <1>4, <1>6 DEF SyncInv, Genuine, h
<1>8. Published'
  BY <1>2, SameHead
<1>9. Counted'
  BY <1>2, <1>3 DEF SyncInv, Counted
<1>10. Limits'
  BY <1>4, <1>6 DEF Limits, Bounded, OneProjection, Slots, HasProjection
<1> QED BY <1>7, <1>8, <1>9, <1>10

\* Taking an item in.
LEMMA ApplyLivePublished ==
    ASSUME NEW u, Shown(u), NEW i \in Nat
    PROVE  /\ ApplyLive(u, i).items = u.items \cup {i}
           /\ ApplyLive(u, i).page = u.page /\ ApplyLive(u, i).told = u.told
BY DEF Shown, Shell, ApplyLive

\* The shell shows what an entry carried, and is told at most of what is published.
LEMMA ApplyEventPublished ==
    ASSUME NEW u, Shown(u), Carried, NEW e \in Entries(server.head[Timeline])
    PROVE  LET v == ApplyEvent(u, e) IN
           /\ v.items \subseteq u.items \cup 1..server.head[Timeline]
           /\ v.page = u.page
           /\ v.told \in {u.told, server.head[Sidebar]}
<1> DEFINE h == server.head[Timeline]
<1>1. /\ e.decision \in Decisions /\ e.domain \in Domains /\ e.fact \in Nat /\ u \in Shell
      /\ e.decision = "apply" /\ e.domain = Timeline => e.fact \in 1..h
  BY DEF Entries, Entry, Shown
<1>2. CASE e.decision = "resync"
  <2>1. ApplyEvent(u, e) = Lagged(u, e.domain)
    BY <1>2 DEF ApplyEvent
  <2>2. LET v == Lagged(u, e.domain) IN
        v.items = u.items /\ v.page = u.page /\ v.told \in {u.told, server.head[Sidebar]}
    BY <1>1 DEF Lagged, Reload, Shell
  <2> QED BY <2>1, <2>2
<1>3. CASE e.decision \in {"duplicate", "stale"} \/ (e.decision = "apply" /\ e.domain = Notice)
  BY <1>3 DEF ApplyEvent, Timeline, Sidebar, Notice
<1>4. CASE e.decision = "apply" /\ e.domain = Timeline
  <2> DEFINE v == ApplyLive(u, e.fact)
  <2>1. ApplyEvent(u, e) = IF v.needs THEN Reload(v) ELSE v
    BY <1>4 DEF ApplyEvent, Timeline, Sidebar, Notice
  <2>2. v.items = u.items \cup {e.fact} /\ v.page = u.page /\ v.told = u.told
    BY <1>1, ApplyLivePublished
  <2>3. Shown(v)
    BY <1>1, ApplyLiveShown
  <2> HIDE DEF v
  <2>4. Reload(v).items = v.items /\ Reload(v).page = v.page /\ Reload(v).told = v.told
    BY <2>3 DEF Reload, Shown, Shell
  <2> QED BY <1>1, <1>4, <2>1, <2>2, <2>4
<1>5. CASE e.decision = "apply" /\ e.domain = Sidebar
  <2>1. ApplyEvent(u, e) = [u EXCEPT !.told = server.head[Sidebar]]
    BY <1>5 DEF ApplyEvent, Timeline, Sidebar, Notice
  <2> QED BY <1>1, <2>1 DEF Shell
<1> QED BY <1>1, <1>2, <1>3, <1>4, <1>5 DEF Decisions, Domains

\* The shell takes the oldest entry.
LEMMA ConsumeTyped ==
    ASSUME SyncInv, Consume
    PROVE  Genuine' /\ Published' /\ Counted' /\ Limits'
<1> DEFINE h == server.head[Timeline]
<1>1. /\ h \in Nat /\ queue \in Seq(Entries(h)) /\ Bounded(queue) /\ queue # <<>>
      /\ Carried /\ Shown(ui) /\ server.head[Sidebar] \in Nat
  BY Heads DEF SyncInv, IInv, Genuine, Limits, Consume
<1>2. /\ ui' = ApplyEvent(ui, Head(queue)) /\ queue' = Tail(queue)
      /\ UNCHANGED <<server, wire, conn, waiting, count>>
  BY DEF Consume
<1>3. lost' \subseteq Causes
  BY DEF Consume, SyncInv, Counted, Causes
<1>4. Head(queue) \in Entries(h) /\ queue' \in Seq(Entries(h))
  <2> HIDE DEF h
  <2> QED BY <1>1, <1>2
<1>5. Bounded(queue')
  <2> DEFINE f == Tail(queue)
             n == Len(queue)
  <2>1. /\ Len(f) = n - 1 /\ DOMAIN f = 1..(n - 1) /\ DOMAIN queue = 1..n /\ n \in Nat
        /\ \A i \in 1..(n - 1) : f[i] = queue[i + 1]
    <3> HIDE DEF h
    <3> QED BY <1>1
  <2> HIDE DEF f, n
  <2>2. QueueCap \in Nat
    BY BoundsAssumption
  <2>3. OneProjection(queue) /\ n <= Slots(queue)
    BY <1>1 DEF Bounded, n
  <2>4. OneProjection(f)
    <3> SUFFICES ASSUME NEW i \in 1..(n - 1), NEW j \in 1..(n - 1),
                        IsProjection(f[i]), IsProjection(f[j])
                 PROVE  i = j
      BY <2>1 DEF OneProjection
    <3>1. i + 1 \in 1..n /\ j + 1 \in 1..n /\ f[i] = queue[i + 1] /\ f[j] = queue[j + 1]
      BY <2>1
    <3>2. i + 1 = j + 1
      BY <2>1, <2>3, <3>1 DEF OneProjection
    <3> QED BY <2>1, <3>2
  <2>5. n - 1 <= QueueCap /\ Slots(f) >= QueueCap /\ Slots(f) \in Nat
    BY <2>1, <2>2, <2>3 DEF Slots
  <2>6. Len(f) <= Slots(f)
    BY <2>1, <2>2, <2>5
  <2>7. Bounded(f)
    BY <2>4, <2>6 DEF Bounded
  <2> QED BY <1>2, <2>7 DEF f
<1>6. Genuine'
  BY <1>2, <1>4 DEF SyncInv, Genuine
<1>7. Published'
  <2>1. /\ ui'.items \subseteq ui.items \cup 1..h /\ ui'.page = ui.page
        /\ ui'.told \in {ui.told, server.head[Sidebar]}
    BY <1>1, <1>2, <1>4, ApplyEventPublished
  <2> QED BY <1>1, <1>2, <2>1 DEF SyncInv, Published
<1>8. Counted'
  BY <1>2, <1>3 DEF SyncInv, Counted
<1>9. Limits'
  BY <1>2, <1>5 DEF SyncInv, Limits, Bounded, OneProjection, Slots, HasProjection
<1> QED BY <1>6, <1>7, <1>8, <1>9

\* The readings.
LEMMA ReadingTyped ==
    ASSUME SyncInv, Refresh \/ ReadPage \/ FinishLoad \/ FailLoad
    PROVE  Genuine' /\ Published' /\ Counted' /\ Limits'
<1>1. UNCHANGED <<server, wire, queue, conn, waiting>>
  BY DEF Refresh, ReadPage, FinishLoad, FailLoad
<1>2. Genuine' /\ Limits'
  BY <1>1, GenuineFrame
<1>3. ui \in Shell /\ server.head[Timeline] \in Nat
  BY Heads DEF SyncInv, IInv, Shown
<1>4. Published'
  <2>1. CASE Refresh
    BY <1>1, <1>3, <2>1 DEF Refresh, Reload, Shell, SyncInv, Published
  <2>2. CASE ReadPage
    BY <1>1, <1>3, <2>2 DEF ReadPage, Shell, SyncInv, Published
  <2>3. CASE FinishLoad
    <3>1. ui.page \in Nat /\ ui.page <= server.head[Timeline]
      BY <1>3 DEF Shell, SyncInv, Published
    <3>2. ui'.items = 1..ui.page /\ ui'.page = 0 /\ ui'.told = ui.told
      BY <1>3, <2>3 DEF FinishLoad, Shell
    <3> QED BY <1>1, <1>3, <3>1, <3>2 DEF SyncInv, Published
  <2>4. CASE FailLoad
    BY <1>1, <1>3, <2>4 DEF FailLoad, Shell, SyncInv, Published
  <2> QED BY <2>1, <2>2, <2>3, <2>4
<1>5. count' \in [outages : 0..MaxOutages, gestures : 0..MaxGestures]
  BY BoundsAssumption DEF Refresh, ReadPage, FinishLoad, FailLoad, SyncInv, Counted
<1>6. lost' \subseteq Causes
  BY DEF Refresh, ReadPage, FinishLoad, FailLoad, SyncInv, Counted, Causes
<1> QED BY <1>1, <1>2, <1>4, <1>5, <1>6 DEF SyncInv, Counted

\* Operations that wait are counted.
LEMMA AttachTyped ==
    ASSUME SyncInv, Attach \/ Attached \/ UNCHANGED vars
    PROVE  Genuine' /\ Published' /\ Counted' /\ Limits'
<1>1. UNCHANGED <<server, wire, queue, conn, ui, lost>>
  BY DEF Attach, Attached, vars
<1>2. Genuine' /\ Limits' /\ Published'
  BY <1>1, GenuineFrame, SameHead
<1>3. count' \in [outages : 0..MaxOutages, gestures : 0..MaxGestures]
  BY BoundsAssumption DEF Attach, Attached, vars, SyncInv, Counted
<1>4. waiting' \in BOOLEAN
  BY DEF Attach, Attached, vars, SyncInv, Counted
<1> QED BY <1>1, <1>2, <1>3, <1>4 DEF SyncInv, Counted

\* The state has its shape for every capacity and every number of events, outages and
\* gestures, and push_domain_event holds the client's queue within its capacity and one
\* reserved slot: an announcement, an event and a resync never overfill it, and what the
\* shell shows was published.
THEOREM SyncIsTyped == Spec => []SyncTypeOK
<1>1. Init => SyncInv
  <2> SUFFICES ASSUME Init PROVE SyncInv
    OBVIOUS
  <2>1. IInv
    BY InitIInv
  <2>2. Genuine
    BY DEF Init, Genuine, Domains
  <2>3. Published
    BY OpenedAssumption DEF Init, Published, Domains, Timeline, Sidebar
  <2>4. Counted
    <3>1. conn \in [phase : {"down", "syncing", "online"}, resync : SUBSET Domains]
      BY DEF Init
    <3>2. count \in [outages : 0..MaxOutages, gestures : 0..MaxGestures]
      BY BoundsAssumption DEF Init
    <3>3. waiting \in BOOLEAN /\ lost \subseteq Causes
      BY DEF Init
    <3> QED BY <3>1, <3>2, <3>3 DEF Counted
  <2>5. Limits
    BY BoundsAssumption DEF Init, Limits, Bounded, OneProjection, Slots, HasProjection
  <2> QED BY <2>1, <2>2, <2>3, <2>4, <2>5 DEF SyncInv
<1>2. SyncInv /\ [Next]_vars => SyncInv'
  <2> SUFFICES ASSUME SyncInv, [Next]_vars PROVE SyncInv'
    OBVIOUS
  <2>1. IInv'
    BY NextIInv DEF SyncInv
  <2>2. Genuine' /\ Published' /\ Counted' /\ Limits'
    BY PublishTyped, EmitTyped, EmitLagTyped, OutageTyped, ConnectTyped, AnnounceTyped,
       ReceiveEventTyped, ReceiveControlTyped, AttachTyped, ConsumeTyped, ReadingTyped
       DEF Next
  <2> QED BY <2>1, <2>2 DEF SyncInv
<1>3. SyncInv => SyncTypeOK
  <2> SUFFICES ASSUME SyncInv PROVE SyncTypeOK
    OBVIOUS
  <2>1. /\ server \in Server /\ wire \in Seq(Frame) /\ engine \in Engine /\ queue \in Seq(Entry)
        /\ ui \in Shell /\ server.head[Timeline] \in Nat /\ server.head[Sidebar] \in Nat
    BY Heads DEF SyncInv, IInv, Carried, Shown
  <2>2. Len(wire) <= WireCap /\ Len(queue) <= QueueCap + 1
    <3>1. Len(queue) \in Nat /\ QueueCap \in Nat /\ Len(queue) <= Slots(queue)
      BY <2>1, BoundsAssumption DEF SyncInv, Limits, Bounded
    <3> QED BY <3>1 DEF SyncInv, Limits, Slots
  <2>3. ui \in [items : SUBSET (1..server.head[Timeline]), needs : BOOLEAN,
                load : {"idle", "asked", "read", "broken"}, page : 0..server.head[Timeline],
                told : 0..server.head[Sidebar]]
    <3>1. ui.items \in SUBSET (1..server.head[Timeline])
      BY DEF SyncInv, Published
    <3>2. ui.page \in 0..server.head[Timeline] /\ ui.told \in 0..server.head[Sidebar]
      BY <2>1 DEF SyncInv, Published, Shell
    <3> DEFINE I == SUBSET (1..server.head[Timeline])
               P == 0..server.head[Timeline]
               T == 0..server.head[Sidebar]
    <3>3. ui.items \in I /\ ui.page \in P /\ ui.told \in T
      BY <3>1, <3>2
    <3> HIDE DEF I, P, T
    <3>4. ui \in [items : I, needs : BOOLEAN, load : {"idle", "asked", "read", "broken"},
                  page : P, told : T]
      BY <2>1, <3>3 DEF Shell
    <3> QED BY <3>4 DEF I, P, T
  <2> QED BY <2>1, <2>2, <2>3 DEF SyncTypeOK, SyncInv, Counted, Server, Fact, Engine
<1> QED BY <1>1, <1>2, <1>3, PTL DEF Spec

=============================================================================
