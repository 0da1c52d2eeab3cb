--------------------- MODULE AttachmentLifecycleProofs ---------------------
(***************************************************************************)
(* What the registries, the lifecycle gate and the switch bridge keep true  *)
(* of the processes and attachments of a session, for any number of         *)
(* processes, requests, turns, switches and faults.                         *)
(***************************************************************************)
EXTENDS AttachmentLifecycle, TLAPS

-----------------------------------------------------------------------------
(* Types *)

\* Where a materialising task is inside the gate, and where it has the session lock.
Inside == {"lock", "read", "existing", "revision", "spawn", "open", "advance",
           "promptGate", "activate", "touch", "lease"}
Locked == Inside \ {"lock"}

\* Where its record names a binding.
Bound == (Locked \ {"read"}) \cup {"send", "prompt", "begin", "turn"}

UserPcs == Inside \cup {"idle", "gate", "refresh", "await", "admit",
                        "send", "prompt", "begin", "turn"}

\* The switch before its target is registered, before its commit, and after it.
PreCreate == {"probe", "close", "reprobe", "closeToPrepare", "prepareIdle", "spawn",
              "protectProcess", "placeProcess", "generation", "create"}
PreCommit == PreCreate \cup {"protectTarget", "placeTarget", "insert", "closeToCommit",
                             "commitIdle", "revalidate", "commit", "fail", "cleanup",
                             "reopen"}
PostCommit == {"fit", "activate", "open"}
SwitchPcs == PreCommit \cup PostCommit \cup {"idle"}

SomeProcess == Processes \cup {NoProcess}
SomeBinding == Bindings \cup {NoBinding}
Tasks == Users \cup {"switch", "sweep"}

RegRec == [att : [Bindings -> Attachments], cur : SomeBinding, last : Nat,
           proc : [Processes -> {"up", "crashed", "gone"}]]
DbRec == [cur : Bindings, gen : Nat, row : [Bindings -> Nat], rev : [Bindings -> Nat],
          pending : BOOLEAN, running : BOOLEAN]
GateRec == [queue : Seq(Tasks), readers : SUBSET Tasks, writer : BOOLEAN]
LeaseRec == [LeaseHolders -> SomeProcess]
UserRec == [pc : UserPcs, b : SomeBinding, gen : Nat, p : SomeProcess, shut : BOOLEAN,
            retried : BOOLEAN]
SwitchRec == [pc : SwitchPcs, src : SomeBinding, b : SomeBinding, p : SomeProcess,
              gen : Nat, shut : BOOLEAN, by : Users \cup {NoOne}]
SweepRec == [pc : {"idle", "gate", "sweep", "detach"}, listed : SUBSET Bindings,
             b : SomeBinding]

\* A task whose next step looks at its binding has one.
NamesBinding(r) == r.pc \in Bound => r.b \in Bindings

StoreOK == reg \in RegRec /\ db \in DbRec /\ fenced \in BOOLEAN
LocksOK == gate \in GateRec /\ lock \in Users \cup {NoOne} /\ lease \in LeaseRec
UserOK == user \in [Users -> UserRec] /\ \A u \in Users : NamesBinding(user[u])
SwitchOK == sw \in SwitchRec /\ (sw.pc # "idle" => sw.b \in Bindings /\ sw.src \in Bindings)
SweepOK == sweep \in SweepRec /\ (sweep.pc = "detach" => sweep.b \in Bindings)
RestOK ==
    /\ auth \in [rev : Nat, changing : BOOLEAN]
    /\ used \in [attaches : Nat, turns : Nat, switches : 0 .. MaxSwitches, faults : Nat]
    /\ slip \in [gate : BOOLEAN, prompt : BOOLEAN, stranded : BOOLEAN]

TypeInv == StoreOK /\ LocksOK /\ UserOK /\ SwitchOK /\ SweepOK /\ RestOK

LEMMA Numbers ==
    /\ MaxSwitches \in Nat /\ Bindings \subseteq Nat \ {0} /\ 1 \in Bindings
    /\ NoBinding \notin Bindings /\ NoProcess \notin Processes /\ 1 \in Processes
    /\ \A b \in Bindings : b <= MaxSwitches + 1
    /\ \A n \in 0 .. MaxSwitches : n < MaxSwitches => n + 2 \in Bindings
  BY BoundsAssumption DEF Bindings, NoBinding, NoProcess

-----------------------------------------------------------------------------
(* What the operations of the registries do, field by field. *)

LEMMA RegSpawned ==
    ASSUME NEW r \in RegRec, NEW p \in Processes
    PROVE  /\ Spawned(r, p) \in RegRec
           /\ Spawned(r, p).att = r.att
           /\ Spawned(r, p).cur = r.cur
           /\ Spawned(r, p).last = r.last
           /\ \A q \in Processes : Spawned(r, p).proc[q] = IF q = p THEN "up" ELSE r.proc[q]
  BY DEF RegRec, Spawned

LEMMA RegReleased ==
    ASSUME NEW r \in RegRec, NEW p \in SomeProcess
    PROVE  /\ Released(r, p) \in RegRec
           /\ Released(r, p).att = r.att
           /\ Released(r, p).cur = r.cur
           /\ Released(r, p).last = r.last
           /\ \A q \in Processes :
                 Released(r, p).proc[q] = IF q = p THEN "gone" ELSE r.proc[q]
  BY Numbers DEF RegRec, Released, SomeProcess

LEMMA NoAttachmentType ==
    /\ NoAttachment \in Attachments
    /\ NoAttachment.st = "none" /\ NoAttachment.p = NoProcess /\ NoAttachment.gen = 0
    /\ ~NoAttachment.turn /\ ~NoAttachment.closed
  BY DEF NoAttachment, Attachments, NoProcess

LEMMA AttachmentWrites ==
    ASSUME NEW g \in Nat, NEW p \in SomeProcess
    PROVE  LET a == [NoAttachment EXCEPT !.st = "Prepared", !.gen = g, !.p = p] IN
           /\ a \in Attachments /\ a.st = "Prepared" /\ a.gen = g /\ a.p = p
           /\ ~a.turn /\ ~a.closed
  BY DEF NoAttachment, Attachments, SomeProcess

LEMMA RegRegistered ==
    ASSUME NEW r \in RegRec, NEW b \in Bindings, NEW g \in Nat, NEW p \in SomeProcess
    PROVE  /\ Registered(r, b, g, p) \in RegRec
           /\ Registered(r, b, g, p).cur = r.cur
           /\ Registered(r, b, g, p).proc = r.proc
           /\ Registered(r, b, g, p).last = IF g > r.last THEN g ELSE r.last
           /\ \A c \in Bindings : c # b => Registered(r, b, g, p).att[c] = r.att[c]
           /\ Registered(r, b, g, p).att[b].st = "Prepared"
           /\ Registered(r, b, g, p).att[b].gen = g
           /\ Registered(r, b, g, p).att[b].p = p
           /\ ~Registered(r, b, g, p).att[b].turn
           /\ ~Registered(r, b, g, p).att[b].closed
<1> DEFINE a == [NoAttachment EXCEPT !.st = "Prepared", !.gen = g, !.p = p]
<1>1. /\ a \in Attachments /\ a.st = "Prepared" /\ a.gen = g /\ a.p = p
      /\ ~a.turn /\ ~a.closed
  BY AttachmentWrites
<1> DEFINE n == IF g > r.last THEN g ELSE r.last
           A == [r.att EXCEPT ![b] = a]
<1>2. n \in Nat
  BY DEF RegRec
<1>3. Registered(r, b, g, p) = [r EXCEPT !.att = A, !.last = n]
  BY DEF Registered, RegRec
<1> HIDE DEF a
<1>4. /\ A \in [Bindings -> Attachments] /\ A[b] = a
      /\ \A c \in Bindings : c # b => A[c] = r.att[c]
  BY <1>1 DEF RegRec
<1>5. Registered(r, b, g, p).last = IF g > r.last THEN g ELSE r.last
  BY <1>3 DEF RegRec
<1> HIDE DEF n, A
<1>6. [r EXCEPT !.att = A, !.last = n] \in RegRec
  BY <1>2, <1>4 DEF RegRec
<1>7. /\ [r EXCEPT !.att = A, !.last = n].cur = r.cur
      /\ [r EXCEPT !.att = A, !.last = n].proc = r.proc
      /\ [r EXCEPT !.att = A, !.last = n].att = A
  BY DEF RegRec
<1> QED BY <1>1, <1>3, <1>4, <1>5, <1>6, <1>7

LEMMA RegisteredHere ==
    ASSUME NEW r \in RegRec, NEW b \in Bindings, NEW g \in Nat, NEW p \in SomeProcess
    PROVE  /\ Registered(r, b, g, p).cur = r.cur
           /\ Registered(r, b, g, p).att[b].st = "Prepared"
           /\ Registered(r, b, g, p).att[b].p = p
<1>1. Registered(r, b, g, p).cur = r.cur
  BY RegRegistered
<1>2. Registered(r, b, g, p).att[b].st = "Prepared"
  BY RegRegistered
<1>3. Registered(r, b, g, p).att[b].p = p
  BY RegRegistered
<1> QED BY <1>1, <1>2, <1>3

LEMMA RegisteredElsewhere ==
    ASSUME NEW r \in RegRec, NEW b \in Bindings, NEW g \in Nat, NEW p \in SomeProcess,
           NEW c \in Bindings, c # b
    PROVE  Registered(r, b, g, p).att[c] = r.att[c]
<1> DEFINE a == [NoAttachment EXCEPT !.st = "Prepared", !.gen = g, !.p = p]
           n == IF g > r.last THEN g ELSE r.last
           A == [r.att EXCEPT ![b] = a]
<1>1. r.att \in [Bindings -> Attachments]
  BY DEF RegRec
<1>2. Registered(r, b, g, p) = [r EXCEPT !.att = A, !.last = n]
  BY DEF Registered, RegRec
<1> HIDE DEF a, n
<1>3. A[c] = r.att[c]
  BY <1>1
<1> HIDE DEF A
<1>4. [r EXCEPT !.att = A, !.last = n].att = A
  BY DEF RegRec
<1> QED BY <1>2, <1>3, <1>4

\* The flags of one attachment are changed.
LEMMA AttFlags ==
    ASSUME NEW a \in Attachments, NEW f \in BOOLEAN,
           NEW st \in {"none", "Prepared", "Committed", "Inactive", "Crashed", "Closing"}
    PROVE  /\ [a EXCEPT !.closed = f] \in Attachments
           /\ [a EXCEPT !.prompt = f] \in Attachments
           /\ [a EXCEPT !.turn = f] \in Attachments
           /\ [a EXCEPT !.st = st] \in Attachments
           /\ [a EXCEPT !.st = st, !.closed = f] \in Attachments
           /\ \A h \in BOOLEAN : [a EXCEPT !.st = st, !.closed = f, !.prompt = h] \in Attachments
           /\ \A h \in BOOLEAN : [a EXCEPT !.st = st, !.prompt = f, !.closed = h] \in Attachments
           /\ \A h \in BOOLEAN : [a EXCEPT !.prompt = f, !.turn = h] \in Attachments
  BY DEF Attachments

\* The attachment is still the one with this fence.
Same(a, c) == a.gen = c.gen /\ a.p = c.p /\ (a.turn => c.turn)

LEMMA RegActivated ==
    ASSUME NEW r \in RegRec, NEW b \in Bindings, NEW shut \in BOOLEAN
    PROVE  /\ Activated(r, b, shut) \in RegRec
           /\ Activated(r, b, shut).cur = b
           /\ Activated(r, b, shut).proc = r.proc
           /\ Activated(r, b, shut).last =
                 IF r.att[b].gen > r.last THEN r.att[b].gen ELSE r.last
           /\ \A c \in Bindings : Same(Activated(r, b, shut).att[c], r.att[c])
           /\ Activated(r, b, shut).att[b].st = "Committed"
           /\ Activated(r, b, shut).att[b].closed = shut
           /\ r.cur \in Bindings \ {b} => Activated(r, b, shut).att[r.cur].st = "Inactive"
           /\ \A c \in Bindings : c \notin {b, r.cur} => Activated(r, b, shut).att[c] = r.att[c]
<1> DEFINE n == IF r.att[b].gen > r.last THEN r.att[b].gen ELSE r.last
           A == [c \in Bindings |->
                   CASE c = b -> [r.att[c] EXCEPT !.st = "Committed", !.closed = shut]
                     [] c = r.cur /\ c # b ->
                          [r.att[c] EXCEPT !.st = "Inactive", !.closed = FALSE, !.prompt = FALSE]
                     [] OTHER -> r.att[c]]
<1>1. r.att \in [Bindings -> Attachments] /\ r.last \in Nat
  BY DEF RegRec
<1>2. r.att[b].gen \in Nat
  BY <1>1 DEF Attachments
<1>3. n \in Nat
  BY <1>1, <1>2
<1>4. Activated(r, b, shut) = [r EXCEPT !.att = A, !.cur = b, !.last = n]
  BY DEF Activated, RegRec
<1>5. \A c \in Bindings : r.att[c] \in Attachments
  BY <1>1
<1>6. ASSUME NEW c \in Bindings PROVE A[c] \in Attachments /\ Same(A[c], r.att[c])
  <2>1. r.att[c] \in Attachments
    BY <1>5
  <2>2. CASE c = b
    <3>1. A[c] = [r.att[c] EXCEPT !.st = "Committed", !.closed = shut]
      BY <2>2
    <3> QED BY <3>1, <2>1 DEF Attachments, Same
  <2>3. CASE c = r.cur /\ c # b
    <3>1. A[c] = [r.att[c] EXCEPT !.st = "Inactive", !.closed = FALSE, !.prompt = FALSE]
      BY <2>3
    <3> QED BY <3>1, <2>1 DEF Attachments, Same
  <2>4. CASE c # r.cur /\ c # b
    <3>1. A[c] = r.att[c]
      BY <2>4
    <3> QED BY <3>1, <2>1 DEF Same
  <2> QED BY <2>2, <2>3, <2>4
<1>7. A \in [Bindings -> Attachments]
  BY <1>6
<1>8. A[b].st = "Committed" /\ A[b].closed = shut
  <2>1. A[b] = [r.att[b] EXCEPT !.st = "Committed", !.closed = shut]
    OBVIOUS
  <2> QED BY <2>1, <1>5 DEF Attachments
<1>9. r.cur \in Bindings \ {b} => A[r.cur].st = "Inactive"
  <2> SUFFICES ASSUME r.cur \in Bindings \ {b} PROVE A[r.cur].st = "Inactive"
    OBVIOUS
  <2>1. A[r.cur] = [r.att[r.cur] EXCEPT !.st = "Inactive", !.closed = FALSE, !.prompt = FALSE]
    OBVIOUS
  <2> QED BY <2>1, <1>5 DEF Attachments
<1>10. \A c \in Bindings : c \notin {b, r.cur} => A[c] = r.att[c]
  OBVIOUS
<1>11. Activated(r, b, shut).last = IF r.att[b].gen > r.last THEN r.att[b].gen ELSE r.last
  BY <1>4 DEF RegRec
<1> HIDE DEF n, A
<1>12. [r EXCEPT !.att = A, !.cur = b, !.last = n] \in RegRec
  BY <1>3, <1>7 DEF RegRec, SomeBinding
<1>13. /\ [r EXCEPT !.att = A, !.cur = b, !.last = n].cur = b
       /\ [r EXCEPT !.att = A, !.cur = b, !.last = n].proc = r.proc
       /\ [r EXCEPT !.att = A, !.cur = b, !.last = n].att = A
  BY DEF RegRec
<1> QED BY <1>4, <1>6, <1>8, <1>9, <1>10, <1>11, <1>12, <1>13

\* One attachment takes a new status and loses its prompt fields.
Marked(r, b, st) ==
    [r EXCEPT !.att[b].st = st, !.att[b].prompt = FALSE, !.att[b].closed = FALSE,
              !.cur = IF @ = b THEN NoBinding ELSE @]

LEMMA RegMarked ==
    ASSUME NEW r \in RegRec, NEW b \in Bindings, NEW st \in {"Crashed", "Closing"}
    PROVE  /\ Marked(r, b, st) \in RegRec
           /\ Marked(r, b, st).cur = IF r.cur = b THEN NoBinding ELSE r.cur
           /\ Marked(r, b, st).proc = r.proc
           /\ Marked(r, b, st).last = r.last
           /\ Marked(r, b, st).att[b].st = st
           /\ Same(Marked(r, b, st).att[b], r.att[b])
           /\ \A c \in Bindings : c # b => Marked(r, b, st).att[c] = r.att[c]
<1> DEFINE n == IF r.cur = b THEN NoBinding ELSE r.cur
           a == [r.att[b] EXCEPT !.st = st, !.prompt = FALSE, !.closed = FALSE]
           A == [r.att EXCEPT ![b] = a]
           s == Marked(r, b, st)
<1>1. r.att \in [Bindings -> Attachments] /\ r.att[b] \in Attachments
  BY DEF RegRec
<1>2. a \in Attachments /\ a.st = st /\ Same(a, r.att[b])
  BY <1>1 DEF Attachments, Same
<1>3. n \in SomeBinding /\ n = IF r.cur = b THEN NoBinding ELSE r.cur
  BY DEF RegRec, SomeBinding
<1>4. s = [r EXCEPT !.att = A, !.cur = n]
  BY <1>1 DEF RegRec, Marked
<1> HIDE DEF a, n
<1>5. /\ A \in [Bindings -> Attachments] /\ A[b] = a
      /\ \A c \in Bindings : c # b => A[c] = r.att[c]
  BY <1>1, <1>2
<1> HIDE DEF A
<1>6. [r EXCEPT !.att = A, !.cur = n] \in RegRec
  BY <1>3, <1>5 DEF RegRec
<1>7. /\ [r EXCEPT !.att = A, !.cur = n].cur = n
      /\ [r EXCEPT !.att = A, !.cur = n].proc = r.proc
      /\ [r EXCEPT !.att = A, !.cur = n].last = r.last
      /\ [r EXCEPT !.att = A, !.cur = n].att = A
  BY DEF RegRec
<1> HIDE DEF s
<1>8. /\ s \in RegRec /\ s.cur = n /\ s.proc = r.proc /\ s.last = r.last /\ s.att = A
  BY <1>4, <1>6, <1>7
<1>9. /\ s.cur = IF r.cur = b THEN NoBinding ELSE r.cur
      /\ s.att[b].st = st /\ Same(s.att[b], r.att[b])
      /\ \A c \in Bindings : c # b => s.att[c] = r.att[c]
  BY <1>2, <1>3, <1>5, <1>8
<1> USE DEF s
<1> QED BY <1>8, <1>9

LEMMA MarkedElsewhere ==
    ASSUME NEW r \in RegRec, NEW b \in Bindings, NEW st \in {"Crashed", "Closing"},
           NEW c \in Bindings, c # b
    PROVE  Marked(r, b, st).att[c] = r.att[c]
<1> DEFINE n == IF r.cur = b THEN NoBinding ELSE r.cur
           a == [r.att[b] EXCEPT !.st = st, !.prompt = FALSE, !.closed = FALSE]
           A == [r.att EXCEPT ![b] = a]
<1>1. r.att \in [Bindings -> Attachments]
  BY DEF RegRec
<1>2. Marked(r, b, st) = [r EXCEPT !.att = A, !.cur = n]
  BY <1>1 DEF RegRec, Marked
<1> HIDE DEF a, n
<1>3. A[c] = r.att[c]
  BY <1>1
<1> HIDE DEF A
<1>4. [r EXCEPT !.att = A, !.cur = n].att = A
  BY DEF RegRec
<1> QED BY <1>2, <1>3, <1>4

-----------------------------------------------------------------------------
(* Most steps take something away from the registries or leave them alone. *)

Fades(r, s) ==
    /\ s \in RegRec /\ s.last = r.last /\ s.cur \in {r.cur, NoBinding}
    /\ \A p \in Processes : s.proc[p] = "up" => r.proc[p] = "up"
    /\ \A b \in Bindings :
         \/ s.att[b].st = r.att[b].st /\ Same(s.att[b], r.att[b]) /\ (r.cur = b => s.cur = b)
         \/ /\ s.att[b].st \in {"Crashed", "Closing"} /\ s.cur # b /\ r.att[b].st # "none"
            /\ Same(s.att[b], r.att[b])
         \/ /\ s.att[b].st = "none" /\ Same(s.att[b], NoAttachment) /\ s.cur # b
            /\ r.att[b].p # NoProcess => s.proc[r.att[b].p] # "up"

\* The registry has at most one Committed attachment, the current one, every attachment
\* has its process, and a prepared one has not been prompted.
RegShape(r) ==
    \A b \in Bindings :
        /\ r.att[b].st = "Committed" <=> r.cur = b
        /\ r.att[b].st = "none" <=> r.att[b].p = NoProcess
        /\ r.att[b].st = "Prepared" => ~r.att[b].turn

LEMMA FadesStays ==
    ASSUME NEW r \in RegRec
    PROVE  Fades(r, r)
  BY DEF Fades, Same

LEMMA FadesShape ==
    ASSUME NEW r \in RegRec, NEW s, Fades(r, s), RegShape(r)
    PROVE  RegShape(s)
<1> SUFFICES ASSUME NEW b \in Bindings
             PROVE  /\ s.att[b].st = "Committed" <=> s.cur = b
                    /\ s.att[b].st = "none" <=> s.att[b].p = NoProcess
                    /\ s.att[b].st = "Prepared" => ~s.att[b].turn
  BY DEF RegShape
<1>1. /\ r.att[b].st = "Committed" <=> r.cur = b
      /\ r.att[b].st = "none" <=> r.att[b].p = NoProcess
      /\ r.att[b].st = "Prepared" => ~r.att[b].turn
  BY DEF RegShape
<1>2. s.cur \in {r.cur, NoBinding} /\ b # NoBinding
  BY Numbers DEF Fades
<1>3. CASE /\ s.att[b].st = r.att[b].st /\ Same(s.att[b], r.att[b])
           /\ r.cur = b => s.cur = b
  BY <1>1, <1>2, <1>3 DEF Same
<1>4. CASE /\ s.att[b].st \in {"Crashed", "Closing"} /\ s.cur # b /\ r.att[b].st # "none"
           /\ Same(s.att[b], r.att[b])
  BY <1>1, <1>2, <1>4 DEF Same
<1>5. CASE s.att[b].st = "none" /\ Same(s.att[b], NoAttachment) /\ s.cur # b
  BY <1>5, NoAttachmentType DEF Same
<1> QED BY <1>3, <1>4, <1>5 DEF Fades

\* What is left of an attachment or a process was there before.
LEMMA FadesKeeps ==
    ASSUME NEW r, NEW s, Fades(r, s), NEW b \in Bindings
    PROVE  /\ s.att[b].st # "none" => r.att[b].st # "none" /\ Same(s.att[b], r.att[b])
           /\ s.att[b].st \in {"Prepared", "Committed"} => s.att[b].st = r.att[b].st
           /\ s.att[b].p \in {r.att[b].p, NoProcess}
           /\ s.att[b].p # NoProcess => Same(s.att[b], r.att[b])
           /\ s.att[b].st \notin {r.att[b].st, "none"} => s.att[b].st \in {"Crashed", "Closing"}
           /\ s.att[b].turn => r.att[b].turn
  BY NoAttachmentType DEF Fades, Same

LEMMA FadesReleased ==
    ASSUME NEW r \in RegRec, NEW p \in SomeProcess
    PROVE  Fades(r, Released(r, p))
<1> DEFINE s == Released(r, p)
<1>1. /\ s \in RegRec /\ s.att = r.att /\ s.cur = r.cur /\ s.last = r.last
      /\ \A q \in Processes : s.proc[q] = IF q = p THEN "gone" ELSE r.proc[q]
  BY RegReleased
<1> HIDE DEF s
<1>2. \A q \in Processes : s.proc[q] = "up" => r.proc[q] = "up"
  BY <1>1
<1>3. Fades(r, s)
  BY <1>1, <1>2 DEF Fades, Same
<1> QED BY <1>3 DEF s

LEMMA FadesMarked ==
    ASSUME NEW r \in RegRec, NEW b \in Bindings, NEW st \in {"Crashed", "Closing"},
           r.att[b].st # "none"
    PROVE  Fades(r, Marked(r, b, st))
<1> DEFINE s == Marked(r, b, st)
<1>1. /\ s \in RegRec
      /\ s.cur = IF r.cur = b THEN NoBinding ELSE r.cur
      /\ s.proc = r.proc /\ s.last = r.last
      /\ s.att[b].st = st /\ Same(s.att[b], r.att[b])
  BY RegMarked
<1>0. ASSUME NEW c \in Bindings, c # b PROVE s.att[c] = r.att[c]
  BY <1>0, MarkedElsewhere
<1> HIDE DEF s
<1>2. s.cur # b
  BY <1>1, Numbers
<1>3. \A c \in Bindings : c # b /\ r.cur = c => s.cur = c
  BY <1>1
<1>4. Fades(r, s)
  BY <1>0, <1>1, <1>2, <1>3 DEF Fades, Same
<1> QED BY <1>4 DEF s

LEMMA FadesDetached ==
    ASSUME NEW r \in RegRec, RegShape(r), NEW b \in Bindings
    PROVE  /\ Fades(r, Detached(r, b))
           /\ Detached(r, b).att[b].st = "none" /\ Detached(r, b).att[b].p = NoProcess
           /\ \A c \in Bindings : c # b => Detached(r, b).att[c] = r.att[c]
           /\ Detached(r, b).cur = IF r.cur = b THEN NoBinding ELSE r.cur
           /\ r.att[b].p # NoProcess => Detached(r, b).proc[r.att[b].p] = "gone"
<1>1. CASE r.att[b].st = "none"
  <2>1. Detached(r, b) = r
    BY <1>1 DEF Detached
  <2>2. r.att[b].p = NoProcess /\ r.cur # b
    BY <1>1 DEF RegShape
  <2> QED BY <1>1, <2>1, <2>2, FadesStays
<1>2. CASE r.att[b].st # "none"
  <2> DEFINE m == [r EXCEPT !.att[b] = NoAttachment, !.cur = IF @ = b THEN NoBinding ELSE @]
             n == IF r.cur = b THEN NoBinding ELSE r.cur
             A == [r.att EXCEPT ![b] = NoAttachment]
             s == Released(m, r.att[b].p)
  <2>1. Detached(r, b) = s
    BY <1>2 DEF Detached
  <2>2. m = [r EXCEPT !.att = A, !.cur = n]
    BY DEF RegRec
  <2>3. n \in SomeBinding /\ n = (IF r.cur = b THEN NoBinding ELSE r.cur)
    BY DEF RegRec, SomeBinding
  <2>4. r.att[b] \in Attachments /\ r.att[b].p \in SomeProcess /\ r.att[b].p # NoProcess
    BY <1>2 DEF RegRec, Attachments, SomeProcess, RegShape
  <2>5. /\ A \in [Bindings -> Attachments] /\ A[b] = NoAttachment
        /\ \A c \in Bindings : c # b => A[c] = r.att[c]
    BY NoAttachmentType DEF RegRec
  <2> HIDE DEF n, A, m
  <2>6. /\ m \in RegRec /\ m.att = A /\ m.cur = n /\ m.last = r.last /\ m.proc = r.proc
    BY <2>2, <2>3, <2>5 DEF RegRec
  <2>7. /\ s \in RegRec /\ s.att = A /\ s.cur = n /\ s.last = r.last
        /\ \A q \in Processes :
              s.proc[q] = IF q = r.att[b].p THEN "gone" ELSE r.proc[q]
    BY <2>4, <2>6, RegReleased
  <2> HIDE DEF s
  <2>8. s.proc[r.att[b].p] = "gone"
    BY <2>4, <2>7 DEF SomeProcess
  <2>9. \A q \in Processes : s.proc[q] = "up" => r.proc[q] = "up"
    BY <2>7
  <2>10. s.cur # b
    BY <2>3, <2>7, Numbers
  <2>11. \A c \in Bindings : c # b => s.att[c] = r.att[c] /\ (r.cur = c => s.cur = c)
    BY <2>3, <2>5, <2>7
  <2>12. s.att[b] = NoAttachment
    BY <2>5, <2>7
  <2>13. s.cur \in {r.cur, NoBinding}
    BY <2>3, <2>7
  <2>14. Fades(r, s)
    BY NoAttachmentType, <2>7, <2>8, <2>9, <2>10, <2>11, <2>12, <2>13 DEF Fades, Same
  <2> QED BY <2>1, <2>3, <2>7, <2>8, <2>11, <2>12, <2>14, NoAttachmentType
<1> QED BY <1>1, <1>2

LEMMA FadesCrashed ==
    ASSUME NEW r \in RegRec, NEW b \in Bindings, r.att[b].st # "none"
    PROVE  Fades(r, Crashed(r, b)) /\ Crashed(r, b).cur # b
<1>1. Crashed(r, b) = Marked(r, b, "Crashed")
  BY DEF Crashed, Marked
<1>2. Marked(r, b, "Crashed").cur = IF r.cur = b THEN NoBinding ELSE r.cur
  BY RegMarked
<1>3. Marked(r, b, "Crashed").cur # b
  BY <1>2, Numbers
<1> QED BY <1>1, <1>3, FadesMarked

\* current_attachment leaves a current attachment only on a process that is up.
LEMMA FadesCurrent ==
    ASSUME NEW r \in RegRec, RegShape(r)
    PROVE  /\ Fades(r, Current(r))
           /\ Current(r).proc = r.proc
           /\ Current(r).cur # NoBinding =>
                 Current(r) = r /\ Up(r, r.att[r.cur].p)
<1>1. CASE r.cur # NoBinding /\ ~Up(r, r.att[r.cur].p)
  <2>1. r.cur \in Bindings /\ r.att[r.cur].st # "none"
    BY <1>1 DEF RegRec, SomeBinding, RegShape
  <2>2. Current(r) = Marked(r, r.cur, "Crashed")
    BY <1>1 DEF Current, Crashed, Marked
  <2>3. Marked(r, r.cur, "Crashed").cur = NoBinding /\ Marked(r, r.cur, "Crashed").proc = r.proc
    BY <2>1, RegMarked
  <2> QED BY <2>1, <2>2, <2>3, FadesMarked
<1>2. CASE ~ (r.cur # NoBinding /\ ~Up(r, r.att[r.cur].p))
  <2>1. Current(r) = r
    BY <1>2 DEF Current
  <2> QED BY <1>2, <2>1, FadesStays
<1> QED BY <1>1, <1>2

\* The prompt fields of one attachment change.
LEMMA FadesFlags ==
    ASSUME NEW r \in RegRec, NEW b \in Bindings, NEW a \in Attachments,
           a.st = r.att[b].st, Same(a, r.att[b])
    PROVE  /\ Fades(r, [r EXCEPT !.att[b] = a])
           /\ [r EXCEPT !.att[b] = a].att[b] = a
           /\ [r EXCEPT !.att[b] = a].cur = r.cur
           /\ [r EXCEPT !.att[b] = a].proc = r.proc
           /\ \A c \in Bindings : c # b => [r EXCEPT !.att[b] = a].att[c] = r.att[c]
<1> DEFINE A == [r.att EXCEPT ![b] = a]
           s == [r EXCEPT !.att[b] = a]
<1>1. s = [r EXCEPT !.att = A]
  BY DEF RegRec
<1>2. /\ A \in [Bindings -> Attachments] /\ A[b] = a
      /\ \A c \in Bindings : c # b => A[c] = r.att[c]
  BY DEF RegRec
<1> HIDE DEF A
<1>3. /\ s \in RegRec /\ s.cur = r.cur /\ s.last = r.last /\ s.proc = r.proc /\ s.att = A
  BY <1>1, <1>2 DEF RegRec
<1> HIDE DEF s
<1>4. Fades(r, s)
  BY <1>2, <1>3 DEF Fades, Same
<1>5. s.att[b] = a /\ s.cur = r.cur /\ s.proc = r.proc
  BY <1>2, <1>3
<1>6. \A c \in Bindings : c # b => s.att[c] = r.att[c]
  BY <1>2, <1>3
<1> USE DEF s
<1> QED BY <1>4, <1>5, <1>6

\* Two steps one after the other.
LEMMA FadesTwice ==
    ASSUME NEW r \in RegRec, NEW m, NEW s, Fades(r, m), Fades(m, s)
    PROVE  Fades(r, s)
<1>1. m \in RegRec /\ s \in RegRec /\ s.last = r.last /\ s.cur \in {r.cur, NoBinding}
  BY DEF Fades
<1>2. \A p \in Processes : s.proc[p] = "up" => r.proc[p] = "up"
  BY DEF Fades
<1>3. ASSUME NEW b \in Bindings
      PROVE  \/ /\ s.att[b].st = r.att[b].st /\ Same(s.att[b], r.att[b])
                /\ r.cur = b => s.cur = b
             \/ /\ s.att[b].st \in {"Crashed", "Closing"} /\ s.cur # b
                /\ r.att[b].st # "none" /\ Same(s.att[b], r.att[b])
             \/ /\ s.att[b].st = "none" /\ Same(s.att[b], NoAttachment) /\ s.cur # b
                /\ r.att[b].p # NoProcess => s.proc[r.att[b].p] # "up"
  <2>1. /\ s.cur \in {m.cur, NoBinding} /\ b # NoBinding
        /\ \A p \in Processes : s.proc[p] = "up" => m.proc[p] = "up"
    BY Numbers DEF Fades
  <2>2. r.att[b].p # NoProcess => r.att[b].p \in Processes
    BY DEF RegRec, Attachments
  <2>3. CASE /\ s.att[b].st = "none" /\ Same(s.att[b], NoAttachment) /\ s.cur # b
             /\ m.att[b].p # NoProcess => s.proc[m.att[b].p] # "up"
    <3>1. CASE r.att[b].p # NoProcess => m.proc[r.att[b].p] # "up"
      BY <2>1, <2>2, <2>3, <3>1
    <3>2. CASE Same(m.att[b], r.att[b])
      BY <2>3, <3>2 DEF Same
    <3> QED BY <3>1, <3>2 DEF Fades
  <2>4. CASE /\ s.att[b].st = m.att[b].st /\ Same(s.att[b], m.att[b])
             /\ m.cur = b => s.cur = b
    <3>1. CASE /\ m.att[b].st = "none" /\ Same(m.att[b], NoAttachment) /\ m.cur # b
               /\ r.att[b].p # NoProcess => m.proc[r.att[b].p] # "up"
      BY <2>1, <2>2, <2>4, <3>1 DEF Same
    <3>2. CASE \/ /\ m.att[b].st = r.att[b].st /\ Same(m.att[b], r.att[b])
                  /\ r.cur = b => m.cur = b
               \/ /\ m.att[b].st \in {"Crashed", "Closing"} /\ m.cur # b
                  /\ r.att[b].st # "none" /\ Same(m.att[b], r.att[b])
      BY <2>1, <2>4, <3>2 DEF Same
    <3> QED BY <3>1, <3>2 DEF Fades
  <2>5. CASE /\ s.att[b].st \in {"Crashed", "Closing"} /\ s.cur # b
             /\ m.att[b].st # "none" /\ Same(s.att[b], m.att[b])
    <3>1. Same(m.att[b], r.att[b]) /\ r.att[b].st # "none"
      BY <2>5 DEF Fades
    <3> QED BY <2>5, <3>1 DEF Same
  <2> QED BY <2>3, <2>4, <2>5 DEF Fades
<1> QED BY <1>1, <1>2, <1>3 DEF Fades

LEMMA FadesProcesses ==
    ASSUME NEW r \in RegRec, NEW f \in [Processes -> {"up", "crashed", "gone"}],
           \A p \in Processes : f[p] = "up" => r.proc[p] = "up"
    PROVE  /\ Fades(r, [r EXCEPT !.proc = f])
           /\ [r EXCEPT !.proc = f].att = r.att /\ [r EXCEPT !.proc = f].cur = r.cur
           /\ [r EXCEPT !.proc = f].proc = f
<1> DEFINE s == [r EXCEPT !.proc = f]
<1>1. /\ s \in RegRec /\ s.cur = r.cur /\ s.last = r.last /\ s.proc = f /\ s.att = r.att
  BY DEF RegRec
<1> HIDE DEF s
<1>2. Fades(r, s)
  BY <1>1 DEF Fades, Same
<1> USE DEF s
<1> QED BY <1>1, <1>2

-----------------------------------------------------------------------------
(* The locks: who is inside the gate and who has the session lock. *)

Serial ==
    /\ \A u \in Users : user[u].pc \in Inside => u \in gate.readers
    /\ \A u \in Users : user[u].pc \in Locked => lock = u
    /\ sw.pc \in {"placeProcess", "placeTarget"} => "switch" \in gate.readers
    /\ sweep.pc \in {"sweep", "detach"} => gate.writer
    /\ gate.writer => gate.readers = {}
    /\ sweep.pc \notin {"sweep", "detach"} => sweep.listed = {}
    /\ sw.by # NoOne => user[sw.by].pc = "await"

LEMMA GateSteps ==
    ASSUME gate \in GateRec, NEW t \in Tasks
    PROVE  /\ Queued(t) \in GateRec /\ Queued(t).readers = gate.readers
           /\ Queued(t).writer = gate.writer
           /\ Left(t) \in GateRec /\ Left(t).readers = gate.readers \ {t}
           /\ Left(t).writer = gate.writer
           /\ EnterShared(t) => /\ gate' \in GateRec /\ gate'.readers = gate.readers \cup {t}
                                /\ ~gate.writer /\ ~gate'.writer
           /\ EnterAlone(t) => /\ gate' \in GateRec /\ gate'.readers = {} /\ gate.readers = {}
                               /\ gate'.writer /\ ~gate.writer
<1>1. Queued(t) \in GateRec /\ Queued(t).readers = gate.readers /\ Queued(t).writer = gate.writer
  <2> DEFINE q == Append(gate.queue, t)
  <2>1. q \in Seq(Tasks)
    BY DEF GateRec
  <2>2. Queued(t) = [gate EXCEPT !.queue = q]
    BY DEF Queued
  <2> HIDE DEF q
  <2> QED BY <2>1, <2>2 DEF GateRec
<1>2. Left(t) \in GateRec /\ Left(t).readers = gate.readers \ {t} /\ Left(t).writer = gate.writer
  <2> DEFINE n == gate.readers \ {t}
  <2>1. n \in SUBSET Tasks
    BY DEF GateRec
  <2>2. Left(t) = [gate EXCEPT !.readers = n]
    BY DEF Left, GateRec
  <2>3. n = gate.readers \ {t}
    OBVIOUS
  <2> HIDE DEF n
  <2>4. [gate EXCEPT !.readers = n] \in GateRec /\ [gate EXCEPT !.readers = n].readers = n
    BY <2>1 DEF GateRec
  <2>5. [gate EXCEPT !.readers = n].writer = gate.writer
    BY DEF GateRec
  <2> QED BY <2>2, <2>3, <2>4, <2>5
<1> DEFINE q == Tail(gate.queue)
<1>3. gate.queue # <<>> => q \in Seq(Tasks)
  BY DEF GateRec
<1>4. EnterShared(t) => /\ gate' \in GateRec /\ gate'.readers = gate.readers \cup {t}
                        /\ ~gate.writer /\ ~gate'.writer
  <2> SUFFICES ASSUME EnterShared(t)
               PROVE  /\ gate' \in GateRec /\ gate'.readers = gate.readers \cup {t}
                      /\ ~gate.writer /\ ~gate'.writer
    OBVIOUS
  <2> DEFINE n == gate.readers \cup {t}
  <2>1. n \in SUBSET Tasks /\ q \in Seq(Tasks) /\ n = gate.readers \cup {t} /\ ~gate.writer
    BY <1>3 DEF GateRec, EnterShared
  <2>2. gate' = [gate EXCEPT !.queue = q, !.readers = n]
    BY DEF EnterShared, GateRec
  <2> HIDE DEF n, q
  <2>3. gate' \in GateRec /\ gate'.readers = n /\ gate'.writer = gate.writer
    BY <2>1, <2>2 DEF GateRec
  <2> QED BY <2>1, <2>3
<1>5. EnterAlone(t) => /\ gate' \in GateRec /\ gate'.readers = {} /\ gate.readers = {}
                       /\ gate'.writer /\ ~gate.writer
  <2> SUFFICES ASSUME EnterAlone(t)
               PROVE  /\ gate' \in GateRec /\ gate'.readers = {} /\ gate.readers = {}
                      /\ gate'.writer /\ ~gate.writer
    OBVIOUS
  <2>1. q \in Seq(Tasks) /\ ~gate.writer /\ gate.readers = {}
    BY <1>3 DEF EnterAlone
  <2>2. gate' = [gate EXCEPT !.queue = q, !.writer = TRUE]
    BY DEF EnterAlone, GateRec
  <2> HIDE DEF q
  <2>3. gate' \in GateRec /\ gate'.readers = gate.readers /\ gate'.writer = TRUE
    BY <2>1, <2>2 DEF GateRec
  <2> QED BY <2>1, <2>3
<1> HIDE DEF q
<1> QED BY <1>1, <1>2, <1>4, <1>5

-----------------------------------------------------------------------------
(* Bindings: the target of a switch is new, and the task that rebuilds a     *)
(* binding has removed what was left of it.                                  *)

Known == used.switches + 1

Bounded ==
    /\ db.cur <= Known /\ sw.b <= Known
    /\ \A u \in Users : user[u].b <= Known
    /\ \A b \in Bindings : reg.att[b].st # "none" => b <= Known
    /\ \A b \in sweep.listed : b <= Known

\* A switch that has not committed is alone with its target.
TargetIsNew ==
    sw.pc \in PreCommit =>
        /\ sw.b # db.cur /\ sw.src = db.cur /\ sw.b \notin sweep.listed
        /\ \A u \in Users : user[u].b # sw.b
        /\ reg.att[sw.b].st \notin {"Committed", "Inactive"}
        /\ reg.att[sw.b].st # "none" => reg.att[sw.b].p = sw.p
        /\ sw.pc \in PreCreate => reg.att[sw.b].st = "none"

TargetIsCurrent == sw.pc \in PostCommit => sw.b = db.cur

\* A rebuilt binding has no attachment before it is opened again, on a process that is
\* nobody else's.
Rebuilding ==
    \A u \in Users :
        /\ user[u].pc \in {"revision", "spawn", "open"} => reg.att[user[u].b].st = "none"
        /\ user[u].pc = "open" =>
             /\ user[u].p # NoProcess /\ user[u].p # sw.p
             /\ \A b \in Bindings : reg.att[b].p # user[u].p

Shape == RegShape(reg) /\ Bounded /\ TargetIsNew /\ TargetIsCurrent /\ Rebuilding

BaseInv == TypeInv /\ Serial /\ Shape

-----------------------------------------------------------------------------
(* What the steps write to the records of the tasks. *)

Others(u) == \A v \in Users : v # u => user'[v] = user[v]

\* The record of u keeps all but the place where it is.
Carries(u) ==
    /\ user'[u].b = user[u].b /\ user'[u].gen = user[u].gen
    /\ user'[u].p = user[u].p /\ user'[u].shut = user[u].shut

Rests(u) == user'[u].b = NoBinding /\ user'[u].p = NoProcess

LEMMA RestingType ==
    /\ Resting \in UserRec
    /\ Resting.pc = "idle" /\ Resting.b = NoBinding /\ Resting.p = NoProcess
  BY DEF Resting, UserRec, UserPcs, SomeBinding, SomeProcess

LEMMA UserStep ==
    ASSUME UserOK, NEW u \in Users, NEW d \in UserRec, NamesBinding(d),
           user' = [user EXCEPT ![u] = d]
    PROVE  UserOK' /\ Others(u) /\ user'[u] = d
<1>1. user' \in [Users -> UserRec] /\ user'[u] = d
  BY DEF UserOK
<1>2. \A v \in Users : v # u => user'[v] = user[v]
  BY DEF UserOK
<1>3. \A v \in Users : NamesBinding(user'[v])
  BY <1>1, <1>2 DEF UserOK
<1> QED BY <1>1, <1>2, <1>3 DEF UserOK, Others

LEMMA GotoStep ==
    ASSUME UserOK, NEW u \in Users, NEW pc \in UserPcs,
           pc \in Bound => user[u].b \in Bindings, Goto(u, pc)
    PROVE  UserOK' /\ Others(u) /\ user'[u].pc = pc /\ Carries(u)
<1> DEFINE d == [user[u] EXCEPT !.pc = pc]
<1>1. user[u] \in UserRec
  BY DEF UserOK
<1>2. /\ d \in UserRec /\ d.pc = pc /\ d.b = user[u].b /\ d.gen = user[u].gen
      /\ d.p = user[u].p /\ d.shut = user[u].shut
  BY <1>1 DEF UserRec
<1>3. user' = [user EXCEPT ![u] = d]
  BY DEF Goto, UserOK
<1> HIDE DEF d
<1>4. NamesBinding(d)
  BY <1>2 DEF NamesBinding
<1>5. UserOK' /\ Others(u) /\ user'[u] = d
  BY <1>2, <1>3, <1>4, UserStep
<1> QED BY <1>2, <1>5 DEF Carries

LEMMA RestStep ==
    ASSUME UserOK, NEW u \in Users, user' = [user EXCEPT ![u] = Resting]
    PROVE  UserOK' /\ Others(u) /\ user'[u].pc = "idle" /\ Rests(u)
<1>1. Resting \in UserRec /\ NamesBinding(Resting)
  BY RestingType DEF NamesBinding, Bound, Locked, Inside
<1>2. UserOK' /\ Others(u) /\ user'[u] = Resting
  BY <1>1, UserStep
<1> QED BY <1>2, RestingType DEF Rests

LEMMA RestAtStep ==
    ASSUME UserOK, NEW u \in Users, NEW pc \in UserPcs \ Bound,
           user' = [user EXCEPT ![u] = [Resting EXCEPT !.pc = pc]]
    PROVE  UserOK' /\ Others(u) /\ user'[u].pc = pc /\ Rests(u)
<1> DEFINE d == [Resting EXCEPT !.pc = pc]
<1>1. d \in UserRec /\ d.pc = pc /\ d.b = NoBinding /\ d.p = NoProcess
  BY RestingType DEF UserRec
<1> HIDE DEF d
<1>2. NamesBinding(d)
  BY <1>1 DEF NamesBinding
<1>3. user' = [user EXCEPT ![u] = d]
  BY DEF d
<1>4. UserOK' /\ Others(u) /\ user'[u] = d
  BY <1>1, <1>2, <1>3, UserStep
<1> QED BY <1>1, <1>4 DEF Rests

LEMMA RetryStep ==
    ASSUME UserOK, NEW u \in Users,
           user' = [user EXCEPT ![u] = [Resting EXCEPT !.pc = "gate", !.retried = TRUE]]
    PROVE  UserOK' /\ Others(u) /\ user'[u].pc = "gate" /\ Rests(u)
<1> DEFINE d == [Resting EXCEPT !.pc = "gate", !.retried = TRUE]
<1>1. d \in UserRec /\ d.pc = "gate" /\ d.b = NoBinding /\ d.p = NoProcess
  BY RestingType DEF UserRec, UserPcs
<1> HIDE DEF d
<1>2. NamesBinding(d)
  BY <1>1 DEF NamesBinding, Bound, Locked, Inside
<1>3. user' = [user EXCEPT ![u] = d]
  BY DEF d
<1>4. UserOK' /\ Others(u) /\ user'[u] = d
  BY <1>1, <1>2, <1>3, UserStep
<1> QED BY <1>1, <1>4 DEF Rests

\* A call fails or returns: its share of the gate and the session lock are given back.
LEMMA UnlockStep ==
    ASSUME LocksOK, NEW u \in Users, Unlocked(u)
    PROVE  /\ gate' \in GateRec /\ gate'.readers = gate.readers \ {u}
           /\ gate'.writer = gate.writer
           /\ lock' \in Users \cup {NoOne} /\ (\A v \in Users : v # u /\ lock = v => lock' = v)
<1>1. u \in Tasks
  BY DEF Tasks
<1>2. gate' \in GateRec /\ gate'.readers = gate.readers \ {u} /\ gate'.writer = gate.writer
  BY <1>1, GateSteps DEF LocksOK, Unlocked
<1> QED BY <1>2 DEF Unlocked, LocksOK

LEMMA FailStep ==
    ASSUME UserOK, LocksOK, NEW u \in Users, Fails(u)
    PROVE  /\ UserOK' /\ Others(u) /\ user'[u].pc = "idle" /\ Rests(u)
           /\ gate' \in GateRec /\ gate'.readers = gate.readers \ {u}
           /\ gate'.writer = gate.writer
           /\ lock' \in Users \cup {NoOne} /\ (\A v \in Users : v # u /\ lock = v => lock' = v)
<1>1. Unlocked(u) /\ user' = [user EXCEPT ![u] = Resting]
  BY DEF Fails
<1> QED BY <1>1, RestStep, UnlockStep

\* The record of the switch keeps all but the place where it is.
SwitchCarries ==
    /\ sw'.b = sw.b /\ sw'.src = sw.src /\ sw'.p = sw.p /\ sw'.gen = sw.gen
    /\ sw'.shut = sw.shut /\ sw'.by = sw.by

LEMMA GotoSwitchStep ==
    ASSUME SwitchOK, sw.pc # "idle", NEW pc \in SwitchPcs, GotoSwitch(pc)
    PROVE  SwitchOK' /\ sw'.pc = pc /\ SwitchCarries
<1>1. sw' = [sw EXCEPT !.pc = pc]
  BY DEF GotoSwitch
<1>2. sw' \in SwitchRec /\ sw'.pc = pc /\ SwitchCarries
  BY <1>1 DEF SwitchOK, SwitchRec, SwitchCarries
<1> QED BY <1>2 DEF SwitchOK, SwitchCarries

LEMMA TouchedStep ==
    ASSUME SweepOK, NEW b, sweep' = Touched(b)
    PROVE  /\ SweepOK' /\ sweep'.pc = sweep.pc /\ sweep'.b = sweep.b
           /\ sweep'.listed \subseteq sweep.listed
<1> DEFINE n == sweep.listed \ {b}
<1>1. n \subseteq sweep.listed /\ n \in SUBSET Bindings
  BY DEF SweepOK, SweepRec
<1>2. sweep' = [sweep EXCEPT !.listed = n]
  BY DEF Touched, SweepOK, SweepRec
<1> HIDE DEF n
<1>3. sweep' \in SweepRec /\ sweep'.pc = sweep.pc /\ sweep'.b = sweep.b /\ sweep'.listed = n
  BY <1>1, <1>2 DEF SweepOK, SweepRec
<1> QED BY <1>1, <1>3 DEF SweepOK

LEMMA UserPlaces ==
    /\ \A pc \in {"idle", "gate", "lock", "read", "refresh", "await", "admit"} :
          pc \in UserPcs \ Bound
    /\ \A pc \in {"existing", "revision", "spawn", "open", "advance", "promptGate",
                  "activate", "touch", "lease", "send", "prompt", "begin", "turn"} :
          pc \in UserPcs /\ pc \in Bound
    /\ \A pc \in {"idle", "gate", "refresh", "await", "admit", "send", "prompt", "begin",
                  "turn"} : pc \notin Inside /\ pc \notin Locked
    /\ \A pc \in {"read", "existing", "revision", "spawn", "open", "advance",
                  "promptGate", "activate", "touch", "lease"} : pc \in Inside /\ pc \in Locked
    /\ "lock" \in Inside /\ "lock" \notin Locked
  BY DEF UserPcs, Bound, Locked, Inside

\* A task at one of these places has a binding.
LEMMA UserNames ==
    ASSUME UserOK, NEW u \in Users
    PROVE  /\ user[u] \in UserRec
           /\ user[u].pc \in Bound => user[u].b \in Bindings
           /\ user[u].gen \in Nat /\ user[u].p \in SomeProcess /\ user[u].shut \in BOOLEAN
           /\ user[u].b \in SomeBinding
  BY DEF UserOK, UserRec, NamesBinding

LEMMA AttNames ==
    ASSUME NEW r \in RegRec, NEW b \in Bindings
    PROVE  /\ r.att[b] \in Attachments /\ r.att[b].p \in SomeProcess /\ r.att[b].gen \in Nat
           /\ r.att[b].closed \in BOOLEAN /\ r.att[b].turn \in BOOLEAN
  BY DEF RegRec, Attachments, SomeProcess

LEMMA DoesRequest ==
    ASSUME TypeInv, NEW u \in Users, RequestRuntime(u)
    PROVE  /\ TypeInv' /\ Others(u) /\ user'[u].pc = "gate" /\ Carries(u)
           /\ gate'.readers = gate.readers /\ gate'.writer = gate.writer
           /\ used'.switches = used.switches
<1>1. UserOK' /\ Others(u) /\ user'[u].pc = "gate" /\ Carries(u)
  BY UserPlaces, GotoStep DEF TypeInv, RequestRuntime
<1>2. gate' \in GateRec /\ gate'.readers = gate.readers /\ gate'.writer = gate.writer
  BY GateSteps DEF TypeInv, LocksOK, RequestRuntime, Tasks
<1>3. RestOK' /\ used'.switches = used.switches
  <2>1. \A n \in Nat : [used EXCEPT !.attaches = n].switches = used.switches
                    /\ [used EXCEPT !.turns = n].switches = used.switches
    BY DEF TypeInv, RestOK
  <2>2. used.attaches + 1 \in Nat /\ used.turns + 1 \in Nat
    BY DEF TypeInv, RestOK
  <2> QED BY <2>1, <2>2 DEF TypeInv, RestOK, RequestRuntime
<1> QED BY <1>1, <1>2, <1>3 DEF TypeInv, StoreOK, LocksOK, SwitchOK, SweepOK, RequestRuntime

LEMMA DoesEnterGate ==
    ASSUME TypeInv, NEW u \in Users, EnterGate(u)
    PROVE  /\ TypeInv' /\ Others(u) /\ user'[u].pc = "lock" /\ Carries(u)
           /\ gate'.readers = gate.readers \cup {u} /\ ~gate.writer /\ ~gate'.writer
<1>1. UserOK' /\ Others(u) /\ user'[u].pc = "lock" /\ Carries(u)
  BY UserPlaces, GotoStep DEF TypeInv, EnterGate
<1>2. /\ gate' \in GateRec /\ gate'.readers = gate.readers \cup {u}
      /\ ~gate.writer /\ ~gate'.writer
  BY GateSteps DEF TypeInv, LocksOK, EnterGate, Tasks
<1> QED BY <1>1, <1>2 DEF TypeInv, StoreOK, LocksOK, SwitchOK, SweepOK, RestOK, EnterGate

LEMMA DoesLook ==
    ASSUME TypeInv, NEW u \in Users, Look(u)
    PROVE  /\ TypeInv' /\ Others(u) /\ lock' = u /\ lock = NoOne
           /\ sweep'.pc = sweep.pc /\ sweep'.listed \subseteq sweep.listed
           /\ sweep'.b = sweep.b
           /\ \/ user'[u].pc = "read" /\ Carries(u)
              \/ user'[u].pc = "touch" /\ user'[u].b = reg.cur /\ reg.cur \in Bindings
<1>1. SweepOK' /\ sweep'.pc = sweep.pc /\ sweep'.listed \subseteq sweep.listed /\ sweep'.b = sweep.b
  BY TouchedStep DEF TypeInv, Look
<1>2. reg \in RegRec /\ UserOK
  BY DEF TypeInv, StoreOK
<1>3. CASE reg.cur = NoBinding
  <2>1. user' = [user EXCEPT ![u].pc = "read"]
    BY <1>3 DEF Look
  <2>2. Goto(u, "read")
    BY <2>1 DEF Goto
  <2>3. UserOK' /\ Others(u) /\ user'[u].pc = "read" /\ Carries(u)
    BY <1>2, <2>2, UserPlaces, GotoStep
  <2> QED BY <1>1, <2>3 DEF TypeInv, StoreOK, LocksOK, SwitchOK, RestOK, Look
<1>4. CASE reg.cur # NoBinding
  <2> DEFINE b == reg.cur
             p == reg.att[b].p
             d == [Resting EXCEPT !.pc = "touch", !.b = b, !.p = p]
  <2>1. b \in Bindings /\ p \in SomeProcess
    BY <1>2, <1>4, AttNames DEF RegRec, SomeBinding
  <2>2. user' = [user EXCEPT ![u] = d]
    BY <1>4 DEF Look
  <2> HIDE DEF p
  <2>3. d \in UserRec /\ d.pc = "touch" /\ d.b = b
    BY <2>1, RestingType, UserPlaces DEF UserRec, SomeBinding
  <2> HIDE DEF d
  <2>4. NamesBinding(d)
    BY <2>1, <2>3 DEF NamesBinding
  <2>5. UserOK' /\ Others(u) /\ user'[u] = d
    BY <1>2, <2>2, <2>3, <2>4, UserStep
  <2> QED BY <1>1, <2>1, <2>3, <2>5 DEF TypeInv, StoreOK, LocksOK, SwitchOK, RestOK, Look
<1> QED BY <1>3, <1>4

LEMMA DoesReadDurable ==
    ASSUME TypeInv, NEW u \in Users, ReadDurable(u)
    PROVE  /\ TypeInv' /\ Others(u) /\ user'[u].pc = "existing"
           /\ user'[u].b = db.cur /\ user'[u].gen = db.gen /\ user'[u].p = user[u].p
<1> DEFINE d == [user[u] EXCEPT !.pc = "existing", !.b = db.cur, !.gen = db.gen]
<1>1. UserOK /\ user[u] \in UserRec /\ db.cur \in Bindings /\ db.gen \in Nat
  BY UserNames DEF TypeInv, StoreOK, DbRec
<1>2. /\ d \in UserRec /\ d.pc = "existing" /\ d.b = db.cur /\ d.gen = db.gen
      /\ d.p = user[u].p
  BY <1>1, UserPlaces DEF UserRec, SomeBinding
<1>3. user' = [user EXCEPT ![u] = d]
  BY <1>1 DEF ReadDurable, UserOK
<1> HIDE DEF d
<1>4. NamesBinding(d)
  BY <1>1, <1>2 DEF NamesBinding
<1>5. UserOK' /\ Others(u) /\ user'[u] = d
  BY <1>1, <1>2, <1>3, <1>4, UserStep
<1> QED BY <1>2, <1>5 DEF TypeInv, StoreOK, LocksOK, SwitchOK, SweepOK, RestOK, ReadDurable

\* u gives its share of the gate and the lock back and its call is over.
Leaves(u) ==
    /\ user'[u].pc = "idle" /\ Rests(u)
    /\ gate'.readers = gate.readers \ {u} /\ gate'.writer = gate.writer
    /\ \A v \in Users : v # u /\ lock = v => lock' = v

LEMMA DoesTakeExisting ==
    ASSUME TypeInv, RegShape(reg), NEW u \in Users, TakeExisting(u)
    PROVE  /\ TypeInv' /\ Others(u) /\ Fades(reg, reg') /\ user[u].b \in Bindings
           /\ user'[u].b = user[u].b /\ user'[u].gen = user[u].gen
           /\ \/ /\ user'[u].pc = "promptGate" /\ reg' = reg
                 /\ user'[u].p = reg.att[user[u].b].p
                 /\ IsLive(reg.att[user[u].b]) /\ reg.att[user[u].b].gen = user[u].gen
              \/ /\ user'[u].pc = "revision" /\ user'[u].p = user[u].p
                 /\ reg'.att[user[u].b].st = "none" /\ reg'.att[user[u].b].p = NoProcess
<1> DEFINE b == user[u].b
           a == reg.att[b]
<1>1. UserOK /\ reg \in RegRec
  BY DEF TypeInv, StoreOK
<1>2. b \in Bindings /\ user[u] \in UserRec
  BY <1>1, UserNames, UserPlaces DEF TakeExisting, AtUser
<1>3. CASE IsLive(a) /\ a.gen = user[u].gen /\ Up(reg, a.p)
  <2> DEFINE p == a.p
             d == [user[u] EXCEPT !.pc = "promptGate", !.p = p]
  <2>1. p \in SomeProcess /\ reg' = reg
    BY <1>1, <1>2, <1>3, AttNames DEF TakeExisting
  <2>2. user' = [user EXCEPT ![u] = d]
    BY <1>1, <1>3 DEF TakeExisting, UserOK
  <2>3. p = reg.att[user[u].b].p
    OBVIOUS
  <2> HIDE DEF p
  <2>4. /\ d \in UserRec /\ d.pc = "promptGate" /\ d.b = user[u].b /\ d.gen = user[u].gen
        /\ d.p = p
    BY <1>2, <2>1, UserPlaces DEF UserRec
  <2> HIDE DEF d
  <2>5. NamesBinding(d)
    BY <1>2, <2>4 DEF NamesBinding
  <2>6. UserOK' /\ Others(u) /\ user'[u] = d
    BY <1>1, <2>2, <2>4, <2>5, UserStep
  <2> QED BY <1>1, <1>2, <1>3, <2>1, <2>3, <2>4, <2>6, FadesStays
          DEF TypeInv, StoreOK, LocksOK, SwitchOK, SweepOK, RestOK, TakeExisting
<1>4. CASE ~ (IsLive(a) /\ a.gen = user[u].gen /\ Up(reg, a.p))
  <2>1. reg' = Detached(reg, b) /\ Goto(u, "revision")
    BY <1>4 DEF TakeExisting
  <2>2. UserOK' /\ Others(u) /\ user'[u].pc = "revision" /\ Carries(u)
    BY <1>1, <1>2, <2>1, GotoStep, UserPlaces
  <2>3. Fades(reg, reg') /\ reg'.att[b].st = "none" /\ reg'.att[b].p = NoProcess
    BY <1>1, <1>2, <2>1, FadesDetached
  <2> QED BY <1>2, <2>2, <2>3 DEF TypeInv, StoreOK, LocksOK, SwitchOK, SweepOK, RestOK,
             TakeExisting, Carries, Fades
<1> QED BY <1>3, <1>4

LEMMA DoesCheckRevision ==
    ASSUME TypeInv, NEW u \in Users, CheckRevision(u)
    PROVE  /\ TypeInv' /\ Others(u)
           /\ \/ user'[u].pc = "spawn" /\ Carries(u) /\ UNCHANGED <<gate, lock>>
              \/ /\ user'[u].pc \in {"idle", "refresh"} /\ Rests(u)
                 /\ gate'.readers = gate.readers \ {u} /\ gate'.writer = gate.writer
                 /\ \A v \in Users : v # u /\ lock = v => lock' = v
<1>1. UserOK /\ LocksOK
  BY DEF TypeInv
<1>2. user[u].b \in Bindings
  BY <1>1, UserNames, UserPlaces DEF CheckRevision, AtUser
<1>3. CASE IsStale(user[u].b)
  <2> DEFINE pc == IF user[u].retried THEN "idle" ELSE "refresh"
  <2>1. pc \in {"idle", "refresh"} /\ pc \in UserPcs \ Bound
    BY UserPlaces
  <2>2. Unlocked(u) /\ user' = [user EXCEPT ![u] = [Resting EXCEPT !.pc = pc]]
    BY <1>3 DEF CheckRevision
  <2> HIDE DEF pc
  <2>3. UserOK' /\ Others(u) /\ user'[u].pc = pc /\ Rests(u)
    BY <1>1, <2>1, <2>2, RestAtStep
  <2>4. /\ gate' \in GateRec /\ gate'.readers = gate.readers \ {u}
        /\ gate'.writer = gate.writer
        /\ lock' \in Users \cup {NoOne} /\ (\A v \in Users : v # u /\ lock = v => lock' = v)
    BY <1>1, <2>2, UnlockStep
  <2> QED BY <2>1, <2>3, <2>4 DEF TypeInv, StoreOK, LocksOK, SwitchOK, SweepOK, RestOK,
             CheckRevision
<1>4. CASE ~IsStale(user[u].b)
  <2>1. Goto(u, "spawn") /\ UNCHANGED <<gate, lock>>
    BY <1>4 DEF CheckRevision
  <2>2. UserOK' /\ Others(u) /\ user'[u].pc = "spawn" /\ Carries(u)
    BY <1>1, <1>2, <2>1, GotoStep, UserPlaces
  <2> QED BY <2>1, <2>2 DEF TypeInv, StoreOK, LocksOK, SwitchOK, SweepOK, RestOK, CheckRevision
<1> QED BY <1>3, <1>4

LEMMA DoesSpawn ==
    ASSUME TypeInv, NEW u \in Users, Spawn(u)
    PROVE  /\ TypeInv' /\ Others(u)
           /\ \/ /\ user'[u].pc = "open" /\ user'[u].b = user[u].b /\ user'[u].gen = user[u].gen
                 /\ user'[u].p \in Processes /\ Unused(user'[u].p)
                 /\ reg' = Spawned(reg, user'[u].p) /\ UNCHANGED <<gate, lock>>
              \/ reg' = reg /\ Leaves(u)
<1>1. UserOK /\ LocksOK /\ reg \in RegRec
  BY DEF TypeInv, StoreOK
<1>2. user[u].b \in Bindings /\ user[u] \in UserRec
  BY <1>1, UserNames, UserPlaces DEF Spawn, AtUser
<1>3. CASE Fails(u) /\ UNCHANGED reg
  <2>1. /\ UserOK' /\ Others(u) /\ user'[u].pc = "idle" /\ Rests(u)
        /\ gate' \in GateRec /\ gate'.readers = gate.readers \ {u}
        /\ gate'.writer = gate.writer
        /\ lock' \in Users \cup {NoOne} /\ (\A v \in Users : v # u /\ lock = v => lock' = v)
    BY <1>1, <1>3, FailStep
  <2> QED BY <1>3, <2>1 DEF TypeInv, StoreOK, LocksOK, SwitchOK, SweepOK, RestOK, Spawn, Leaves
<1>4. CASE \E p \in Processes :
             /\ Unused(p) /\ \A q \in Processes : Unused(q) => p <= q
             /\ reg' = Spawned(reg, p)
             /\ user' = [user EXCEPT ![u].pc = "open", ![u].p = p]
             /\ UNCHANGED <<gate, lock>>
  <2>1. PICK p \in Processes :
             /\ Unused(p) /\ reg' = Spawned(reg, p)
             /\ user' = [user EXCEPT ![u].pc = "open", ![u].p = p]
             /\ UNCHANGED <<gate, lock>>
    BY <1>4
  <2> DEFINE d == [user[u] EXCEPT !.pc = "open", !.p = p]
  <2>2. user' = [user EXCEPT ![u] = d]
    BY <1>1, <2>1 DEF UserOK
  <2>3. /\ d \in UserRec /\ d.pc = "open" /\ d.b = user[u].b /\ d.gen = user[u].gen /\ d.p = p
    BY <1>2, UserPlaces DEF UserRec, SomeProcess
  <2> HIDE DEF d
  <2>4. NamesBinding(d)
    BY <1>2, <2>3 DEF NamesBinding
  <2>5. UserOK' /\ Others(u) /\ user'[u] = d
    BY <1>1, <2>2, <2>3, <2>4, UserStep
  <2>6. reg' \in RegRec
    BY <1>1, <2>1, RegSpawned
  <2> QED BY <2>1, <2>3, <2>5, <2>6 DEF TypeInv, StoreOK, LocksOK, SwitchOK, SweepOK, RestOK, Spawn
<1> QED BY <1>3, <1>4 DEF Spawn

LEMMA DoesOpenSession ==
    ASSUME TypeInv, NEW u \in Users, OpenSession(u)
    PROVE  /\ TypeInv' /\ Others(u) /\ user[u].b \in Bindings
           /\ \/ /\ reg' = Registered(reg, user[u].b, user[u].gen + 1, user[u].p)
                 /\ user'[u].pc = "advance" /\ Carries(u) /\ UNCHANGED <<gate, lock>>
                 /\ ~IsLive(reg.att[user[u].b]) /\ Up(reg, user[u].p)
              \/ /\ reg' = Released(Registered(reg, user[u].b, user[u].gen + 1, user[u].p),
                                    user[u].p)
                 /\ Leaves(u) /\ ~IsLive(reg.att[user[u].b]) /\ Up(reg, user[u].p)
              \/ reg' = Released(reg, user[u].p) /\ Leaves(u)
<1> DEFINE b == user[u].b
           p == user[u].p
           g == user[u].gen + 1
           r == Registered(reg, b, g, p)
<1>1. UserOK /\ LocksOK /\ reg \in RegRec
  BY DEF TypeInv, StoreOK
<1>2. b \in Bindings /\ user[u] \in UserRec /\ p \in SomeProcess /\ g \in Nat
  BY <1>1, UserNames, UserPlaces DEF OpenSession, AtUser
<1>3. r \in RegRec
  BY <1>1, <1>2, RegRegistered
<1>4. Released(r, p) \in RegRec /\ Released(reg, p) \in RegRec
  BY <1>1, <1>2, <1>3, RegReleased
<1> HIDE DEF g
<1>5. CASE reg' = r /\ Goto(u, "advance") /\ UNCHANGED <<gate, lock>>
           /\ Up(reg, p) /\ ~IsLive(reg.att[b])
  <2>1. UserOK' /\ Others(u) /\ user'[u].pc = "advance" /\ Carries(u)
    BY <1>1, <1>2, <1>5, GotoStep, UserPlaces
  <2> QED BY <1>2, <1>3, <1>5, <2>1 DEF TypeInv, StoreOK, LocksOK, SwitchOK, SweepOK, RestOK,
             OpenSession, g
<1>6. Fails(u) => /\ UserOK' /\ Others(u) /\ Leaves(u)
                  /\ gate' \in GateRec /\ lock' \in Users \cup {NoOne}
  BY <1>1, FailStep DEF Leaves
<1>7. CASE reg' = Released(r, p) /\ Fails(u) /\ Up(reg, p) /\ ~IsLive(reg.att[b])
  BY <1>2, <1>4, <1>6, <1>7 DEF TypeInv, StoreOK, LocksOK, SwitchOK, SweepOK, RestOK,
             OpenSession, g
<1>8. CASE reg' = Released(reg, p) /\ Fails(u)
  BY <1>2, <1>4, <1>6, <1>8 DEF TypeInv, StoreOK, LocksOK, SwitchOK, SweepOK, RestOK,
             OpenSession, g
<1> QED BY <1>5, <1>7, <1>8 DEF OpenSession, g

LEMMA DoesAdvance ==
    ASSUME TypeInv, RegShape(reg), NEW u \in Users, AdvanceGeneration(u)
    PROVE  /\ TypeInv' /\ Others(u) /\ user[u].b \in Bindings
           /\ db'.cur = db.cur /\ db'.running = db.running
           /\ \/ /\ db.cur = user[u].b /\ db.gen = user[u].gen /\ db'.gen = user[u].gen + 1
                 /\ db'.row = [db.row EXCEPT ![user[u].b] = user[u].gen + 1]
              \/ db' = db /\ ~(db.cur = user[u].b /\ db.gen = user[u].gen)
           /\ \/ /\ user'[u].pc = "promptGate" /\ Carries(u) /\ UNCHANGED <<reg, gate, lock>>
                 /\ db.cur = user[u].b /\ db.gen = user[u].gen
              \/ /\ Leaves(u) /\ Fades(reg, reg')
                 /\ reg' = IF reg.att[user[u].b].p = user[u].p THEN Detached(reg, user[u].b)
                           ELSE reg
<1> DEFINE b == user[u].b
           g == user[u].gen + 1
           s == IF reg.att[b].p = user[u].p THEN Detached(reg, b) ELSE reg
<1>1. UserOK /\ LocksOK /\ reg \in RegRec /\ db \in DbRec
  BY DEF TypeInv, StoreOK
<1>2. b \in Bindings /\ g \in Nat
  BY <1>1, UserNames, UserPlaces DEF AdvanceGeneration, AtUser
<1>3. Fades(reg, s) /\ s \in RegRec
  BY <1>1, <1>2, FadesDetached, FadesStays DEF Fades
<1>4. Fails(u) => /\ UserOK' /\ Others(u) /\ Leaves(u)
                  /\ gate' \in GateRec /\ lock' \in Users \cup {NoOne}
  BY <1>1, FailStep DEF Leaves
<1>5. /\ \/ reg' = s /\ Fails(u)
         \/ Goto(u, "promptGate") /\ UNCHANGED <<reg, gate, lock>> /\ GenerationAdvances(u)
      /\ \/ GenerationAdvances(u) /\ db' = [db EXCEPT !.gen = g, !.row[b] = g]
         \/ ~GenerationAdvances(u) /\ db' = db
  BY DEF AdvanceGeneration
<1>6. /\ StoreOK' = (reg' \in RegRec /\ db' \in DbRec /\ fenced' \in BOOLEAN)
      /\ fenced' \in BOOLEAN
  BY DEF StoreOK, TypeInv, AdvanceGeneration
<1>7. /\ db' \in DbRec /\ db'.cur = db.cur /\ db'.running = db.running
      /\ \/ /\ db.cur = user[u].b /\ db.gen = user[u].gen /\ db'.gen = g
            /\ db'.row = [db.row EXCEPT ![user[u].b] = g]
         \/ db' = db /\ ~(db.cur = user[u].b /\ db.gen = user[u].gen)
  <2>1. CASE GenerationAdvances(u) /\ db' = [db EXCEPT !.gen = g, !.row[b] = g]
    <3> DEFINE R == [db.row EXCEPT ![b] = g]
    <3>1. R \in [Bindings -> Nat] /\ R = [db.row EXCEPT ![b] = g]
      BY <1>1, <1>2 DEF DbRec
    <3>2. db' = [db EXCEPT !.gen = g, !.row = R]
      BY <2>1, <1>1 DEF DbRec
    <3> HIDE DEF R, g
    <3>3. /\ db' \in DbRec /\ db'.cur = db.cur /\ db'.running = db.running
          /\ db'.gen = g /\ db'.row = R
      BY <1>1, <1>2, <3>1, <3>2 DEF DbRec
    <3> QED BY <2>1, <3>1, <3>3 DEF GenerationAdvances
  <2>2. CASE ~GenerationAdvances(u) /\ db' = db
    BY <1>1, <2>2 DEF GenerationAdvances
  <2> QED BY <1>5, <2>1, <2>2
<1> HIDE DEF s
<1>8. CASE reg' = s /\ Fails(u)
  <2>1. TypeInv'
    BY <1>3, <1>4, <1>6, <1>7, <1>8 DEF TypeInv, LocksOK, SwitchOK, SweepOK, RestOK,
       AdvanceGeneration
  <2> QED BY <1>2, <1>3, <1>4, <1>7, <1>8, <2>1 DEF s
<1>9. CASE Goto(u, "promptGate") /\ UNCHANGED <<reg, gate, lock>> /\ GenerationAdvances(u)
  <2>1. UserOK' /\ Others(u) /\ user'[u].pc = "promptGate" /\ Carries(u)
    BY <1>1, <1>2, <1>9, GotoStep, UserPlaces
  <2>2. TypeInv'
    BY <1>1, <1>6, <1>7, <1>9, <2>1 DEF TypeInv, LocksOK, SwitchOK, SweepOK, RestOK,
       AdvanceGeneration
  <2> QED BY <1>2, <1>7, <1>9, <2>1, <2>2 DEF GenerationAdvances
<1> QED BY <1>5, <1>8, <1>9

LEMMA DoesReadPromptGate ==
    ASSUME TypeInv, NEW u \in Users, ReadPromptGate(u)
    PROVE  /\ TypeInv' /\ Others(u) /\ user'[u].pc = "activate" /\ user'[u].shut = fenced
           /\ user'[u].b = user[u].b /\ user'[u].gen = user[u].gen /\ user'[u].p = user[u].p
<1> DEFINE d == [user[u] EXCEPT !.pc = "activate", !.shut = fenced]
<1>1. UserOK /\ user[u] \in UserRec /\ fenced \in BOOLEAN
  BY UserNames DEF TypeInv, StoreOK
<1>2. user[u].b \in Bindings
  BY <1>1, UserNames, UserPlaces DEF ReadPromptGate, AtUser
<1>3. user' = [user EXCEPT ![u] = d]
  BY <1>1 DEF ReadPromptGate, UserOK
<1>4. /\ d \in UserRec /\ d.pc = "activate" /\ d.b = user[u].b /\ d.gen = user[u].gen
      /\ d.p = user[u].p /\ d.shut = fenced
  BY <1>1, UserPlaces DEF UserRec
<1> HIDE DEF d
<1>5. NamesBinding(d)
  BY <1>2, <1>4 DEF NamesBinding
<1>6. UserOK' /\ Others(u) /\ user'[u] = d
  BY <1>1, <1>3, <1>4, <1>5, UserStep
<1> QED BY <1>4, <1>6 DEF TypeInv, StoreOK, LocksOK, SwitchOK, SweepOK, RestOK, ReadPromptGate

LEMMA DoesActivate ==
    ASSUME TypeInv, RegShape(reg), NEW u \in Users, Activate(u)
    PROVE  /\ TypeInv' /\ Others(u) /\ user[u].b \in Bindings
           /\ sweep'.pc = sweep.pc /\ sweep'.listed \subseteq sweep.listed
           /\ sweep'.b = sweep.b
           /\ \/ /\ Activatable(reg, user[u].b, user[u].p)
                 /\ reg' = Activated(reg, user[u].b, user[u].shut)
                 /\ \/ /\ user'[u].pc = "touch" /\ user'[u].b = user[u].b
                       /\ UNCHANGED <<gate, lock>>
                    \/ Leaves(u)
              \/ /\ ~Activatable(reg, user[u].b, user[u].p) /\ Fades(reg, reg')
                 /\ Leaves(u)
<1> DEFINE b == user[u].b
           p == user[u].p
           s == IF reg.att[b].p = p /\ reg.att[b].gen > user[u].gen THEN Detached(reg, b) ELSE reg
<1>1. UserOK /\ LocksOK /\ reg \in RegRec
  BY DEF TypeInv, StoreOK
<1>2. b \in Bindings /\ p \in SomeProcess /\ user[u].shut \in BOOLEAN
  BY <1>1, UserNames, UserPlaces DEF Activate, AtUser
<1>3. Fails(u) => /\ UserOK' /\ Others(u) /\ Leaves(u)
                  /\ gate' \in GateRec /\ lock' \in Users \cup {NoOne}
  BY <1>1, FailStep DEF Leaves
<1>4. SweepOK' /\ sweep'.pc = sweep.pc /\ sweep'.listed \subseteq sweep.listed /\ sweep'.b = sweep.b
  BY TouchedStep DEF TypeInv, Activate
<1>5. Activated(reg, b, user[u].shut) \in RegRec
  BY <1>1, <1>2, RegActivated
<1>6. Fades(reg, s) /\ s \in RegRec
  BY <1>1, <1>2, FadesDetached, FadesStays DEF Fades
<1>7. CASE Activatable(reg, b, p)
  <2>1. reg' = Activated(reg, b, user[u].shut)
    BY <1>7 DEF Activate
  <2>2. CASE Fails(u)
    BY <1>2, <1>3, <1>4, <1>5, <1>7, <2>1, <2>2 DEF TypeInv, StoreOK, LocksOK, SwitchOK,
       RestOK, Activate
  <2>3. CASE /\ user' = [user EXCEPT ![u] = [Resting EXCEPT !.pc = "touch", !.b = b, !.p = p]]
             /\ UNCHANGED <<gate, lock>>
    <3> DEFINE d == [Resting EXCEPT !.pc = "touch", !.b = b, !.p = p]
    <3>1. d \in UserRec /\ d.pc = "touch" /\ d.b = b
      BY <1>2, RestingType, UserPlaces DEF UserRec, SomeBinding
    <3>2. user' = [user EXCEPT ![u] = d]
      BY <2>3
    <3> HIDE DEF d
    <3>3. NamesBinding(d)
      BY <1>2, <3>1 DEF NamesBinding
    <3>4. UserOK' /\ Others(u) /\ user'[u] = d
      BY <1>1, <3>1, <3>2, <3>3, UserStep
    <3> QED BY <1>2, <1>4, <1>5, <1>7, <2>1, <2>3, <3>1, <3>4 DEF TypeInv, StoreOK, LocksOK,
               SwitchOK, RestOK, Activate
  <2> QED BY <1>7, <2>2, <2>3 DEF Activate
<1>8. CASE ~Activatable(reg, b, p)
  <2>1. reg' = s /\ Fails(u)
    BY <1>8 DEF Activate
  <2> HIDE DEF s
  <2> QED BY <1>2, <1>3, <1>4, <1>6, <1>8, <2>1 DEF TypeInv, StoreOK, LocksOK, SwitchOK,
             RestOK, Activate
<1> QED BY <1>7, <1>8

LEMMA DoesTouch ==
    ASSUME TypeInv, NEW u \in Users, Touch(u)
    PROVE  /\ TypeInv' /\ Others(u)
           /\ sweep'.pc = sweep.pc /\ sweep'.listed \subseteq sweep.listed
           /\ sweep'.b = sweep.b
           /\ \/ user'[u].pc = "lease" /\ Carries(u) /\ UNCHANGED <<gate, lock>>
              \/ Leaves(u)
<1>1. UserOK /\ LocksOK /\ SweepOK
  BY DEF TypeInv
<1>2. user[u].b \in Bindings
  BY <1>1, UserNames, UserPlaces DEF Touch, AtUser
<1>3. SweepOK' /\ sweep'.pc = sweep.pc /\ sweep'.listed \subseteq sweep.listed /\ sweep'.b = sweep.b
  <2>1. sweep' = Touched(user[u].b) \/ sweep' = sweep
    BY DEF Touch
  <2>2. CASE sweep' = Touched(user[u].b)
    BY <1>1, <2>2, TouchedStep
  <2>3. CASE sweep' = sweep
    BY <1>1, <2>3 DEF SweepOK
  <2> QED BY <2>1, <2>2, <2>3
<1>4. CASE Goto(u, "lease") /\ UNCHANGED <<gate, lock>>
  <2>1. UserOK' /\ Others(u) /\ user'[u].pc = "lease" /\ Carries(u)
    BY <1>1, <1>2, <1>4, GotoStep, UserPlaces
  <2> QED BY <1>3, <1>4, <2>1 DEF TypeInv, StoreOK, LocksOK, SwitchOK, RestOK, Touch
<1>5. CASE Fails(u)
  <2>1. /\ UserOK' /\ Others(u) /\ Leaves(u)
        /\ gate' \in GateRec /\ lock' \in Users \cup {NoOne}
    BY <1>1, <1>5, FailStep DEF Leaves
  <2> QED BY <1>3, <1>5, <2>1 DEF TypeInv, StoreOK, LocksOK, SwitchOK, RestOK, Touch
<1> QED BY <1>4, <1>5 DEF Touch

LEMMA DoesTakeLease ==
    ASSUME TypeInv, NEW u \in Users, TakeLease(u)
    PROVE  /\ TypeInv' /\ Others(u) /\ user'[u].pc \in {"idle", "admit"} /\ Rests(u)
           /\ gate'.readers = gate.readers \ {u} /\ gate'.writer = gate.writer
           /\ \A v \in Users : v # u /\ lock = v => lock' = v
<1> DEFINE pc == IF u = "client" THEN "idle" ELSE "admit"
<1>1. UserOK /\ LocksOK /\ user[u].p \in SomeProcess
  BY UserNames DEF TypeInv
<1>2. pc \in {"idle", "admit"} /\ pc \in UserPcs \ Bound
  BY UserPlaces
<1>3. Unlocked(u) /\ user' = [user EXCEPT ![u] = [Resting EXCEPT !.pc = pc]]
  BY DEF TakeLease
<1> HIDE DEF pc
<1>4. UserOK' /\ Others(u) /\ user'[u].pc = pc /\ Rests(u)
  BY <1>1, <1>2, <1>3, RestAtStep
<1>5. /\ gate' \in GateRec /\ gate'.readers = gate.readers \ {u}
      /\ gate'.writer = gate.writer
      /\ lock' \in Users \cup {NoOne} /\ (\A v \in Users : v # u /\ lock = v => lock' = v)
  BY <1>1, <1>3, UnlockStep
<1>6. lease' \in LeaseRec
  BY <1>1 DEF TakeLease, LocksOK, LeaseRec, LeaseHolders
<1> QED BY <1>2, <1>4, <1>5, <1>6 DEF TypeInv, StoreOK, LocksOK, SwitchOK, SweepOK, RestOK,
           TakeLease

LEMMA DoesDetachClient ==
    ASSUME TypeInv, DetachClient
    PROVE  TypeInv' /\ (\A h \in LeaseHolders : lease'[h] \in {lease[h], NoProcess})
<1>1. lease' \in LeaseRec /\ (\A h \in LeaseHolders : lease'[h] \in {lease[h], NoProcess})
  BY DEF TypeInv, LocksOK, LeaseRec, LeaseHolders, SomeProcess, DetachClient
<1> QED BY <1>1 DEF TypeInv, StoreOK, LocksOK, UserOK, SwitchOK, SweepOK, RestOK, DetachClient

-----------------------------------------------------------------------------
(* The same for the steps of the switch. *)

LEMMA SwitchPlaces ==
    /\ \A pc \in PreCommit : pc \in SwitchPcs /\ pc # "idle" /\ pc \notin PostCommit
    /\ \A pc \in PostCommit : pc \in SwitchPcs /\ pc # "idle" /\ pc \notin PreCommit
    /\ PreCreate \subseteq PreCommit /\ "idle" \in SwitchPcs
  BY DEF SwitchPcs, PreCommit, PostCommit, PreCreate

LEMMA SwitchNames ==
    ASSUME SwitchOK, sw.pc # "idle"
    PROVE  /\ sw.b \in Bindings /\ sw.src \in Bindings /\ sw.p \in SomeProcess
           /\ sw.gen \in Nat /\ sw.shut \in BOOLEAN /\ sw.by \in Users \cup {NoOne}
  BY DEF SwitchOK, SwitchRec

LEMMA NoSwitchType ==
    /\ NoSwitchRuns \in SwitchRec /\ NoSwitchRuns.pc = "idle" /\ NoSwitchRuns.b = NoBinding
    /\ NoSwitchRuns.p = NoProcess /\ NoSwitchRuns.by = NoOne
  BY DEF NoSwitchRuns, SwitchRec, SwitchPcs, SomeBinding, SomeProcess

LEMMA DoesBegin ==
    ASSUME TypeInv, NEW by \in Users \cup {NoOne}, Begin(by)
    PROVE  /\ db' \in DbRec /\ SwitchOK' /\ used' \in [attaches : Nat, turns : Nat,
                                                  switches : 0 .. MaxSwitches, faults : Nat]
           /\ sw.pc = "idle" /\ sw'.pc = "probe" /\ sw'.src = db.cur /\ sw'.by = by
           /\ sw'.b = used.switches + 2 /\ sw'.p = NoProcess /\ sw'.gen = 0
           /\ used'.switches = used.switches + 1
           /\ db'.cur = db.cur /\ db'.gen = db.gen /\ db'.row = db.row
           /\ db'.running = db.running
<1> DEFINE n == used.switches + 2
           k == used.switches + 1
           R == [db.rev EXCEPT ![n] = auth.rev]
<1>1. /\ db \in DbRec /\ auth.rev \in Nat /\ used.switches \in 0 .. MaxSwitches
      /\ used.switches < MaxSwitches /\ SwitchOK /\ sw.pc = "idle" /\ db.cur \in Bindings
  BY DEF TypeInv, StoreOK, RestOK, Begin, SwitchRuns, DbRec
<1>2. n \in Bindings /\ k \in 0 .. MaxSwitches
  BY <1>1, Numbers
<1>3. R \in [Bindings -> Nat]
  BY <1>1, <1>2 DEF DbRec
<1>4. db' = [db EXCEPT !.pending = TRUE, !.rev = R]
  BY <1>1 DEF Begin, DbRec
<1>5. used' = [used EXCEPT !.switches = k]
  BY DEF Begin, TypeInv, RestOK
<1>6. sw' = [NoSwitchRuns EXCEPT !.pc = "probe", !.src = db.cur, !.b = n, !.by = by]
  BY DEF Begin
<1> HIDE DEF n, k, R
<1>7. /\ db' \in DbRec /\ db'.cur = db.cur /\ db'.gen = db.gen /\ db'.row = db.row
      /\ db'.running = db.running
  BY <1>1, <1>3, <1>4 DEF DbRec
<1>8. /\ used' \in [attaches : Nat, turns : Nat, switches : 0 .. MaxSwitches, faults : Nat]
      /\ used'.switches = k
  BY <1>2, <1>5 DEF TypeInv, RestOK
<1>9. "probe" \in SwitchPcs
  BY DEF SwitchPcs, PreCommit, PreCreate
<1>10. /\ sw' \in SwitchRec /\ sw'.pc = "probe" /\ sw'.src = db.cur /\ sw'.b = n /\ sw'.by = by
       /\ sw'.p = NoProcess /\ sw'.gen = 0
  BY <1>1, <1>2, <1>6, <1>9 DEF NoSwitchRuns, SwitchRec, SomeBinding, SomeProcess
<1> QED BY <1>1, <1>2, <1>7, <1>8, <1>10 DEF SwitchOK, n, k

\* A switch starts.
Starts(by) ==
    /\ sw.pc = "idle" /\ sw'.pc = "probe" /\ sw'.src = db.cur /\ sw'.by = by
    /\ sw'.b = used.switches + 2 /\ sw'.p = NoProcess /\ sw'.gen = 0
    /\ used'.switches = used.switches + 1
    /\ db'.cur = db.cur /\ db'.gen = db.gen /\ db'.row = db.row /\ db'.running = db.running

LEMMA DoesUserSwitch ==
    ASSUME TypeInv, UserSwitches
    PROVE  TypeInv' /\ Starts(NoOne)
  BY DoesBegin DEF UserSwitches, TypeInv, StoreOK, LocksOK, UserOK, SweepOK, RestOK, Starts

LEMMA DoesRefresh ==
    ASSUME TypeInv, NEW u \in Users, Refresh(u)
    PROVE  /\ TypeInv' /\ Others(u)
           /\ gate'.readers = gate.readers /\ gate'.writer = gate.writer
           /\ \/ user'[u].pc = "gate" /\ Carries(u) /\ UNCHANGED <<db, sw, used>>
              \/ user'[u].pc = "await" /\ Carries(u) /\ Starts(u)
              \/ user'[u].pc = "idle" /\ Rests(u) /\ UNCHANGED <<db, sw, used>>
<1>1. UserOK /\ LocksOK /\ user[u] \in UserRec
  BY UserNames DEF TypeInv
<1>2. CASE /\ user' = [user EXCEPT ![u].pc = "gate", ![u].retried = TRUE]
           /\ gate' = Queued(u) /\ UNCHANGED <<db, sw, used>>
  <2> DEFINE d == [user[u] EXCEPT !.pc = "gate", !.retried = TRUE]
  <2>1. user' = [user EXCEPT ![u] = d]
    BY <1>1, <1>2 DEF UserOK
  <2>2. /\ d \in UserRec /\ d.pc = "gate" /\ d.b = user[u].b /\ d.gen = user[u].gen
        /\ d.p = user[u].p /\ d.shut = user[u].shut
    BY <1>1, UserPlaces DEF UserRec
  <2> HIDE DEF d
  <2>3. NamesBinding(d)
    BY <2>2, UserPlaces DEF NamesBinding
  <2>4. UserOK' /\ Others(u) /\ user'[u] = d
    BY <1>1, <2>1, <2>2, <2>3, UserStep
  <2>5. gate' \in GateRec /\ gate'.readers = gate.readers /\ gate'.writer = gate.writer
    BY <1>1, <1>2, GateSteps DEF LocksOK, Tasks
  <2> QED BY <1>2, <2>2, <2>4, <2>5 DEF TypeInv, StoreOK, LocksOK, SwitchOK, SweepOK, RestOK,
             Refresh, Carries
<1>3. CASE Begin(u) /\ Goto(u, "await") /\ UNCHANGED gate
  <2>1. UserOK' /\ Others(u) /\ user'[u].pc = "await" /\ Carries(u)
    BY <1>1, <1>3, GotoStep, UserPlaces
  <2>2. /\ Starts(u) /\ db' \in DbRec /\ SwitchOK'
        /\ used' \in [attaches : Nat, turns : Nat, switches : 0 .. MaxSwitches, faults : Nat]
    BY <1>3, DoesBegin DEF Starts
  <2> QED BY <1>3, <2>1, <2>2 DEF TypeInv, StoreOK, LocksOK, SweepOK, RestOK, Refresh
<1>4. CASE user' = [user EXCEPT ![u] = Resting] /\ UNCHANGED <<db, gate, sw, used>>
  <2>1. UserOK' /\ Others(u) /\ user'[u].pc = "idle" /\ Rests(u)
    BY <1>1, <1>4, RestStep
  <2> QED BY <1>4, <2>1 DEF TypeInv, StoreOK, LocksOK, SwitchOK, SweepOK, RestOK, Refresh
<1> QED BY <1>2, <1>3, <1>4 DEF Refresh

\* The switch is over and whoever waited for it goes on.
LEMMA DoesEnd ==
    ASSUME TypeInv, sw.pc # "idle", NEW committed, Ended(committed)
    PROVE  /\ SwitchOK' /\ UserOK' /\ gate' \in GateRec
           /\ sw'.pc = "idle" /\ sw'.b = NoBinding /\ sw'.p = NoProcess /\ sw'.by = NoOne
           /\ gate'.readers = gate.readers /\ gate'.writer = gate.writer
           /\ \A u \in Users : u # sw.by => user'[u] = user[u]
           /\ sw.by # NoOne => user'[sw.by].pc \in {"idle", "gate"} /\ Rests(sw.by)
<1>1. UserOK /\ gate \in GateRec /\ SwitchOK /\ sw.by \in Users \cup {NoOne}
  BY SwitchNames DEF TypeInv, LocksOK
<1>2. /\ SwitchOK' /\ sw'.pc = "idle" /\ sw'.b = NoBinding /\ sw'.p = NoProcess
      /\ sw'.by = NoOne
  BY NoSwitchType DEF Ended, SwitchOK
<1>3. CASE sw.by = NoOne
  <2>1. user' = user /\ gate' = gate
    BY <1>3 DEF Ended
  <2>2. UserOK'
    BY <1>1, <2>1 DEF UserOK
  <2> QED BY <1>1, <1>2, <1>3, <2>1, <2>2
<1>4. CASE sw.by # NoOne /\ committed
  <2>1. sw.by \in Users /\ sw.by \in Tasks
    BY <1>1, <1>4 DEF Tasks
  <2>2. /\ user' = [user EXCEPT ![sw.by] = [Resting EXCEPT !.pc = "gate", !.retried = TRUE]]
        /\ gate' = Queued(sw.by)
    BY <1>4 DEF Ended
  <2>3. UserOK' /\ Others(sw.by) /\ user'[sw.by].pc = "gate" /\ Rests(sw.by)
    BY <1>1, <2>1, <2>2, RetryStep
  <2>4. gate' \in GateRec /\ gate'.readers = gate.readers /\ gate'.writer = gate.writer
    BY <1>1, <2>1, <2>2, GateSteps
  <2> QED BY <1>2, <2>3, <2>4 DEF Others
<1>5. CASE sw.by # NoOne /\ ~committed
  <2>1. sw.by \in Users
    BY <1>1, <1>5
  <2>2. user' = [user EXCEPT ![sw.by] = Resting] /\ gate' = gate
    BY <1>5 DEF Ended
  <2>3. UserOK' /\ Others(sw.by) /\ user'[sw.by].pc = "idle" /\ Rests(sw.by)
    BY <1>1, <2>1, <2>2, RestStep
  <2> QED BY <1>1, <1>2, <2>2, <2>3 DEF Others
<1> QED BY <1>3, <1>4, <1>5

\* set_session_prompt_gate: the current attachment that is left is on a live process and
\* has the new setting.
SetsGate(closed) ==
    /\ Fades(reg, reg') /\ fenced' = closed
    /\ reg'.proc = reg.proc
    /\ reg'.cur # NoBinding =>
         reg'.att[reg'.cur].closed = closed /\ Up(reg', reg'.att[reg'.cur].p)
    /\ slip' \in [gate : BOOLEAN, prompt : BOOLEAN, stranded : BOOLEAN]
    /\ slip'.stranded = slip.stranded
    /\ ~slip'.gate => \A u \in Users : user[u].pc = "activate" => user[u].shut = closed
    /\ ~slip'.prompt => ~(closed /\ user["dispatch"].pc = "begin")

LEMMA DoesSetGate ==
    ASSUME TypeInv, RegShape(reg), NEW closed \in BOOLEAN, SetPromptGate(closed)
    PROVE  SetsGate(closed)
<1> DEFINE r == Current(reg)
           b == r.cur
           a == [r.att[b] EXCEPT !.closed = closed]
<1>1. reg \in RegRec
  BY DEF TypeInv, StoreOK
<1>2. /\ Fades(reg, r) /\ r \in RegRec /\ r.proc = reg.proc
      /\ b # NoBinding => r = reg /\ Up(reg, reg.att[b].p)
  BY <1>1, FadesCurrent DEF Fades
<1>3. /\ Fades(reg, reg') /\ reg'.proc = reg.proc
      /\ reg'.cur # NoBinding =>
           reg'.att[reg'.cur].closed = closed /\ Up(reg', reg'.att[reg'.cur].p)
  <2>1. CASE b = NoBinding
    BY <1>2, <2>1 DEF SetPromptGate
  <2>2. CASE b # NoBinding
    <3>1. b \in Bindings /\ r = reg /\ Up(reg, reg.att[b].p)
      BY <1>1, <1>2, <2>2 DEF RegRec, SomeBinding
    <3>2. reg' = [r EXCEPT !.att[b] = a]
      BY <2>2 DEF SetPromptGate
    <3>3. r.att[b] \in Attachments
      BY <1>2, <3>1, AttNames
    <3>4. a \in Attachments /\ a.st = r.att[b].st /\ Same(a, r.att[b]) /\ a.closed = closed
      BY <3>3 DEF Attachments, Same
    <3> HIDE DEF a, r
    <3>5. /\ Fades(r, reg') /\ reg'.att[b] = a /\ reg'.cur = r.cur /\ reg'.proc = r.proc
      BY <1>2, <3>1, <3>2, <3>4, FadesFlags
    <3> QED BY <3>1, <3>4, <3>5 DEF Up, Same
  <2> QED BY <2>1, <2>2
<1>4. fenced' = closed
  BY DEF SetPromptGate
<1>5. /\ slip' \in [gate : BOOLEAN, prompt : BOOLEAN, stranded : BOOLEAN]
      /\ slip'.stranded = slip.stranded
      /\ ~slip'.gate => \A u \in Users : user[u].pc = "activate" => user[u].shut = closed
      /\ ~slip'.prompt => ~(closed /\ user["dispatch"].pc = "begin")
  <2> DEFINE x == \E u \in Users : user[u].pc = "activate" /\ user[u].shut # closed
             y == closed /\ user["dispatch"].pc = "begin"
  <2>1. x \in BOOLEAN /\ y \in BOOLEAN
    OBVIOUS
  <2>2. slip' = [slip EXCEPT !.gate = x, !.prompt = y]
    BY DEF SetPromptGate
  <2>3. ~x => \A u \in Users : user[u].pc = "activate" => user[u].shut = closed
    OBVIOUS
  <2>4. ~y => ~(closed /\ user["dispatch"].pc = "begin")
    OBVIOUS
  <2> HIDE DEF x, y
  <2>5. /\ slip' \in [gate : BOOLEAN, prompt : BOOLEAN, stranded : BOOLEAN]
        /\ slip'.stranded = slip.stranded /\ slip'.gate = x /\ slip'.prompt = y
    BY <2>1, <2>2 DEF TypeInv, RestOK
  <2> QED BY <2>3, <2>4, <2>5
<1> HIDE DEF r
<1> QED BY <1>3, <1>4, <1>5 DEF SetsGate

\* A step of the switch that changes nothing but its place (and the sweeper's list).
SwitchGoes(pc) ==
    /\ sw'.pc = pc /\ SwitchCarries
    /\ sweep'.pc = sweep.pc /\ sweep'.listed \subseteq sweep.listed /\ sweep'.b = sweep.b

LEMMA DoesWaitIdle ==
    ASSUME TypeInv, RegShape(reg), NEW pc \in PreCommit, NEW next \in PreCommit,
           WaitIdle(pc, next)
    PROVE  /\ TypeInv'
           /\ \/ SwitchGoes(pc) /\ SetsGate(TRUE)
              \/ SwitchGoes(next) /\ UNCHANGED <<reg, fenced, slip>> /\ ~Busy
<1>1. SwitchOK /\ SweepOK /\ sw.pc = pc /\ pc # "idle" /\ next \in SwitchPcs
  BY SwitchPlaces DEF TypeInv, WaitIdle, AtSwitch
<1>2. SweepOK' /\ sweep'.pc = sweep.pc /\ sweep'.listed \subseteq sweep.listed /\ sweep'.b = sweep.b
  BY <1>1, TouchedStep DEF WaitIdle
<1>3. CASE Busy
  <2>1. SetPromptGate(TRUE) /\ sw' = sw
    BY <1>3 DEF WaitIdle
  <2>2. SetsGate(TRUE)
    BY <2>1, DoesSetGate
  <2>3. SwitchOK' /\ SwitchGoes(pc)
    BY <1>1, <1>2, <2>1 DEF SwitchOK, SwitchGoes, SwitchCarries
  <2> QED BY <1>2, <2>2, <2>3 DEF TypeInv, StoreOK, LocksOK, UserOK, RestOK, WaitIdle,
             SetsGate, Fades
<1>4. CASE ~Busy
  <2>1. GotoSwitch(next) /\ UNCHANGED <<reg, fenced, slip>>
    BY <1>4 DEF WaitIdle
  <2>2. SwitchOK' /\ sw'.pc = next /\ SwitchCarries
    BY <1>1, <2>1, GotoSwitchStep
  <2> QED BY <1>2, <1>4, <2>1, <2>2 DEF TypeInv, StoreOK, LocksOK, UserOK, RestOK, WaitIdle,
             SwitchGoes
<1> QED BY <1>3, <1>4

LEMMA DoesClosePrompts ==
    ASSUME TypeInv, RegShape(reg), NEW pc \in PreCommit, NEW next \in PreCommit,
           ClosePrompts(pc, next)
    PROVE  TypeInv' /\ SwitchGoes(next) /\ SetsGate(TRUE)
<1>1. SwitchOK /\ SweepOK /\ sw.pc = pc /\ pc # "idle" /\ next \in SwitchPcs
  BY SwitchPlaces DEF TypeInv, ClosePrompts, AtSwitch
<1>2. SweepOK' /\ sweep'.pc = sweep.pc /\ sweep'.listed \subseteq sweep.listed /\ sweep'.b = sweep.b
  BY <1>1, TouchedStep DEF ClosePrompts
<1>3. SetsGate(TRUE)
  BY DoesSetGate DEF ClosePrompts
<1>4. SwitchOK' /\ sw'.pc = next /\ SwitchCarries
  BY <1>1, GotoSwitchStep DEF ClosePrompts
<1> QED BY <1>2, <1>3, <1>4 DEF TypeInv, StoreOK, LocksOK, UserOK, RestOK, ClosePrompts,
             SwitchGoes, SetsGate, Fades

LEMMA DoesReprobe ==
    ASSUME TypeInv, Reprobe
    PROVE  TypeInv' /\ \E pc \in {"fail", "closeToPrepare"} : SwitchGoes(pc)
<1> DEFINE pc == IF Busy THEN "fail" ELSE "closeToPrepare"
<1>1. SwitchOK /\ SweepOK /\ sw.pc # "idle" /\ pc \in {"fail", "closeToPrepare"} /\ pc \in SwitchPcs
  BY DEF TypeInv, Reprobe, AtSwitch, SwitchPcs, PreCommit, PreCreate
<1>2. SweepOK' /\ sweep'.pc = sweep.pc /\ sweep'.listed \subseteq sweep.listed /\ sweep'.b = sweep.b
  BY <1>1, TouchedStep DEF Reprobe
<1>3. GotoSwitch(pc)
  BY DEF Reprobe
<1> HIDE DEF pc
<1>4. SwitchOK' /\ sw'.pc = pc /\ SwitchCarries
  BY <1>1, <1>3, GotoSwitchStep
<1> QED BY <1>1, <1>2, <1>4 DEF TypeInv, StoreOK, LocksOK, UserOK, RestOK, Reprobe, SwitchGoes

LEMMA DoesSpawnTarget ==
    ASSUME TypeInv, SpawnTarget
    PROVE  /\ TypeInv' /\ gate'.readers = gate.readers /\ gate'.writer = gate.writer
           /\ sw'.b = sw.b /\ sw'.src = sw.src /\ sw'.by = sw.by /\ sw'.gen = sw.gen
           /\ \/ /\ sw'.pc = "protectProcess" /\ sw'.p \in Processes /\ Unused(sw'.p)
                 /\ reg' = Spawned(reg, sw'.p)
              \/ sw'.pc = "fail" /\ sw'.p = sw.p /\ reg' = reg
<1>1. /\ SwitchOK /\ sw \in SwitchRec /\ sw.pc # "idle" /\ reg \in RegRec /\ gate \in GateRec
      /\ "fail" \in SwitchPcs /\ "protectProcess" \in SwitchPcs /\ "switch" \in Tasks
  BY DEF TypeInv, StoreOK, LocksOK, SwitchOK, SpawnTarget, AtSwitch, SwitchPcs, PreCommit,
     PreCreate, Tasks
<1>2. CASE \E p \in Processes :
             /\ Unused(p) /\ \A q \in Processes : Unused(q) => p <= q
             /\ reg' = Spawned(reg, p)
             /\ sw' = [sw EXCEPT !.pc = "protectProcess", !.p = p]
             /\ gate' = Queued("switch")
  <2>1. PICK p \in Processes :
             /\ Unused(p) /\ reg' = Spawned(reg, p)
             /\ sw' = [sw EXCEPT !.pc = "protectProcess", !.p = p]
             /\ gate' = Queued("switch")
    BY <1>2
  <2>2. /\ sw' \in SwitchRec /\ sw'.pc = "protectProcess" /\ sw'.p = p /\ sw'.b = sw.b
        /\ sw'.src = sw.src /\ sw'.by = sw.by /\ sw'.gen = sw.gen
    BY <1>1, <2>1 DEF SwitchRec, SomeProcess
  <2>3. gate' \in GateRec /\ gate'.readers = gate.readers /\ gate'.writer = gate.writer
    BY <1>1, <2>1, GateSteps
  <2>4. reg' \in RegRec
    BY <1>1, <2>1, RegSpawned
  <2>5. SwitchOK'
    BY <1>1, <2>2 DEF SwitchOK
  <2> QED BY <2>1, <2>2, <2>3, <2>4, <2>5 DEF TypeInv, StoreOK, LocksOK, UserOK, SweepOK,
             RestOK, SpawnTarget
<1>3. CASE GotoSwitch("fail") /\ UNCHANGED <<reg, gate>>
  <2>1. SwitchOK' /\ sw'.pc = "fail" /\ SwitchCarries
    BY <1>1, <1>3, GotoSwitchStep
  <2> QED BY <1>3, <2>1 DEF TypeInv, StoreOK, LocksOK, UserOK, SweepOK, RestOK, SpawnTarget,
             SwitchCarries
<1> QED BY <1>2, <1>3 DEF SpawnTarget

LEMMA DoesProtect ==
    ASSUME TypeInv, NEW pc \in PreCommit, NEW next \in PreCommit, Protect(pc, next)
    PROVE  /\ TypeInv' /\ sw.pc = pc /\ sw'.pc = next /\ SwitchCarries
           /\ gate'.readers = gate.readers \cup {"switch"} /\ ~gate.writer /\ ~gate'.writer
<1>1. SwitchOK /\ sw.pc = pc /\ pc # "idle" /\ next \in SwitchPcs /\ gate \in GateRec
      /\ "switch" \in Tasks
  BY SwitchPlaces DEF TypeInv, LocksOK, Protect, AtSwitch, Tasks
<1>2. SwitchOK' /\ sw'.pc = next /\ SwitchCarries
  BY <1>1, GotoSwitchStep DEF Protect
<1>3. /\ gate' \in GateRec /\ gate'.readers = gate.readers \cup {"switch"}
      /\ ~gate.writer /\ ~gate'.writer
  BY <1>1, GateSteps DEF Protect
<1> QED BY <1>1, <1>2, <1>3 DEF TypeInv, StoreOK, LocksOK, UserOK, SweepOK, RestOK, Protect

LEMMA DoesPlaceLease ==
    ASSUME TypeInv, NEW pc \in PreCommit, NEW next \in PreCommit, NEW h \in LeaseHolders,
           PlaceLease(pc, h, next)
    PROVE  /\ TypeInv' /\ sw.pc = pc /\ sw'.pc \in {next, "fail"} /\ SwitchCarries
           /\ gate'.readers = gate.readers \ {"switch"} /\ gate'.writer = gate.writer
<1>1. SwitchOK /\ sw.pc = pc /\ pc # "idle" /\ next \in SwitchPcs /\ gate \in GateRec
      /\ "switch" \in Tasks /\ sw.p \in SomeProcess /\ "fail" \in SwitchPcs
  BY SwitchPlaces DEF TypeInv, LocksOK, PlaceLease, AtSwitch, Tasks, SwitchOK, SwitchRec,
     SwitchPcs, PreCommit
<1>2. SwitchOK' /\ sw'.pc \in {next, "fail"} /\ SwitchCarries
  <2>1. CASE GotoSwitch(next)
    BY <1>1, <2>1, GotoSwitchStep
  <2>2. CASE GotoSwitch("fail")
    BY <1>1, <2>2, GotoSwitchStep
  <2> QED BY <2>1, <2>2 DEF PlaceLease
<1>3. /\ gate' \in GateRec /\ gate'.readers = gate.readers \ {"switch"}
      /\ gate'.writer = gate.writer
  BY <1>1, GateSteps DEF PlaceLease
<1>4. lease' \in LeaseRec
  BY <1>1 DEF PlaceLease, TypeInv, LocksOK, LeaseRec
<1> QED BY <1>1, <1>2, <1>3, <1>4 DEF TypeInv, StoreOK, LocksOK, UserOK, SweepOK, RestOK,
           PlaceLease

LEMMA DoesReadGeneration ==
    ASSUME TypeInv, ReadGeneration
    PROVE  /\ TypeInv' /\ sw'.pc = "create" /\ sw'.gen = db.gen + 1
           /\ sw'.b = sw.b /\ sw'.src = sw.src /\ sw'.by = sw.by /\ sw'.p = sw.p
<1> DEFINE g == db.gen + 1
<1>1. SwitchOK /\ sw \in SwitchRec /\ sw.pc # "idle" /\ g \in Nat /\ "create" \in SwitchPcs
  BY DEF TypeInv, StoreOK, DbRec, SwitchOK, ReadGeneration, AtSwitch, SwitchPcs, PreCommit,
     PreCreate
<1>2. sw' = [sw EXCEPT !.pc = "create", !.gen = g]
  BY DEF ReadGeneration
<1> HIDE DEF g
<1>3. /\ sw' \in SwitchRec /\ sw'.pc = "create" /\ sw'.gen = g /\ sw'.b = sw.b
      /\ sw'.src = sw.src /\ sw'.by = sw.by /\ sw'.p = sw.p
  BY <1>1, <1>2 DEF SwitchRec
<1>4. SwitchOK'
  BY <1>1, <1>3 DEF SwitchOK
<1> QED BY <1>3, <1>4 DEF TypeInv, StoreOK, LocksOK, UserOK, SweepOK, RestOK, ReadGeneration, g

LEMMA DoesCreateSession ==
    ASSUME TypeInv, CreateSession
    PROVE  /\ TypeInv' /\ SwitchCarries /\ sw.b \in Bindings
           /\ gate'.readers = gate.readers /\ gate'.writer = gate.writer
           /\ \/ /\ sw'.pc = "protectTarget" /\ Up(reg, sw.p)
                 /\ reg' = Registered(reg, sw.b, sw.gen, sw.p)
              \/ sw'.pc = "fail" /\ reg' = Released(reg, sw.p)
<1>1. SwitchOK /\ sw.pc # "idle" /\ reg \in RegRec /\ gate \in GateRec /\ "switch" \in Tasks
      /\ "protectTarget" \in SwitchPcs /\ "fail" \in SwitchPcs
  BY DEF TypeInv, StoreOK, LocksOK, CreateSession, AtSwitch, SwitchPcs, PreCommit, Tasks
<1>2. sw.b \in Bindings /\ sw.p \in SomeProcess /\ sw.gen \in Nat
  BY <1>1, SwitchNames
<1>3. Registered(reg, sw.b, sw.gen, sw.p) \in RegRec /\ Released(reg, sw.p) \in RegRec
  BY <1>1, <1>2, RegRegistered, RegReleased
<1>4. CASE /\ Up(reg, sw.p) /\ reg' = Registered(reg, sw.b, sw.gen, sw.p)
           /\ gate' = Queued("switch") /\ GotoSwitch("protectTarget")
  <2>1. SwitchOK' /\ sw'.pc = "protectTarget" /\ SwitchCarries
    BY <1>1, <1>4, GotoSwitchStep
  <2>2. gate' \in GateRec /\ gate'.readers = gate.readers /\ gate'.writer = gate.writer
    BY <1>1, <1>4, GateSteps
  <2> QED BY <1>2, <1>3, <1>4, <2>1, <2>2 DEF TypeInv, StoreOK, LocksOK, UserOK, SweepOK,
             RestOK, CreateSession
<1>5. CASE reg' = Released(reg, sw.p) /\ GotoSwitch("fail") /\ UNCHANGED gate
  <2>1. SwitchOK' /\ sw'.pc = "fail" /\ SwitchCarries
    BY <1>1, <1>5, GotoSwitchStep
  <2> QED BY <1>2, <1>3, <1>5, <2>1 DEF TypeInv, StoreOK, LocksOK, UserOK, SweepOK,
             RestOK, CreateSession
<1> QED BY <1>4, <1>5 DEF CreateSession

LEMMA DoesInsertBinding ==
    ASSUME TypeInv, InsertBinding
    PROVE  /\ TypeInv' /\ sw'.pc \in {"closeToCommit", "fail"} /\ SwitchCarries
           /\ sw.b \in Bindings
           /\ db'.cur = db.cur /\ db'.gen = db.gen /\ db'.running = db.running
           /\ db'.row = [db.row EXCEPT ![sw.b] = db.gen + 1]
<1> DEFINE R == [db.row EXCEPT ![sw.b] = db.gen + 1]
<1>1. SwitchOK /\ sw.pc # "idle" /\ db \in DbRec
      /\ "closeToCommit" \in SwitchPcs /\ "fail" \in SwitchPcs
  BY DEF TypeInv, StoreOK, InsertBinding, AtSwitch, SwitchPcs, PreCommit
<1>2. sw.b \in Bindings
  BY <1>1, SwitchNames
<1>3. R \in [Bindings -> Nat] /\ R = [db.row EXCEPT ![sw.b] = db.gen + 1]
  BY <1>1, <1>2 DEF DbRec
<1>4. db' = [db EXCEPT !.row = R]
  BY <1>1 DEF InsertBinding, DbRec
<1> HIDE DEF R
<1>5. /\ db' \in DbRec /\ db'.cur = db.cur /\ db'.gen = db.gen /\ db'.running = db.running
      /\ db'.row = R
  BY <1>1, <1>3, <1>4 DEF DbRec
<1>6. SwitchOK' /\ sw'.pc \in {"closeToCommit", "fail"} /\ SwitchCarries
  <2>1. CASE GotoSwitch("closeToCommit")
    BY <1>1, <2>1, GotoSwitchStep
  <2>2. CASE GotoSwitch("fail")
    BY <1>1, <2>2, GotoSwitchStep
  <2> QED BY <2>1, <2>2 DEF InsertBinding
<1> QED BY <1>2, <1>3, <1>5, <1>6 DEF TypeInv, StoreOK, LocksOK, UserOK, SweepOK, RestOK,
           InsertBinding

LEMMA DoesRevalidate ==
    ASSUME TypeInv, Revalidate
    PROVE  /\ TypeInv' /\ SwitchCarries
           /\ \/ sw'.pc = "commit" /\ reg.att[sw.b].gen = db.row[sw.b]
              \/ sw'.pc = "fail"
<1> DEFINE a == reg.att[sw.b]
           pc == IF IsLive(a) /\ a.gen = db.row[sw.b] /\ Up(reg, a.p) THEN "commit" ELSE "fail"
<1>1. SwitchOK /\ sw.pc # "idle"
  BY DEF TypeInv, Revalidate, AtSwitch
<1>2. /\ pc \in SwitchPcs
      /\ (pc = "commit" /\ reg.att[sw.b].gen = db.row[sw.b]) \/ pc = "fail"
  BY DEF SwitchPcs, PreCommit
<1>3. GotoSwitch(pc)
  BY DEF Revalidate
<1> HIDE DEF pc
<1>4. SwitchOK' /\ sw'.pc = pc /\ SwitchCarries
  BY <1>1, <1>2, <1>3, GotoSwitchStep
<1> QED BY <1>2, <1>4 DEF TypeInv, StoreOK, LocksOK, UserOK, SweepOK, RestOK, Revalidate

LEMMA DoesCommit ==
    ASSUME TypeInv, Commit
    PROVE  /\ TypeInv' /\ sw'.pc = "fit" /\ sw'.gen = db.row[sw.b] /\ sw.b \in Bindings
           /\ sw'.b = sw.b /\ sw'.src = sw.src /\ sw'.by = sw.by /\ sw'.p = sw.p
           /\ db'.cur = sw.b /\ db'.gen = db.gen + 1 /\ db'.running = db.running
<1> DEFINE g == db.gen + 1
           R == [db.row EXCEPT ![sw.b] = g]
           n == db.row[sw.b]
<1>1. SwitchOK /\ sw \in SwitchRec /\ sw.pc # "idle" /\ db \in DbRec /\ "fit" \in SwitchPcs
  BY DEF TypeInv, StoreOK, SwitchOK, Commit, AtSwitch, SwitchPcs, PostCommit
<1>2. sw.b \in Bindings
  BY <1>1, SwitchNames
<1>3. R \in [Bindings -> Nat] /\ g \in Nat /\ n \in Nat
  BY <1>1, <1>2 DEF DbRec
<1>4. db' = [db EXCEPT !.cur = sw.b, !.gen = g, !.row = R, !.pending = FALSE]
  BY <1>1 DEF Commit, DbRec
<1>5. sw' = [sw EXCEPT !.pc = "fit", !.gen = n]
  BY DEF Commit
<1> HIDE DEF g, R, n
<1>6. db' \in DbRec /\ db'.cur = sw.b /\ db'.gen = g /\ db'.running = db.running
  BY <1>1, <1>2, <1>3, <1>4 DEF DbRec
<1>7. /\ sw' \in SwitchRec /\ sw'.pc = "fit" /\ sw'.gen = n /\ sw'.b = sw.b
      /\ sw'.src = sw.src /\ sw'.by = sw.by /\ sw'.p = sw.p
  BY <1>1, <1>3, <1>5 DEF SwitchRec
<1>8. SwitchOK'
  BY <1>1, <1>7 DEF SwitchOK
<1> QED BY <1>2, <1>6, <1>7, <1>8 DEF TypeInv, StoreOK, LocksOK, UserOK, SweepOK, RestOK, Commit,
           g, n

\* What the end of a switch leaves of the tasks.
Finishes ==
    /\ sw'.pc = "idle" /\ sw'.b = NoBinding /\ sw'.p = NoProcess /\ sw'.by = NoOne
    /\ gate'.readers = gate.readers /\ gate'.writer = gate.writer
    /\ \A u \in Users : u # sw.by => user'[u] = user[u]
    /\ sw.by # NoOne => user'[sw.by].pc \in {"idle", "gate"} /\ Rests(sw.by)

LEMMA DoesActivationFail ==
    ASSUME TypeInv, ActivationFails
    PROVE  TypeInv' /\ Finishes /\ slip'.stranded
<1>1. sw.pc # "idle" /\ Ended(FALSE)
  BY DEF ActivationFails, AtSwitch
<1>2. Finishes /\ SwitchOK' /\ UserOK' /\ gate' \in GateRec
  BY <1>1, DoesEnd DEF Finishes
<1>3. slip' \in [gate : BOOLEAN, prompt : BOOLEAN, stranded : BOOLEAN] /\ slip'.stranded
  BY DEF ActivationFails, TypeInv, RestOK
<1> QED BY <1>2, <1>3 DEF TypeInv, StoreOK, LocksOK, SweepOK, RestOK, ActivationFails

LEMMA DoesReadGate ==
    ASSUME TypeInv, ReadGateForTarget
    PROVE  /\ TypeInv' /\ sw'.pc = "activate" /\ sw'.shut = fenced /\ sw.b \in Bindings
           /\ sw'.p = reg.att[sw.b].p
           /\ sw'.b = sw.b /\ sw'.src = sw.src /\ sw'.by = sw.by /\ sw'.gen = sw.gen
<1> DEFINE p == reg.att[sw.b].p
<1>1. /\ SwitchOK /\ sw \in SwitchRec /\ sw.pc # "idle" /\ reg \in RegRec /\ fenced \in BOOLEAN
      /\ "activate" \in SwitchPcs
  BY DEF TypeInv, StoreOK, SwitchOK, ReadGateForTarget, AtSwitch, SwitchPcs, PostCommit
<1>2. sw.b \in Bindings
  BY <1>1, SwitchNames
<1>3. p \in SomeProcess
  BY <1>1, <1>2, AttNames
<1>4. sw' = [sw EXCEPT !.pc = "activate", !.shut = fenced, !.p = p]
  BY DEF ReadGateForTarget
<1> HIDE DEF p
<1>5. /\ sw' \in SwitchRec /\ sw'.pc = "activate" /\ sw'.shut = fenced /\ sw'.p = p
      /\ sw'.b = sw.b /\ sw'.src = sw.src /\ sw'.by = sw.by /\ sw'.gen = sw.gen
  BY <1>1, <1>3, <1>4 DEF SwitchRec
<1>6. SwitchOK'
  BY <1>1, <1>5 DEF SwitchOK
<1> QED BY <1>2, <1>5, <1>6 DEF TypeInv, StoreOK, LocksOK, UserOK, SweepOK, RestOK,
           ReadGateForTarget, p

LEMMA NoSwitchLeaseType ==
    ASSUME lease \in LeaseRec
    PROVE  /\ NoSwitchLease \in LeaseRec
           /\ \A h \in LeaseHolders : NoSwitchLease[h] \in {lease[h], NoProcess}
  BY DEF NoSwitchLease, LeaseRec, LeaseHolders, SomeProcess

LEMMA DoesActivateTarget ==
    ASSUME TypeInv, ActivateTarget
    PROVE  /\ TypeInv' /\ SwitchGoes("open") /\ sw.b \in Bindings
           /\ \A h \in LeaseHolders : lease'[h] \in {lease[h], NoProcess}
           /\ Activatable(reg, sw.b, sw.p) /\ reg' = Activated(reg, sw.b, sw.shut)
<1>1. SwitchOK /\ SweepOK /\ sw.pc # "idle" /\ reg \in RegRec /\ "open" \in SwitchPcs
  BY DEF TypeInv, StoreOK, ActivateTarget, AtSwitch, SwitchPcs, PostCommit
<1>2. sw.b \in Bindings /\ sw.shut \in BOOLEAN
  BY <1>1, SwitchNames
<1>3. reg' \in RegRec
  BY <1>1, <1>2, RegActivated DEF ActivateTarget
<1>4. lease' \in LeaseRec /\ \A h \in LeaseHolders : lease'[h] \in {lease[h], NoProcess}
  BY NoSwitchLeaseType DEF TypeInv, LocksOK, ActivateTarget
<1>5. SweepOK' /\ sweep'.pc = sweep.pc /\ sweep'.listed \subseteq sweep.listed /\ sweep'.b = sweep.b
  BY <1>1, TouchedStep DEF ActivateTarget
<1>6. SwitchOK' /\ sw'.pc = "open" /\ SwitchCarries
  BY <1>1, GotoSwitchStep DEF ActivateTarget
<1> QED BY <1>2, <1>3, <1>4, <1>5, <1>6 DEF TypeInv, StoreOK, LocksOK, UserOK, RestOK,
           ActivateTarget, SwitchGoes

\* Prompts are opened and the switch is over.
Reopens ==
    /\ Finishes /\ SetsGate(FALSE)
    /\ sweep'.pc = sweep.pc /\ sweep'.listed \subseteq sweep.listed /\ sweep'.b = sweep.b

LEMMA DoesReopen ==
    ASSUME TypeInv, RegShape(reg), OpenPrompts \/ ReopenPrompts
    PROVE  TypeInv' /\ Reopens /\ UNCHANGED <<db, lock, lease, auth, used>>
<1>1. /\ sw.pc # "idle" /\ SetPromptGate(FALSE) /\ (Ended(TRUE) \/ Ended(FALSE))
      /\ sweep' = Touched(reg.cur) /\ UNCHANGED <<db, lock, lease, auth, used>>
  BY DEF OpenPrompts, ReopenPrompts, AtSwitch
<1>2. Finishes /\ SwitchOK' /\ UserOK' /\ gate' \in GateRec
  <2>1. CASE Ended(TRUE)
    BY <1>1, <2>1, DoesEnd DEF Finishes
  <2>2. CASE Ended(FALSE)
    BY <1>1, <2>2, DoesEnd DEF Finishes
  <2> QED BY <1>1, <2>1, <2>2
<1>3. SetsGate(FALSE)
  BY <1>1, DoesSetGate
<1>4. SweepOK' /\ sweep'.pc = sweep.pc /\ sweep'.listed \subseteq sweep.listed /\ sweep'.b = sweep.b
  BY <1>1, TouchedStep DEF TypeInv
<1> QED BY <1>1, <1>2, <1>3, <1>4 DEF TypeInv, StoreOK, LocksOK, RestOK, Reopens, SetsGate, Fades

LEMMA DoesFailSwitch ==
    ASSUME TypeInv, FailSwitch
    PROVE  /\ TypeInv' /\ sw'.pc = "cleanup" /\ SwitchCarries
           /\ db'.cur = db.cur /\ db'.gen = db.gen /\ db'.row = db.row
           /\ db'.running = db.running
<1>1. SwitchOK /\ sw.pc # "idle" /\ db \in DbRec /\ "cleanup" \in SwitchPcs
  BY DEF TypeInv, StoreOK, FailSwitch, AtSwitch, SwitchPcs, PreCommit
<1>2. SwitchOK' /\ sw'.pc = "cleanup" /\ SwitchCarries
  BY <1>1, GotoSwitchStep DEF FailSwitch
<1>3. /\ db' \in DbRec /\ db'.cur = db.cur /\ db'.gen = db.gen /\ db'.row = db.row
      /\ db'.running = db.running
  BY <1>1 DEF DbRec, FailSwitch
<1> QED BY <1>2, <1>3 DEF TypeInv, StoreOK, LocksOK, UserOK, SweepOK, RestOK, FailSwitch

LEMMA DoesCleanup ==
    ASSUME TypeInv, RegShape(reg), CleanupTarget
    PROVE  /\ TypeInv' /\ sw'.pc = "reopen" /\ SwitchCarries /\ Fades(reg, reg')
           /\ sw.b \in Bindings /\ reg'.att[sw.b].st = "none"
           /\ \A h \in LeaseHolders : lease'[h] \in {lease[h], NoProcess}
           /\ \/ reg.att[sw.b].st # "none" /\ reg' = Detached(reg, sw.b)
              \/ reg.att[sw.b].st = "none" /\ reg' = Released(reg, sw.p)
<1>1. SwitchOK /\ sw.pc # "idle" /\ reg \in RegRec /\ "reopen" \in SwitchPcs
  BY DEF TypeInv, StoreOK, CleanupTarget, AtSwitch, SwitchPcs, PreCommit
<1>2. sw.b \in Bindings /\ sw.p \in SomeProcess
  BY <1>1, SwitchNames
<1>3. SwitchOK' /\ sw'.pc = "reopen" /\ SwitchCarries
  BY <1>1, GotoSwitchStep DEF CleanupTarget
<1>4. lease' \in LeaseRec /\ \A h \in LeaseHolders : lease'[h] \in {lease[h], NoProcess}
  BY NoSwitchLeaseType DEF TypeInv, LocksOK, CleanupTarget
<1>5. /\ Fades(reg, reg') /\ reg' \in RegRec /\ reg'.att[sw.b].st = "none"
      /\ \/ reg.att[sw.b].st # "none" /\ reg' = Detached(reg, sw.b)
         \/ reg.att[sw.b].st = "none" /\ reg' = Released(reg, sw.p)
  <2>1. CASE reg.att[sw.b].st # "none"
    <3>1. reg' = Detached(reg, sw.b)
      BY <2>1 DEF CleanupTarget
    <3>2. Fades(reg, reg') /\ reg'.att[sw.b].st = "none"
      BY <1>1, <1>2, <3>1, FadesDetached
    <3> QED BY <2>1, <3>1, <3>2 DEF Fades
  <2>2. CASE reg.att[sw.b].st = "none"
    <3>1. reg' = Released(reg, sw.p)
      BY <2>2 DEF CleanupTarget
    <3>2. Fades(reg, reg') /\ reg'.att = reg.att
      BY <1>1, <1>2, <3>1, FadesReleased, RegReleased
    <3> QED BY <2>2, <3>1, <3>2 DEF Fades
  <2> QED BY <2>1, <2>2
<1> QED BY <1>2, <1>3, <1>4, <1>5 DEF TypeInv, StoreOK, LocksOK, UserOK, SweepOK, RestOK,
           CleanupTarget

-----------------------------------------------------------------------------
(* The same for turns, the sweeper, processes and credentials. *)

\* The dispatch is over; what is durable keeps all but the mark of the running turn.
Stops(running) ==
    /\ Others("dispatch") /\ user'["dispatch"].pc = "idle" /\ Rests("dispatch")
    /\ \A h \in LeaseHolders : lease'[h] \in {lease[h], NoProcess}
    /\ db'.cur = db.cur /\ db'.gen = db.gen /\ db'.row = db.row /\ db'.running = running

LEMMA DoesOver ==
    ASSUME TypeInv, NEW running \in BOOLEAN, Over(running)
    PROVE  /\ Stops(running) /\ UserOK' /\ lease' \in LeaseRec /\ db' \in DbRec
<1>1. UserOK /\ db \in DbRec /\ lease \in LeaseRec /\ "dispatch" \in Users
  BY DEF TypeInv, StoreOK, LocksOK, Users
<1>2. UserOK' /\ Others("dispatch") /\ user'["dispatch"].pc = "idle" /\ Rests("dispatch")
  BY <1>1, RestStep DEF Over
<1>3. lease' \in LeaseRec /\ \A h \in LeaseHolders : lease'[h] \in {lease[h], NoProcess}
  BY <1>1 DEF Over, LeaseRec, SomeProcess
<1>4. /\ db' \in DbRec /\ db'.cur = db.cur /\ db'.gen = db.gen /\ db'.row = db.row
      /\ db'.running = running
  BY <1>1 DEF Over, DbRec
<1> QED BY <1>2, <1>3, <1>4 DEF Stops

LEMMA DoesAdmitTurn ==
    ASSUME TypeInv, AdmitTurn
    PROVE  /\ TypeInv'
           /\ \/ Stops(db.running)
              \/ /\ Others("dispatch") /\ user'["dispatch"].pc = "send"
                 /\ user'["dispatch"].b = db.cur /\ user'["dispatch"].p = user["dispatch"].p
                 /\ db'.cur = db.cur /\ db'.gen = db.gen /\ db'.row = db.row /\ db'.running
                 /\ lease' = lease
<1>1. UserOK /\ db \in DbRec /\ lease \in LeaseRec /\ "dispatch" \in Users
      /\ db.running \in BOOLEAN
  BY DEF TypeInv, StoreOK, LocksOK, Users, DbRec
<1>2. CASE Over(db.running)
  <2>1. /\ Stops(db.running) /\ UserOK' /\ lease' \in LeaseRec /\ db' \in DbRec
    BY <1>1, <1>2, DoesOver
  <2> QED BY <2>1 DEF TypeInv, StoreOK, LocksOK, SwitchOK, SweepOK, RestOK, AdmitTurn
<1>3. CASE /\ db' = [db EXCEPT !.running = TRUE]
           /\ user' = [user EXCEPT !["dispatch"].pc = "send", !["dispatch"].b = db.cur,
                                    !["dispatch"].gen = db.gen]
           /\ UNCHANGED lease
  <2> DEFINE d == [user["dispatch"] EXCEPT !.pc = "send", !.b = db.cur, !.gen = db.gen]
  <2>1. user["dispatch"] \in UserRec /\ db.cur \in Bindings /\ db.gen \in Nat
    BY <1>1, UserNames DEF DbRec
  <2>2. user' = [user EXCEPT !["dispatch"] = d]
    BY <1>1, <1>3 DEF UserOK
  <2>3. d \in UserRec /\ d.pc = "send" /\ d.b = db.cur /\ d.p = user["dispatch"].p
    BY <2>1, UserPlaces DEF UserRec, SomeBinding
  <2> HIDE DEF d
  <2>4. NamesBinding(d)
    BY <2>1, <2>3 DEF NamesBinding
  <2>5. UserOK' /\ Others("dispatch") /\ user'["dispatch"] = d
    BY <1>1, <2>2, <2>3, <2>4, UserStep
  <2>6. /\ db' \in DbRec /\ db'.cur = db.cur /\ db'.gen = db.gen /\ db'.row = db.row
        /\ db'.running
    BY <1>1, <1>3 DEF DbRec
  <2> QED BY <1>3, <2>3, <2>5, <2>6 DEF TypeInv, StoreOK, LocksOK, SwitchOK, SweepOK, RestOK,
             AdmitTurn
<1> QED BY <1>2, <1>3 DEF AdmitTurn

LEMMA DoesSendTurn ==
    ASSUME TypeInv, RegShape(reg), SendTurn
    PROVE  /\ TypeInv' /\ Fades(reg, reg')
           /\ sweep'.pc = sweep.pc /\ sweep'.listed \subseteq sweep.listed
           /\ sweep'.b = sweep.b
           /\ \A b \in Bindings : reg'.cur = b => reg' = reg
           /\ \/ Stops(FALSE)
              \/ /\ Others("dispatch") /\ user'["dispatch"].pc = "prompt"
                 /\ user'["dispatch"].b = user["dispatch"].b
                 /\ db' = db /\ lease' = lease
<1>1. UserOK /\ SweepOK /\ reg \in RegRec /\ "dispatch" \in Users
  BY DEF TypeInv, StoreOK, Users
<1>2. /\ user["dispatch"] \in UserRec /\ user["dispatch"].b \in Bindings
  BY <1>1, UserNames, UserPlaces DEF SendTurn, AtUser
<1>3. /\ reg' = Current(reg) /\ Fades(reg, reg') /\ reg' \in RegRec
      /\ reg'.cur # NoBinding => reg' = reg
  BY <1>1, FadesCurrent DEF SendTurn, Fades
<1>4. SweepOK' /\ sweep'.pc = sweep.pc /\ sweep'.listed \subseteq sweep.listed /\ sweep'.b = sweep.b
  BY <1>1, TouchedStep DEF SendTurn
<1>5. CASE Over(FALSE)
  <2>1. Stops(FALSE) /\ UserOK' /\ lease' \in LeaseRec /\ db' \in DbRec
    BY <1>5, DoesOver
  <2> QED BY <1>3, <1>4, <2>1, Numbers DEF TypeInv, StoreOK, LocksOK, SwitchOK, RestOK, SendTurn
<1>6. CASE /\ reg'.cur = user["dispatch"].b
           /\ user' = [user EXCEPT !["dispatch"].pc = "prompt",
                                   !["dispatch"].p = reg'.att[reg'.cur].p, !["dispatch"].gen = 0]
           /\ UNCHANGED <<db, lease>>
  <2> DEFINE p == reg'.att[reg'.cur].p
             d == [user["dispatch"] EXCEPT !.pc = "prompt", !.p = p, !.gen = 0]
  <2>1. p \in SomeProcess
    BY <1>2, <1>3, <1>6, AttNames
  <2>2. user' = [user EXCEPT !["dispatch"] = d]
    BY <1>1, <1>6 DEF UserOK
  <2> HIDE DEF p
  <2>3. d \in UserRec /\ d.pc = "prompt" /\ d.b = user["dispatch"].b
    BY <1>2, <2>1, UserPlaces DEF UserRec
  <2> HIDE DEF d
  <2>4. NamesBinding(d)
    BY <1>2, <2>3 DEF NamesBinding
  <2>5. UserOK' /\ Others("dispatch") /\ user'["dispatch"] = d
    BY <1>1, <2>2, <2>3, <2>4, UserStep
  <2>6. UNCHANGED <<fenced, gate, lock, sw, auth, used, slip, db, lease>>
    BY <1>6 DEF SendTurn
  <2>7. TypeInv'
    BY <1>3, <1>4, <2>5, <2>6 DEF TypeInv, StoreOK, LocksOK, SwitchOK, RestOK
  <2>8. \A b \in Bindings : reg'.cur = b => reg' = reg
    BY <1>3, Numbers
  <2> QED BY <1>3, <1>4, <2>3, <2>5, <2>6, <2>7, <2>8
<1> QED BY <1>3, <1>5, <1>6 DEF SendTurn

LEMMA DoesAcquirePrompt ==
    ASSUME TypeInv, AcquirePrompt
    PROVE  /\ TypeInv' /\ Fades(reg, reg') /\ reg'.cur = reg.cur /\ reg'.proc = reg.proc
           /\ \A b \in Bindings : reg'.att[b].closed = reg.att[b].closed
           /\ sweep'.pc = sweep.pc /\ sweep'.listed \subseteq sweep.listed
           /\ sweep'.b = sweep.b
           /\ \/ Stops(FALSE)
              \/ /\ Others("dispatch") /\ user'["dispatch"].pc = "begin" /\ Carries("dispatch")
                 /\ PromptAdmitted(user["dispatch"].b, user["dispatch"].p)
                 /\ db' = db /\ lease' = lease
<1> DEFINE b == user["dispatch"].b
           a == [reg.att[b] EXCEPT !.prompt = TRUE]
<1>1. UserOK /\ SweepOK /\ reg \in RegRec /\ "dispatch" \in Users
  BY DEF TypeInv, StoreOK, Users
<1>2. b \in Bindings
  BY <1>1, UserNames, UserPlaces DEF AcquirePrompt, AtUser
<1>3. CASE ~PromptAdmitted(b, user["dispatch"].p)
  <2>1. Over(FALSE) /\ reg' = reg /\ sweep' = sweep
    BY <1>3 DEF AcquirePrompt
  <2>2. Stops(FALSE) /\ UserOK' /\ lease' \in LeaseRec /\ db' \in DbRec
    BY <2>1, DoesOver
  <2> QED BY <1>1, <2>1, <2>2, FadesStays DEF TypeInv, StoreOK, LocksOK, SwitchOK, SweepOK,
             RestOK, AcquirePrompt
<1>4. CASE PromptAdmitted(b, user["dispatch"].p)
  <2>1. /\ reg' = [reg EXCEPT !.att[b] = a] /\ Goto("dispatch", "begin")
        /\ sweep' = Touched(b) /\ UNCHANGED <<db, lease>>
    BY <1>4 DEF AcquirePrompt
  <2>2. /\ a \in Attachments /\ a.st = reg.att[b].st /\ Same(a, reg.att[b])
        /\ a.closed = reg.att[b].closed
    <3>1. reg.att[b] \in Attachments
      BY <1>1, <1>2, AttNames
    <3> QED BY <3>1 DEF Attachments, Same
  <2> HIDE DEF a
  <2>3. /\ Fades(reg, reg') /\ reg'.att[b] = a /\ reg'.cur = reg.cur /\ reg'.proc = reg.proc
        /\ \A c \in Bindings : c # b => reg'.att[c] = reg.att[c]
    BY <1>1, <1>2, <2>1, <2>2, FadesFlags
  <2>4. SweepOK' /\ sweep'.pc = sweep.pc /\ sweep'.listed \subseteq sweep.listed /\ sweep'.b = sweep.b
    BY <1>1, <2>1, TouchedStep
  <2>5. UserOK' /\ Others("dispatch") /\ user'["dispatch"].pc = "begin" /\ Carries("dispatch")
    BY <1>1, <1>2, <2>1, GotoStep, UserPlaces
  <2>6. \A c \in Bindings : reg'.att[c].closed = reg.att[c].closed
    BY <2>2, <2>3
  <2> QED BY <1>4, <2>1, <2>3, <2>4, <2>5, <2>6 DEF TypeInv, StoreOK, LocksOK, SwitchOK, RestOK,
             AcquirePrompt, Fades
<1> QED BY <1>3, <1>4

LEMMA DoesBeginTurn ==
    ASSUME TypeInv, BeginTurn
    PROVE  /\ TypeInv' /\ user["dispatch"].b \in Bindings
           /\ \A b \in Bindings : reg'.att[b].closed = reg.att[b].closed
           /\ \/ /\ Stops(FALSE) /\ Fades(reg, reg') /\ reg'.cur = reg.cur
                 /\ reg'.proc = reg.proc
              \/ /\ Others("dispatch") /\ user'["dispatch"].pc = "turn" /\ Carries("dispatch")
                 /\ IsCurrentFence(user["dispatch"].b, user["dispatch"].p)
                 /\ db' = db /\ lease' = lease
                 /\ reg'.cur = reg.cur /\ reg'.last = reg.last /\ reg'.proc = reg.proc
                 /\ \A b \in Bindings :
                      /\ b # user["dispatch"].b => reg'.att[b] = reg.att[b]
                      /\ reg'.att[b].st = reg.att[b].st /\ reg'.att[b].p = reg.att[b].p
                      /\ reg'.att[b].gen = reg.att[b].gen
<1> DEFINE b == user["dispatch"].b
           a == [reg.att[b] EXCEPT !.prompt = FALSE]
           A == [reg.att EXCEPT ![b].turn = TRUE]
<1>1. UserOK /\ SweepOK /\ reg \in RegRec /\ "dispatch" \in Users
  BY DEF TypeInv, StoreOK, Users
<1>2. b \in Bindings
  BY <1>1, UserNames, UserPlaces DEF BeginTurn, AtUser
<1>3. CASE ~ (IsCurrentFence(b, user["dispatch"].p) /\ Up(reg, user["dispatch"].p))
  <2>1. Over(FALSE) /\ (reg' = reg \/ reg' = [reg EXCEPT !.att[b] = a])
    BY <1>3 DEF BeginTurn
  <2>2. Stops(FALSE) /\ UserOK' /\ lease' \in LeaseRec /\ db' \in DbRec
    BY <2>1, DoesOver
  <2>3. /\ a \in Attachments /\ a.st = reg.att[b].st /\ Same(a, reg.att[b])
        /\ a.closed = reg.att[b].closed
    <3>1. reg.att[b] \in Attachments
      BY <1>1, <1>2, AttNames
    <3> QED BY <3>1 DEF Attachments, Same
  <2> HIDE DEF a
  <2>4. /\ Fades(reg, reg') /\ reg'.cur = reg.cur /\ reg'.proc = reg.proc
        /\ \A c \in Bindings : reg'.att[c].closed = reg.att[c].closed
    <3>1. CASE reg' = reg
      BY <1>1, <3>1, FadesStays
    <3>2. CASE reg' = [reg EXCEPT !.att[b] = a]
      <4>1. /\ Fades(reg, reg') /\ reg'.att[b] = a /\ reg'.cur = reg.cur
            /\ reg'.proc = reg.proc
            /\ \A c \in Bindings : c # b => reg'.att[c] = reg.att[c]
        BY <1>1, <1>2, <2>3, <3>2, FadesFlags
      <4> QED BY <2>3, <4>1
    <3> QED BY <2>1, <3>1, <3>2
  <2> QED BY <1>2, <2>2, <2>4 DEF TypeInv, StoreOK, LocksOK, SwitchOK, SweepOK, RestOK,
             BeginTurn, Fades
<1>4. CASE IsCurrentFence(b, user["dispatch"].p) /\ Up(reg, user["dispatch"].p)
  <2>1. /\ reg' = [reg EXCEPT !.att = A] /\ Goto("dispatch", "turn") /\ UNCHANGED <<db, lease>>
    BY <1>1, <1>4 DEF BeginTurn, RegRec
  <2>2. UserOK' /\ Others("dispatch") /\ user'["dispatch"].pc = "turn" /\ Carries("dispatch")
    BY <1>1, <1>2, <2>1, GotoStep, UserPlaces
  <2>3. /\ A \in [Bindings -> Attachments]
        /\ \A c \in Bindings : /\ c # b => A[c] = reg.att[c]
                               /\ A[c].st = reg.att[c].st /\ A[c].p = reg.att[c].p
                               /\ A[c].gen = reg.att[c].gen /\ A[c].closed = reg.att[c].closed
    <3> DEFINE d == [reg.att[b] EXCEPT !.turn = TRUE]
    <3>1. reg.att \in [Bindings -> Attachments] /\ reg.att[b] \in Attachments
      BY <1>1, <1>2 DEF RegRec
    <3>2. /\ d \in Attachments /\ d.st = reg.att[b].st /\ d.p = reg.att[b].p
          /\ d.gen = reg.att[b].gen /\ d.closed = reg.att[b].closed
      BY <3>1 DEF Attachments
    <3>3. A = [reg.att EXCEPT ![b] = d]
      OBVIOUS
    <3> HIDE DEF d, A
    <3> QED BY <1>2, <3>1, <3>2, <3>3
  <2> HIDE DEF A
  <2>4. /\ reg' \in RegRec /\ reg'.att = A /\ reg'.cur = reg.cur /\ reg'.last = reg.last
        /\ reg'.proc = reg.proc
    BY <1>1, <2>1, <2>3 DEF RegRec
  <2>5. TypeInv'
    BY <2>1, <2>2, <2>4 DEF TypeInv, StoreOK, LocksOK, SwitchOK, SweepOK, RestOK, BeginTurn
  <2> QED BY <1>2, <1>4, <2>1, <2>2, <2>3, <2>4, <2>5
<1> QED BY <1>3, <1>4

LEMMA DoesEndTurn ==
    ASSUME TypeInv, EndTurn
    PROVE  /\ TypeInv' /\ Fades(reg, reg') /\ Stops(FALSE) /\ reg'.cur = reg.cur
           /\ reg'.proc = reg.proc /\ user["dispatch"].b \in Bindings
           /\ \A b \in Bindings : reg'.att[b].closed = reg.att[b].closed
           /\ reg'.att[user["dispatch"].b].turn =>
                reg.att[user["dispatch"].b].p # user["dispatch"].p
<1> DEFINE b == user["dispatch"].b
           a == [reg.att[b] EXCEPT !.prompt = FALSE, !.turn = FALSE]
<1>1. UserOK /\ SweepOK /\ reg \in RegRec /\ "dispatch" \in Users
  BY DEF TypeInv, StoreOK, Users
<1>2. b \in Bindings
  BY <1>1, UserNames, UserPlaces DEF EndTurn, AtUser
<1>3. Over(FALSE) /\ (IF reg.att[b].p = user["dispatch"].p
                     THEN reg' = [reg EXCEPT !.att[b] = a] ELSE reg' = reg)
  BY DEF EndTurn
<1>4. Stops(FALSE) /\ UserOK' /\ lease' \in LeaseRec /\ db' \in DbRec
  BY <1>3, DoesOver
<1>5. /\ a \in Attachments /\ a.st = reg.att[b].st /\ Same(a, reg.att[b])
      /\ a.closed = reg.att[b].closed /\ ~a.turn
  <2>1. reg.att[b] \in Attachments
    BY <1>1, <1>2, AttNames
  <2> QED BY <2>1 DEF Attachments, Same
<1> HIDE DEF a
<1>6. CASE reg.att[b].p # user["dispatch"].p
  <2>1. reg' = reg
    BY <1>3, <1>6
  <2> QED BY <1>1, <1>2, <1>4, <1>6, <2>1, FadesStays DEF TypeInv, StoreOK, LocksOK, SwitchOK,
             SweepOK, RestOK, EndTurn
<1>7. CASE reg.att[b].p = user["dispatch"].p
  <2>1. /\ Fades(reg, reg') /\ reg'.att[b] = a /\ reg'.cur = reg.cur /\ reg'.proc = reg.proc
        /\ \A c \in Bindings : c # b => reg'.att[c] = reg.att[c]
    <3>1. reg' = [reg EXCEPT !.att[b] = a]
      BY <1>3, <1>7
    <3> QED BY <1>1, <1>2, <1>5, <3>1, FadesFlags
  <2>2. TypeInv'
    BY <1>4, <2>1 DEF TypeInv, StoreOK, LocksOK, SwitchOK, SweepOK, RestOK, EndTurn, Fades
  <2> QED BY <1>2, <1>4, <1>5, <2>1, <2>2
<1> QED BY <1>6, <1>7

LEMMA DoesTick ==
    ASSUME TypeInv, Tick
    PROVE  /\ TypeInv' /\ gate'.readers = gate.readers /\ gate'.writer = gate.writer
           /\ sweep'.pc = "gate" /\ sweep'.listed = sweep.listed
<1>1. gate' \in GateRec /\ gate'.readers = gate.readers /\ gate'.writer = gate.writer
  BY GateSteps DEF TypeInv, LocksOK, Tick, Tasks
<1>2. SweepOK' /\ sweep'.pc = "gate" /\ sweep'.listed = sweep.listed
  BY DEF TypeInv, SweepOK, SweepRec, Tick
<1> QED BY <1>1, <1>2 DEF TypeInv, StoreOK, LocksOK, UserOK, SwitchOK, RestOK, Tick

LEMMA DoesStartSweep ==
    ASSUME TypeInv, StartSweep
    PROVE  /\ TypeInv' /\ sweep'.pc = "sweep" /\ sweep'.listed = Candidates(lease')
           /\ gate'.readers = {} /\ gate.readers = {} /\ gate'.writer
           /\ \A h \in LeaseHolders : lease'[h] \in {lease[h], NoProcess}
<1>1. gate' \in GateRec /\ gate'.readers = {} /\ gate.readers = {} /\ gate'.writer
  BY GateSteps DEF TypeInv, LocksOK, StartSweep, Tasks
<1>2. \/ lease' = lease \/ lease' = [lease EXCEPT !["client"] = NoProcess]
  BY DEF StartSweep
<1>3. lease' \in LeaseRec /\ \A h \in LeaseHolders : lease'[h] \in {lease[h], NoProcess}
  BY <1>2 DEF TypeInv, LocksOK, LeaseRec, SomeProcess, LeaseHolders
<1>4. sweep' = [sweep EXCEPT !.pc = "sweep", !.listed = Candidates(lease')]
  BY DEF StartSweep
<1>5. Candidates(lease') \subseteq Bindings
  BY DEF Candidates
<1>6. SweepOK' /\ sweep'.pc = "sweep" /\ sweep'.listed = Candidates(lease')
  <2> DEFINE C == Candidates(lease')
  <2>1. C \subseteq Bindings /\ sweep' = [sweep EXCEPT !.pc = "sweep", !.listed = C]
    BY <1>4, <1>5
  <2> HIDE DEF C
  <2>2. SweepOK' /\ sweep'.pc = "sweep" /\ sweep'.listed = C
    BY <2>1 DEF TypeInv, SweepOK, SweepRec
  <2> QED BY <2>2 DEF C
<1> QED BY <1>1, <1>3, <1>6 DEF TypeInv, StoreOK, LocksOK, UserOK, SwitchOK, RestOK, StartSweep

LEMMA DoesClaimClose ==
    ASSUME TypeInv, RegShape(reg), NEW b \in Bindings, ClaimClose(b)
    PROVE  /\ TypeInv' /\ Fades(reg, reg') /\ b \in sweep.listed /\ reg.att[b].p # NoProcess
           /\ \A c \in Bindings : c # b => reg'.att[c] = reg.att[c]
           /\ reg'.proc = reg.proc
           /\ sweep.pc = "sweep" /\ sweep'.pc = "detach" /\ sweep'.listed \subseteq sweep.listed
<1>1. reg \in RegRec /\ reg.att[b].st # "none" /\ b \in sweep.listed /\ reg.att[b].p # NoProcess
      /\ sweep.pc = "sweep"
  BY DEF TypeInv, StoreOK, ClaimClose, Up
<1>2. reg' = Marked(reg, b, "Closing")
  BY DEF ClaimClose, Marked
<1>3. Fades(reg, reg')
  BY <1>1, <1>2, FadesMarked
<1>4. reg'.proc = reg.proc
  BY <1>1, <1>2, RegMarked
<1>5. ASSUME NEW c \in Bindings, c # b PROVE reg'.att[c] = reg.att[c]
  BY <1>1, <1>2, <1>5, MarkedElsewhere
<1>6. SweepOK' /\ sweep'.pc = "detach" /\ sweep'.listed \subseteq sweep.listed
  <2> DEFINE n == sweep.listed \ {b}
  <2>1. n \in SUBSET Bindings /\ n \subseteq sweep.listed
    BY DEF TypeInv, SweepOK, SweepRec
  <2>2. sweep' = [sweep EXCEPT !.pc = "detach", !.b = b, !.listed = n]
    BY DEF ClaimClose, TypeInv, SweepOK, SweepRec
  <2> HIDE DEF n
  <2>3. sweep' \in SweepRec /\ sweep'.pc = "detach" /\ sweep'.b = b /\ sweep'.listed = n
    BY <2>1, <2>2 DEF TypeInv, SweepOK, SweepRec, SomeBinding
  <2> QED BY <2>1, <2>3 DEF SweepOK
<1> QED BY <1>1, <1>3, <1>4, <1>5, <1>6 DEF TypeInv, StoreOK, LocksOK, UserOK, SwitchOK, RestOK,
           ClaimClose, Fades

LEMMA DoesDetachSwept ==
    ASSUME TypeInv, RegShape(reg), DetachSwept
    PROVE  /\ TypeInv' /\ Fades(reg, reg') /\ sweep.b \in Bindings
           /\ \A c \in Bindings : c # sweep.b => reg'.att[c] = reg.att[c]
           /\ sweep.pc = "detach" /\ sweep'.pc = "sweep" /\ sweep'.listed = sweep.listed
<1>1. reg \in RegRec /\ sweep.b \in Bindings /\ sweep.pc = "detach"
  BY DEF TypeInv, StoreOK, SweepOK, DetachSwept
<1>2. /\ Fades(reg, reg') /\ reg' \in RegRec
      /\ \A c \in Bindings : c # sweep.b => reg'.att[c] = reg.att[c]
  BY <1>1, FadesDetached DEF DetachSwept, Fades
<1>3. SweepOK' /\ sweep'.pc = "sweep" /\ sweep'.listed = sweep.listed
  BY DEF TypeInv, SweepOK, SweepRec, SomeBinding, DetachSwept
<1> QED BY <1>1, <1>2, <1>3 DEF TypeInv, StoreOK, LocksOK, UserOK, SwitchOK, RestOK, DetachSwept

LEMMA DoesEndSweep ==
    ASSUME TypeInv, EndSweep
    PROVE  /\ TypeInv' /\ sweep'.pc = "idle" /\ sweep'.listed = {} /\ ~gate'.writer
           /\ gate'.readers = gate.readers \ {"sweep"}
<1>1. SweepOK' /\ sweep'.pc = "idle" /\ sweep'.listed = {}
  BY DEF SweepOK, SweepRec, NotSweeping, EndSweep, SomeBinding
<1>2. gate' \in GateRec /\ ~gate'.writer /\ gate'.readers = gate.readers \ {"sweep"}
  <2> DEFINE n == gate.readers \ {"sweep"}
  <2>1. n \in SUBSET Tasks
    BY DEF TypeInv, LocksOK, GateRec
  <2>2. gate' = [gate EXCEPT !.writer = FALSE, !.readers = n]
    BY DEF EndSweep, TypeInv, LocksOK, GateRec
  <2> HIDE DEF n
  <2>3. gate' \in GateRec /\ ~gate'.writer /\ gate'.readers = n
    BY <2>1, <2>2 DEF TypeInv, LocksOK, GateRec
  <2> QED BY <2>3 DEF n
<1> QED BY <1>1, <1>2 DEF TypeInv, StoreOK, LocksOK, UserOK, SwitchOK, RestOK, EndSweep

\* Only processes go.
Fault ==
    /\ Fades(reg, reg') /\ reg'.att = reg.att /\ reg'.cur = reg.cur
    /\ used'.switches = used.switches

LEMMA DoesExit ==
    ASSUME TypeInv, NEW p \in Processes, ExitProcess(p)
    PROVE  TypeInv' /\ Fault
<1> DEFINE f == [reg.proc EXCEPT ![p] = "crashed"]
<1>1. reg \in RegRec
  BY DEF TypeInv, StoreOK
<1>2. f \in [Processes -> {"up", "crashed", "gone"}] /\ \A q \in Processes : f[q] = "up" => reg.proc[q] = "up"
  BY <1>1 DEF RegRec
<1>3. reg' = [reg EXCEPT !.proc = f]
  BY <1>1 DEF ExitProcess, RegRec
<1> HIDE DEF f
<1>4. Fades(reg, reg') /\ reg'.att = reg.att /\ reg'.cur = reg.cur
  BY <1>1, <1>2, <1>3, FadesProcesses
<1>5. used' \in [attaches : Nat, turns : Nat, switches : 0 .. MaxSwitches, faults : Nat]
      /\ used'.switches = used.switches
  <2>1. used.faults + 1 \in Nat
    BY DEF TypeInv, RestOK
  <2> QED BY <2>1 DEF ExitProcess, TypeInv, RestOK
<1> QED BY <1>4, <1>5 DEF TypeInv, StoreOK, LocksOK, UserOK, SwitchOK, SweepOK, RestOK,
           ExitProcess, Fades, Fault

LEMMA DoesNotice ==
    ASSUME TypeInv, NEW b \in Bindings, NoticeCrash(b)
    PROVE  TypeInv' /\ Fades(reg, reg')
<1>1. reg \in RegRec /\ reg.att[b].st # "none"
  BY DEF TypeInv, StoreOK, NoticeCrash, IsLive
<1>2. Fades(reg, reg')
  BY <1>1, FadesCrashed DEF NoticeCrash
<1> QED BY <1>2 DEF TypeInv, StoreOK, LocksOK, UserOK, SwitchOK, SweepOK, RestOK, NoticeCrash, Fades

LEMMA DoesShutdown ==
    ASSUME TypeInv, ShutdownAuthSource
    PROVE  TypeInv' /\ Fault
<1> DEFINE f == [p \in Processes |-> "gone"]
<1>1. reg \in RegRec
  BY DEF TypeInv, StoreOK
<1>2. f \in [Processes -> {"up", "crashed", "gone"}] /\ \A q \in Processes : f[q] = "up" => reg.proc[q] = "up"
  OBVIOUS
<1>3. reg' = [reg EXCEPT !.proc = f]
  BY DEF ShutdownAuthSource
<1> HIDE DEF f
<1>4. Fades(reg, reg') /\ reg'.att = reg.att /\ reg'.cur = reg.cur
  BY <1>1, <1>2, <1>3, FadesProcesses
<1>5. used' \in [attaches : Nat, turns : Nat, switches : 0 .. MaxSwitches, faults : Nat]
      /\ used'.switches = used.switches
  <2>1. used.faults + 1 \in Nat
    BY DEF TypeInv, RestOK
  <2> QED BY <2>1 DEF ShutdownAuthSource, TypeInv, RestOK
<1>6. auth' \in [rev : Nat, changing : BOOLEAN]
  BY DEF TypeInv, RestOK, ShutdownAuthSource
<1> QED BY <1>4, <1>5, <1>6 DEF TypeInv, StoreOK, LocksOK, UserOK, SwitchOK, SweepOK, RestOK,
           ShutdownAuthSource, Fades, Fault

LEMMA DoesRaise ==
    ASSUME TypeInv, RaiseRevision
    PROVE  TypeInv'
<1>1. auth' \in [rev : Nat, changing : BOOLEAN]
  BY DEF TypeInv, RestOK, RaiseRevision
<1> QED BY <1>1 DEF TypeInv, StoreOK, LocksOK, UserOK, SwitchOK, SweepOK, RestOK, RaiseRevision

-----------------------------------------------------------------------------
(* The locks serialise the materialisations, and the sweep has the gate to itself. *)

\* A step of u leaves what the others hold of the gate and the session lock, and has
\* what u needs where it goes.
Respects(u) ==
    /\ Others(u) /\ user[u].pc # "await"
    /\ gate'.writer = gate.writer
    /\ \A t \in Tasks \ {u} : t \in gate.readers => t \in gate'.readers
    /\ gate.writer => gate'.readers \subseteq gate.readers
    /\ user'[u].pc \in Inside => u \in gate'.readers
    /\ user'[u].pc \in Locked => lock' = u
    /\ \A v \in Users \ {u} : lock = v => lock' = v

LEMMA SerialUser ==
    ASSUME TypeInv, Serial, NEW u \in Users, Respects(u), sw'.pc = sw.pc, sw'.by = sw.by,
           sweep'.pc = sweep.pc, sweep'.listed \subseteq sweep.listed
    PROVE  Serial'
<1>1. ASSUME NEW v \in Users
      PROVE  /\ user'[v].pc \in Inside => v \in gate'.readers
             /\ user'[v].pc \in Locked => lock' = v
  <2>1. CASE v = u
    BY <2>1 DEF Respects
  <2>2. CASE v # u
    <3>1. user'[v] = user[v] /\ v \in Tasks \ {u} /\ v \in Users \ {u}
      BY <2>2 DEF Respects, Others, Tasks
    <3> QED BY <3>1 DEF Respects, Serial
  <2> QED BY <2>1, <2>2
<1>2. sw'.pc \in {"placeProcess", "placeTarget"} => "switch" \in gate'.readers
  <2>1. "switch" \in Tasks \ {u}
    BY DEF Tasks, Users
  <2> QED BY <2>1 DEF Respects, Serial
<1>3. sw'.by # NoOne => user'[sw'.by].pc = "await"
  <2> SUFFICES ASSUME sw.by # NoOne PROVE user'[sw.by].pc = "await"
    OBVIOUS
  <2>1. sw.by \in Users /\ user[sw.by].pc = "await"
    BY DEF TypeInv, SwitchOK, SwitchRec, Serial
  <2>2. user'[sw.by] = user[sw.by]
    BY <2>1 DEF Respects, Others
  <2> QED BY <2>1, <2>2
<1>4. gate'.writer => gate'.readers = {}
  BY DEF Serial, Respects
<1> QED BY <1>1, <1>2, <1>3, <1>4 DEF Serial, Respects

\* A step of the switch bridge.
LEMMA SerialSwitch ==
    ASSUME TypeInv, Serial, UNCHANGED <<user, lock>>,
           gate'.writer = gate.writer, gate.writer => gate'.readers \subseteq gate.readers,
           \A t \in Users : t \in gate.readers => t \in gate'.readers,
           sw'.pc \in {"placeProcess", "placeTarget"} => "switch" \in gate'.readers,
           sw'.by = sw.by,
           sweep'.pc = sweep.pc, sweep'.listed \subseteq sweep.listed
    PROVE  Serial'
  BY DEF Serial

LEMMA SwitchPlacesNamed ==
    /\ {"probe", "close", "reprobe", "closeToPrepare", "prepareIdle", "spawn",
        "protectProcess", "placeProcess", "generation", "create", "protectTarget",
        "placeTarget", "insert", "closeToCommit", "commitIdle", "revalidate", "commit",
        "fail", "cleanup", "reopen"} \subseteq PreCommit
    /\ {"switchProcess", "switchTarget"} \subseteq LeaseHolders /\ "dispatch" \in Users
  BY DEF PreCommit, PreCreate, LeaseHolders, Users

LEMMA SerialEnd ==
    ASSUME TypeInv, Serial, Finishes, lock' = lock,
           sweep'.pc = sweep.pc, sweep'.listed \subseteq sweep.listed
    PROVE  Serial'
<1>1. ASSUME NEW u \in Users
      PROVE  /\ user'[u].pc \in Inside => u \in gate'.readers
             /\ user'[u].pc \in Locked => lock' = u
  <2>1. CASE u # sw.by
    BY <2>1 DEF Finishes, Serial
  <2>2. CASE u = sw.by
    <3>1. sw.by # NoOne
      BY <2>2 DEF Users, NoOne
    <3>2. user'[u].pc \in {"idle", "gate"}
      BY <2>2, <3>1 DEF Finishes
    <3> QED BY <3>2, UserPlaces
  <2> QED BY <2>1, <2>2
<1>2. sw'.pc = "idle" /\ sw'.by = NoOne
  BY DEF Finishes
<1> QED BY <1>1, <1>2 DEF Finishes, Serial

LEMMA SerialStep ==
    ASSUME BaseInv, Next
    PROVE  Serial'
<1> USE DEF BaseInv
<1>0. TypeInv /\ Serial /\ RegShape(reg)
  BY DEF Shape
<1>1. ASSUME NEW u \in Users, RequestRuntime(u) PROVE Serial'
  <2>1. Respects(u)
    BY <1>0, <1>1, DoesRequest, UserPlaces DEF Serial, Respects, Leaves, RequestRuntime, AtUser
  <2>2. sw' = sw /\ sweep'.pc = sweep.pc /\ sweep'.listed \subseteq sweep.listed
    BY <1>0, <1>1, DoesRequest DEF RequestRuntime
  <2> QED BY <1>0, <2>1, <2>2, SerialUser
<1>2. ASSUME NEW u \in Users, EnterGate(u) PROVE Serial'
  <2>1. /\ TypeInv' /\ Others(u) /\ user'[u].pc = "lock" /\ ~gate.writer /\ ~gate'.writer
        /\ gate'.readers = gate.readers \cup {u}
    BY <1>0, <1>2, DoesEnterGate
  <2>2. user[u].pc = "gate" /\ UNCHANGED <<lock, sw, sweep>>
    BY <1>2 DEF EnterGate, AtUser
  <2>3. gate'.writer = gate.writer
    <3>1. gate.writer \in BOOLEAN /\ gate'.writer \in BOOLEAN
      BY <1>0, <2>1 DEF TypeInv, LocksOK, GateRec
    <3> QED BY <2>1, <3>1
  <2>4. Respects(u)
    BY <2>1, <2>2, <2>3, UserPlaces DEF Respects
  <2> QED BY <1>0, <2>2, <2>4, SerialUser
<1>3. ASSUME NEW u \in Users, Look(u) PROVE Serial'
  <2>1. /\ Others(u) /\ lock' = u /\ lock = NoOne /\ user'[u].pc \in {"read", "touch"}
        /\ sweep'.pc = sweep.pc /\ sweep'.listed \subseteq sweep.listed
    BY <1>0, <1>3, DoesLook
  <2>2. user[u].pc = "lock" /\ UNCHANGED <<gate, sw>>
    BY <1>3 DEF Look, AtUser
  <2>3. u \in gate.readers /\ \A v \in Users \ {u} : lock # v
    BY <1>0, <2>1, <2>2, UserPlaces DEF Serial, Users, NoOne
  <2>4. Respects(u)
    BY <2>1, <2>2, <2>3, UserPlaces DEF Respects
  <2> QED BY <1>0, <2>1, <2>2, <2>4, SerialUser
<1>4. ASSUME NEW u \in Users, ReadDurable(u) PROVE Serial'
  <2>1. Respects(u)
    BY <1>0, <1>4, DoesReadDurable, UserPlaces DEF Serial, Respects, Leaves, ReadDurable, AtUser
  <2>2. sw' = sw /\ sweep'.pc = sweep.pc /\ sweep'.listed \subseteq sweep.listed
    BY <1>0, <1>4, DoesReadDurable DEF ReadDurable
  <2> QED BY <1>0, <2>1, <2>2, SerialUser
<1>5. ASSUME NEW u \in Users, TakeExisting(u) PROVE Serial'
  <2>1. Respects(u)
    BY <1>0, <1>5, DoesTakeExisting, UserPlaces DEF Serial, Respects, Leaves, TakeExisting, AtUser
  <2>2. sw' = sw /\ sweep'.pc = sweep.pc /\ sweep'.listed \subseteq sweep.listed
    BY <1>0, <1>5, DoesTakeExisting DEF TakeExisting
  <2> QED BY <1>0, <2>1, <2>2, SerialUser
<1>6. ASSUME NEW u \in Users, CheckRevision(u) PROVE Serial'
  <2>1. Respects(u)
    BY <1>0, <1>6, DoesCheckRevision, UserPlaces DEF Serial, Respects, Leaves, CheckRevision, AtUser
  <2>2. sw' = sw /\ sweep'.pc = sweep.pc /\ sweep'.listed \subseteq sweep.listed
    BY <1>0, <1>6, DoesCheckRevision DEF CheckRevision
  <2> QED BY <1>0, <2>1, <2>2, SerialUser
<1>7. ASSUME NEW u \in Users, Spawn(u) PROVE Serial'
  <2>1. Respects(u)
    BY <1>0, <1>7, DoesSpawn, UserPlaces DEF Serial, Respects, Leaves, Spawn, AtUser
  <2>2. sw' = sw /\ sweep'.pc = sweep.pc /\ sweep'.listed \subseteq sweep.listed
    BY <1>0, <1>7, DoesSpawn DEF Spawn
  <2> QED BY <1>0, <2>1, <2>2, SerialUser
<1>8. ASSUME NEW u \in Users, OpenSession(u) PROVE Serial'
  <2>1. Respects(u)
    BY <1>0, <1>8, DoesOpenSession, UserPlaces DEF Serial, Respects, Leaves, OpenSession, AtUser
  <2>2. sw' = sw /\ sweep'.pc = sweep.pc /\ sweep'.listed \subseteq sweep.listed
    BY <1>0, <1>8, DoesOpenSession DEF OpenSession
  <2> QED BY <1>0, <2>1, <2>2, SerialUser
<1>9. ASSUME NEW u \in Users, AdvanceGeneration(u) PROVE Serial'
  <2>1. Respects(u)
    BY <1>0, <1>9, DoesAdvance, UserPlaces DEF Serial, Respects, Leaves, AdvanceGeneration, AtUser
  <2>2. sw' = sw /\ sweep'.pc = sweep.pc /\ sweep'.listed \subseteq sweep.listed
    BY <1>0, <1>9, DoesAdvance DEF AdvanceGeneration
  <2> QED BY <1>0, <2>1, <2>2, SerialUser
<1>10. ASSUME NEW u \in Users, ReadPromptGate(u) PROVE Serial'
  <2>1. Respects(u)
    BY <1>0, <1>10, DoesReadPromptGate, UserPlaces DEF Serial, Respects, Leaves, ReadPromptGate, AtUser
  <2>2. sw' = sw /\ sweep'.pc = sweep.pc /\ sweep'.listed \subseteq sweep.listed
    BY <1>0, <1>10, DoesReadPromptGate DEF ReadPromptGate
  <2> QED BY <1>0, <2>1, <2>2, SerialUser
<1>11. ASSUME NEW u \in Users, Activate(u) PROVE Serial'
  <2>1. Respects(u)
    BY <1>0, <1>11, DoesActivate, UserPlaces DEF Serial, Respects, Leaves, Activate, AtUser
  <2>2. sw' = sw /\ sweep'.pc = sweep.pc /\ sweep'.listed \subseteq sweep.listed
    BY <1>0, <1>11, DoesActivate DEF Activate
  <2> QED BY <1>0, <2>1, <2>2, SerialUser
<1>12. ASSUME NEW u \in Users, Touch(u) PROVE Serial'
  <2>1. Respects(u)
    BY <1>0, <1>12, DoesTouch, UserPlaces DEF Serial, Respects, Leaves, Touch, AtUser
  <2>2. sw' = sw /\ sweep'.pc = sweep.pc /\ sweep'.listed \subseteq sweep.listed
    BY <1>0, <1>12, DoesTouch DEF Touch
  <2> QED BY <1>0, <2>1, <2>2, SerialUser
<1>13. ASSUME NEW u \in Users, TakeLease(u) PROVE Serial'
  <2>1. Respects(u)
    BY <1>0, <1>13, DoesTakeLease, UserPlaces DEF Serial, Respects, Leaves, TakeLease, AtUser
  <2>2. sw' = sw /\ sweep'.pc = sweep.pc /\ sweep'.listed \subseteq sweep.listed
    BY <1>0, <1>13, DoesTakeLease DEF TakeLease
  <2> QED BY <1>0, <2>1, <2>2, SerialUser
<1>14. ASSUME NEW u \in Users, Refresh(u) PROVE Serial'
  <2>1. user[u].pc = "refresh" /\ UNCHANGED <<lock, sweep>>
    BY <1>14 DEF Refresh, AtUser
  <2>2. /\ Others(u) /\ user'[u].pc \in {"gate", "await", "idle"}
        /\ gate'.readers = gate.readers /\ gate'.writer = gate.writer
        /\ UNCHANGED sw \/ (sw.pc = "idle" /\ sw'.pc = "probe" /\ sw'.by = u /\ user'[u].pc = "await")
    BY <1>0, <1>14, DoesRefresh DEF Starts
  <2>3. Respects(u)
    BY <2>1, <2>2, UserPlaces DEF Respects
  <2>4. CASE UNCHANGED sw
    BY <1>0, <2>1, <2>3, <2>4, SerialUser
  <2>5. CASE sw.pc = "idle" /\ sw'.pc = "probe" /\ sw'.by = u /\ user'[u].pc = "await"
    <3>1. ASSUME NEW v \in Users
          PROVE  /\ user'[v].pc \in Inside => v \in gate'.readers
                 /\ user'[v].pc \in Locked => lock' = v
      BY <1>0, <2>1, <2>2, <2>5, UserPlaces DEF Others, Serial
    <3> QED BY <1>0, <2>1, <2>2, <2>5, <3>1 DEF Serial
  <2> QED BY <2>2, <2>4, <2>5
<1>15. CASE DetachClient
  BY <1>0, <1>15, DoesDetachClient DEF Serial, DetachClient, AtSwitch, SwitchCarries, SwitchGoes, Starts
<1>16. CASE UserSwitches
  BY <1>0, <1>16, DoesUserSwitch DEF Serial, UserSwitches, AtSwitch, SwitchCarries, SwitchGoes, Starts
<1>17. CASE WaitIdle("probe", "close")
  <2>1. "probe" \in PreCommit /\ "close" \in PreCommit
    BY SwitchPlacesNamed
  <2>2. SwitchGoes("probe") \/ SwitchGoes("close")
    BY <1>0, <1>17, <2>1, DoesWaitIdle
  <2> QED BY <1>0, <1>17, <2>2, SerialSwitch DEF WaitIdle, SwitchGoes, SwitchCarries, Users, AtSwitch
<1>18. CASE ClosePrompts("close", "reprobe")
  <2>1. "close" \in PreCommit /\ "reprobe" \in PreCommit
    BY SwitchPlacesNamed
  <2>2. SwitchGoes("reprobe")
    BY <1>0, <1>18, <2>1, DoesClosePrompts
  <2> QED BY <1>0, <1>18, <2>2, SerialSwitch DEF ClosePrompts, SwitchGoes, SwitchCarries, Users, AtSwitch
<1>19. CASE Reprobe
  BY <1>0, <1>19, DoesReprobe DEF Serial, Reprobe, AtSwitch, SwitchCarries, SwitchGoes, Starts
<1>20. CASE ClosePrompts("closeToPrepare", "prepareIdle")
  <2>1. "closeToPrepare" \in PreCommit /\ "prepareIdle" \in PreCommit
    BY SwitchPlacesNamed
  <2>2. SwitchGoes("prepareIdle")
    BY <1>0, <1>20, <2>1, DoesClosePrompts
  <2> QED BY <1>0, <1>20, <2>2, SerialSwitch DEF ClosePrompts, SwitchGoes, SwitchCarries, Users, AtSwitch
<1>21. CASE WaitIdle("prepareIdle", "spawn")
  <2>1. "prepareIdle" \in PreCommit /\ "spawn" \in PreCommit
    BY SwitchPlacesNamed
  <2>2. SwitchGoes("prepareIdle") \/ SwitchGoes("spawn")
    BY <1>0, <1>21, <2>1, DoesWaitIdle
  <2> QED BY <1>0, <1>21, <2>2, SerialSwitch DEF WaitIdle, SwitchGoes, SwitchCarries, Users, AtSwitch
<1>22. CASE SpawnTarget
  BY <1>0, <1>22, DoesSpawnTarget DEF Serial, SpawnTarget, AtSwitch, SwitchCarries, SwitchGoes, Starts
<1>23. CASE Protect("protectProcess", "placeProcess")
  <2>1. "protectProcess" \in PreCommit /\ "placeProcess" \in PreCommit
    BY SwitchPlacesNamed
  <2>2. /\ sw'.pc = "placeProcess" /\ SwitchCarries
        /\ gate'.readers = gate.readers \cup {"switch"} /\ ~gate.writer /\ ~gate'.writer
    BY <1>0, <1>23, <2>1, DoesProtect
  <2>3. gate'.writer = gate.writer
    <3>1. TypeInv'
      BY <1>0, <1>23, <2>1, DoesProtect
    <3>2. gate.writer \in BOOLEAN /\ gate'.writer \in BOOLEAN
      BY <1>0, <3>1 DEF TypeInv, LocksOK, GateRec
    <3> QED BY <2>2, <3>2
  <2>4. UNCHANGED <<user, lock, sweep>>
    BY <1>23 DEF Protect
  <2> QED BY <1>0, <2>2, <2>3, <2>4, SerialSwitch DEF SwitchCarries
<1>24. CASE PlaceLease("placeProcess", "switchProcess", "generation")
  <2>1. "placeProcess" \in PreCommit /\ "generation" \in PreCommit /\ "switchProcess" \in LeaseHolders
    BY SwitchPlacesNamed
  <2>2. /\ sw'.pc \in {"generation", "fail"} /\ SwitchCarries
        /\ gate'.readers = gate.readers \ {"switch"} /\ gate'.writer = gate.writer
    BY <1>0, <1>24, <2>1, DoesPlaceLease
  <2> QED BY <1>0, <1>24, <2>2, SerialSwitch DEF PlaceLease, SwitchGoes, SwitchCarries, Users, AtSwitch
<1>25. CASE ReadGeneration
  BY <1>0, <1>25, DoesReadGeneration DEF Serial, ReadGeneration, AtSwitch, SwitchCarries, SwitchGoes, Starts
<1>26. CASE CreateSession
  BY <1>0, <1>26, DoesCreateSession DEF Serial, CreateSession, AtSwitch, SwitchCarries, SwitchGoes, Starts
<1>27. CASE Protect("protectTarget", "placeTarget")
  <2>1. "protectTarget" \in PreCommit /\ "placeTarget" \in PreCommit
    BY SwitchPlacesNamed
  <2>2. /\ sw'.pc = "placeTarget" /\ SwitchCarries
        /\ gate'.readers = gate.readers \cup {"switch"} /\ ~gate.writer /\ ~gate'.writer
    BY <1>0, <1>27, <2>1, DoesProtect
  <2>3. gate'.writer = gate.writer
    <3>1. TypeInv'
      BY <1>0, <1>27, <2>1, DoesProtect
    <3>2. gate.writer \in BOOLEAN /\ gate'.writer \in BOOLEAN
      BY <1>0, <3>1 DEF TypeInv, LocksOK, GateRec
    <3> QED BY <2>2, <3>2
  <2>4. UNCHANGED <<user, lock, sweep>>
    BY <1>27 DEF Protect
  <2> QED BY <1>0, <2>2, <2>3, <2>4, SerialSwitch DEF SwitchCarries
<1>28. CASE PlaceLease("placeTarget", "switchTarget", "insert")
  <2>1. "placeTarget" \in PreCommit /\ "insert" \in PreCommit /\ "switchTarget" \in LeaseHolders
    BY SwitchPlacesNamed
  <2>2. /\ sw'.pc \in {"insert", "fail"} /\ SwitchCarries
        /\ gate'.readers = gate.readers \ {"switch"} /\ gate'.writer = gate.writer
    BY <1>0, <1>28, <2>1, DoesPlaceLease
  <2> QED BY <1>0, <1>28, <2>2, SerialSwitch DEF PlaceLease, SwitchGoes, SwitchCarries, Users, AtSwitch
<1>29. CASE InsertBinding
  BY <1>0, <1>29, DoesInsertBinding DEF Serial, InsertBinding, AtSwitch, SwitchCarries, SwitchGoes, Starts
<1>30. CASE ClosePrompts("closeToCommit", "commitIdle")
  <2>1. "closeToCommit" \in PreCommit /\ "commitIdle" \in PreCommit
    BY SwitchPlacesNamed
  <2>2. SwitchGoes("commitIdle")
    BY <1>0, <1>30, <2>1, DoesClosePrompts
  <2> QED BY <1>0, <1>30, <2>2, SerialSwitch DEF ClosePrompts, SwitchGoes, SwitchCarries, Users, AtSwitch
<1>31. CASE WaitIdle("commitIdle", "revalidate")
  <2>1. "commitIdle" \in PreCommit /\ "revalidate" \in PreCommit
    BY SwitchPlacesNamed
  <2>2. SwitchGoes("commitIdle") \/ SwitchGoes("revalidate")
    BY <1>0, <1>31, <2>1, DoesWaitIdle
  <2> QED BY <1>0, <1>31, <2>2, SerialSwitch DEF WaitIdle, SwitchGoes, SwitchCarries, Users, AtSwitch
<1>32. CASE Revalidate
  BY <1>0, <1>32, DoesRevalidate DEF Serial, Revalidate, AtSwitch, SwitchCarries, SwitchGoes, Starts
<1>33. CASE Commit
  BY <1>0, <1>33, DoesCommit DEF Serial, Commit, AtSwitch, SwitchCarries, SwitchGoes, Starts
<1>34. CASE ActivationFails
  <2>1. Finishes /\ lock' = lock /\ sweep'.pc = sweep.pc /\ sweep'.listed \subseteq sweep.listed
    BY <1>0, <1>34, DoesActivationFail DEF ActivationFails, Reopens
  <2> QED BY <1>0, <2>1, SerialEnd
<1>35. CASE ReadGateForTarget
  BY <1>0, <1>35, DoesReadGate DEF Serial, ReadGateForTarget, AtSwitch, SwitchCarries, SwitchGoes, Starts
<1>36. CASE ActivateTarget
  BY <1>0, <1>36, DoesActivateTarget DEF Serial, ActivateTarget, AtSwitch, SwitchCarries, SwitchGoes, Starts
<1>37. CASE OpenPrompts
  <2>1. Finishes /\ lock' = lock /\ sweep'.pc = sweep.pc /\ sweep'.listed \subseteq sweep.listed
    BY <1>0, <1>37, DoesReopen DEF OpenPrompts, Reopens
  <2> QED BY <1>0, <2>1, SerialEnd
<1>38. CASE FailSwitch
  BY <1>0, <1>38, DoesFailSwitch DEF Serial, FailSwitch, AtSwitch, SwitchCarries, SwitchGoes, Starts
<1>39. CASE CleanupTarget
  BY <1>0, <1>39, DoesCleanup DEF Serial, CleanupTarget, AtSwitch, SwitchCarries, SwitchGoes, Starts
<1>40. CASE ReopenPrompts
  <2>1. Finishes /\ lock' = lock /\ sweep'.pc = sweep.pc /\ sweep'.listed \subseteq sweep.listed
    BY <1>0, <1>40, DoesReopen DEF ReopenPrompts, Reopens
  <2> QED BY <1>0, <2>1, SerialEnd
<1>41. CASE AdmitTurn
  <2>1. Respects("dispatch") /\ "dispatch" \in Users
    BY <1>0, <1>41, DoesAdmitTurn, UserPlaces, SwitchPlacesNamed DEF Respects, Stops, AdmitTurn, AtUser
  <2>2. sw' = sw /\ sweep'.pc = sweep.pc /\ sweep'.listed \subseteq sweep.listed
    BY <1>0, <1>41, DoesAdmitTurn DEF AdmitTurn
  <2> QED BY <1>0, <2>1, <2>2, SerialUser
<1>42. CASE SendTurn
  <2>1. Respects("dispatch") /\ "dispatch" \in Users
    BY <1>0, <1>42, DoesSendTurn, UserPlaces, SwitchPlacesNamed DEF Respects, Stops, SendTurn, AtUser
  <2>2. sw' = sw /\ sweep'.pc = sweep.pc /\ sweep'.listed \subseteq sweep.listed
    BY <1>0, <1>42, DoesSendTurn DEF SendTurn
  <2> QED BY <1>0, <2>1, <2>2, SerialUser
<1>43. CASE AcquirePrompt
  <2>1. Respects("dispatch") /\ "dispatch" \in Users
    BY <1>0, <1>43, DoesAcquirePrompt, UserPlaces, SwitchPlacesNamed DEF Respects, Stops, AcquirePrompt, AtUser
  <2>2. sw' = sw /\ sweep'.pc = sweep.pc /\ sweep'.listed \subseteq sweep.listed
    BY <1>0, <1>43, DoesAcquirePrompt DEF AcquirePrompt
  <2> QED BY <1>0, <2>1, <2>2, SerialUser
<1>44. CASE BeginTurn
  <2>1. Respects("dispatch") /\ "dispatch" \in Users
    BY <1>0, <1>44, DoesBeginTurn, UserPlaces, SwitchPlacesNamed DEF Respects, Stops, BeginTurn, AtUser
  <2>2. sw' = sw /\ sweep'.pc = sweep.pc /\ sweep'.listed \subseteq sweep.listed
    BY <1>0, <1>44, DoesBeginTurn DEF BeginTurn
  <2> QED BY <1>0, <2>1, <2>2, SerialUser
<1>45. CASE EndTurn
  <2>1. Respects("dispatch") /\ "dispatch" \in Users
    BY <1>0, <1>45, DoesEndTurn, UserPlaces, SwitchPlacesNamed DEF Respects, Stops, EndTurn, AtUser
  <2>2. sw' = sw /\ sweep'.pc = sweep.pc /\ sweep'.listed \subseteq sweep.listed
    BY <1>0, <1>45, DoesEndTurn DEF EndTurn
  <2> QED BY <1>0, <2>1, <2>2, SerialUser
<1>46. CASE Tick
  BY <1>0, <1>46, DoesTick DEF Serial, Tick, AtSwitch, SwitchCarries, SwitchGoes, Starts
<1>47. CASE StartSweep
  BY <1>0, <1>47, DoesStartSweep DEF Serial, StartSweep, AtSwitch, SwitchCarries, SwitchGoes, Starts
<1>48. CASE DetachSwept
  BY <1>0, <1>48, DoesDetachSwept DEF Serial, DetachSwept, AtSwitch, SwitchCarries, SwitchGoes, Starts
<1>49. CASE EndSweep
  BY <1>0, <1>49, DoesEndSweep DEF Serial, EndSweep, AtSwitch, SwitchCarries, SwitchGoes, Starts
<1>50. CASE ShutdownAuthSource
  BY <1>0, <1>50, DoesShutdown DEF Serial, ShutdownAuthSource, AtSwitch, SwitchCarries, SwitchGoes, Starts
<1>51. CASE RaiseRevision
  BY <1>0, <1>51, DoesRaise DEF Serial, RaiseRevision, AtSwitch, SwitchCarries, SwitchGoes, Starts
<1>52. ASSUME NEW b \in Bindings, ClaimClose(b) PROVE Serial'
  BY <1>0, <1>52, DoesClaimClose DEF Serial, ClaimClose
<1>53. ASSUME NEW p \in Processes, ExitProcess(p) PROVE Serial'
  BY <1>0, <1>53, DoesExit DEF Serial, ExitProcess
<1>54. ASSUME NEW b \in Bindings, NoticeCrash(b) PROVE Serial'
  BY <1>0, <1>54, DoesNotice DEF Serial, NoticeCrash
<1> QED BY <1>1, <1>2, <1>3, <1>4, <1>5, <1>6, <1>7, <1>8, <1>9, <1>10, <1>11, <1>12, <1>13, <1>14, <1>15, <1>16, <1>17, <1>18, <1>19, <1>20, <1>21, <1>22, <1>23, <1>24, <1>25, <1>26, <1>27, <1>28, <1>29, <1>30, <1>31, <1>32, <1>33, <1>34, <1>35, <1>36, <1>37, <1>38, <1>39, <1>40, <1>41, <1>42, <1>43, <1>44, <1>45, <1>46, <1>47, <1>48, <1>49, <1>50, <1>51, <1>52, <1>53, <1>54
       DEF Next, Materialise, DriveSwitch, Turn, Sweep

-----------------------------------------------------------------------------
(* The registries and the bindings the tasks work on. *)

\* The attachment of c is still the one that was there, or gone; it is not activated.
Stem(c) ==
    /\ reg'.att[c].st # "none" => reg.att[c].st # "none" /\ reg'.att[c].p = reg.att[c].p
    /\ reg'.att[c].st \in {"Committed", "Inactive"} => reg.att[c].st \in {"Committed", "Inactive"}

LEMMA FadesStem ==
    ASSUME Fades(reg, reg'), NEW c \in Bindings
    PROVE  Stem(c)
  BY DEF Fades, Stem, Same

RebuildingOf(u) ==
    /\ user[u].pc \in {"revision", "spawn", "open"} => reg.att[user[u].b].st = "none"
    /\ user[u].pc = "open" =>
         /\ user[u].p # NoProcess /\ user[u].p # sw.p
         /\ \A b \in Bindings : reg.att[b].p # user[u].p

\* The sweeper's list takes in no target of a switch.
ListStays ==
    \A b \in sweep'.listed : b \in sweep.listed \/ reg.att[b].st \in {"Committed", "Inactive"}

\* A step of u that works on the binding of u, or on nothing.
WorksOnOwn(u) ==
    /\ Others(u) /\ sw' = sw /\ db'.cur = db.cur /\ used'.switches = used.switches
    /\ sweep'.listed \subseteq sweep.listed
    /\ \A c \in Bindings : Stem(c) \/ (c = user[u].b /\ user[u].pc \in Locked)
    /\ user'[u].b \in {user[u].b, NoBinding, db.cur, reg.cur}
    /\ RebuildingOf(u)'

LEMMA ShapeUser ==
    ASSUME TypeInv, TypeInv', Serial, Shape, NEW u \in Users, WorksOnOwn(u), RegShape(reg')
    PROVE  Shape'
<1>1. /\ Others(u) /\ sw' = sw /\ db'.cur = db.cur /\ used'.switches = used.switches
      /\ sweep'.listed \subseteq sweep.listed
      /\ user'[u].b \in {user[u].b, NoBinding, db.cur, reg.cur}
      /\ RebuildingOf(u)'
  BY DEF WorksOnOwn
<1>2. \A c \in Bindings : Stem(c) \/ (c = user[u].b /\ user[u].pc \in Locked)
  BY DEF WorksOnOwn
<1>3. /\ RegShape(reg) /\ Bounded /\ TargetIsNew /\ TargetIsCurrent /\ Rebuilding
  BY DEF Shape
<1>4. reg.cur \in Bindings => reg.att[reg.cur].st = "Committed"
  BY <1>3 DEF RegShape
<1>5. reg.cur \in SomeBinding /\ used.switches \in Nat
  BY BoundsAssumption DEF TypeInv, StoreOK, RegRec, RestOK
<1>6. Bounded'
  <2>1. Known' = Known /\ Known \in Nat /\ 0 <= Known
    BY <1>1, <1>5 DEF Known
  <2>2. reg.cur <= Known
    BY <1>3, <1>4, <1>5, <2>1 DEF Bounded, SomeBinding, NoBinding
  <2>3. ASSUME NEW v \in Users PROVE user'[v].b <= Known
    <3>1. CASE v = u
      BY <1>1, <1>3, <2>1, <2>2, <3>1 DEF Bounded, NoBinding
    <3>2. CASE v # u
      BY <1>1, <1>3, <3>2 DEF Bounded, Others
    <3> QED BY <3>1, <3>2
  <2>4. ASSUME NEW b \in Bindings, reg'.att[b].st # "none" PROVE b <= Known
    BY <1>2, <1>3, <2>4 DEF Bounded, Stem
  <2> QED BY <1>1, <1>3, <2>1, <2>3, <2>4 DEF Bounded
<1>7. TargetIsNew'
  <2> SUFFICES ASSUME sw.pc \in PreCommit PROVE TargetIsNew'
    BY <1>1 DEF TargetIsNew
  <2>1. sw.b \in Bindings
    BY SwitchPlaces, SwitchNames DEF TypeInv
  <2>2. /\ sw.b # db.cur /\ sw.src = db.cur /\ sw.b \notin sweep.listed
        /\ \A v \in Users : user[v].b # sw.b
        /\ reg.att[sw.b].st \notin {"Committed", "Inactive"}
        /\ reg.att[sw.b].st # "none" => reg.att[sw.b].p = sw.p
        /\ sw.pc \in PreCreate => reg.att[sw.b].st = "none"
    BY <1>3 DEF TargetIsNew
  <2>3. Stem(sw.b)
    BY <1>2, <2>1, <2>2
  <2>4. sw.b # reg.cur /\ sw.b # NoBinding
    BY <1>4, <2>1, <2>2, Numbers
  <2>5. ASSUME NEW v \in Users PROVE user'[v].b # sw.b
    BY <1>1, <2>2, <2>4 DEF Others
  <2> QED BY <1>1, <2>2, <2>3, <2>5 DEF TargetIsNew, Stem
<1>8. TargetIsCurrent'
  BY <1>1, <1>3 DEF TargetIsCurrent
<1>9. Rebuilding'
  <2>1. ASSUME NEW v \in Users PROVE RebuildingOf(v)'
    <3>1. CASE v = u
      BY <1>1, <3>1
    <3>2. CASE v # u
      <4> SUFFICES ASSUME user[v].pc \in {"revision", "spawn", "open"} PROVE RebuildingOf(v)'
        BY <1>1, <3>2 DEF Others, RebuildingOf
      <4>1. user'[v] = user[v] /\ user[v].pc \in Locked /\ user[v].pc \in Bound
        BY <1>1, <3>2, UserPlaces DEF Others
      <4>2. user[u].pc \notin Locked /\ user[v].b \in Bindings
        BY <3>2, <4>1, UserNames DEF Serial, TypeInv
      <4>3. ASSUME NEW c \in Bindings PROVE Stem(c)
        BY <1>2, <4>2
      <4>4. /\ reg.att[user[v].b].st = "none"
            /\ user[v].pc = "open" =>
                 /\ user[v].p # NoProcess /\ user[v].p # sw.p
                 /\ \A b \in Bindings : reg.att[b].p # user[v].p
        BY <1>3 DEF Rebuilding
      <4>5. reg'.att[user[v].b].st = "none"
        BY <4>2, <4>3, <4>4 DEF Stem
      <4>6. ASSUME NEW b \in Bindings, user[v].pc = "open" PROVE reg'.att[b].p # user[v].p
        <5>1. CASE reg'.att[b].st = "none"
          BY <4>4, <4>6, <5>1 DEF RegShape
        <5>2. CASE reg'.att[b].st # "none"
          BY <4>3, <4>4, <4>6, <5>2 DEF Stem
        <5> QED BY <5>1, <5>2
      <4> QED BY <1>1, <4>1, <4>4, <4>5, <4>6 DEF RebuildingOf
    <3> QED BY <3>1, <3>2
  <2> QED BY <2>1 DEF Rebuilding, RebuildingOf
<1> QED BY <1>6, <1>7, <1>8, <1>9 DEF Shape

\* A step of the switch that works on its target, or of the sweeper or a process.
WorksOnTarget ==
    /\ user' = user /\ db'.cur = db.cur /\ used'.switches = used.switches /\ ListStays
    /\ \A c \in Bindings : Stem(c) \/ (c = sw.b /\ sw.pc \in PreCommit)
    /\ sw'.b \in {sw.b, NoBinding}
    /\ sw'.pc \in PreCommit =>
         /\ sw.pc \in PreCommit /\ sw'.b = sw.b /\ sw'.src = sw.src
         /\ reg'.att[sw.b].st \notin {"Committed", "Inactive"}
         /\ reg'.att[sw.b].st # "none" => reg'.att[sw.b].p = sw'.p
         /\ sw'.pc \in PreCreate => reg'.att[sw.b].st = "none"
    /\ sw'.pc \in PostCommit => sw.pc \in PostCommit /\ sw'.b = sw.b
    /\ \A v \in Users : user[v].pc = "open" =>
         user[v].p # sw'.p /\ (sw.b \in Bindings => reg'.att[sw.b].p # user[v].p)

LEMMA ShapeSwitch ==
    ASSUME TypeInv, TypeInv', Serial, Shape, WorksOnTarget, RegShape(reg')
    PROVE  Shape'
<1>1. /\ user' = user /\ db'.cur = db.cur /\ used'.switches = used.switches /\ ListStays
      /\ sw'.b \in {sw.b, NoBinding}
      /\ sw'.pc \in PreCommit =>
           /\ sw.pc \in PreCommit /\ sw'.b = sw.b /\ sw'.src = sw.src
           /\ reg'.att[sw.b].st \notin {"Committed", "Inactive"}
           /\ reg'.att[sw.b].st # "none" => reg'.att[sw.b].p = sw'.p
           /\ sw'.pc \in PreCreate => reg'.att[sw.b].st = "none"
      /\ sw'.pc \in PostCommit => sw.pc \in PostCommit /\ sw'.b = sw.b
      /\ \A v \in Users : user[v].pc = "open" =>
           user[v].p # sw'.p /\ (sw.b \in Bindings => reg'.att[sw.b].p # user[v].p)
  BY DEF WorksOnTarget
<1>2. \A c \in Bindings : Stem(c) \/ (c = sw.b /\ sw.pc \in PreCommit)
  BY DEF WorksOnTarget
<1>3. /\ RegShape(reg) /\ Bounded /\ TargetIsNew /\ TargetIsCurrent /\ Rebuilding
  BY DEF Shape
<1>5. used.switches \in Nat /\ sweep'.listed \subseteq Bindings
  BY BoundsAssumption DEF TypeInv, RestOK, SweepOK, SweepRec
<1>6. Bounded'
  <2>1. Known' = Known /\ Known \in Nat /\ 0 <= Known
    BY <1>1, <1>5 DEF Known
  <2>2. sw'.b <= Known
    BY <1>1, <1>3, <2>1 DEF Bounded, NoBinding
  <2>3. ASSUME NEW b \in sweep'.listed PROVE b <= Known
    BY <1>1, <1>3, <1>5 DEF Bounded, ListStays
  <2>4. ASSUME NEW b \in Bindings, reg'.att[b].st # "none" PROVE b <= Known
    BY <1>2, <1>3, <2>4 DEF Bounded, Stem
  <2> QED BY <1>1, <1>3, <2>1, <2>2, <2>3, <2>4 DEF Bounded
<1>7. TargetIsNew'
  <2> SUFFICES ASSUME sw'.pc \in PreCommit PROVE TargetIsNew'
    BY DEF TargetIsNew
  <2>1. sw.b \in Bindings
    BY <1>1, SwitchPlaces, SwitchNames DEF TypeInv
  <2>2. /\ sw.b # db.cur /\ sw.src = db.cur /\ sw.b \notin sweep.listed
        /\ \A v \in Users : user[v].b # sw.b
        /\ reg.att[sw.b].st \notin {"Committed", "Inactive"}
    BY <1>1, <1>3 DEF TargetIsNew
  <2>3. sw.b \notin sweep'.listed
    BY <1>1, <2>2 DEF ListStays
  <2> QED BY <1>1, <2>2, <2>3 DEF TargetIsNew
<1>8. TargetIsCurrent'
  BY <1>1, <1>3 DEF TargetIsCurrent
<1>9. Rebuilding'
  <2> SUFFICES ASSUME NEW v \in Users, user[v].pc \in {"revision", "spawn", "open"}
               PROVE  /\ reg'.att[user[v].b].st = "none"
                      /\ user[v].pc = "open" =>
                           /\ user[v].p # NoProcess /\ user[v].p # sw'.p
                           /\ \A b \in Bindings : reg'.att[b].p # user[v].p
    BY <1>1 DEF Rebuilding
  <2>2. user[v].b \in Bindings
    BY UserPlaces, UserNames DEF TypeInv
  <2>3. /\ reg.att[user[v].b].st = "none"
        /\ user[v].pc = "open" =>
             /\ user[v].p # NoProcess /\ user[v].p # sw.p
             /\ \A b \in Bindings : reg.att[b].p # user[v].p
    BY <1>3 DEF Rebuilding
  <2>4. Stem(user[v].b)
    BY <1>2, <1>3, <2>2 DEF TargetIsNew
  <2>5. reg'.att[user[v].b].st = "none"
    BY <2>3, <2>4 DEF Stem
  <2>6. ASSUME NEW b \in Bindings, user[v].pc = "open" PROVE reg'.att[b].p # user[v].p
    <3>1. CASE reg'.att[b].st = "none"
      BY <2>3, <2>6, <3>1 DEF RegShape
    <3>2. CASE reg'.att[b].st # "none" /\ Stem(b)
      BY <2>3, <2>6, <3>2 DEF Stem
    <3>3. CASE b = sw.b
      BY <1>1, <2>6, <3>3
    <3> QED BY <1>2, <3>1, <3>2, <3>3
  <2> QED BY <1>1, <2>3, <2>5, <2>6
<1> QED BY <1>6, <1>7, <1>8, <1>9 DEF Shape

\* A step of the sweeper or of a process.
LEMMA ShapeElsewhere ==
    ASSUME TypeInv, TypeInv', Serial, Shape, Fades(reg, reg'), ListStays,
           sw' = sw, user' = user, db'.cur = db.cur, used'.switches = used.switches
    PROVE  Shape'
<1>1. RegShape(reg) /\ TargetIsNew /\ Rebuilding
  BY DEF Shape
<1>2. RegShape(reg') /\ \A c \in Bindings : Stem(c)
  BY <1>1, FadesShape, FadesStem DEF TypeInv, StoreOK
<1>3. sw.pc \in PreCommit =>
         /\ reg'.att[sw.b].st \notin {"Committed", "Inactive"}
         /\ reg'.att[sw.b].st # "none" => reg'.att[sw.b].p = sw.p
         /\ sw.pc \in PreCreate => reg'.att[sw.b].st = "none"
  BY <1>1, <1>2, SwitchPlaces, SwitchNames DEF TargetIsNew, Stem, TypeInv
<1>4. \A v \in Users : user[v].pc = "open" =>
         user[v].p # sw.p /\ (sw.b \in Bindings => reg'.att[sw.b].p # user[v].p)
  BY <1>1, <1>2 DEF Rebuilding, Stem, RegShape
<1>5. WorksOnTarget
  BY <1>2, <1>3, <1>4 DEF WorksOnTarget
<1> QED BY <1>2, <1>5, ShapeSwitch

\* A step of the switch that takes at most something away.
LEMMA ShapeGoes ==
    ASSUME TypeInv, TypeInv', Serial, Shape, Fades(reg, reg'),
           sweep'.listed \subseteq sweep.listed, sw'.b = sw.b, sw'.src = sw.src, sw'.p = sw.p,
           sw.pc \in PreCommit, sw'.pc \in PreCommit, sw'.pc \in PreCreate => sw.pc \in PreCreate,
           user' = user, db'.cur = db.cur, used'.switches = used.switches
    PROVE  Shape'
<1>1. RegShape(reg) /\ TargetIsNew /\ Rebuilding
  BY DEF Shape
<1>2. RegShape(reg') /\ \A c \in Bindings : Stem(c)
  BY <1>1, FadesShape, FadesStem DEF TypeInv, StoreOK
<1>3. /\ reg'.att[sw.b].st \notin {"Committed", "Inactive"}
      /\ reg'.att[sw.b].st # "none" => reg'.att[sw.b].p = sw.p
      /\ sw.pc \in PreCreate => reg'.att[sw.b].st = "none"
  BY <1>1, <1>2, SwitchPlaces, SwitchNames DEF TargetIsNew, Stem, TypeInv
<1>4. \A v \in Users : user[v].pc = "open" =>
         user[v].p # sw.p /\ (sw.b \in Bindings => reg'.att[sw.b].p # user[v].p)
  BY <1>1, <1>2 DEF Rebuilding, Stem, RegShape
<1>5. sw'.pc \notin PostCommit
  BY SwitchPlaces
<1>6. WorksOnTarget
  BY <1>2, <1>3, <1>4, <1>5 DEF WorksOnTarget, ListStays
<1> QED BY <1>2, <1>6, ShapeSwitch

\* A step of a committed switch.
LEMMA ShapeAfter ==
    ASSUME TypeInv, TypeInv', Shape, RegShape(reg'),
           \A c \in Bindings :
              reg'.att[c].st # "none" => reg.att[c].st # "none" /\ reg'.att[c].p = reg.att[c].p,
           sweep'.listed \subseteq sweep.listed, sw'.b = sw.b, sw'.p = sw.p,
           sw.pc \in PostCommit, sw'.pc \in PostCommit,
           user' = user, db' = db, used' = used
    PROVE  Shape'
<1>1. /\ RegShape(reg) /\ Bounded /\ TargetIsNew /\ TargetIsCurrent /\ Rebuilding
  BY DEF Shape
<1>2. Bounded'
  BY <1>1 DEF Bounded, Known
<1>3. TargetIsNew' /\ TargetIsCurrent'
  BY <1>1, SwitchPlaces DEF TargetIsNew, TargetIsCurrent
<1>4. Rebuilding'
  <2> SUFFICES ASSUME NEW v \in Users, user[v].pc \in {"revision", "spawn", "open"}
               PROVE  /\ reg'.att[user[v].b].st = "none"
                      /\ user[v].pc = "open" =>
                           /\ user[v].p # NoProcess /\ user[v].p # sw'.p
                           /\ \A b \in Bindings : reg'.att[b].p # user[v].p
    BY DEF Rebuilding
  <2>1. user[v].b \in Bindings
    BY UserPlaces, UserNames DEF TypeInv
  <2>2. /\ reg.att[user[v].b].st = "none"
        /\ user[v].pc = "open" =>
             /\ user[v].p # NoProcess /\ user[v].p # sw.p
             /\ \A b \in Bindings : reg.att[b].p # user[v].p
    BY <1>1 DEF Rebuilding
  <2>3. ASSUME NEW b \in Bindings, user[v].pc = "open" PROVE reg'.att[b].p # user[v].p
    BY <2>2, <2>3 DEF RegShape
  <2> QED BY <2>1, <2>2, <2>3
<1> QED BY <1>2, <1>3, <1>4 DEF Shape

LEMMA ShapeRegistered ==
    ASSUME NEW r \in RegRec, RegShape(r), NEW b \in Bindings, NEW g \in Nat,
           NEW p \in Processes, r.cur # b
    PROVE  RegShape(Registered(r, b, g, p))
<1> DEFINE s == Registered(r, b, g, p)
<1>1. p \in SomeProcess /\ p # NoProcess
  BY Numbers DEF SomeProcess
<1>2. s.cur = r.cur /\ s.att[b].st = "Prepared" /\ s.att[b].p = p /\ s.att[b].turn = FALSE
  <2>1. /\ Registered(r, b, g, p).cur = r.cur
        /\ Registered(r, b, g, p).att[b].st = "Prepared"
        /\ Registered(r, b, g, p).att[b].p = p
    BY <1>1, RegisteredHere
  <2>2. ~Registered(r, b, g, p).att[b].turn /\ Registered(r, b, g, p) \in RegRec
    BY <1>1, RegRegistered
  <2>3. Registered(r, b, g, p).att[b].turn \in BOOLEAN
    BY <2>2, AttNames
  <2> QED BY <2>1, <2>2, <2>3
<1>3. ASSUME NEW c \in Bindings, c # b PROVE s.att[c] = r.att[c]
  BY <1>1, <1>3, RegisteredElsewhere
<1> HIDE DEF s
<1>4. RegShape(s)
  BY <1>1, <1>2, <1>3 DEF RegShape
<1> QED BY <1>4 DEF s

LEMMA ShapeActivated ==
    ASSUME NEW r \in RegRec, RegShape(r), NEW b \in Bindings, NEW shut \in BOOLEAN,
           IsLive(r.att[b])
    PROVE  RegShape(Activated(r, b, shut))
<1> DEFINE s == Activated(r, b, shut)
<1>1. /\ s.cur = b /\ s.att[b].st = "Committed"
      /\ r.cur \in Bindings \ {b} => s.att[r.cur].st = "Inactive"
  BY RegActivated
<1>2. ASSUME NEW c \in Bindings PROVE Same(s.att[c], r.att[c])
  BY RegActivated
<1>3. ASSUME NEW c \in Bindings, c \notin {b, r.cur} PROVE s.att[c] = r.att[c]
  BY <1>3, RegActivated
<1> HIDE DEF s
<1>4. ASSUME NEW c \in Bindings
      PROVE  /\ s.att[c].st = "Committed" <=> s.cur = c
             /\ s.att[c].st = "none" <=> s.att[c].p = NoProcess
             /\ s.att[c].st = "Prepared" => ~s.att[c].turn
  <2>0. /\ r.att[c].st = "Committed" <=> r.cur = c
        /\ r.att[c].st = "none" <=> r.att[c].p = NoProcess
        /\ r.att[c].st = "Prepared" => ~r.att[c].turn
    BY DEF RegShape
  <2>1. CASE c = b
    BY <1>1, <1>2, <2>0, <2>1 DEF IsLive, Same
  <2>2. CASE c = r.cur /\ c # b
    BY <1>1, <1>2, <2>0, <2>2 DEF Same
  <2>3. CASE c \notin {b, r.cur}
    BY <1>1, <1>3, <2>0, <2>3
  <2> QED BY <2>1, <2>2, <2>3
<1> QED BY <1>4 DEF s, RegShape

\* An activation moves nothing but the two pointers of the registry.
LEMMA ActivatedStem ==
    ASSUME TypeInv, RegShape(reg), NEW b \in Bindings, NEW shut \in BOOLEAN,
           IsLive(reg.att[b]), reg' = Activated(reg, b, shut), NEW c \in Bindings
    PROVE  /\ reg'.att[c].st # "none" => reg.att[c].st # "none" /\ reg'.att[c].p = reg.att[c].p
           /\ c # b => Stem(c)
<1>0. reg \in RegRec
  BY DEF TypeInv, StoreOK
<1>1. /\ reg'.cur = b /\ reg'.att[b].st = "Committed"
      /\ reg.cur \in Bindings \ {b} => reg'.att[reg.cur].st = "Inactive"
      /\ Same(reg'.att[c], reg.att[c])
  BY <1>0, RegActivated
<1>2. c \notin {b, reg.cur} => reg'.att[c] = reg.att[c]
  <2> SUFFICES ASSUME c \notin {b, reg.cur} PROVE reg'.att[c] = reg.att[c]
    OBVIOUS
  <2> QED BY <1>0, RegActivated
<1>3. reg.att[c].st = "Committed" <=> reg.cur = c
  BY DEF RegShape
<1> QED BY <1>1, <1>2, <1>3 DEF Same, Stem, IsLive

LEMMA RegisteredStem ==
    ASSUME TypeInv, NEW b \in Bindings, NEW g \in Nat, NEW p \in SomeProcess,
           reg' = Registered(reg, b, g, p) \/ reg' = Released(Registered(reg, b, g, p), p),
           NEW c \in Bindings
    PROVE  /\ c # b => Stem(c)
           /\ c = b => reg'.att[c].p = p /\ reg'.att[c].st = "Prepared"
<1>0. reg \in RegRec
  BY DEF TypeInv, StoreOK
<1> DEFINE m == Registered(reg, b, g, p)
<1>1. m \in RegRec /\ m.att[b].p = p /\ m.att[b].st = "Prepared"
  BY <1>0, RegRegistered
<1>2. c # b => m.att[c] = reg.att[c]
  BY <1>0, RegisteredElsewhere
<1> HIDE DEF m
<1>3. reg' = m \/ reg' = Released(m, p)
  BY DEF m
<1>4. reg'.att = m.att
  BY <1>1, <1>3, RegReleased
<1> QED BY <1>1, <1>2, <1>4 DEF Stem

\* The target of a new switch is a binding nothing refers to.
LEMMA ShapeStarts ==
    ASSUME TypeInv, TypeInv', Shape, NEW by, Starts(by), UNCHANGED <<reg, sweep>>,
           \A v \in Users : user'[v].b \in {user[v].b, NoBinding},
           \A v \in Users : user'[v].pc \in {"revision", "spawn", "open"} => user'[v] = user[v]
    PROVE  Shape'
<1>1. /\ RegShape(reg) /\ Bounded /\ TargetIsNew /\ TargetIsCurrent /\ Rebuilding
  BY DEF Shape
<1>2. used.switches \in Nat /\ Known' = Known + 1 /\ Known \in Nat /\ sw'.b = Known + 1
  BY BoundsAssumption DEF TypeInv, RestOK, Known, Starts
<1>3. /\ db.cur \in Bindings /\ reg.cur \in SomeBinding /\ sweep.listed \subseteq Bindings
      /\ \A v \in Users : user[v].b \in SomeBinding
      /\ db'.cur = db.cur
  BY UserNames DEF TypeInv, StoreOK, DbRec, RegRec, SweepOK, SweepRec, Starts
<1>4. Bindings \subseteq Nat /\ SomeBinding \subseteq Nat /\ NoBinding = 0
  BY Numbers DEF SomeBinding, NoBinding
<1>5. /\ db.cur <= Known
      /\ \A u \in Users : user[u].b <= Known
      /\ \A b \in Bindings : reg.att[b].st # "none" => b <= Known
      /\ \A b \in sweep.listed : b <= Known
  BY <1>1 DEF Bounded
<1>6. \A v \in Users : user'[v].b <= Known
  BY <1>2, <1>4, <1>5
<1>7. sw'.pc = "probe" /\ sw'.src = db.cur /\ sw'.b \in Bindings
  BY DEF Starts, TypeInv, SwitchOK
<1>8. Bounded'
  <2>1. ASSUME NEW n \in Nat, n <= Known PROVE n <= Known'
    BY <1>2, <2>1
  <2>2. /\ db'.cur <= Known' /\ \A u \in Users : user'[u].b <= Known'
    BY <1>3, <1>4, <1>5, <1>6, <2>1
  <2>3. /\ \A b \in Bindings : reg'.att[b].st # "none" => b <= Known'
        /\ \A b \in sweep'.listed : b <= Known'
    BY <1>3, <1>4, <1>5, <2>1
  <2> QED BY <1>2, <2>2, <2>3 DEF Bounded
<1>9. TargetIsNew'
  <2>1. reg.att[sw'.b].st = "none" /\ sw'.b # db.cur /\ sw'.b \notin sweep.listed
    BY <1>2, <1>3, <1>4, <1>5, <1>7
  <2>2. \A v \in Users : user'[v].b # sw'.b
    BY <1>2, <1>3, <1>4, <1>6
  <2> QED BY <1>3, <1>7, <2>1, <2>2 DEF TargetIsNew
<1>10. TargetIsCurrent'
  BY <1>7, SwitchPlaces, SwitchPlacesNamed DEF TargetIsCurrent
<1>11. Rebuilding'
  <2>1. sw'.p = NoProcess
    BY DEF Starts
  <2> QED BY <1>1, <2>1 DEF Rebuilding
<1> QED BY <1>1, <1>8, <1>9, <1>10, <1>11 DEF Shape

LEMMA ShapeEnd ==
    ASSUME TypeInv, TypeInv', Shape, Finishes, Fades(reg, reg'), UNCHANGED <<db, used>>,
           sweep'.listed \subseteq sweep.listed
    PROVE  Shape'
<1>1. /\ RegShape(reg) /\ Bounded /\ TargetIsNew /\ TargetIsCurrent /\ Rebuilding
  BY DEF Shape
<1>2. RegShape(reg') /\ \A c \in Bindings : Stem(c)
  BY <1>1, FadesShape, FadesStem DEF TypeInv, StoreOK
<1>3. sw'.pc = "idle" /\ sw'.b = NoBinding /\ sw'.p = NoProcess
  BY DEF Finishes
<1>4. ASSUME NEW u \in Users
      PROVE  user'[u] = user[u] \/ (user'[u].pc \in {"idle", "gate"} /\ user'[u].b = NoBinding)
  <2>1. CASE u # sw.by
    BY <2>1 DEF Finishes
  <2>2. CASE u = sw.by
    BY <2>2 DEF Finishes, Rests, Users, NoOne
  <2> QED BY <2>1, <2>2
<1>5. Known' = Known /\ Known \in Nat
  BY BoundsAssumption DEF TypeInv, RestOK, Known
<1>6. Bounded'
  <2>1. \A u \in Users : user'[u].b <= Known
    BY <1>1, <1>4, <1>5 DEF Bounded, NoBinding
  <2>2. \A b \in Bindings : reg'.att[b].st # "none" => b <= Known
    BY <1>1, <1>2 DEF Bounded, Stem
  <2> QED BY <1>1, <1>3, <1>5, <2>1, <2>2 DEF Bounded, NoBinding
<1>7. TargetIsNew' /\ TargetIsCurrent'
  BY <1>3, SwitchPlaces DEF TargetIsNew, TargetIsCurrent
<1>8. Rebuilding'
  <2> SUFFICES ASSUME NEW v \in Users, user'[v].pc \in {"revision", "spawn", "open"}
               PROVE  /\ reg'.att[user'[v].b].st = "none"
                      /\ user'[v].pc = "open" =>
                           /\ user'[v].p # NoProcess /\ user'[v].p # sw'.p
                           /\ \A b \in Bindings : reg'.att[b].p # user'[v].p
    BY DEF Rebuilding
  <2>1. user'[v] = user[v] /\ user[v].b \in Bindings
    BY <1>4, UserPlaces, UserNames DEF TypeInv
  <2>2. /\ reg.att[user[v].b].st = "none"
        /\ user[v].pc = "open" =>
             /\ user[v].p # NoProcess /\ user[v].p # sw.p
             /\ \A b \in Bindings : reg.att[b].p # user[v].p
    BY <1>1, <2>1 DEF Rebuilding
  <2>3. reg'.att[user[v].b].st = "none"
    BY <1>2, <2>1, <2>2 DEF Stem
  <2>4. ASSUME NEW b \in Bindings, user[v].pc = "open" PROVE reg'.att[b].p # user[v].p
    BY <1>2, <2>2, <2>4 DEF Stem, RegShape
  <2> QED BY <1>3, <2>1, <2>2, <2>3, <2>4
<1> QED BY <1>2, <1>6, <1>7, <1>8 DEF Shape

LEMMA ShapeStep ==
    ASSUME BaseInv, Next
    PROVE  TypeInv' /\ Shape'
<1>0. /\ TypeInv /\ Serial /\ Shape /\ RegShape(reg) /\ Bounded /\ TargetIsNew
      /\ TargetIsCurrent /\ Rebuilding /\ reg \in RegRec
  BY DEF BaseInv, Shape, TypeInv, StoreOK
<1>s. ASSUME reg'.att = reg.att PROVE \A c \in Bindings : Stem(c)
  BY <1>s DEF Stem
<1>r. \A u \in Users : RebuildingOf(u)
  BY <1>0 DEF Rebuilding, RebuildingOf
<1>f. ASSUME Fades(reg, reg') PROVE RegShape(reg') /\ \A c \in Bindings : Stem(c)
  BY <1>0, <1>f, FadesShape, FadesStem
<1>1. ASSUME NEW u \in Users, RequestRuntime(u) PROVE TypeInv' /\ Shape'
  <2>1. TypeInv' /\ reg' = reg
    BY <1>0, <1>1, DoesRequest DEF RequestRuntime
  <2>2. RebuildingOf(u)'
    BY <1>0, <1>r, <1>1, DoesRequest DEF RequestRuntime, AtUser, RebuildingOf, Carries
  <2>3. WorksOnOwn(u)
    BY <1>0, <1>s, <1>1, <2>1, <2>2, DoesRequest DEF RequestRuntime, WorksOnOwn, Carries, Rests
  <2> QED BY <1>0, <2>1, <2>3, ShapeUser
<1>2. ASSUME NEW u \in Users, EnterGate(u) PROVE TypeInv' /\ Shape'
  <2>1. TypeInv' /\ reg' = reg
    BY <1>0, <1>2, DoesEnterGate DEF EnterGate
  <2>2. RebuildingOf(u)'
    BY <1>0, <1>r, <1>2, DoesEnterGate DEF EnterGate, AtUser, RebuildingOf, Carries
  <2>3. WorksOnOwn(u)
    BY <1>0, <1>s, <1>2, <2>1, <2>2, DoesEnterGate DEF EnterGate, WorksOnOwn, Carries, Rests
  <2> QED BY <1>0, <2>1, <2>3, ShapeUser
<1>3. ASSUME NEW u \in Users, Look(u) PROVE TypeInv' /\ Shape'
  <2>1. TypeInv' /\ reg' = reg
    BY <1>0, <1>3, DoesLook DEF Look
  <2>2. RebuildingOf(u)'
    BY <1>0, <1>r, <1>3, DoesLook DEF Look, AtUser, RebuildingOf, Carries
  <2>3. WorksOnOwn(u)
    BY <1>0, <1>s, <1>3, <2>1, <2>2, DoesLook DEF Look, WorksOnOwn, Carries, Rests
  <2> QED BY <1>0, <2>1, <2>3, ShapeUser
<1>4. ASSUME NEW u \in Users, ReadDurable(u) PROVE TypeInv' /\ Shape'
  <2>1. TypeInv' /\ reg' = reg
    BY <1>0, <1>4, DoesReadDurable DEF ReadDurable
  <2>2. RebuildingOf(u)'
    BY <1>0, <1>r, <1>4, DoesReadDurable DEF ReadDurable, AtUser, RebuildingOf, Carries
  <2>3. WorksOnOwn(u)
    BY <1>0, <1>s, <1>4, <2>1, <2>2, DoesReadDurable DEF ReadDurable, WorksOnOwn, Carries, Rests
  <2> QED BY <1>0, <2>1, <2>3, ShapeUser
<1>5. ASSUME NEW u \in Users, TakeExisting(u) PROVE TypeInv' /\ Shape'
  <2>1. TypeInv' /\ Fades(reg, reg')
    BY <1>0, <1>5, DoesTakeExisting
  <2>2. RebuildingOf(u)'
    BY <1>0, <1>5, DoesTakeExisting DEF RebuildingOf
  <2>3. WorksOnOwn(u)
    BY <1>0, <1>f, <1>5, <2>1, <2>2, DoesTakeExisting DEF TakeExisting, WorksOnOwn
  <2> QED BY <1>0, <1>f, <2>1, <2>3, ShapeUser
<1>6. ASSUME NEW u \in Users, CheckRevision(u) PROVE TypeInv' /\ Shape'
  <2>1. TypeInv' /\ reg' = reg
    BY <1>0, <1>6, DoesCheckRevision DEF CheckRevision
  <2>2. RebuildingOf(u)'
    BY <1>0, <1>r, <1>6, DoesCheckRevision DEF CheckRevision, AtUser, RebuildingOf, Carries
  <2>3. WorksOnOwn(u)
    BY <1>0, <1>s, <1>6, <2>1, <2>2, DoesCheckRevision DEF CheckRevision, WorksOnOwn, Carries, Rests
  <2> QED BY <1>0, <2>1, <2>3, ShapeUser
<1>7. ASSUME NEW u \in Users, Spawn(u) PROVE TypeInv' /\ Shape'
  <2>1. TypeInv' /\ Others(u)
    BY <1>0, <1>7, DoesSpawn
  <2>2. reg'.att = reg.att /\ reg'.cur = reg.cur
    BY <1>0, <1>7, DoesSpawn, RegSpawned
  <2>3. RegShape(reg')
    BY <1>0, <2>2 DEF RegShape
  <2>4. RebuildingOf(u)'
    <3>1. user[u].pc = "spawn" /\ sw' = sw
      BY <1>7 DEF Spawn, AtUser
    <3>2. CASE Leaves(u)
      BY <3>2 DEF Leaves, RebuildingOf
    <3>3. CASE /\ user'[u].pc = "open" /\ user'[u].b = user[u].b
               /\ user'[u].p \in Processes /\ Unused(user'[u].p)
      <4>1. reg.att[user[u].b].st = "none" /\ user'[u].p # NoProcess
        BY <1>r, <3>1, <3>3, Numbers DEF RebuildingOf
      <4>2. user'[u].p # sw.p /\ \A b \in Bindings : reg.att[b].p # user'[u].p
        BY <3>3 DEF Unused
      <4> QED BY <2>2, <3>1, <3>3, <4>1, <4>2 DEF RebuildingOf
    <3> QED BY <1>0, <1>7, <3>2, <3>3, DoesSpawn
  <2>5. user'[u].b \in {user[u].b, NoBinding}
    BY <1>0, <1>7, DoesSpawn DEF Leaves, Rests
  <2>6. WorksOnOwn(u)
    BY <1>s, <1>7, <2>1, <2>2, <2>4, <2>5 DEF Spawn, WorksOnOwn
  <2> QED BY <1>0, <2>1, <2>3, <2>6, ShapeUser
<1>8. ASSUME NEW u \in Users, OpenSession(u) PROVE TypeInv' /\ Shape'
  <2>1. TypeInv' /\ Others(u) /\ user[u].b \in Bindings
    BY <1>0, <1>8, DoesOpenSession
  <2>2. /\ user[u].pc = "open" /\ user[u].pc \in Locked
        /\ UNCHANGED <<db, sw, sweep, used>>
    BY <1>8, UserPlaces DEF OpenSession, AtUser
  <2>3. user[u].p \in Processes /\ user[u].p \in SomeProcess /\ user[u].gen + 1 \in Nat
    BY <1>0, <1>r, <2>2, UserNames DEF RebuildingOf, TypeInv, SomeProcess
  <2>4. user'[u].b \in {user[u].b, NoBinding} /\ user'[u].pc \in {"advance", "idle"}
    BY <1>0, <1>8, DoesOpenSession DEF Leaves, Rests, Carries
  <2>5. RebuildingOf(u)'
    BY <2>4 DEF RebuildingOf
  <2> DEFINE m == Registered(reg, user[u].b, user[u].gen + 1, user[u].p)
  <2>6. CASE reg' = m \/ reg' = Released(m, user[u].p)
    <3>1. ASSUME NEW c \in Bindings, c # user[u].b PROVE Stem(c)
      BY <1>0, <2>1, <2>3, <2>6, <3>1, RegisteredStem
    <3>2. reg.cur # user[u].b
      BY <1>0, <1>r, <2>1, <2>2 DEF RegShape, RebuildingOf
    <3>3. RegShape(m) /\ m \in RegRec
      BY <1>0, <2>1, <2>3, <3>2, ShapeRegistered, RegRegistered
    <3>4. RegShape(reg')
      BY <2>3, <2>6, <3>3, FadesReleased, FadesShape
    <3>5. WorksOnOwn(u)
      BY <2>1, <2>2, <2>4, <2>5, <3>1 DEF WorksOnOwn
    <3> QED BY <1>0, <2>1, <3>4, <3>5, ShapeUser
  <2>7. CASE reg' = Released(reg, user[u].p)
    <3>1. Fades(reg, reg')
      BY <1>0, <2>3, <2>7, FadesReleased
    <3>2. WorksOnOwn(u)
      BY <1>f, <2>1, <2>2, <2>4, <2>5, <3>1 DEF WorksOnOwn
    <3> QED BY <1>0, <1>f, <2>1, <3>1, <3>2, ShapeUser
  <2> QED BY <1>0, <1>8, <2>6, <2>7, DoesOpenSession
<1>9. ASSUME NEW u \in Users, AdvanceGeneration(u) PROVE TypeInv' /\ Shape'
  <2>1. TypeInv' /\ Others(u) /\ Fades(reg, reg') /\ db'.cur = db.cur
    BY <1>0, <1>9, DoesAdvance, FadesStays
  <2>2. /\ user'[u].b \in {user[u].b, NoBinding} /\ user'[u].pc \in {"promptGate", "idle"}
    BY <1>0, <1>9, DoesAdvance DEF Leaves, Rests, Carries
  <2>3. RebuildingOf(u)'
    BY <2>2 DEF RebuildingOf
  <2>4. UNCHANGED <<sw, sweep, used>>
    BY <1>9 DEF AdvanceGeneration
  <2>5. WorksOnOwn(u)
    BY <1>f, <2>1, <2>2, <2>3, <2>4 DEF WorksOnOwn
  <2> QED BY <1>0, <1>f, <2>1, <2>5, ShapeUser
<1>10. ASSUME NEW u \in Users, ReadPromptGate(u) PROVE TypeInv' /\ Shape'
  <2>1. TypeInv' /\ reg' = reg
    BY <1>0, <1>10, DoesReadPromptGate DEF ReadPromptGate
  <2>2. RebuildingOf(u)'
    BY <1>0, <1>r, <1>10, DoesReadPromptGate DEF ReadPromptGate, AtUser, RebuildingOf, Carries
  <2>3. WorksOnOwn(u)
    BY <1>0, <1>s, <1>10, <2>1, <2>2, DoesReadPromptGate DEF ReadPromptGate, WorksOnOwn, Carries, Rests
  <2> QED BY <1>0, <2>1, <2>3, ShapeUser
<1>11. ASSUME NEW u \in Users, Activate(u) PROVE TypeInv' /\ Shape'
  <2>1. TypeInv' /\ Others(u) /\ user[u].b \in Bindings /\ sweep'.listed \subseteq sweep.listed
    BY <1>0, <1>11, DoesActivate
  <2>2. user[u].pc \in Locked /\ UNCHANGED <<db, sw, used>>
    BY <1>11, UserPlaces DEF Activate, AtUser
  <2>3. user'[u].b \in {user[u].b, NoBinding} /\ user'[u].pc \in {"touch", "idle"}
    BY <1>0, <1>11, DoesActivate DEF Leaves, Rests
  <2>4. RebuildingOf(u)'
    BY <2>3 DEF RebuildingOf
  <2>5. CASE Activatable(reg, user[u].b, user[u].p) /\ reg' = Activated(reg, user[u].b, user[u].shut)
    <3>1. IsLive(reg.att[user[u].b]) /\ user[u].shut \in BOOLEAN
      BY <1>0, <2>5, UserNames DEF Activatable, TypeInv
    <3>2. ASSUME NEW c \in Bindings, c # user[u].b PROVE Stem(c)
      BY <1>0, <2>1, <2>5, <3>1, <3>2, ActivatedStem
    <3>3. RegShape(reg')
      BY <1>0, <2>1, <2>5, <3>1, ShapeActivated
    <3>4. WorksOnOwn(u)
      BY <2>1, <2>2, <2>3, <2>4, <3>2 DEF WorksOnOwn
    <3> QED BY <1>0, <2>1, <3>3, <3>4, ShapeUser
  <2>6. CASE Fades(reg, reg')
    <3>1. WorksOnOwn(u)
      BY <1>f, <2>1, <2>2, <2>3, <2>4, <2>6 DEF WorksOnOwn
    <3> QED BY <1>0, <1>f, <2>1, <2>6, <3>1, ShapeUser
  <2> QED BY <1>0, <1>11, <2>5, <2>6, DoesActivate
<1>12. ASSUME NEW u \in Users, Touch(u) PROVE TypeInv' /\ Shape'
  <2>1. TypeInv' /\ Others(u) /\ sweep'.listed \subseteq sweep.listed
    BY <1>0, <1>12, DoesTouch
  <2>2. user'[u].b \in {user[u].b, NoBinding} /\ user'[u].pc \in {"lease", "idle"}
    BY <1>0, <1>12, DoesTouch DEF Leaves, Rests, Carries
  <2>3. RebuildingOf(u)'
    BY <2>2 DEF RebuildingOf
  <2>4. UNCHANGED <<reg, db, sw, used>>
    BY <1>12 DEF Touch
  <2>5. WorksOnOwn(u)
    BY <1>s, <2>1, <2>2, <2>3, <2>4 DEF WorksOnOwn
  <2> QED BY <1>0, <2>1, <2>4, <2>5, ShapeUser
<1>13. ASSUME NEW u \in Users, TakeLease(u) PROVE TypeInv' /\ Shape'
  <2>1. TypeInv' /\ reg' = reg
    BY <1>0, <1>13, DoesTakeLease DEF TakeLease
  <2>2. RebuildingOf(u)'
    BY <1>0, <1>r, <1>13, DoesTakeLease DEF TakeLease, AtUser, RebuildingOf, Carries
  <2>3. WorksOnOwn(u)
    BY <1>0, <1>s, <1>13, <2>1, <2>2, DoesTakeLease DEF TakeLease, WorksOnOwn, Carries, Rests
  <2> QED BY <1>0, <2>1, <2>3, ShapeUser
<1>14. ASSUME NEW u \in Users, Refresh(u) PROVE TypeInv' /\ Shape'
  <2>1. TypeInv' /\ Others(u) /\ UNCHANGED <<reg, sweep>>
    BY <1>0, <1>14, DoesRefresh DEF Refresh
  <2>2. /\ user'[u].b \in {user[u].b, NoBinding} /\ user'[u].pc \in {"gate", "await", "idle"}
    BY <1>0, <1>14, DoesRefresh DEF Rests, Carries
  <2>3. RebuildingOf(u)'
    BY <2>2 DEF RebuildingOf
  <2>4. CASE UNCHANGED <<db, sw, used>>
    <3>1. WorksOnOwn(u)
      BY <1>s, <2>1, <2>2, <2>3, <2>4 DEF WorksOnOwn
    <3> QED BY <1>0, <2>1, <3>1, ShapeUser
  <2>5. CASE Starts(u)
    <3>1. \A v \in Users : user'[v].b \in {user[v].b, NoBinding}
      BY <2>1, <2>2 DEF Others
    <3>2. \A v \in Users : user'[v].pc = "open" => user'[v] = user[v]
      BY <2>1, <2>2 DEF Others
    <3>3. \A v \in Users : user'[v].pc \in {"revision", "spawn", "open"} => user'[v] = user[v]
      BY <2>1, <2>2 DEF Others
    <3> QED BY <1>0, <2>1, <2>5, <3>1, <3>3, ShapeStarts
  <2> QED BY <1>0, <1>14, <2>4, <2>5, DoesRefresh
<1>15. CASE DetachClient
  <2>1. TypeInv' /\ Fades(reg, reg') /\ ListStays
    BY <1>0, <1>15, DoesDetachClient, FadesStays DEF DetachClient, ListStays, Fault, Candidates
  <2>2. sw' = sw /\ user' = user /\ db'.cur = db.cur /\ used'.switches = used.switches
    BY <1>0, <1>15, DoesDetachClient DEF DetachClient, Fault
  <2> QED BY <1>0, <2>1, <2>2, ShapeElsewhere
<1>16. CASE UserSwitches
  <2>1. TypeInv' /\ Starts(NoOne) /\ UNCHANGED <<reg, sweep, user>>
    BY <1>0, <1>16, DoesUserSwitch DEF UserSwitches
  <2> QED BY <1>0, <2>1, ShapeStarts
<1>17. CASE WaitIdle("probe", "close")
  <2>1. /\ "probe" \in PreCommit /\ "close" \in PreCommit
        /\ "fail" \in PreCommit /\ "fail" \notin PreCreate
        /\ "close" \in PreCreate => "probe" \in PreCreate
    BY SwitchPlacesNamed DEF PreCreate
  <2>2. TypeInv' /\ Fades(reg, reg') /\ sweep'.listed \subseteq sweep.listed
    BY <1>0, <1>17, <2>1, DoesWaitIdle, FadesStays DEF WaitIdle, SetsGate, SwitchGoes
  <2>3. SwitchCarries /\ sw.pc = "probe" /\ sw'.pc \in {"probe", "close", "fail"}
    BY <1>0, <1>17, <2>1, DoesWaitIdle DEF SwitchGoes, WaitIdle, AtSwitch
  <2>4. user' = user /\ db' = db /\ used' = used
    BY <1>17 DEF WaitIdle
  <2>5. sw.pc \in PreCommit /\ sw'.pc \in PreCommit /\ (sw'.pc \in PreCreate => sw.pc \in PreCreate)
    BY <2>1, <2>3
  <2>6. sw'.b = sw.b /\ sw'.src = sw.src /\ sw'.p = sw.p
    BY <2>3 DEF SwitchCarries
  <2> QED BY <1>0, <2>2, <2>4, <2>5, <2>6, ShapeGoes
<1>18. CASE ClosePrompts("close", "reprobe")
  <2>1. /\ "close" \in PreCommit /\ "reprobe" \in PreCommit
        /\ "fail" \in PreCommit /\ "fail" \notin PreCreate
        /\ "reprobe" \in PreCreate => "close" \in PreCreate
    BY SwitchPlacesNamed DEF PreCreate
  <2>2. TypeInv' /\ Fades(reg, reg') /\ sweep'.listed \subseteq sweep.listed
    BY <1>0, <1>18, <2>1, DoesClosePrompts, FadesStays DEF ClosePrompts, SetsGate, SwitchGoes
  <2>3. SwitchCarries /\ sw.pc = "close" /\ sw'.pc \in {"close", "reprobe", "fail"}
    BY <1>0, <1>18, <2>1, DoesClosePrompts DEF SwitchGoes, ClosePrompts, AtSwitch
  <2>4. user' = user /\ db' = db /\ used' = used
    BY <1>18 DEF ClosePrompts
  <2>5. sw.pc \in PreCommit /\ sw'.pc \in PreCommit /\ (sw'.pc \in PreCreate => sw.pc \in PreCreate)
    BY <2>1, <2>3
  <2>6. sw'.b = sw.b /\ sw'.src = sw.src /\ sw'.p = sw.p
    BY <2>3 DEF SwitchCarries
  <2> QED BY <1>0, <2>2, <2>4, <2>5, <2>6, ShapeGoes
<1>19. CASE Reprobe
  <2>1. TypeInv' /\ Fades(reg, reg') /\ sweep'.listed \subseteq sweep.listed
    BY <1>0, <1>19, DoesReprobe, FadesStays DEF Reprobe, SwitchGoes
  <2>2. /\ sw'.b = sw.b /\ sw'.src = sw.src /\ sw'.p = sw.p
        /\ sw.pc = "reprobe" /\ sw'.pc \in {"fail", "closeToPrepare"}
    BY <1>0, <1>19, DoesReprobe DEF SwitchGoes, SwitchCarries, Reprobe, AtSwitch
  <2>3. user' = user /\ db'.cur = db.cur /\ used' = used
    BY <1>0, <1>19, DoesReprobe DEF Reprobe
  <2>4. sw.pc \in PreCommit /\ sw'.pc \in PreCommit /\ (sw'.pc \in PreCreate => sw.pc \in PreCreate)
    BY <2>2, SwitchPlacesNamed DEF PreCreate
  <2> QED BY <1>0, <2>1, <2>2, <2>3, <2>4, ShapeGoes
<1>20. CASE ClosePrompts("closeToPrepare", "prepareIdle")
  <2>1. /\ "closeToPrepare" \in PreCommit /\ "prepareIdle" \in PreCommit
        /\ "fail" \in PreCommit /\ "fail" \notin PreCreate
        /\ "prepareIdle" \in PreCreate => "closeToPrepare" \in PreCreate
    BY SwitchPlacesNamed DEF PreCreate
  <2>2. TypeInv' /\ Fades(reg, reg') /\ sweep'.listed \subseteq sweep.listed
    BY <1>0, <1>20, <2>1, DoesClosePrompts, FadesStays DEF ClosePrompts, SetsGate, SwitchGoes
  <2>3. SwitchCarries /\ sw.pc = "closeToPrepare" /\ sw'.pc \in {"closeToPrepare", "prepareIdle", "fail"}
    BY <1>0, <1>20, <2>1, DoesClosePrompts DEF SwitchGoes, ClosePrompts, AtSwitch
  <2>4. user' = user /\ db' = db /\ used' = used
    BY <1>20 DEF ClosePrompts
  <2>5. sw.pc \in PreCommit /\ sw'.pc \in PreCommit /\ (sw'.pc \in PreCreate => sw.pc \in PreCreate)
    BY <2>1, <2>3
  <2>6. sw'.b = sw.b /\ sw'.src = sw.src /\ sw'.p = sw.p
    BY <2>3 DEF SwitchCarries
  <2> QED BY <1>0, <2>2, <2>4, <2>5, <2>6, ShapeGoes
<1>21. CASE WaitIdle("prepareIdle", "spawn")
  <2>1. /\ "prepareIdle" \in PreCommit /\ "spawn" \in PreCommit
        /\ "fail" \in PreCommit /\ "fail" \notin PreCreate
        /\ "spawn" \in PreCreate => "prepareIdle" \in PreCreate
    BY SwitchPlacesNamed DEF PreCreate
  <2>2. TypeInv' /\ Fades(reg, reg') /\ sweep'.listed \subseteq sweep.listed
    BY <1>0, <1>21, <2>1, DoesWaitIdle, FadesStays DEF WaitIdle, SetsGate, SwitchGoes
  <2>3. SwitchCarries /\ sw.pc = "prepareIdle" /\ sw'.pc \in {"prepareIdle", "spawn", "fail"}
    BY <1>0, <1>21, <2>1, DoesWaitIdle DEF SwitchGoes, WaitIdle, AtSwitch
  <2>4. user' = user /\ db' = db /\ used' = used
    BY <1>21 DEF WaitIdle
  <2>5. sw.pc \in PreCommit /\ sw'.pc \in PreCommit /\ (sw'.pc \in PreCreate => sw.pc \in PreCreate)
    BY <2>1, <2>3
  <2>6. sw'.b = sw.b /\ sw'.src = sw.src /\ sw'.p = sw.p
    BY <2>3 DEF SwitchCarries
  <2> QED BY <1>0, <2>2, <2>4, <2>5, <2>6, ShapeGoes
<1>22. CASE SpawnTarget
  <2>1. TypeInv' /\ sw'.b = sw.b /\ sw'.src = sw.src
    BY <1>0, <1>22, DoesSpawnTarget
  <2>2. sw.pc = "spawn" /\ UNCHANGED <<user, db, used, sweep>>
    BY <1>22 DEF SpawnTarget, AtSwitch
  <2>3. reg'.att = reg.att /\ reg'.cur = reg.cur /\ sw'.pc \in {"protectProcess", "fail"}
    BY <1>0, <1>22, DoesSpawnTarget, RegSpawned
  <2>4. /\ sw.pc \in PreCommit /\ sw'.pc \in PreCommit /\ sw.pc \in PreCreate
        /\ sw'.pc \notin PostCommit
    BY <2>2, <2>3, SwitchPlacesNamed, SwitchPlaces DEF PreCreate
  <2>5. reg.att[sw.b].st = "none" /\ sw.b \in Bindings
    BY <1>0, <2>4, SwitchPlaces, SwitchNames DEF TargetIsNew, TypeInv
  <2>6. ASSUME NEW v \in Users, user[v].pc = "open"
        PROVE  user[v].p # sw'.p /\ reg.att[sw.b].p # user[v].p
    <3>1. user[v].p # sw.p /\ \A b \in Bindings : reg.att[b].p # user[v].p
      BY <1>0, <2>6 DEF Rebuilding
    <3>2. Unused(sw'.p) \/ sw'.p = sw.p
      BY <1>0, <1>22, DoesSpawnTarget
    <3> QED BY <2>5, <3>1, <3>2 DEF Unused
  <2>7. RegShape(reg')
    BY <1>0, <2>3 DEF RegShape
  <2>8. WorksOnTarget
    BY <1>s, <2>1, <2>2, <2>3, <2>4, <2>5, <2>6 DEF WorksOnTarget, ListStays
  <2> QED BY <1>0, <2>1, <2>7, <2>8, ShapeSwitch
<1>23. CASE Protect("protectProcess", "placeProcess")
  <2>1. /\ "protectProcess" \in PreCommit /\ "placeProcess" \in PreCommit
        /\ "fail" \in PreCommit /\ "fail" \notin PreCreate
        /\ "placeProcess" \in PreCreate => "protectProcess" \in PreCreate
    BY SwitchPlacesNamed DEF PreCreate
  <2>2. TypeInv' /\ Fades(reg, reg') /\ sweep'.listed \subseteq sweep.listed
    BY <1>0, <1>23, <2>1, DoesProtect, FadesStays DEF Protect, SetsGate, SwitchGoes
  <2>3. SwitchCarries /\ sw.pc = "protectProcess" /\ sw'.pc \in {"protectProcess", "placeProcess", "fail"}
    BY <1>0, <1>23, <2>1, DoesProtect DEF SwitchGoes, Protect, AtSwitch
  <2>4. user' = user /\ db' = db /\ used' = used
    BY <1>23 DEF Protect
  <2>5. sw.pc \in PreCommit /\ sw'.pc \in PreCommit /\ (sw'.pc \in PreCreate => sw.pc \in PreCreate)
    BY <2>1, <2>3
  <2>6. sw'.b = sw.b /\ sw'.src = sw.src /\ sw'.p = sw.p
    BY <2>3 DEF SwitchCarries
  <2> QED BY <1>0, <2>2, <2>4, <2>5, <2>6, ShapeGoes
<1>24. CASE PlaceLease("placeProcess", "switchProcess", "generation")
  <2>1. /\ "placeProcess" \in PreCommit /\ "generation" \in PreCommit /\ "switchProcess" \in LeaseHolders
        /\ "fail" \in PreCommit /\ "fail" \notin PreCreate
        /\ "generation" \in PreCreate => "placeProcess" \in PreCreate
    BY SwitchPlacesNamed DEF PreCreate
  <2>2. TypeInv' /\ Fades(reg, reg') /\ sweep'.listed \subseteq sweep.listed
    BY <1>0, <1>24, <2>1, DoesPlaceLease, FadesStays DEF PlaceLease, SetsGate, SwitchGoes
  <2>3. SwitchCarries /\ sw.pc = "placeProcess" /\ sw'.pc \in {"placeProcess", "generation", "fail"}
    BY <1>0, <1>24, <2>1, DoesPlaceLease DEF SwitchGoes, PlaceLease, AtSwitch
  <2>4. user' = user /\ db' = db /\ used' = used
    BY <1>24 DEF PlaceLease
  <2>5. sw.pc \in PreCommit /\ sw'.pc \in PreCommit /\ (sw'.pc \in PreCreate => sw.pc \in PreCreate)
    BY <2>1, <2>3
  <2>6. sw'.b = sw.b /\ sw'.src = sw.src /\ sw'.p = sw.p
    BY <2>3 DEF SwitchCarries
  <2> QED BY <1>0, <2>2, <2>4, <2>5, <2>6, ShapeGoes
<1>25. CASE ReadGeneration
  <2>1. TypeInv' /\ Fades(reg, reg') /\ sweep'.listed \subseteq sweep.listed
    BY <1>0, <1>25, DoesReadGeneration, FadesStays DEF ReadGeneration, SwitchGoes
  <2>2. /\ sw'.b = sw.b /\ sw'.src = sw.src /\ sw'.p = sw.p
        /\ sw.pc = "generation" /\ sw'.pc \in {"create"}
    BY <1>0, <1>25, DoesReadGeneration DEF SwitchGoes, SwitchCarries, ReadGeneration, AtSwitch
  <2>3. user' = user /\ db'.cur = db.cur /\ used' = used
    BY <1>0, <1>25, DoesReadGeneration DEF ReadGeneration
  <2>4. sw.pc \in PreCommit /\ sw'.pc \in PreCommit /\ (sw'.pc \in PreCreate => sw.pc \in PreCreate)
    BY <2>2, SwitchPlacesNamed DEF PreCreate
  <2> QED BY <1>0, <2>1, <2>2, <2>3, <2>4, ShapeGoes
<1>26. CASE CreateSession
  <2>1. TypeInv' /\ SwitchCarries /\ sw.b \in Bindings /\ sw'.pc \in {"protectTarget", "fail"}
    BY <1>0, <1>26, DoesCreateSession
  <2>2. sw.pc = "create" /\ UNCHANGED <<user, db, used, sweep>>
    BY <1>26 DEF CreateSession, AtSwitch
  <2>3. /\ sw.pc \in PreCommit /\ sw'.pc \in PreCommit /\ sw.pc \in PreCreate
        /\ sw'.pc \notin PostCommit /\ sw'.pc \notin PreCreate
    BY <2>1, <2>2, SwitchPlacesNamed, SwitchPlaces DEF PreCreate
  <2>4. reg.att[sw.b].st = "none" /\ reg.cur # sw.b /\ sw.p \in SomeProcess /\ sw.gen \in Nat
    BY <1>0, <2>1, <2>3, SwitchPlaces, SwitchNames DEF TargetIsNew, TypeInv, RegShape
  <2>5. CASE Up(reg, sw.p) /\ reg' = Registered(reg, sw.b, sw.gen, sw.p)
    <3>1. sw.p \in Processes
      BY <2>4, <2>5 DEF Up, SomeProcess
    <3>2. RegShape(reg')
      BY <1>0, <2>1, <2>4, <2>5, <3>1, ShapeRegistered
    <3>3. ASSUME NEW c \in Bindings
          PROVE  /\ c # sw.b => Stem(c)
                 /\ c = sw.b => reg'.att[c].p = sw.p /\ reg'.att[c].st = "Prepared"
      BY <1>0, <2>1, <2>4, <2>5, RegisteredStem
    <3>4. \A v \in Users : user[v].pc = "open" => user[v].p # sw.p
      BY <1>0 DEF Rebuilding
    <3>5. WorksOnTarget
      BY <2>1, <2>2, <2>3, <3>3, <3>4 DEF WorksOnTarget, ListStays, SwitchCarries
    <3> QED BY <1>0, <2>1, <3>2, <3>5, ShapeSwitch
  <2>6. CASE reg' = Released(reg, sw.p)
    <3>1. Fades(reg, reg')
      BY <1>0, <2>4, <2>6, FadesReleased
    <3> QED BY <1>0, <2>1, <2>2, <2>3, <3>1, ShapeGoes DEF SwitchCarries
  <2> QED BY <1>0, <1>26, <2>5, <2>6, DoesCreateSession
<1>27. CASE Protect("protectTarget", "placeTarget")
  <2>1. /\ "protectTarget" \in PreCommit /\ "placeTarget" \in PreCommit
        /\ "fail" \in PreCommit /\ "fail" \notin PreCreate
        /\ "placeTarget" \in PreCreate => "protectTarget" \in PreCreate
    BY SwitchPlacesNamed DEF PreCreate
  <2>2. TypeInv' /\ Fades(reg, reg') /\ sweep'.listed \subseteq sweep.listed
    BY <1>0, <1>27, <2>1, DoesProtect, FadesStays DEF Protect, SetsGate, SwitchGoes
  <2>3. SwitchCarries /\ sw.pc = "protectTarget" /\ sw'.pc \in {"protectTarget", "placeTarget", "fail"}
    BY <1>0, <1>27, <2>1, DoesProtect DEF SwitchGoes, Protect, AtSwitch
  <2>4. user' = user /\ db' = db /\ used' = used
    BY <1>27 DEF Protect
  <2>5. sw.pc \in PreCommit /\ sw'.pc \in PreCommit /\ (sw'.pc \in PreCreate => sw.pc \in PreCreate)
    BY <2>1, <2>3
  <2>6. sw'.b = sw.b /\ sw'.src = sw.src /\ sw'.p = sw.p
    BY <2>3 DEF SwitchCarries
  <2> QED BY <1>0, <2>2, <2>4, <2>5, <2>6, ShapeGoes
<1>28. CASE PlaceLease("placeTarget", "switchTarget", "insert")
  <2>1. /\ "placeTarget" \in PreCommit /\ "insert" \in PreCommit /\ "switchTarget" \in LeaseHolders
        /\ "fail" \in PreCommit /\ "fail" \notin PreCreate
        /\ "insert" \in PreCreate => "placeTarget" \in PreCreate
    BY SwitchPlacesNamed DEF PreCreate
  <2>2. TypeInv' /\ Fades(reg, reg') /\ sweep'.listed \subseteq sweep.listed
    BY <1>0, <1>28, <2>1, DoesPlaceLease, FadesStays DEF PlaceLease, SetsGate, SwitchGoes
  <2>3. SwitchCarries /\ sw.pc = "placeTarget" /\ sw'.pc \in {"placeTarget", "insert", "fail"}
    BY <1>0, <1>28, <2>1, DoesPlaceLease DEF SwitchGoes, PlaceLease, AtSwitch
  <2>4. user' = user /\ db' = db /\ used' = used
    BY <1>28 DEF PlaceLease
  <2>5. sw.pc \in PreCommit /\ sw'.pc \in PreCommit /\ (sw'.pc \in PreCreate => sw.pc \in PreCreate)
    BY <2>1, <2>3
  <2>6. sw'.b = sw.b /\ sw'.src = sw.src /\ sw'.p = sw.p
    BY <2>3 DEF SwitchCarries
  <2> QED BY <1>0, <2>2, <2>4, <2>5, <2>6, ShapeGoes
<1>29. CASE InsertBinding
  <2>1. TypeInv' /\ Fades(reg, reg') /\ sweep'.listed \subseteq sweep.listed
    BY <1>0, <1>29, DoesInsertBinding, FadesStays DEF InsertBinding, SwitchGoes
  <2>2. /\ sw'.b = sw.b /\ sw'.src = sw.src /\ sw'.p = sw.p
        /\ sw.pc = "insert" /\ sw'.pc \in {"closeToCommit", "fail"}
    BY <1>0, <1>29, DoesInsertBinding DEF SwitchGoes, SwitchCarries, InsertBinding, AtSwitch
  <2>3. user' = user /\ db'.cur = db.cur /\ used' = used
    BY <1>0, <1>29, DoesInsertBinding DEF InsertBinding
  <2>4. sw.pc \in PreCommit /\ sw'.pc \in PreCommit /\ (sw'.pc \in PreCreate => sw.pc \in PreCreate)
    BY <2>2, SwitchPlacesNamed DEF PreCreate
  <2> QED BY <1>0, <2>1, <2>2, <2>3, <2>4, ShapeGoes
<1>30. CASE ClosePrompts("closeToCommit", "commitIdle")
  <2>1. /\ "closeToCommit" \in PreCommit /\ "commitIdle" \in PreCommit
        /\ "fail" \in PreCommit /\ "fail" \notin PreCreate
        /\ "commitIdle" \in PreCreate => "closeToCommit" \in PreCreate
    BY SwitchPlacesNamed DEF PreCreate
  <2>2. TypeInv' /\ Fades(reg, reg') /\ sweep'.listed \subseteq sweep.listed
    BY <1>0, <1>30, <2>1, DoesClosePrompts, FadesStays DEF ClosePrompts, SetsGate, SwitchGoes
  <2>3. SwitchCarries /\ sw.pc = "closeToCommit" /\ sw'.pc \in {"closeToCommit", "commitIdle", "fail"}
    BY <1>0, <1>30, <2>1, DoesClosePrompts DEF SwitchGoes, ClosePrompts, AtSwitch
  <2>4. user' = user /\ db' = db /\ used' = used
    BY <1>30 DEF ClosePrompts
  <2>5. sw.pc \in PreCommit /\ sw'.pc \in PreCommit /\ (sw'.pc \in PreCreate => sw.pc \in PreCreate)
    BY <2>1, <2>3
  <2>6. sw'.b = sw.b /\ sw'.src = sw.src /\ sw'.p = sw.p
    BY <2>3 DEF SwitchCarries
  <2> QED BY <1>0, <2>2, <2>4, <2>5, <2>6, ShapeGoes
<1>31. CASE WaitIdle("commitIdle", "revalidate")
  <2>1. /\ "commitIdle" \in PreCommit /\ "revalidate" \in PreCommit
        /\ "fail" \in PreCommit /\ "fail" \notin PreCreate
        /\ "revalidate" \in PreCreate => "commitIdle" \in PreCreate
    BY SwitchPlacesNamed DEF PreCreate
  <2>2. TypeInv' /\ Fades(reg, reg') /\ sweep'.listed \subseteq sweep.listed
    BY <1>0, <1>31, <2>1, DoesWaitIdle, FadesStays DEF WaitIdle, SetsGate, SwitchGoes
  <2>3. SwitchCarries /\ sw.pc = "commitIdle" /\ sw'.pc \in {"commitIdle", "revalidate", "fail"}
    BY <1>0, <1>31, <2>1, DoesWaitIdle DEF SwitchGoes, WaitIdle, AtSwitch
  <2>4. user' = user /\ db' = db /\ used' = used
    BY <1>31 DEF WaitIdle
  <2>5. sw.pc \in PreCommit /\ sw'.pc \in PreCommit /\ (sw'.pc \in PreCreate => sw.pc \in PreCreate)
    BY <2>1, <2>3
  <2>6. sw'.b = sw.b /\ sw'.src = sw.src /\ sw'.p = sw.p
    BY <2>3 DEF SwitchCarries
  <2> QED BY <1>0, <2>2, <2>4, <2>5, <2>6, ShapeGoes
<1>32. CASE Revalidate
  <2>1. TypeInv' /\ Fades(reg, reg') /\ sweep'.listed \subseteq sweep.listed
    BY <1>0, <1>32, DoesRevalidate, FadesStays DEF Revalidate, SwitchGoes
  <2>2. /\ sw'.b = sw.b /\ sw'.src = sw.src /\ sw'.p = sw.p
        /\ sw.pc = "revalidate" /\ sw'.pc \in {"commit", "fail"}
    BY <1>0, <1>32, DoesRevalidate DEF SwitchGoes, SwitchCarries, Revalidate, AtSwitch
  <2>3. user' = user /\ db'.cur = db.cur /\ used' = used
    BY <1>0, <1>32, DoesRevalidate DEF Revalidate
  <2>4. sw.pc \in PreCommit /\ sw'.pc \in PreCommit /\ (sw'.pc \in PreCreate => sw.pc \in PreCreate)
    BY <2>2, SwitchPlacesNamed DEF PreCreate
  <2> QED BY <1>0, <2>1, <2>2, <2>3, <2>4, ShapeGoes
<1>33. CASE Commit
  <2>1. /\ TypeInv' /\ sw'.pc = "fit" /\ sw.b \in Bindings
        /\ sw'.b = sw.b /\ sw'.p = sw.p /\ db'.cur = sw.b
    BY <1>0, <1>33, DoesCommit
  <2>2. UNCHANGED <<reg, user, sweep, used>>
    BY <1>33 DEF Commit
  <2>3. Bounded'
    BY <1>0, <2>1, <2>2 DEF Bounded, Known
  <2>4. sw'.pc \notin PreCommit /\ sw'.b = db'.cur
    BY <2>1 DEF PreCommit, PreCreate
  <2>5. Rebuilding'
    BY <1>0, <2>1, <2>2 DEF Rebuilding
  <2>6. TargetIsNew' /\ TargetIsCurrent'
    BY <2>4 DEF TargetIsNew, TargetIsCurrent
  <2> QED BY <1>0, <2>1, <2>2, <2>3, <2>5, <2>6 DEF Shape
<1>34. CASE ActivationFails
  <2>1. TypeInv' /\ Finishes /\ Fades(reg, reg') /\ sweep'.listed \subseteq sweep.listed
    BY <1>0, <1>34, DoesActivationFail, FadesStays DEF ActivationFails, Reopens, SetsGate
  <2>2. UNCHANGED <<db, used>>
    BY <1>34 DEF ActivationFails
  <2> QED BY <1>0, <2>1, <2>2, ShapeEnd
<1>35. CASE ReadGateForTarget
  <2>1. /\ TypeInv' /\ sw'.pc = "activate" /\ sw.b \in Bindings /\ sw'.p = reg.att[sw.b].p
        /\ sw'.b = sw.b /\ sw'.src = sw.src
    BY <1>0, <1>35, DoesReadGate
  <2>2. sw.pc = "fit" /\ UNCHANGED <<reg, user, db, used, sweep>>
    BY <1>35 DEF ReadGateForTarget, AtSwitch
  <2>3. sw.pc \in PostCommit /\ sw'.pc \in PostCommit /\ sw'.pc \notin PreCommit
    BY <2>1, <2>2, SwitchPlaces DEF PostCommit
  <2>4. \A v \in Users : user[v].pc = "open" => reg.att[sw.b].p # user[v].p
    BY <1>0, <2>1 DEF Rebuilding
  <2>5. WorksOnTarget
    BY <1>s, <2>1, <2>2, <2>3, <2>4 DEF WorksOnTarget, ListStays
  <2> QED BY <1>0, <2>1, <2>2, <2>5, ShapeSwitch
<1>36. CASE ActivateTarget
  <2>1. /\ TypeInv' /\ sw'.pc = "open" /\ SwitchCarries /\ sw.b \in Bindings
        /\ sweep'.listed \subseteq sweep.listed
        /\ Activatable(reg, sw.b, sw.p) /\ reg' = Activated(reg, sw.b, sw.shut)
    BY <1>0, <1>36, DoesActivateTarget DEF SwitchGoes
  <2>2. sw.pc = "activate" /\ UNCHANGED <<user, db, used>>
    BY <1>36 DEF ActivateTarget, AtSwitch
  <2>3. sw.pc \in PostCommit /\ sw'.pc \in PostCommit /\ sw'.pc \notin PreCommit
    BY <2>1, <2>2, SwitchPlaces DEF PostCommit
  <2>4. IsLive(reg.att[sw.b]) /\ sw.shut \in BOOLEAN
    BY <1>0, <2>1, <2>2, SwitchNames DEF Activatable, TypeInv
  <2>5. ASSUME NEW c \in Bindings
        PROVE  reg'.att[c].st # "none" => reg.att[c].st # "none" /\ reg'.att[c].p = reg.att[c].p
    BY <1>0, <2>1, <2>4, ActivatedStem
  <2>6. ASSUME NEW c \in Bindings PROVE c # sw.b => Stem(c)
    BY <1>0, <2>1, <2>4, ActivatedStem
  <2>7. RegShape(reg')
    BY <1>0, <2>1, <2>4, ShapeActivated
  <2> QED BY <1>0, <2>1, <2>2, <2>3, <2>5, <2>7, ShapeAfter DEF SwitchCarries
<1>37. CASE OpenPrompts
  <2>1. TypeInv' /\ Finishes /\ Fades(reg, reg') /\ sweep'.listed \subseteq sweep.listed
    BY <1>0, <1>37, DoesReopen, FadesStays DEF OpenPrompts, Reopens, SetsGate
  <2>2. UNCHANGED <<db, used>>
    BY <1>37 DEF OpenPrompts
  <2> QED BY <1>0, <2>1, <2>2, ShapeEnd
<1>38. CASE FailSwitch
  <2>1. TypeInv' /\ Fades(reg, reg') /\ sweep'.listed \subseteq sweep.listed
    BY <1>0, <1>38, DoesFailSwitch, FadesStays DEF FailSwitch, SwitchGoes
  <2>2. /\ sw'.b = sw.b /\ sw'.src = sw.src /\ sw'.p = sw.p
        /\ sw.pc = "fail" /\ sw'.pc \in {"cleanup"}
    BY <1>0, <1>38, DoesFailSwitch DEF SwitchGoes, SwitchCarries, FailSwitch, AtSwitch
  <2>3. user' = user /\ db'.cur = db.cur /\ used' = used
    BY <1>0, <1>38, DoesFailSwitch DEF FailSwitch
  <2>4. sw.pc \in PreCommit /\ sw'.pc \in PreCommit /\ (sw'.pc \in PreCreate => sw.pc \in PreCreate)
    BY <2>2, SwitchPlacesNamed DEF PreCreate
  <2> QED BY <1>0, <2>1, <2>2, <2>3, <2>4, ShapeGoes
<1>39. CASE CleanupTarget
  <2>1. TypeInv' /\ Fades(reg, reg') /\ sweep'.listed \subseteq sweep.listed
    BY <1>0, <1>39, DoesCleanup, FadesStays DEF CleanupTarget, SwitchGoes
  <2>2. /\ sw'.b = sw.b /\ sw'.src = sw.src /\ sw'.p = sw.p
        /\ sw.pc = "cleanup" /\ sw'.pc \in {"reopen"}
    BY <1>0, <1>39, DoesCleanup DEF SwitchGoes, SwitchCarries, CleanupTarget, AtSwitch
  <2>3. user' = user /\ db'.cur = db.cur /\ used' = used
    BY <1>0, <1>39, DoesCleanup DEF CleanupTarget
  <2>4. sw.pc \in PreCommit /\ sw'.pc \in PreCommit /\ (sw'.pc \in PreCreate => sw.pc \in PreCreate)
    BY <2>2, SwitchPlacesNamed DEF PreCreate
  <2> QED BY <1>0, <2>1, <2>2, <2>3, <2>4, ShapeGoes
<1>40. CASE ReopenPrompts
  <2>1. TypeInv' /\ Finishes /\ Fades(reg, reg') /\ sweep'.listed \subseteq sweep.listed
    BY <1>0, <1>40, DoesReopen, FadesStays DEF ReopenPrompts, Reopens, SetsGate
  <2>2. UNCHANGED <<db, used>>
    BY <1>40 DEF ReopenPrompts
  <2> QED BY <1>0, <2>1, <2>2, ShapeEnd
<1>41. CASE AdmitTurn
  <2>1. TypeInv' /\ "dispatch" \in Users /\ Fades(reg, reg')
    BY <1>0, <1>41, DoesAdmitTurn, FadesStays DEF Users, AdmitTurn
  <2>2. RebuildingOf("dispatch")'
    BY <1>0, <1>41, DoesAdmitTurn DEF Stops, RebuildingOf
  <2>3. WorksOnOwn("dispatch")
    BY <1>0, <1>f, <1>41, <2>1, <2>2, DoesAdmitTurn DEF AdmitTurn, WorksOnOwn, Stops, Rests, Carries
  <2> QED BY <1>0, <1>f, <2>1, <2>3, ShapeUser
<1>42. CASE SendTurn
  <2>1. TypeInv' /\ "dispatch" \in Users /\ Fades(reg, reg')
    BY <1>0, <1>42, DoesSendTurn, FadesStays DEF Users, SendTurn
  <2>2. RebuildingOf("dispatch")'
    BY <1>0, <1>42, DoesSendTurn DEF Stops, RebuildingOf
  <2>3. WorksOnOwn("dispatch")
    BY <1>0, <1>f, <1>42, <2>1, <2>2, DoesSendTurn DEF SendTurn, WorksOnOwn, Stops, Rests, Carries
  <2> QED BY <1>0, <1>f, <2>1, <2>3, ShapeUser
<1>43. CASE AcquirePrompt
  <2>1. TypeInv' /\ "dispatch" \in Users /\ Fades(reg, reg')
    BY <1>0, <1>43, DoesAcquirePrompt, FadesStays DEF Users, AcquirePrompt
  <2>2. RebuildingOf("dispatch")'
    BY <1>0, <1>43, DoesAcquirePrompt DEF Stops, RebuildingOf
  <2>3. WorksOnOwn("dispatch")
    BY <1>0, <1>f, <1>43, <2>1, <2>2, DoesAcquirePrompt DEF AcquirePrompt, WorksOnOwn, Stops, Rests, Carries
  <2> QED BY <1>0, <1>f, <2>1, <2>3, ShapeUser
<1>44. CASE BeginTurn
  <2>1. TypeInv' /\ "dispatch" \in Users /\ Others("dispatch") /\ db'.cur = db.cur
    BY <1>0, <1>44, DoesBeginTurn DEF Stops, Users
  <2>2. UNCHANGED <<sw, sweep, used>>
    BY <1>44 DEF BeginTurn
  <2>3. user'["dispatch"].b \in {user["dispatch"].b, NoBinding} /\ user'["dispatch"].pc \in {"turn", "idle"}
    BY <1>0, <1>44, DoesBeginTurn DEF Stops, Rests, Carries
  <2>4. RebuildingOf("dispatch")'
    BY <2>3 DEF RebuildingOf
  <2>5. CASE Fades(reg, reg')
    <3>1. WorksOnOwn("dispatch")
      BY <1>f, <2>1, <2>2, <2>3, <2>4, <2>5 DEF WorksOnOwn
    <3> QED BY <1>0, <1>f, <2>1, <2>5, <3>1, ShapeUser
  <2>6. CASE /\ IsCurrentFence(user["dispatch"].b, user["dispatch"].p) /\ reg'.cur = reg.cur
             /\ \A b \in Bindings :
                  /\ b # user["dispatch"].b => reg'.att[b] = reg.att[b]
                  /\ reg'.att[b].st = reg.att[b].st /\ reg'.att[b].p = reg.att[b].p
    <3>1. WorksOnOwn("dispatch")
      BY <2>1, <2>2, <2>3, <2>4, <2>6 DEF WorksOnOwn, Stem
    <3>2. RegShape(reg')
      BY <1>0, <2>6 DEF RegShape, IsCurrentFence
    <3> QED BY <1>0, <2>1, <3>1, <3>2, ShapeUser
  <2> QED BY <1>0, <1>44, <2>5, <2>6, DoesBeginTurn
<1>45. CASE EndTurn
  <2>1. TypeInv' /\ "dispatch" \in Users /\ Fades(reg, reg')
    BY <1>0, <1>45, DoesEndTurn, FadesStays DEF Users, EndTurn
  <2>2. RebuildingOf("dispatch")'
    BY <1>0, <1>45, DoesEndTurn DEF Stops, RebuildingOf
  <2>3. WorksOnOwn("dispatch")
    BY <1>0, <1>f, <1>45, <2>1, <2>2, DoesEndTurn DEF EndTurn, WorksOnOwn, Stops, Rests, Carries
  <2> QED BY <1>0, <1>f, <2>1, <2>3, ShapeUser
<1>46. CASE Tick
  <2>1. TypeInv' /\ Fades(reg, reg') /\ ListStays
    BY <1>0, <1>46, DoesTick, FadesStays DEF Tick, ListStays, Fault, Candidates
  <2>2. sw' = sw /\ user' = user /\ db'.cur = db.cur /\ used'.switches = used.switches
    BY <1>0, <1>46, DoesTick DEF Tick, Fault
  <2> QED BY <1>0, <2>1, <2>2, ShapeElsewhere
<1>47. CASE StartSweep
  <2>1. TypeInv' /\ Fades(reg, reg') /\ ListStays
    BY <1>0, <1>47, DoesStartSweep, FadesStays DEF StartSweep, ListStays, Fault, Candidates
  <2>2. sw' = sw /\ user' = user /\ db'.cur = db.cur /\ used'.switches = used.switches
    BY <1>0, <1>47, DoesStartSweep DEF StartSweep, Fault
  <2> QED BY <1>0, <2>1, <2>2, ShapeElsewhere
<1>48. CASE DetachSwept
  <2>1. TypeInv' /\ Fades(reg, reg') /\ ListStays
    BY <1>0, <1>48, DoesDetachSwept DEF DetachSwept, ListStays, Fault, Candidates
  <2>2. sw' = sw /\ user' = user /\ db'.cur = db.cur /\ used'.switches = used.switches
    BY <1>0, <1>48, DoesDetachSwept DEF DetachSwept, Fault
  <2> QED BY <1>0, <2>1, <2>2, ShapeElsewhere
<1>49. CASE EndSweep
  <2>1. TypeInv' /\ Fades(reg, reg') /\ ListStays
    BY <1>0, <1>49, DoesEndSweep, FadesStays DEF EndSweep, ListStays, Fault, Candidates
  <2>2. sw' = sw /\ user' = user /\ db'.cur = db.cur /\ used'.switches = used.switches
    BY <1>0, <1>49, DoesEndSweep DEF EndSweep, Fault
  <2> QED BY <1>0, <2>1, <2>2, ShapeElsewhere
<1>50. CASE ShutdownAuthSource
  <2>1. TypeInv' /\ Fades(reg, reg') /\ ListStays
    BY <1>0, <1>50, DoesShutdown DEF ShutdownAuthSource, ListStays, Fault, Candidates
  <2>2. sw' = sw /\ user' = user /\ db'.cur = db.cur /\ used'.switches = used.switches
    BY <1>0, <1>50, DoesShutdown DEF ShutdownAuthSource, Fault
  <2> QED BY <1>0, <2>1, <2>2, ShapeElsewhere
<1>51. CASE RaiseRevision
  <2>1. TypeInv' /\ Fades(reg, reg') /\ ListStays
    BY <1>0, <1>51, DoesRaise, FadesStays DEF RaiseRevision, ListStays, Fault, Candidates
  <2>2. sw' = sw /\ user' = user /\ db'.cur = db.cur /\ used'.switches = used.switches
    BY <1>0, <1>51, DoesRaise DEF RaiseRevision, Fault
  <2> QED BY <1>0, <2>1, <2>2, ShapeElsewhere
<1>52. ASSUME NEW b \in Bindings, ClaimClose(b) PROVE TypeInv' /\ Shape'
  <2>1. TypeInv' /\ Fades(reg, reg') /\ ListStays
    BY <1>0, <1>52, DoesClaimClose DEF ClaimClose, ListStays, Fault
  <2>2. sw' = sw /\ user' = user /\ db'.cur = db.cur /\ used'.switches = used.switches
    BY <1>0, <1>52, DoesClaimClose DEF ClaimClose, Fault
  <2> QED BY <1>0, <2>1, <2>2, ShapeElsewhere
<1>53. ASSUME NEW p \in Processes, ExitProcess(p) PROVE TypeInv' /\ Shape'
  <2>1. TypeInv' /\ Fades(reg, reg') /\ ListStays
    BY <1>0, <1>53, DoesExit DEF ExitProcess, ListStays, Fault
  <2>2. sw' = sw /\ user' = user /\ db'.cur = db.cur /\ used'.switches = used.switches
    BY <1>0, <1>53, DoesExit DEF ExitProcess, Fault
  <2> QED BY <1>0, <2>1, <2>2, ShapeElsewhere
<1>54. ASSUME NEW b \in Bindings, NoticeCrash(b) PROVE TypeInv' /\ Shape'
  <2>1. TypeInv' /\ Fades(reg, reg') /\ ListStays
    BY <1>0, <1>54, DoesNotice DEF NoticeCrash, ListStays, Fault
  <2>2. sw' = sw /\ user' = user /\ db'.cur = db.cur /\ used'.switches = used.switches
    BY <1>0, <1>54, DoesNotice DEF NoticeCrash, Fault
  <2> QED BY <1>0, <2>1, <2>2, ShapeElsewhere
<1> QED BY <1>1, <1>2, <1>3, <1>4, <1>5, <1>6, <1>7, <1>8, <1>9, <1>10, <1>11, <1>12, <1>13, <1>14, <1>15, <1>16, <1>17, <1>18, <1>19, <1>20, <1>21, <1>22, <1>23, <1>24, <1>25, <1>26, <1>27, <1>28, <1>29, <1>30, <1>31, <1>32, <1>33, <1>34, <1>35, <1>36, <1>37, <1>38, <1>39, <1>40, <1>41, <1>42, <1>43, <1>44, <1>45, <1>46, <1>47, <1>48, <1>49, <1>50, <1>51, <1>52, <1>53, <1>54
       DEF Next, Materialise, DriveSwitch, Turn, Sweep

-----------------------------------------------------------------------------
(* The registry invariant of the specification. *)

LEMMA BaseInit == Init => BaseInv
<1> SUFFICES ASSUME Init PROVE BaseInv
  OBVIOUS
<1> DEFINE a1 == [NoAttachment EXCEPT !.st = "Committed", !.gen = 1, !.p = 1]
           A == [b \in Bindings |-> IF b = 1 THEN a1 ELSE NoAttachment]
<1>1. /\ a1 \in Attachments /\ a1.st = "Committed" /\ a1.p = 1 /\ 1 # NoProcess
      /\ 1 # NoBinding /\ 0 = NoBinding
  BY Numbers DEF NoAttachment, Attachments, NoProcess, NoBinding
<1>2. /\ reg.att = A /\ reg.cur = 1 /\ reg.last = 1
      /\ reg = [att |-> A, cur |-> 1, last |-> 1,
                proc |-> [p \in Processes |-> IF p = 1 THEN "up" ELSE "gone"]]
  BY DEF Init
<1> HIDE DEF a1
<1>3. /\ A \in [Bindings -> Attachments] /\ A[1] = a1
      /\ \A b \in Bindings : b # 1 => A[b] = NoAttachment
  BY <1>1, NoAttachmentType, Numbers
<1> HIDE DEF A
<1>4. reg \in RegRec
  BY <1>2, <1>3, Numbers DEF RegRec, SomeBinding
<1>5. db \in DbRec /\ fenced \in BOOLEAN /\ db.cur = 1
  BY Numbers DEF Init, DbRec
<1>6. gate \in GateRec /\ gate.readers = {} /\ gate.writer = FALSE
  BY DEF Init, GateRec
<1>7. lock \in Users \cup {NoOne} /\ lease \in LeaseRec
  BY DEF Init, LeaseRec, SomeProcess
<1>8. UserOK /\ \A u \in Users : user[u].pc = "idle" /\ user[u].b = NoBinding
  <2>1. \A u \in Users : user[u] = Resting
    BY DEF Init
  <2>2. "idle" \notin Bound
    BY UserPlaces
  <2>3. user \in [Users -> UserRec]
    BY RestingType DEF Init
  <2> QED BY <2>1, <2>2, <2>3, RestingType DEF UserOK, NamesBinding
<1>9. SwitchOK /\ sw.pc = "idle" /\ sw.b = NoBinding /\ sw.by = NoOne
  BY NoSwitchType DEF Init, SwitchOK
<1>10. SweepOK /\ sweep.pc = "idle" /\ sweep.listed = {}
  BY DEF Init, NotSweeping, SweepOK, SweepRec, SomeBinding
<1>11. RestOK /\ used.switches = 0
  <2>1. 0 \in 0 .. MaxSwitches
    BY BoundsAssumption
  <2> QED BY <2>1 DEF Init, RestOK
<1>12. TypeInv
  BY <1>4, <1>5, <1>6, <1>7, <1>8, <1>9, <1>10, <1>11 DEF TypeInv, StoreOK, LocksOK
<1>13. Serial
  BY <1>6, <1>8, <1>9, <1>10, UserPlaces DEF Serial
<1>14. RegShape(reg)
  BY <1>1, <1>2, <1>3, NoAttachmentType DEF RegShape
<1>15. Bounded
  <2>1. Known = 1
    BY <1>11 DEF Known
  <2>2. ASSUME NEW b \in Bindings, reg.att[b].st # "none" PROVE b <= Known
    BY <1>2, <1>3, <2>1, <2>2, NoAttachmentType
  <2> QED BY <1>5, <1>8, <1>9, <1>10, <2>1, <2>2 DEF Bounded, NoBinding
<1>16. TargetIsNew /\ TargetIsCurrent
  BY <1>9, SwitchPlaces DEF TargetIsNew, TargetIsCurrent
<1>17. Rebuilding
  BY <1>8 DEF Rebuilding
<1> QED BY <1>12, <1>13, <1>14, <1>15, <1>16, <1>17 DEF BaseInv, Shape

LEMMA BaseStutter ==
    ASSUME BaseInv, UNCHANGED vars
    PROVE  BaseInv'
<1> USE DEF vars
<1>1. TypeInv'
  BY DEF BaseInv, TypeInv, StoreOK, LocksOK, UserOK, SwitchOK, SweepOK, RestOK
<1>2. Serial'
  BY DEF BaseInv, Serial
<1>3. Shape'
  BY DEF BaseInv, Shape, Bounded, Known, TargetIsNew, TargetIsCurrent, Rebuilding, RegShape
<1> QED BY <1>1, <1>2, <1>3 DEF BaseInv

LEMMA BaseStep ==
    ASSUME BaseInv, [Next]_vars
    PROVE  BaseInv'
  BY BaseStutter, SerialStep, ShapeStep DEF BaseInv

LEMMA BaseAlways == Spec => []BaseInv
<1>1. Init => BaseInv
  BY BaseInit
<1>2. BaseInv /\ [Next]_vars => BaseInv'
  BY BaseStep
<1> QED BY <1>1, <1>2, PTL DEF Spec

\* The state has its types in every reachable state, and whatever the tasks, the sweeper
\* and dying processes do, the registry has at most one Committed attachment and its
\* current pointer names it (activate_with_prompt_closed, mark_crashed,
\* claim_idle_close_if, detach_attachment).
THEOREM AttachTypes == Spec => []AttachTypeOK
<1>1. BaseInv => AttachTypeOK
  <2> SUFFICES ASSUME BaseInv PROVE AttachTypeOK
    OBVIOUS
  <2>1. reg \in RegRec /\ db \in DbRec /\ gate \in GateRec /\ lease \in LeaseRec
        /\ lock \in Users \cup {NoOne} /\ RegShape(reg)
    BY DEF BaseInv, TypeInv, StoreOK, LocksOK, Shape
  <2> QED BY <2>1 DEF AttachTypeOK, RegRec, DbRec, GateRec, LeaseRec, RegShape,
             SomeBinding, SomeProcess, Tasks
<1> QED BY <1>1, BaseAlways, PTL

-----------------------------------------------------------------------------
(* Nobody forgets a process: an attachment or a task that can still give it back *)
(* refers to every process that is up.                                           *)

\* Where the switch has a process that is not the process of its attachment yet, or
\* may not be.
Reserved == {"protectProcess", "placeProcess", "generation", "create", "fail", "cleanup"}

Held(p) ==
    \/ \E b \in Bindings : reg.att[b].p = p
    \/ \E u \in Users : user[u].pc = "open" /\ user[u].p = p
    \/ sw.p = p /\ sw.pc \in Reserved

OrphanInv == \A p \in Processes : reg.proc[p] = "up" => Held(p)

\* What each kind of holder does with its process in a step.
ProcessesKept == \A p \in Processes : reg'.proc[p] = "up" => reg.proc[p] = "up" \/ Held(p)'
AttachmentsKeep ==
    \A b \in Bindings : reg.att[b].p # NoProcess =>
        reg'.att[b].p = reg.att[b].p \/ reg'.proc[reg.att[b].p] # "up"
UserKeeps(u) ==
    user[u].pc = "open" =>
        \/ user'[u].pc = "open" /\ user'[u].p = user[u].p
        \/ reg'.proc[user[u].p] # "up"
        \/ \E b \in Bindings : reg'.att[b].p = user[u].p
SwitchKeeps ==
    sw.pc \in Reserved =>
        \/ sw'.pc \in Reserved /\ sw'.p = sw.p
        \/ sw.p \in Processes => reg'.proc[sw.p] # "up"
        \/ \E b \in Bindings : reg'.att[b].p = sw.p

LEMMA OrphanFrame ==
    ASSUME OrphanInv, ProcessesKept, AttachmentsKeep, \A u \in Users : UserKeeps(u), SwitchKeeps
    PROVE  OrphanInv'
<1> SUFFICES ASSUME NEW p \in Processes, reg'.proc[p] = "up", ~Held(p)' PROVE FALSE
  BY DEF OrphanInv
<1>1. Held(p) /\ p # NoProcess
  BY Numbers DEF ProcessesKept, OrphanInv
<1>2. CASE \E b \in Bindings : reg.att[b].p = p
  BY <1>1, <1>2 DEF AttachmentsKeep, Held
<1>3. CASE \E u \in Users : user[u].pc = "open" /\ user[u].p = p
  BY <1>3 DEF UserKeeps, Held
<1>4. CASE sw.p = p /\ sw.pc \in Reserved
  BY <1>4 DEF SwitchKeeps, Held
<1> QED BY <1>1, <1>2, <1>3, <1>4 DEF Held

LEMMA FadesOrphan ==
    ASSUME Fades(reg, reg')
    PROVE  ProcessesKept /\ AttachmentsKeep
<1>1. ProcessesKept
  BY DEF Fades, ProcessesKept
<1>2. ASSUME NEW b \in Bindings, reg.att[b].p # NoProcess
      PROVE  reg'.att[b].p = reg.att[b].p \/ reg'.proc[reg.att[b].p] # "up"
  BY <1>2 DEF Fades, Same
<1> QED BY <1>1, <1>2 DEF AttachmentsKeep

\* A step of u that is not opening a session.
LEMMA OrphanUser ==
    ASSUME TypeInv, OrphanInv, ProcessesKept, AttachmentsKeep, NEW u \in Users, Others(u), user[u].pc # "open",
           sw' = sw
    PROVE  OrphanInv'
<1>1. \A v \in Users : UserKeeps(v)
  BY DEF UserKeeps, Others
<1>2. SwitchKeeps
  BY DEF SwitchKeeps
<1> QED BY <1>1, <1>2, OrphanFrame

\* A step of the switch, or of the sweeper or a process.
LEMMA OrphanSwitch ==
    ASSUME TypeInv, OrphanInv, ProcessesKept, AttachmentsKeep, user' = user, SwitchKeeps
    PROVE  OrphanInv'
<1>1. \A v \in Users : UserKeeps(v)
  BY DEF UserKeeps
<1> QED BY <1>1, OrphanFrame

LEMMA OrphanActivated ==
    ASSUME TypeInv, NEW b \in Bindings, NEW shut \in BOOLEAN, reg' = Activated(reg, b, shut)
    PROVE  ProcessesKept /\ AttachmentsKeep
<1>1. reg \in RegRec
  BY DEF TypeInv, StoreOK
<1>2. reg'.proc = reg.proc
  BY <1>1, RegActivated
<1>3. ASSUME NEW c \in Bindings PROVE reg'.att[c].p = reg.att[c].p
  <2>1. Same(reg'.att[c], reg.att[c])
    BY <1>1, RegActivated
  <2> QED BY <2>1 DEF Same
<1> QED BY <1>2, <1>3 DEF ProcessesKept, AttachmentsKeep

LEMMA OrphanEnd ==
    ASSUME TypeInv, Serial, OrphanInv, Finishes, Fades(reg, reg'), sw.pc \notin Reserved
    PROVE  OrphanInv'
<1>1. ASSUME NEW v \in Users PROVE UserKeeps(v)
  <2>1. CASE v # sw.by
    BY <2>1 DEF Finishes, UserKeeps
  <2>2. CASE v = sw.by
    BY <2>2 DEF Serial, UserKeeps, Users, NoOne
  <2> QED BY <2>1, <2>2
<1>2. SwitchKeeps
  BY DEF SwitchKeeps
<1> QED BY <1>1, <1>2, FadesOrphan, OrphanFrame

LEMMA OrphanStep ==
    ASSUME BaseInv, OrphanInv, Next
    PROVE  OrphanInv'
<1>0. /\ TypeInv /\ Serial /\ Shape /\ RegShape(reg) /\ TargetIsNew /\ Rebuilding
      /\ reg \in RegRec
  BY DEF BaseInv, Shape, TypeInv, StoreOK
<1>s. Fades(reg, reg)
  BY <1>0, FadesStays
<1>1. ASSUME NEW u \in Users, RequestRuntime(u) PROVE OrphanInv'
  <2>1. Others(u) /\ user[u].pc # "open" /\ sw' = sw /\ Fades(reg, reg')
    BY <1>0, <1>s, <1>1, DoesRequest DEF RequestRuntime, AtUser
  <2> QED BY <1>0, <2>1, FadesOrphan, OrphanUser
<1>2. ASSUME NEW u \in Users, EnterGate(u) PROVE OrphanInv'
  <2>1. Others(u) /\ user[u].pc # "open" /\ sw' = sw /\ Fades(reg, reg')
    BY <1>0, <1>s, <1>2, DoesEnterGate DEF EnterGate, AtUser
  <2> QED BY <1>0, <2>1, FadesOrphan, OrphanUser
<1>3. ASSUME NEW u \in Users, Look(u) PROVE OrphanInv'
  <2>1. Others(u) /\ user[u].pc # "open" /\ sw' = sw /\ Fades(reg, reg')
    BY <1>0, <1>s, <1>3, DoesLook DEF Look, AtUser
  <2> QED BY <1>0, <2>1, FadesOrphan, OrphanUser
<1>4. ASSUME NEW u \in Users, ReadDurable(u) PROVE OrphanInv'
  <2>1. Others(u) /\ user[u].pc # "open" /\ sw' = sw /\ Fades(reg, reg')
    BY <1>0, <1>s, <1>4, DoesReadDurable DEF ReadDurable, AtUser
  <2> QED BY <1>0, <2>1, FadesOrphan, OrphanUser
<1>5. ASSUME NEW u \in Users, TakeExisting(u) PROVE OrphanInv'
  <2>1. Others(u) /\ user[u].pc # "open" /\ sw' = sw /\ Fades(reg, reg')
    BY <1>0, <1>s, <1>5, DoesTakeExisting DEF TakeExisting, AtUser
  <2> QED BY <1>0, <2>1, FadesOrphan, OrphanUser
<1>6. ASSUME NEW u \in Users, CheckRevision(u) PROVE OrphanInv'
  <2>1. Others(u) /\ user[u].pc # "open" /\ sw' = sw /\ Fades(reg, reg')
    BY <1>0, <1>s, <1>6, DoesCheckRevision DEF CheckRevision, AtUser
  <2> QED BY <1>0, <2>1, FadesOrphan, OrphanUser
<1>7. ASSUME NEW u \in Users, Spawn(u) PROVE OrphanInv'
  <2>1. Others(u) /\ user[u].pc # "open" /\ sw' = sw
    BY <1>0, <1>7, DoesSpawn DEF Spawn, AtUser
  <2>2. ProcessesKept /\ AttachmentsKeep
    <3>1. CASE reg' = reg
      BY <1>s, <3>1, FadesOrphan
    <3>2. CASE /\ user'[u].pc = "open" /\ user'[u].p \in Processes
               /\ reg' = Spawned(reg, user'[u].p)
      <4>1. reg'.att = reg.att
        BY <1>0, <3>2, RegSpawned
      <4>2. ASSUME NEW p \in Processes, reg'.proc[p] = "up" PROVE reg.proc[p] = "up" \/ Held(p)'
        <5>1. CASE p = user'[u].p
          BY <3>2, <5>1 DEF Held
        <5>2. CASE p # user'[u].p
          BY <1>0, <3>2, <4>2, <5>2, RegSpawned
        <5> QED BY <5>1, <5>2
      <4> QED BY <4>1, <4>2 DEF ProcessesKept, AttachmentsKeep
    <3> QED BY <1>0, <1>7, <3>1, <3>2, DoesSpawn
  <2> QED BY <1>0, <2>1, <2>2, OrphanUser
<1>8. ASSUME NEW u \in Users, OpenSession(u) PROVE OrphanInv'
  <2>1. /\ user[u].b \in Bindings /\ user[u].pc = "open" /\ sw' = sw /\ Others(u)
    BY <1>0, <1>8, DoesOpenSession DEF OpenSession, AtUser
  <2>2. /\ user[u].p \in Processes /\ user[u].p \in SomeProcess /\ user[u].gen + 1 \in Nat
        /\ reg.att[user[u].b].p = NoProcess
    BY <1>0, <2>1, UserNames DEF Rebuilding, TypeInv, SomeProcess, RegShape
  <2>3. SwitchKeeps /\ \A v \in Users : v # u => UserKeeps(v)
    BY <2>1 DEF SwitchKeeps, UserKeeps, Others
  <2> DEFINE m == Registered(reg, user[u].b, user[u].gen + 1, user[u].p)
  <2>4. CASE reg' = m \/ reg' = Released(m, user[u].p)
    <3>1. m \in RegRec /\ m.proc = reg.proc
      BY <1>0, <2>1, <2>2, RegRegistered
    <3>2. ProcessesKept
      BY <2>2, <2>4, <3>1, RegReleased DEF ProcessesKept
    <3>3. AttachmentsKeep
      <4>1. ASSUME NEW c \in Bindings, c # user[u].b
            PROVE  reg'.att[c].p = reg.att[c].p
        <5>1. m.att[c] = reg.att[c]
          BY <1>0, <2>1, <2>2, <4>1, RegisteredElsewhere
        <5> QED BY <2>2, <2>4, <3>1, <5>1, RegReleased
      <4> QED BY <2>2, <4>1 DEF AttachmentsKeep
    <3>4. reg'.att[user[u].b].p = user[u].p
      BY <1>0, <2>1, <2>2, <2>4, RegisteredStem
    <3>5. UserKeeps(u)
      BY <2>1, <3>4 DEF UserKeeps
    <3> QED BY <2>3, <3>2, <3>3, <3>5, OrphanFrame
  <2>5. CASE reg' = Released(reg, user[u].p)
    <3>1. Fades(reg, reg') /\ reg'.proc[user[u].p] = "gone"
      BY <1>0, <2>2, <2>5, FadesReleased, RegReleased
    <3>2. UserKeeps(u)
      BY <3>1 DEF UserKeeps
    <3> QED BY <2>3, <3>1, <3>2, FadesOrphan, OrphanFrame
  <2> QED BY <1>0, <1>8, <2>4, <2>5, DoesOpenSession
<1>9. ASSUME NEW u \in Users, AdvanceGeneration(u) PROVE OrphanInv'
  <2>1. Others(u) /\ user[u].pc # "open" /\ sw' = sw /\ Fades(reg, reg')
    BY <1>0, <1>s, <1>9, DoesAdvance DEF AdvanceGeneration, AtUser
  <2> QED BY <1>0, <2>1, FadesOrphan, OrphanUser
<1>10. ASSUME NEW u \in Users, ReadPromptGate(u) PROVE OrphanInv'
  <2>1. Others(u) /\ user[u].pc # "open" /\ sw' = sw /\ Fades(reg, reg')
    BY <1>0, <1>s, <1>10, DoesReadPromptGate DEF ReadPromptGate, AtUser
  <2> QED BY <1>0, <2>1, FadesOrphan, OrphanUser
<1>11. ASSUME NEW u \in Users, Activate(u) PROVE OrphanInv'
  <2>1. Others(u) /\ user[u].pc # "open" /\ sw' = sw /\ user[u].b \in Bindings
    BY <1>0, <1>11, DoesActivate DEF Activate, AtUser
  <2>2. CASE Fades(reg, reg')
    BY <1>0, <2>1, <2>2, FadesOrphan, OrphanUser
  <2>3. CASE reg' = Activated(reg, user[u].b, user[u].shut)
    BY <1>0, <2>1, <2>3, UserNames, OrphanActivated, OrphanUser DEF TypeInv
  <2> QED BY <1>0, <1>11, <2>2, <2>3, DoesActivate
<1>12. ASSUME NEW u \in Users, Touch(u) PROVE OrphanInv'
  <2>1. Others(u) /\ user[u].pc # "open" /\ sw' = sw /\ Fades(reg, reg')
    BY <1>0, <1>s, <1>12, DoesTouch DEF Touch, AtUser
  <2> QED BY <1>0, <2>1, FadesOrphan, OrphanUser
<1>13. ASSUME NEW u \in Users, TakeLease(u) PROVE OrphanInv'
  <2>1. Others(u) /\ user[u].pc # "open" /\ sw' = sw /\ Fades(reg, reg')
    BY <1>0, <1>s, <1>13, DoesTakeLease DEF TakeLease, AtUser
  <2> QED BY <1>0, <2>1, FadesOrphan, OrphanUser
<1>14. ASSUME NEW u \in Users, Refresh(u) PROVE OrphanInv'
  <2>1. Others(u) /\ user[u].pc # "open" /\ reg' = reg
    BY <1>0, <1>14, DoesRefresh DEF Refresh, AtUser
  <2>2. \A v \in Users : UserKeeps(v)
    BY <2>1 DEF UserKeeps, Others
  <2>3. SwitchKeeps
    BY <1>0, <1>14, DoesRefresh DEF SwitchKeeps, Starts, Reserved
  <2> QED BY <1>s, <2>1, <2>2, <2>3, FadesOrphan, OrphanFrame
<1>15. CASE DetachClient
  <2>1. Fades(reg, reg') /\ sw' = sw /\ user' = user
    BY <1>0, <1>s, <1>15, DoesDetachClient DEF DetachClient, Fault
  <2>2. SwitchKeeps
    BY <2>1 DEF SwitchKeeps
  <2> QED BY <1>0, <2>1, <2>2, FadesOrphan, OrphanSwitch
<1>16. CASE UserSwitches
  <2>1. reg' = reg /\ user' = user
    BY <1>16 DEF UserSwitches
  <2>2. SwitchKeeps
    BY <1>0, <1>16, DoesUserSwitch DEF UserSwitches, AtSwitch, SwitchKeeps, SwitchCarries, SwitchGoes, Starts, Reserved
  <2> QED BY <1>0, <1>s, <2>1, <2>2, FadesOrphan, OrphanSwitch
<1>17. CASE WaitIdle("probe", "close")
  <2>1. "probe" \in PreCommit /\ "close" \in PreCommit
    BY SwitchPlacesNamed
  <2>2. Fades(reg, reg') /\ user' = user
    BY <1>0, <1>s, <1>17, <2>1, DoesWaitIdle DEF WaitIdle, SetsGate
  <2>3. SwitchCarries /\ sw.pc = "probe" /\ sw'.pc \in {"probe", "close", "fail"}
    BY <1>0, <1>17, <2>1, DoesWaitIdle DEF SwitchGoes, WaitIdle, AtSwitch
  <2>4. SwitchKeeps
    BY <2>3 DEF SwitchKeeps, SwitchCarries, Reserved
  <2> QED BY <1>0, <2>2, <2>4, FadesOrphan, OrphanSwitch
<1>18. CASE ClosePrompts("close", "reprobe")
  <2>1. "close" \in PreCommit /\ "reprobe" \in PreCommit
    BY SwitchPlacesNamed
  <2>2. Fades(reg, reg') /\ user' = user
    BY <1>0, <1>s, <1>18, <2>1, DoesClosePrompts DEF ClosePrompts, SetsGate
  <2>3. SwitchCarries /\ sw.pc = "close" /\ sw'.pc \in {"close", "reprobe", "fail"}
    BY <1>0, <1>18, <2>1, DoesClosePrompts DEF SwitchGoes, ClosePrompts, AtSwitch
  <2>4. SwitchKeeps
    BY <2>3 DEF SwitchKeeps, SwitchCarries, Reserved
  <2> QED BY <1>0, <2>2, <2>4, FadesOrphan, OrphanSwitch
<1>19. CASE Reprobe
  <2>1. reg' = reg /\ user' = user
    BY <1>19 DEF Reprobe
  <2>2. SwitchKeeps
    BY <1>0, <1>19, DoesReprobe DEF Reprobe, AtSwitch, SwitchKeeps, SwitchCarries, SwitchGoes, Starts, Reserved
  <2> QED BY <1>0, <1>s, <2>1, <2>2, FadesOrphan, OrphanSwitch
<1>20. CASE ClosePrompts("closeToPrepare", "prepareIdle")
  <2>1. "closeToPrepare" \in PreCommit /\ "prepareIdle" \in PreCommit
    BY SwitchPlacesNamed
  <2>2. Fades(reg, reg') /\ user' = user
    BY <1>0, <1>s, <1>20, <2>1, DoesClosePrompts DEF ClosePrompts, SetsGate
  <2>3. SwitchCarries /\ sw.pc = "closeToPrepare" /\ sw'.pc \in {"closeToPrepare", "prepareIdle", "fail"}
    BY <1>0, <1>20, <2>1, DoesClosePrompts DEF SwitchGoes, ClosePrompts, AtSwitch
  <2>4. SwitchKeeps
    BY <2>3 DEF SwitchKeeps, SwitchCarries, Reserved
  <2> QED BY <1>0, <2>2, <2>4, FadesOrphan, OrphanSwitch
<1>21. CASE WaitIdle("prepareIdle", "spawn")
  <2>1. "prepareIdle" \in PreCommit /\ "spawn" \in PreCommit
    BY SwitchPlacesNamed
  <2>2. Fades(reg, reg') /\ user' = user
    BY <1>0, <1>s, <1>21, <2>1, DoesWaitIdle DEF WaitIdle, SetsGate
  <2>3. SwitchCarries /\ sw.pc = "prepareIdle" /\ sw'.pc \in {"prepareIdle", "spawn", "fail"}
    BY <1>0, <1>21, <2>1, DoesWaitIdle DEF SwitchGoes, WaitIdle, AtSwitch
  <2>4. SwitchKeeps
    BY <2>3 DEF SwitchKeeps, SwitchCarries, Reserved
  <2> QED BY <1>0, <2>2, <2>4, FadesOrphan, OrphanSwitch
<1>22. CASE SpawnTarget
  <2>1. user' = user /\ sw.pc = "spawn"
    BY <1>22 DEF SpawnTarget, AtSwitch
  <2>2. SwitchKeeps
    BY <2>1 DEF SwitchKeeps, Reserved
  <2>3. CASE reg' = reg
    BY <1>0, <1>s, <2>1, <2>2, <2>3, FadesOrphan, OrphanSwitch
  <2>4. CASE /\ sw'.pc = "protectProcess" /\ sw'.p \in Processes /\ reg' = Spawned(reg, sw'.p)
    <3>1. reg'.att = reg.att
      BY <1>0, <2>4, RegSpawned
    <3>2. ASSUME NEW p \in Processes, reg'.proc[p] = "up" PROVE reg.proc[p] = "up" \/ Held(p)'
      <4>1. CASE p = sw'.p
        BY <2>4, <4>1 DEF Held, Reserved
      <4>2. CASE p # sw'.p
        BY <1>0, <2>4, <3>2, <4>2, RegSpawned
      <4> QED BY <4>1, <4>2
    <3>3. ProcessesKept /\ AttachmentsKeep
      BY <3>1, <3>2 DEF ProcessesKept, AttachmentsKeep
    <3> QED BY <1>0, <2>1, <2>2, <3>3, OrphanSwitch
  <2> QED BY <1>0, <1>22, <2>3, <2>4, DoesSpawnTarget
<1>23. CASE Protect("protectProcess", "placeProcess")
  <2>1. "protectProcess" \in PreCommit /\ "placeProcess" \in PreCommit
    BY SwitchPlacesNamed
  <2>2. Fades(reg, reg') /\ user' = user
    BY <1>0, <1>s, <1>23, <2>1, DoesProtect DEF Protect, SetsGate
  <2>3. SwitchCarries /\ sw.pc = "protectProcess" /\ sw'.pc \in {"protectProcess", "placeProcess", "fail"}
    BY <1>0, <1>23, <2>1, DoesProtect DEF SwitchGoes, Protect, AtSwitch
  <2>4. SwitchKeeps
    BY <2>3 DEF SwitchKeeps, SwitchCarries, Reserved
  <2> QED BY <1>0, <2>2, <2>4, FadesOrphan, OrphanSwitch
<1>24. CASE PlaceLease("placeProcess", "switchProcess", "generation")
  <2>1. "placeProcess" \in PreCommit /\ "generation" \in PreCommit /\ "switchProcess" \in LeaseHolders
    BY SwitchPlacesNamed
  <2>2. Fades(reg, reg') /\ user' = user
    BY <1>0, <1>s, <1>24, <2>1, DoesPlaceLease DEF PlaceLease, SetsGate
  <2>3. SwitchCarries /\ sw.pc = "placeProcess" /\ sw'.pc \in {"placeProcess", "generation", "fail"}
    BY <1>0, <1>24, <2>1, DoesPlaceLease DEF SwitchGoes, PlaceLease, AtSwitch
  <2>4. SwitchKeeps
    BY <2>3 DEF SwitchKeeps, SwitchCarries, Reserved
  <2> QED BY <1>0, <2>2, <2>4, FadesOrphan, OrphanSwitch
<1>25. CASE ReadGeneration
  <2>1. reg' = reg /\ user' = user
    BY <1>25 DEF ReadGeneration
  <2>2. SwitchKeeps
    BY <1>0, <1>25, DoesReadGeneration DEF ReadGeneration, AtSwitch, SwitchKeeps, SwitchCarries, SwitchGoes, Starts, Reserved
  <2> QED BY <1>0, <1>s, <2>1, <2>2, FadesOrphan, OrphanSwitch
<1>26. CASE CreateSession
  <2>1. user' = user /\ sw.pc = "create" /\ sw.b \in Bindings /\ SwitchCarries
    BY <1>0, <1>26, DoesCreateSession DEF CreateSession, AtSwitch
  <2>2. /\ sw.p \in SomeProcess /\ sw.gen \in Nat /\ reg.att[sw.b].p = NoProcess
    <3>1. sw.pc \in PreCommit /\ sw.pc \in PreCreate /\ sw.pc # "idle"
      BY <2>1 DEF PreCommit, PreCreate
    <3> QED BY <1>0, <2>1, <3>1, SwitchNames DEF TargetIsNew, TypeInv, RegShape
  <2>3. CASE reg' = Registered(reg, sw.b, sw.gen, sw.p)
    <3>1. reg'.proc = reg.proc /\ reg'.att[sw.b].p = sw.p
      BY <1>0, <2>1, <2>2, <2>3, RegRegistered
    <3>2. ASSUME NEW c \in Bindings, c # sw.b PROVE reg'.att[c].p = reg.att[c].p
      BY <1>0, <2>1, <2>2, <2>3, <3>2, RegisteredElsewhere
    <3>3. ProcessesKept /\ AttachmentsKeep /\ SwitchKeeps
      BY <2>1, <2>2, <3>1, <3>2 DEF ProcessesKept, AttachmentsKeep, SwitchKeeps
    <3> QED BY <1>0, <2>1, <3>3, OrphanSwitch
  <2>4. CASE reg' = Released(reg, sw.p)
    <3>1. Fades(reg, reg') /\ (sw.p \in Processes => reg'.proc[sw.p] = "gone")
      BY <1>0, <2>2, <2>4, FadesReleased, RegReleased
    <3>2. SwitchKeeps
      BY <3>1 DEF SwitchKeeps
    <3> QED BY <1>0, <2>1, <3>1, <3>2, FadesOrphan, OrphanSwitch
  <2> QED BY <1>0, <1>26, <2>3, <2>4, DoesCreateSession
<1>27. CASE Protect("protectTarget", "placeTarget")
  <2>1. "protectTarget" \in PreCommit /\ "placeTarget" \in PreCommit
    BY SwitchPlacesNamed
  <2>2. Fades(reg, reg') /\ user' = user
    BY <1>0, <1>s, <1>27, <2>1, DoesProtect DEF Protect, SetsGate
  <2>3. SwitchCarries /\ sw.pc = "protectTarget" /\ sw'.pc \in {"protectTarget", "placeTarget", "fail"}
    BY <1>0, <1>27, <2>1, DoesProtect DEF SwitchGoes, Protect, AtSwitch
  <2>4. SwitchKeeps
    BY <2>3 DEF SwitchKeeps, SwitchCarries, Reserved
  <2> QED BY <1>0, <2>2, <2>4, FadesOrphan, OrphanSwitch
<1>28. CASE PlaceLease("placeTarget", "switchTarget", "insert")
  <2>1. "placeTarget" \in PreCommit /\ "insert" \in PreCommit /\ "switchTarget" \in LeaseHolders
    BY SwitchPlacesNamed
  <2>2. Fades(reg, reg') /\ user' = user
    BY <1>0, <1>s, <1>28, <2>1, DoesPlaceLease DEF PlaceLease, SetsGate
  <2>3. SwitchCarries /\ sw.pc = "placeTarget" /\ sw'.pc \in {"placeTarget", "insert", "fail"}
    BY <1>0, <1>28, <2>1, DoesPlaceLease DEF SwitchGoes, PlaceLease, AtSwitch
  <2>4. SwitchKeeps
    BY <2>3 DEF SwitchKeeps, SwitchCarries, Reserved
  <2> QED BY <1>0, <2>2, <2>4, FadesOrphan, OrphanSwitch
<1>29. CASE InsertBinding
  <2>1. reg' = reg /\ user' = user
    BY <1>29 DEF InsertBinding
  <2>2. SwitchKeeps
    BY <1>0, <1>29, DoesInsertBinding DEF InsertBinding, AtSwitch, SwitchKeeps, SwitchCarries, SwitchGoes, Starts, Reserved
  <2> QED BY <1>0, <1>s, <2>1, <2>2, FadesOrphan, OrphanSwitch
<1>30. CASE ClosePrompts("closeToCommit", "commitIdle")
  <2>1. "closeToCommit" \in PreCommit /\ "commitIdle" \in PreCommit
    BY SwitchPlacesNamed
  <2>2. Fades(reg, reg') /\ user' = user
    BY <1>0, <1>s, <1>30, <2>1, DoesClosePrompts DEF ClosePrompts, SetsGate
  <2>3. SwitchCarries /\ sw.pc = "closeToCommit" /\ sw'.pc \in {"closeToCommit", "commitIdle", "fail"}
    BY <1>0, <1>30, <2>1, DoesClosePrompts DEF SwitchGoes, ClosePrompts, AtSwitch
  <2>4. SwitchKeeps
    BY <2>3 DEF SwitchKeeps, SwitchCarries, Reserved
  <2> QED BY <1>0, <2>2, <2>4, FadesOrphan, OrphanSwitch
<1>31. CASE WaitIdle("commitIdle", "revalidate")
  <2>1. "commitIdle" \in PreCommit /\ "revalidate" \in PreCommit
    BY SwitchPlacesNamed
  <2>2. Fades(reg, reg') /\ user' = user
    BY <1>0, <1>s, <1>31, <2>1, DoesWaitIdle DEF WaitIdle, SetsGate
  <2>3. SwitchCarries /\ sw.pc = "commitIdle" /\ sw'.pc \in {"commitIdle", "revalidate", "fail"}
    BY <1>0, <1>31, <2>1, DoesWaitIdle DEF SwitchGoes, WaitIdle, AtSwitch
  <2>4. SwitchKeeps
    BY <2>3 DEF SwitchKeeps, SwitchCarries, Reserved
  <2> QED BY <1>0, <2>2, <2>4, FadesOrphan, OrphanSwitch
<1>32. CASE Revalidate
  <2>1. reg' = reg /\ user' = user
    BY <1>32 DEF Revalidate
  <2>2. SwitchKeeps
    BY <1>0, <1>32, DoesRevalidate DEF Revalidate, AtSwitch, SwitchKeeps, SwitchCarries, SwitchGoes, Starts, Reserved
  <2> QED BY <1>0, <1>s, <2>1, <2>2, FadesOrphan, OrphanSwitch
<1>33. CASE Commit
  <2>1. reg' = reg /\ user' = user
    BY <1>33 DEF Commit
  <2>2. SwitchKeeps
    BY <1>0, <1>33, DoesCommit DEF Commit, AtSwitch, SwitchKeeps, SwitchCarries, SwitchGoes, Starts, Reserved
  <2> QED BY <1>0, <1>s, <2>1, <2>2, FadesOrphan, OrphanSwitch
<1>34. CASE ActivationFails
  <2>1. Finishes /\ Fades(reg, reg') /\ sw.pc \notin Reserved
    BY <1>0, <1>s, <1>34, DoesActivationFail DEF ActivationFails, Reopens, SetsGate, AtSwitch, Reserved
  <2> QED BY <1>0, <2>1, OrphanEnd
<1>35. CASE ReadGateForTarget
  <2>1. reg' = reg /\ user' = user
    BY <1>35 DEF ReadGateForTarget
  <2>2. SwitchKeeps
    BY <1>0, <1>35, DoesReadGate DEF ReadGateForTarget, AtSwitch, SwitchKeeps, SwitchCarries, SwitchGoes, Starts, Reserved
  <2> QED BY <1>0, <1>s, <2>1, <2>2, FadesOrphan, OrphanSwitch
<1>36. CASE ActivateTarget
  <2>1. user' = user /\ sw.pc = "activate" /\ sw.b \in Bindings /\ reg' = Activated(reg, sw.b, sw.shut)
    BY <1>0, <1>36, DoesActivateTarget DEF ActivateTarget, AtSwitch
  <2>2. SwitchKeeps /\ sw.shut \in BOOLEAN
    BY <1>0, <2>1, SwitchNames DEF SwitchKeeps, Reserved, TypeInv
  <2> QED BY <1>0, <2>1, <2>2, OrphanActivated, OrphanSwitch
<1>37. CASE OpenPrompts
  <2>1. Finishes /\ Fades(reg, reg') /\ sw.pc \notin Reserved
    BY <1>0, <1>s, <1>37, DoesReopen DEF OpenPrompts, Reopens, SetsGate, AtSwitch, Reserved
  <2> QED BY <1>0, <2>1, OrphanEnd
<1>38. CASE FailSwitch
  <2>1. reg' = reg /\ user' = user
    BY <1>38 DEF FailSwitch
  <2>2. SwitchKeeps
    BY <1>0, <1>38, DoesFailSwitch DEF FailSwitch, AtSwitch, SwitchKeeps, SwitchCarries, SwitchGoes, Starts, Reserved
  <2> QED BY <1>0, <1>s, <2>1, <2>2, FadesOrphan, OrphanSwitch
<1>39. CASE CleanupTarget
  <2>1. Fades(reg, reg') /\ user' = user /\ sw.b \in Bindings /\ sw.pc = "cleanup"
    BY <1>0, <1>39, DoesCleanup DEF CleanupTarget, AtSwitch
  <2>2. ASSUME sw.p \in Processes PROVE reg'.proc[sw.p] # "up"
    <3>1. sw.p # NoProcess /\ sw.p \in SomeProcess /\ "cleanup" \in PreCommit
      BY <2>2, Numbers, SwitchPlacesNamed DEF SomeProcess
    <3>2. CASE reg.att[sw.b].st # "none" /\ reg' = Detached(reg, sw.b)
      <4>1. reg.att[sw.b].p = sw.p
        BY <1>0, <2>1, <3>1, <3>2 DEF TargetIsNew
      <4> QED BY <1>0, <2>1, <3>1, <3>2, <4>1, FadesDetached
    <3>3. CASE reg' = Released(reg, sw.p)
      <4>1. reg'.proc[sw.p] = "gone"
        BY <1>0, <2>2, <3>1, <3>3, RegReleased
      <4> QED BY <4>1
    <3> QED BY <1>0, <1>39, <3>2, <3>3, DoesCleanup
  <2>3. SwitchKeeps
    BY <2>2 DEF SwitchKeeps
  <2> QED BY <1>0, <2>1, <2>3, FadesOrphan, OrphanSwitch
<1>40. CASE ReopenPrompts
  <2>1. Finishes /\ Fades(reg, reg') /\ sw.pc \notin Reserved
    BY <1>0, <1>s, <1>40, DoesReopen DEF ReopenPrompts, Reopens, SetsGate, AtSwitch, Reserved
  <2> QED BY <1>0, <2>1, OrphanEnd
<1>41. CASE AdmitTurn
  <2>1. /\ "dispatch" \in Users /\ Others("dispatch") /\ user["dispatch"].pc # "open"
        /\ sw' = sw /\ Fades(reg, reg')
    BY <1>0, <1>s, <1>41, DoesAdmitTurn DEF AdmitTurn, AtUser, Stops, Users
  <2> QED BY <1>0, <2>1, FadesOrphan, OrphanUser
<1>42. CASE SendTurn
  <2>1. /\ "dispatch" \in Users /\ Others("dispatch") /\ user["dispatch"].pc # "open"
        /\ sw' = sw /\ Fades(reg, reg')
    BY <1>0, <1>s, <1>42, DoesSendTurn DEF SendTurn, AtUser, Stops, Users
  <2> QED BY <1>0, <2>1, FadesOrphan, OrphanUser
<1>43. CASE AcquirePrompt
  <2>1. /\ "dispatch" \in Users /\ Others("dispatch") /\ user["dispatch"].pc # "open"
        /\ sw' = sw /\ Fades(reg, reg')
    BY <1>0, <1>s, <1>43, DoesAcquirePrompt DEF AcquirePrompt, AtUser, Stops, Users
  <2> QED BY <1>0, <2>1, FadesOrphan, OrphanUser
<1>44. CASE BeginTurn
  <2>1. /\ "dispatch" \in Users /\ Others("dispatch") /\ user["dispatch"].pc # "open"
        /\ sw' = sw
    BY <1>0, <1>44, DoesBeginTurn DEF BeginTurn, AtUser, Stops, Users
  <2>2. CASE Fades(reg, reg')
    BY <1>0, <2>1, <2>2, FadesOrphan, OrphanUser
  <2>3. CASE reg'.proc = reg.proc /\ \A b \in Bindings : reg'.att[b].p = reg.att[b].p
    <3>1. ProcessesKept /\ AttachmentsKeep
      BY <2>3 DEF ProcessesKept, AttachmentsKeep
    <3> QED BY <1>0, <2>1, <3>1, OrphanUser
  <2> QED BY <1>0, <1>44, <2>2, <2>3, DoesBeginTurn
<1>45. CASE EndTurn
  <2>1. /\ "dispatch" \in Users /\ Others("dispatch") /\ user["dispatch"].pc # "open"
        /\ sw' = sw /\ Fades(reg, reg')
    BY <1>0, <1>s, <1>45, DoesEndTurn DEF EndTurn, AtUser, Stops, Users
  <2> QED BY <1>0, <2>1, FadesOrphan, OrphanUser
<1>46. CASE Tick
  <2>1. Fades(reg, reg') /\ sw' = sw /\ user' = user
    BY <1>0, <1>s, <1>46, DoesTick DEF Tick, Fault
  <2>2. SwitchKeeps
    BY <2>1 DEF SwitchKeeps
  <2> QED BY <1>0, <2>1, <2>2, FadesOrphan, OrphanSwitch
<1>47. CASE StartSweep
  <2>1. Fades(reg, reg') /\ sw' = sw /\ user' = user
    BY <1>0, <1>s, <1>47, DoesStartSweep DEF StartSweep, Fault
  <2>2. SwitchKeeps
    BY <2>1 DEF SwitchKeeps
  <2> QED BY <1>0, <2>1, <2>2, FadesOrphan, OrphanSwitch
<1>48. CASE DetachSwept
  <2>1. Fades(reg, reg') /\ sw' = sw /\ user' = user
    BY <1>0, <1>s, <1>48, DoesDetachSwept DEF DetachSwept, Fault
  <2>2. SwitchKeeps
    BY <2>1 DEF SwitchKeeps
  <2> QED BY <1>0, <2>1, <2>2, FadesOrphan, OrphanSwitch
<1>49. CASE EndSweep
  <2>1. Fades(reg, reg') /\ sw' = sw /\ user' = user
    BY <1>0, <1>s, <1>49, DoesEndSweep DEF EndSweep, Fault
  <2>2. SwitchKeeps
    BY <2>1 DEF SwitchKeeps
  <2> QED BY <1>0, <2>1, <2>2, FadesOrphan, OrphanSwitch
<1>50. CASE ShutdownAuthSource
  <2>1. Fades(reg, reg') /\ sw' = sw /\ user' = user
    BY <1>0, <1>s, <1>50, DoesShutdown DEF ShutdownAuthSource, Fault
  <2>2. SwitchKeeps
    BY <2>1 DEF SwitchKeeps
  <2> QED BY <1>0, <2>1, <2>2, FadesOrphan, OrphanSwitch
<1>51. CASE RaiseRevision
  <2>1. Fades(reg, reg') /\ sw' = sw /\ user' = user
    BY <1>0, <1>s, <1>51, DoesRaise DEF RaiseRevision, Fault
  <2>2. SwitchKeeps
    BY <2>1 DEF SwitchKeeps
  <2> QED BY <1>0, <2>1, <2>2, FadesOrphan, OrphanSwitch
<1>52. ASSUME NEW b \in Bindings, ClaimClose(b) PROVE OrphanInv'
  <2>1. Fades(reg, reg') /\ sw' = sw /\ user' = user
    BY <1>0, <1>52, DoesClaimClose DEF ClaimClose, Fault
  <2>2. SwitchKeeps
    BY <2>1 DEF SwitchKeeps
  <2> QED BY <1>0, <2>1, <2>2, FadesOrphan, OrphanSwitch
<1>53. ASSUME NEW p \in Processes, ExitProcess(p) PROVE OrphanInv'
  <2>1. Fades(reg, reg') /\ sw' = sw /\ user' = user
    BY <1>0, <1>53, DoesExit DEF ExitProcess, Fault
  <2>2. SwitchKeeps
    BY <2>1 DEF SwitchKeeps
  <2> QED BY <1>0, <2>1, <2>2, FadesOrphan, OrphanSwitch
<1>54. ASSUME NEW b \in Bindings, NoticeCrash(b) PROVE OrphanInv'
  <2>1. Fades(reg, reg') /\ sw' = sw /\ user' = user
    BY <1>0, <1>54, DoesNotice DEF NoticeCrash, Fault
  <2>2. SwitchKeeps
    BY <2>1 DEF SwitchKeeps
  <2> QED BY <1>0, <2>1, <2>2, FadesOrphan, OrphanSwitch
<1> QED BY <1>1, <1>2, <1>3, <1>4, <1>5, <1>6, <1>7, <1>8, <1>9, <1>10, <1>11, <1>12, <1>13, <1>14, <1>15, <1>16, <1>17, <1>18, <1>19, <1>20, <1>21, <1>22, <1>23, <1>24, <1>25, <1>26, <1>27, <1>28, <1>29, <1>30, <1>31, <1>32, <1>33, <1>34, <1>35, <1>36, <1>37, <1>38, <1>39, <1>40, <1>41, <1>42, <1>43, <1>44, <1>45, <1>46, <1>47, <1>48, <1>49, <1>50, <1>51, <1>52, <1>53, <1>54
       DEF Next, Materialise, DriveSwitch, Turn, Sweep

\* In every reachable state a process that is up belongs to an attachment or to the task
\* that spawned it, so no error path of acquire_attachment, prepare_target,
\* cleanup_target or the sweep leaves a process nobody can close.
THEOREM NoProcessForgotten == Spec => []NoOrphan
<1>1. Init => OrphanInv
  <2> SUFFICES ASSUME Init, NEW p \in Processes, reg.proc[p] = "up" PROVE Held(p)
    BY DEF OrphanInv
  <2>1. p = 1
    BY DEF Init
  <2>2. 1 \in Bindings /\ reg.att[1].p = 1
    BY Numbers DEF Init, NoAttachment
  <2> QED BY <2>1, <2>2 DEF Held
<1>2. BaseInv /\ OrphanInv /\ [Next]_vars => OrphanInv'
  <2> SUFFICES ASSUME BaseInv, OrphanInv, [Next]_vars PROVE OrphanInv'
    OBVIOUS
  <2>1. CASE UNCHANGED vars
    BY <2>1 DEF vars, OrphanInv, Held
  <2> QED BY <2>1, OrphanStep
<1>3. OrphanInv => NoOrphan
  BY DEF OrphanInv, NoOrphan, Held, Up
<1> QED BY <1>1, <1>2, <1>3, BaseAlways, PTL DEF Spec

-----------------------------------------------------------------------------
(* What the sweeper has listed is on no process with a lease, until it is closed. *)

LeaseInv ==
    \A b \in sweep.listed : reg.att[b].p = NoProcess \/ reg.att[b].p \notin Kept(lease)

LEMMA LeaseFrame ==
    ASSUME LeaseInv, sweep'.listed \subseteq sweep.listed,
           \A h \in LeaseHolders : lease'[h] \in {lease[h], NoProcess},
           \A b \in sweep.listed : reg'.att[b].p \in {reg.att[b].p, NoProcess}
    PROVE  LeaseInv'
<1> SUFFICES ASSUME NEW b \in sweep.listed, reg'.att[b].p # NoProcess
             PROVE  reg'.att[b].p \notin Kept(lease')
  BY DEF LeaseInv
<1>1. reg'.att[b].p = reg.att[b].p /\ \A h \in LeaseHolders : lease[h] # reg.att[b].p
  BY DEF LeaseInv, Kept
<1>2. ASSUME NEW h \in LeaseHolders PROVE lease'[h] # reg.att[b].p
  BY <1>1
<1> QED BY <1>1, <1>2 DEF Kept

\* Whoever is inside the gate keeps the sweeper out.
LEMMA NothingListed ==
    ASSUME Serial, gate.readers # {}
    PROVE  sweep.listed = {}
  BY DEF Serial

LEMMA LeaseFades ==
    ASSUME TypeInv, LeaseInv, Fades(reg, reg'), sweep'.listed \subseteq sweep.listed,
           \A h \in LeaseHolders : lease'[h] \in {lease[h], NoProcess}
    PROVE  LeaseInv'
<1>1. ASSUME NEW b \in sweep.listed PROVE reg'.att[b].p \in {reg.att[b].p, NoProcess}
  <2>1. b \in Bindings
    BY DEF TypeInv, SweepOK, SweepRec
  <2> QED BY <2>1, FadesKeeps
<1> QED BY <1>1, LeaseFrame

LEMMA LeaseActivated ==
    ASSUME TypeInv, LeaseInv, NEW b \in Bindings, NEW shut \in BOOLEAN,
           reg' = Activated(reg, b, shut), sweep'.listed \subseteq sweep.listed,
           \A h \in LeaseHolders : lease'[h] \in {lease[h], NoProcess}
    PROVE  LeaseInv'
<1>1. ASSUME NEW c \in sweep.listed PROVE reg'.att[c].p = reg.att[c].p
  <2>1. c \in Bindings /\ reg \in RegRec
    BY DEF TypeInv, SweepOK, SweepRec, StoreOK
  <2>2. Same(reg'.att[c], reg.att[c])
    BY <2>1, RegActivated
  <2> QED BY <2>2 DEF Same
<1> QED BY <1>1, LeaseFrame

LEMMA LeaseEmpty ==
    ASSUME sweep'.listed = {}
    PROVE  LeaseInv'
  BY DEF LeaseInv

LEMMA LeaseStep ==
    ASSUME BaseInv, LeaseInv, Next
    PROVE  LeaseInv'
<1>0. /\ TypeInv /\ Serial /\ Shape /\ RegShape(reg) /\ TargetIsNew /\ Rebuilding
      /\ reg \in RegRec
  BY DEF BaseInv, Shape, TypeInv, StoreOK
<1>s. Fades(reg, reg)
  BY <1>0, FadesStays
<1>i. ASSUME NEW u \in Users, user[u].pc \in Inside PROVE sweep.listed = {}
  BY <1>0, <1>i, NothingListed DEF Serial
<1>1. ASSUME NEW u \in Users, RequestRuntime(u) PROVE LeaseInv'
  <2>1. UNCHANGED <<reg, sweep, lease>>
    BY <1>1 DEF RequestRuntime
  <2> QED BY <1>0, <1>s, <2>1, LeaseFades
<1>2. ASSUME NEW u \in Users, EnterGate(u) PROVE LeaseInv'
  <2>1. UNCHANGED <<reg, sweep, lease>>
    BY <1>2 DEF EnterGate
  <2> QED BY <1>0, <1>s, <2>1, LeaseFades
<1>3. ASSUME NEW u \in Users, Look(u) PROVE LeaseInv'
  <2>1. user[u].pc \in Inside
    BY <1>3, UserPlaces DEF Look, AtUser
  <2>2. sweep'.listed \subseteq sweep.listed
    BY <1>0, <1>3, DoesLook
  <2> QED BY <1>i, <2>1, <2>2, LeaseEmpty
<1>4. ASSUME NEW u \in Users, ReadDurable(u) PROVE LeaseInv'
  <2>1. user[u].pc \in Inside /\ sweep' = sweep
    BY <1>4, UserPlaces DEF ReadDurable, AtUser
  <2> QED BY <1>i, <2>1, LeaseEmpty
<1>5. ASSUME NEW u \in Users, TakeExisting(u) PROVE LeaseInv'
  <2>1. user[u].pc \in Inside /\ sweep' = sweep
    BY <1>5, UserPlaces DEF TakeExisting, AtUser
  <2> QED BY <1>i, <2>1, LeaseEmpty
<1>6. ASSUME NEW u \in Users, CheckRevision(u) PROVE LeaseInv'
  <2>1. user[u].pc \in Inside /\ sweep' = sweep
    BY <1>6, UserPlaces DEF CheckRevision, AtUser
  <2> QED BY <1>i, <2>1, LeaseEmpty
<1>7. ASSUME NEW u \in Users, Spawn(u) PROVE LeaseInv'
  <2>1. user[u].pc \in Inside /\ sweep' = sweep
    BY <1>7, UserPlaces DEF Spawn, AtUser
  <2> QED BY <1>i, <2>1, LeaseEmpty
<1>8. ASSUME NEW u \in Users, OpenSession(u) PROVE LeaseInv'
  <2>1. user[u].pc \in Inside /\ sweep' = sweep
    BY <1>8, UserPlaces DEF OpenSession, AtUser
  <2> QED BY <1>i, <2>1, LeaseEmpty
<1>9. ASSUME NEW u \in Users, AdvanceGeneration(u) PROVE LeaseInv'
  <2>1. user[u].pc \in Inside /\ sweep' = sweep
    BY <1>9, UserPlaces DEF AdvanceGeneration, AtUser
  <2> QED BY <1>i, <2>1, LeaseEmpty
<1>10. ASSUME NEW u \in Users, ReadPromptGate(u) PROVE LeaseInv'
  <2>1. user[u].pc \in Inside /\ sweep' = sweep
    BY <1>10, UserPlaces DEF ReadPromptGate, AtUser
  <2> QED BY <1>i, <2>1, LeaseEmpty
<1>11. ASSUME NEW u \in Users, Activate(u) PROVE LeaseInv'
  <2>1. user[u].pc \in Inside
    BY <1>11, UserPlaces DEF Activate, AtUser
  <2>2. sweep'.listed \subseteq sweep.listed
    BY <1>0, <1>11, DoesActivate
  <2> QED BY <1>i, <2>1, <2>2, LeaseEmpty
<1>12. ASSUME NEW u \in Users, Touch(u) PROVE LeaseInv'
  <2>1. user[u].pc \in Inside
    BY <1>12, UserPlaces DEF Touch, AtUser
  <2>2. sweep'.listed \subseteq sweep.listed
    BY <1>0, <1>12, DoesTouch
  <2> QED BY <1>i, <2>1, <2>2, LeaseEmpty
<1>13. ASSUME NEW u \in Users, TakeLease(u) PROVE LeaseInv'
  <2>1. user[u].pc \in Inside /\ sweep' = sweep
    BY <1>13, UserPlaces DEF TakeLease, AtUser
  <2> QED BY <1>i, <2>1, LeaseEmpty
<1>14. ASSUME NEW u \in Users, Refresh(u) PROVE LeaseInv'
  <2>1. UNCHANGED <<reg, sweep, lease>>
    BY <1>14 DEF Refresh
  <2> QED BY <1>0, <1>s, <2>1, LeaseFades
<1>15. CASE DetachClient
  <2>1. Fades(reg, reg') /\ sweep'.listed \subseteq sweep.listed
    BY <1>0, <1>s, <1>15, DoesDetachClient DEF DetachClient, Reopens, SetsGate, SwitchGoes, Fault
  <2>2. \A h \in LeaseHolders : lease'[h] \in {lease[h], NoProcess}
    BY <1>0, <1>15, DoesDetachClient DEF DetachClient, Stops
  <2> QED BY <1>0, <2>1, <2>2, LeaseFades
<1>16. CASE UserSwitches
  <2>1. Fades(reg, reg') /\ sweep'.listed \subseteq sweep.listed
    BY <1>0, <1>s, <1>16, DoesUserSwitch DEF UserSwitches, Reopens, SetsGate, SwitchGoes, Fault
  <2>2. \A h \in LeaseHolders : lease'[h] \in {lease[h], NoProcess}
    BY <1>0, <1>16, DoesUserSwitch DEF UserSwitches, Stops
  <2> QED BY <1>0, <2>1, <2>2, LeaseFades
<1>17. CASE WaitIdle("probe", "close")
  <2>1. "probe" \in PreCommit /\ "close" \in PreCommit
    BY SwitchPlacesNamed
  <2>2. Fades(reg, reg') /\ sweep'.listed \subseteq sweep.listed /\ lease' = lease
    BY <1>0, <1>s, <1>17, <2>1, DoesWaitIdle DEF WaitIdle, SetsGate, SwitchGoes
  <2> QED BY <1>0, <2>2, LeaseFades
<1>18. CASE ClosePrompts("close", "reprobe")
  <2>1. "close" \in PreCommit /\ "reprobe" \in PreCommit
    BY SwitchPlacesNamed
  <2>2. Fades(reg, reg') /\ sweep'.listed \subseteq sweep.listed /\ lease' = lease
    BY <1>0, <1>s, <1>18, <2>1, DoesClosePrompts DEF ClosePrompts, SetsGate, SwitchGoes
  <2> QED BY <1>0, <2>2, LeaseFades
<1>19. CASE Reprobe
  <2>1. Fades(reg, reg') /\ sweep'.listed \subseteq sweep.listed
    BY <1>0, <1>s, <1>19, DoesReprobe DEF Reprobe, Reopens, SetsGate, SwitchGoes, Fault
  <2>2. \A h \in LeaseHolders : lease'[h] \in {lease[h], NoProcess}
    BY <1>0, <1>19, DoesReprobe DEF Reprobe, Stops
  <2> QED BY <1>0, <2>1, <2>2, LeaseFades
<1>20. CASE ClosePrompts("closeToPrepare", "prepareIdle")
  <2>1. "closeToPrepare" \in PreCommit /\ "prepareIdle" \in PreCommit
    BY SwitchPlacesNamed
  <2>2. Fades(reg, reg') /\ sweep'.listed \subseteq sweep.listed /\ lease' = lease
    BY <1>0, <1>s, <1>20, <2>1, DoesClosePrompts DEF ClosePrompts, SetsGate, SwitchGoes
  <2> QED BY <1>0, <2>2, LeaseFades
<1>21. CASE WaitIdle("prepareIdle", "spawn")
  <2>1. "prepareIdle" \in PreCommit /\ "spawn" \in PreCommit
    BY SwitchPlacesNamed
  <2>2. Fades(reg, reg') /\ sweep'.listed \subseteq sweep.listed /\ lease' = lease
    BY <1>0, <1>s, <1>21, <2>1, DoesWaitIdle DEF WaitIdle, SetsGate, SwitchGoes
  <2> QED BY <1>0, <2>2, LeaseFades
<1>22. CASE SpawnTarget
  <2>1. UNCHANGED <<sweep, lease>>
    BY <1>22 DEF SpawnTarget
  <2>2. reg'.att = reg.att
    BY <1>0, <1>22, DoesSpawnTarget, RegSpawned
  <2> QED BY <2>1, <2>2, LeaseFrame
<1>23. CASE Protect("protectProcess", "placeProcess")
  <2>1. UNCHANGED <<reg, sweep, lease>>
    BY <1>23 DEF Protect
  <2> QED BY <1>0, <1>s, <2>1, LeaseFades
<1>24. CASE PlaceLease("placeProcess", "switchProcess", "generation")
  <2>1. sw.pc = "placeProcess" /\ sweep' = sweep
    BY <1>24 DEF PlaceLease, AtSwitch
  <2>2. sweep.listed = {}
    BY <1>0, <2>1, NothingListed DEF Serial
  <2> QED BY <2>1, <2>2, LeaseEmpty
<1>25. CASE ReadGeneration
  <2>1. Fades(reg, reg') /\ sweep'.listed \subseteq sweep.listed
    BY <1>0, <1>s, <1>25, DoesReadGeneration DEF ReadGeneration, Reopens, SetsGate, SwitchGoes, Fault
  <2>2. \A h \in LeaseHolders : lease'[h] \in {lease[h], NoProcess}
    BY <1>0, <1>25, DoesReadGeneration DEF ReadGeneration, Stops
  <2> QED BY <1>0, <2>1, <2>2, LeaseFades
<1>26. CASE CreateSession
  <2>1. UNCHANGED <<sweep, lease>> /\ sw.pc = "create" /\ sw.b \in Bindings
    BY <1>0, <1>26, DoesCreateSession DEF CreateSession, AtSwitch
  <2>2. sw.b \notin sweep.listed /\ sw.gen \in Nat /\ sw.p \in SomeProcess
    BY <1>0, <2>1, SwitchPlacesNamed, SwitchNames DEF TargetIsNew, TypeInv
  <2>3. CASE reg' = Registered(reg, sw.b, sw.gen, sw.p)
    <3>1. ASSUME NEW c \in sweep.listed PROVE reg'.att[c].p = reg.att[c].p
      <4>1. c \in Bindings /\ c # sw.b
        BY <1>0, <2>2 DEF TypeInv, SweepOK, SweepRec
      <4>2. reg'.att[c] = reg.att[c]
        BY <1>0, <2>1, <2>2, <2>3, <4>1, RegRegistered
      <4> QED BY <4>2
    <3> QED BY <2>1, <3>1, LeaseFrame
  <2>4. CASE reg' = Released(reg, sw.p)
    BY <1>0, <2>1, <2>2, <2>4, FadesReleased, LeaseFades
  <2> QED BY <1>0, <1>26, <2>3, <2>4, DoesCreateSession
<1>27. CASE Protect("protectTarget", "placeTarget")
  <2>1. UNCHANGED <<reg, sweep, lease>>
    BY <1>27 DEF Protect
  <2> QED BY <1>0, <1>s, <2>1, LeaseFades
<1>28. CASE PlaceLease("placeTarget", "switchTarget", "insert")
  <2>1. sw.pc = "placeTarget" /\ sweep' = sweep
    BY <1>28 DEF PlaceLease, AtSwitch
  <2>2. sweep.listed = {}
    BY <1>0, <2>1, NothingListed DEF Serial
  <2> QED BY <2>1, <2>2, LeaseEmpty
<1>29. CASE InsertBinding
  <2>1. Fades(reg, reg') /\ sweep'.listed \subseteq sweep.listed
    BY <1>0, <1>s, <1>29, DoesInsertBinding DEF InsertBinding, Reopens, SetsGate, SwitchGoes, Fault
  <2>2. \A h \in LeaseHolders : lease'[h] \in {lease[h], NoProcess}
    BY <1>0, <1>29, DoesInsertBinding DEF InsertBinding, Stops
  <2> QED BY <1>0, <2>1, <2>2, LeaseFades
<1>30. CASE ClosePrompts("closeToCommit", "commitIdle")
  <2>1. "closeToCommit" \in PreCommit /\ "commitIdle" \in PreCommit
    BY SwitchPlacesNamed
  <2>2. Fades(reg, reg') /\ sweep'.listed \subseteq sweep.listed /\ lease' = lease
    BY <1>0, <1>s, <1>30, <2>1, DoesClosePrompts DEF ClosePrompts, SetsGate, SwitchGoes
  <2> QED BY <1>0, <2>2, LeaseFades
<1>31. CASE WaitIdle("commitIdle", "revalidate")
  <2>1. "commitIdle" \in PreCommit /\ "revalidate" \in PreCommit
    BY SwitchPlacesNamed
  <2>2. Fades(reg, reg') /\ sweep'.listed \subseteq sweep.listed /\ lease' = lease
    BY <1>0, <1>s, <1>31, <2>1, DoesWaitIdle DEF WaitIdle, SetsGate, SwitchGoes
  <2> QED BY <1>0, <2>2, LeaseFades
<1>32. CASE Revalidate
  <2>1. Fades(reg, reg') /\ sweep'.listed \subseteq sweep.listed
    BY <1>0, <1>s, <1>32, DoesRevalidate DEF Revalidate, Reopens, SetsGate, SwitchGoes, Fault
  <2>2. \A h \in LeaseHolders : lease'[h] \in {lease[h], NoProcess}
    BY <1>0, <1>32, DoesRevalidate DEF Revalidate, Stops
  <2> QED BY <1>0, <2>1, <2>2, LeaseFades
<1>33. CASE Commit
  <2>1. Fades(reg, reg') /\ sweep'.listed \subseteq sweep.listed
    BY <1>0, <1>s, <1>33, DoesCommit DEF Commit, Reopens, SetsGate, SwitchGoes, Fault
  <2>2. \A h \in LeaseHolders : lease'[h] \in {lease[h], NoProcess}
    BY <1>0, <1>33, DoesCommit DEF Commit, Stops
  <2> QED BY <1>0, <2>1, <2>2, LeaseFades
<1>34. CASE ActivationFails
  <2>1. Fades(reg, reg') /\ sweep'.listed \subseteq sweep.listed
    BY <1>0, <1>s, <1>34, DoesActivationFail DEF ActivationFails, Reopens, SetsGate, SwitchGoes, Fault
  <2>2. \A h \in LeaseHolders : lease'[h] \in {lease[h], NoProcess}
    BY <1>0, <1>34, DoesActivationFail DEF ActivationFails, Stops
  <2> QED BY <1>0, <2>1, <2>2, LeaseFades
<1>35. CASE ReadGateForTarget
  <2>1. Fades(reg, reg') /\ sweep'.listed \subseteq sweep.listed
    BY <1>0, <1>s, <1>35, DoesReadGate DEF ReadGateForTarget, Reopens, SetsGate, SwitchGoes, Fault
  <2>2. \A h \in LeaseHolders : lease'[h] \in {lease[h], NoProcess}
    BY <1>0, <1>35, DoesReadGate DEF ReadGateForTarget, Stops
  <2> QED BY <1>0, <2>1, <2>2, LeaseFades
<1>36. CASE ActivateTarget
  <2>1. /\ sw.b \in Bindings /\ sweep'.listed \subseteq sweep.listed
        /\ reg' = Activated(reg, sw.b, sw.shut)
        /\ \A h \in LeaseHolders : lease'[h] \in {lease[h], NoProcess}
    BY <1>0, <1>36, DoesActivateTarget DEF SwitchGoes
  <2>2. sw.shut \in BOOLEAN
    BY <1>0, <1>36, SwitchNames DEF TypeInv, ActivateTarget, AtSwitch
  <2> QED BY <1>0, <2>1, <2>2, LeaseActivated
<1>37. CASE OpenPrompts
  <2>1. Fades(reg, reg') /\ sweep'.listed \subseteq sweep.listed
    BY <1>0, <1>s, <1>37, DoesReopen DEF OpenPrompts, Reopens, SetsGate, SwitchGoes, Fault
  <2>2. \A h \in LeaseHolders : lease'[h] \in {lease[h], NoProcess}
    BY <1>0, <1>37, DoesReopen DEF OpenPrompts, Stops
  <2> QED BY <1>0, <2>1, <2>2, LeaseFades
<1>38. CASE FailSwitch
  <2>1. Fades(reg, reg') /\ sweep'.listed \subseteq sweep.listed
    BY <1>0, <1>s, <1>38, DoesFailSwitch DEF FailSwitch, Reopens, SetsGate, SwitchGoes, Fault
  <2>2. \A h \in LeaseHolders : lease'[h] \in {lease[h], NoProcess}
    BY <1>0, <1>38, DoesFailSwitch DEF FailSwitch, Stops
  <2> QED BY <1>0, <2>1, <2>2, LeaseFades
<1>39. CASE CleanupTarget
  <2>1. Fades(reg, reg') /\ sweep'.listed \subseteq sweep.listed
    BY <1>0, <1>s, <1>39, DoesCleanup DEF CleanupTarget, Reopens, SetsGate, SwitchGoes, Fault
  <2>2. \A h \in LeaseHolders : lease'[h] \in {lease[h], NoProcess}
    BY <1>0, <1>39, DoesCleanup DEF CleanupTarget, Stops
  <2> QED BY <1>0, <2>1, <2>2, LeaseFades
<1>40. CASE ReopenPrompts
  <2>1. Fades(reg, reg') /\ sweep'.listed \subseteq sweep.listed
    BY <1>0, <1>s, <1>40, DoesReopen DEF ReopenPrompts, Reopens, SetsGate, SwitchGoes, Fault
  <2>2. \A h \in LeaseHolders : lease'[h] \in {lease[h], NoProcess}
    BY <1>0, <1>40, DoesReopen DEF ReopenPrompts, Stops
  <2> QED BY <1>0, <2>1, <2>2, LeaseFades
<1>41. CASE AdmitTurn
  <2>1. Fades(reg, reg') /\ sweep'.listed \subseteq sweep.listed
    BY <1>0, <1>s, <1>41, DoesAdmitTurn DEF AdmitTurn, Reopens, SetsGate, SwitchGoes, Fault
  <2>2. \A h \in LeaseHolders : lease'[h] \in {lease[h], NoProcess}
    BY <1>0, <1>41, DoesAdmitTurn DEF AdmitTurn, Stops
  <2> QED BY <1>0, <2>1, <2>2, LeaseFades
<1>42. CASE SendTurn
  <2>1. Fades(reg, reg') /\ sweep'.listed \subseteq sweep.listed
    BY <1>0, <1>s, <1>42, DoesSendTurn DEF SendTurn, Reopens, SetsGate, SwitchGoes, Fault
  <2>2. \A h \in LeaseHolders : lease'[h] \in {lease[h], NoProcess}
    BY <1>0, <1>42, DoesSendTurn DEF SendTurn, Stops
  <2> QED BY <1>0, <2>1, <2>2, LeaseFades
<1>43. CASE AcquirePrompt
  <2>1. Fades(reg, reg') /\ sweep'.listed \subseteq sweep.listed
    BY <1>0, <1>s, <1>43, DoesAcquirePrompt DEF AcquirePrompt, Reopens, SetsGate, SwitchGoes, Fault
  <2>2. \A h \in LeaseHolders : lease'[h] \in {lease[h], NoProcess}
    BY <1>0, <1>43, DoesAcquirePrompt DEF AcquirePrompt, Stops
  <2> QED BY <1>0, <2>1, <2>2, LeaseFades
<1>44. CASE BeginTurn
  <2>1. sweep' = sweep /\ \A h \in LeaseHolders : lease'[h] \in {lease[h], NoProcess}
    BY <1>0, <1>44, DoesBeginTurn DEF BeginTurn, Stops
  <2>2. CASE Fades(reg, reg')
    BY <1>0, <2>1, <2>2, LeaseFades
  <2>3. CASE \A b \in Bindings : reg'.att[b].p = reg.att[b].p
    <3>1. sweep.listed \subseteq Bindings
      BY <1>0 DEF TypeInv, SweepOK, SweepRec
    <3> QED BY <2>1, <2>3, <3>1, LeaseFrame
  <2> QED BY <1>0, <1>44, <2>2, <2>3, DoesBeginTurn
<1>45. CASE EndTurn
  <2>1. Fades(reg, reg') /\ sweep'.listed \subseteq sweep.listed
    BY <1>0, <1>s, <1>45, DoesEndTurn DEF EndTurn, Reopens, SetsGate, SwitchGoes, Fault
  <2>2. \A h \in LeaseHolders : lease'[h] \in {lease[h], NoProcess}
    BY <1>0, <1>45, DoesEndTurn DEF EndTurn, Stops
  <2> QED BY <1>0, <2>1, <2>2, LeaseFades
<1>46. CASE Tick
  <2>1. Fades(reg, reg') /\ sweep'.listed \subseteq sweep.listed
    BY <1>0, <1>s, <1>46, DoesTick DEF Tick, Reopens, SetsGate, SwitchGoes, Fault
  <2>2. \A h \in LeaseHolders : lease'[h] \in {lease[h], NoProcess}
    BY <1>0, <1>46, DoesTick DEF Tick, Stops
  <2> QED BY <1>0, <2>1, <2>2, LeaseFades
<1>47. CASE StartSweep
  <2>1. sweep'.listed = Candidates(lease') /\ reg' = reg
    BY <1>0, <1>47, DoesStartSweep DEF StartSweep
  <2> QED BY <2>1 DEF LeaseInv, Candidates
<1>48. CASE DetachSwept
  <2>1. Fades(reg, reg') /\ sweep'.listed \subseteq sweep.listed
    BY <1>0, <1>s, <1>48, DoesDetachSwept DEF DetachSwept, Reopens, SetsGate, SwitchGoes, Fault
  <2>2. \A h \in LeaseHolders : lease'[h] \in {lease[h], NoProcess}
    BY <1>0, <1>48, DoesDetachSwept DEF DetachSwept, Stops
  <2> QED BY <1>0, <2>1, <2>2, LeaseFades
<1>49. CASE EndSweep
  BY <1>0, <1>49, DoesEndSweep, LeaseEmpty
<1>50. CASE ShutdownAuthSource
  <2>1. Fades(reg, reg') /\ sweep'.listed \subseteq sweep.listed
    BY <1>0, <1>s, <1>50, DoesShutdown DEF ShutdownAuthSource, Reopens, SetsGate, SwitchGoes, Fault
  <2>2. \A h \in LeaseHolders : lease'[h] \in {lease[h], NoProcess}
    BY <1>0, <1>50, DoesShutdown DEF ShutdownAuthSource, Stops
  <2> QED BY <1>0, <2>1, <2>2, LeaseFades
<1>51. CASE RaiseRevision
  <2>1. Fades(reg, reg') /\ sweep'.listed \subseteq sweep.listed
    BY <1>0, <1>s, <1>51, DoesRaise DEF RaiseRevision, Reopens, SetsGate, SwitchGoes, Fault
  <2>2. \A h \in LeaseHolders : lease'[h] \in {lease[h], NoProcess}
    BY <1>0, <1>51, DoesRaise DEF RaiseRevision, Stops
  <2> QED BY <1>0, <2>1, <2>2, LeaseFades
<1>52. ASSUME NEW b \in Bindings, ClaimClose(b) PROVE LeaseInv'
  <2>1. Fades(reg, reg') /\ sweep'.listed \subseteq sweep.listed /\ lease' = lease
    BY <1>0, <1>52, DoesClaimClose DEF ClaimClose, Fault
  <2> QED BY <1>0, <2>1, LeaseFades
<1>53. ASSUME NEW p \in Processes, ExitProcess(p) PROVE LeaseInv'
  <2>1. Fades(reg, reg') /\ sweep'.listed \subseteq sweep.listed /\ lease' = lease
    BY <1>0, <1>53, DoesExit DEF ExitProcess, Fault
  <2> QED BY <1>0, <2>1, LeaseFades
<1>54. ASSUME NEW b \in Bindings, NoticeCrash(b) PROVE LeaseInv'
  <2>1. Fades(reg, reg') /\ sweep'.listed \subseteq sweep.listed /\ lease' = lease
    BY <1>0, <1>54, DoesNotice DEF NoticeCrash, Fault
  <2> QED BY <1>0, <2>1, LeaseFades
<1> QED BY <1>1, <1>2, <1>3, <1>4, <1>5, <1>6, <1>7, <1>8, <1>9, <1>10, <1>11, <1>12, <1>13, <1>14, <1>15, <1>16, <1>17, <1>18, <1>19, <1>20, <1>21, <1>22, <1>23, <1>24, <1>25, <1>26, <1>27, <1>28, <1>29, <1>30, <1>31, <1>32, <1>33, <1>34, <1>35, <1>36, <1>37, <1>38, <1>39, <1>40, <1>41, <1>42, <1>43, <1>44, <1>45, <1>46, <1>47, <1>48, <1>49, <1>50, <1>51, <1>52, <1>53, <1>54
       DEF Next, Materialise, DriveSwitch, Turn, Sweep

\* Only the sweeper turns an attachment into a Closing one.
NeverCloses(r, s) == \A b \in Bindings : s.att[b].st = "Closing" => r.att[b].st = "Closing"

LEMMA OperatorsNeverClose ==
    ASSUME NEW r \in RegRec, RegShape(r)
    PROVE  /\ NeverCloses(r, r)
           /\ \A p \in SomeProcess : NeverCloses(r, Released(r, p))
           /\ \A p \in Processes : NeverCloses(r, Spawned(r, p))
           /\ \A b \in Bindings : NeverCloses(r, Detached(r, b))
           /\ \A b \in Bindings : NeverCloses(r, Marked(r, b, "Crashed"))
           /\ NeverCloses(r, Current(r))
           /\ \A b \in Bindings, shut \in BOOLEAN : NeverCloses(r, Activated(r, b, shut))
           /\ \A b \in Bindings, g \in Nat, p \in SomeProcess :
                 NeverCloses(r, Registered(r, b, g, p))
<1>1. NeverCloses(r, r) /\ \A p \in SomeProcess : NeverCloses(r, Released(r, p))
  BY RegReleased DEF NeverCloses
<1>2. \A p \in Processes : NeverCloses(r, Spawned(r, p))
  BY RegSpawned DEF NeverCloses
<1>3. ASSUME NEW b \in Bindings PROVE NeverCloses(r, Detached(r, b))
  <2>1. Detached(r, b).att[b].st = "none"
    BY FadesDetached
  <2>2. ASSUME NEW c \in Bindings, c # b PROVE Detached(r, b).att[c] = r.att[c]
    BY <2>2, FadesDetached
  <2> QED BY <2>1, <2>2 DEF NeverCloses
<1>4. ASSUME NEW b \in Bindings PROVE NeverCloses(r, Marked(r, b, "Crashed"))
  <2>1. Marked(r, b, "Crashed").att[b].st = "Crashed"
    BY RegMarked
  <2>2. ASSUME NEW c \in Bindings, c # b PROVE Marked(r, b, "Crashed").att[c] = r.att[c]
    BY <2>2, MarkedElsewhere
  <2> QED BY <2>1, <2>2 DEF NeverCloses
<1>5. NeverCloses(r, Current(r))
  <2>1. CASE r.cur # NoBinding /\ ~Up(r, r.att[r.cur].p)
    <3>1. r.cur \in Bindings /\ Current(r) = Marked(r, r.cur, "Crashed")
      BY <2>1 DEF Current, Crashed, Marked, RegRec, SomeBinding
    <3> QED BY <1>4, <3>1
  <2>2. CASE ~ (r.cur # NoBinding /\ ~Up(r, r.att[r.cur].p))
    BY <1>1, <2>2 DEF Current
  <2> QED BY <2>1, <2>2
<1>6. ASSUME NEW b \in Bindings, NEW shut \in BOOLEAN PROVE NeverCloses(r, Activated(r, b, shut))
  <2> DEFINE s == Activated(r, b, shut)
  <2>1. /\ s.att[b].st = "Committed"
        /\ r.cur \in Bindings \ {b} => s.att[r.cur].st = "Inactive"
    BY RegActivated
  <2>2. ASSUME NEW c \in Bindings, c \notin {b, r.cur} PROVE s.att[c] = r.att[c]
    BY <2>2, RegActivated
  <2> HIDE DEF s
  <2>3. NeverCloses(r, s)
    BY <2>1, <2>2 DEF NeverCloses
  <2> QED BY <2>3 DEF s
<1>7. ASSUME NEW b \in Bindings, NEW g \in Nat, NEW p \in SomeProcess
      PROVE  NeverCloses(r, Registered(r, b, g, p))
  <2>1. Registered(r, b, g, p).att[b].st = "Prepared"
    BY RegRegistered
  <2>2. ASSUME NEW c \in Bindings, c # b PROVE Registered(r, b, g, p).att[c] = r.att[c]
    BY <2>2, RegisteredElsewhere
  <2> QED BY <2>1, <2>2 DEF NeverCloses
<1> QED BY <1>1, <1>2, <1>3, <1>4, <1>5, <1>6, <1>7

LEMMA FlagsNeverClose ==
    ASSUME NEW r \in RegRec, NEW b \in Bindings, NEW f \in BOOLEAN, NEW h \in BOOLEAN
    PROVE  /\ NeverCloses(r, [r EXCEPT !.att[b].closed = f])
           /\ NeverCloses(r, [r EXCEPT !.att[b].prompt = f])
           /\ NeverCloses(r, [r EXCEPT !.att[b].turn = f])
           /\ NeverCloses(r, [r EXCEPT !.att[b].prompt = f, !.att[b].turn = h])
<1>1. \A c \in Bindings : r.att[c] \in Attachments
  BY DEF RegRec
<1> QED BY <1>1 DEF NeverCloses, RegRec, Attachments

LEMMA GateNeverCloses ==
    ASSUME TypeInv, RegShape(reg), NEW closed \in BOOLEAN, SetPromptGate(closed)
    PROVE  NeverCloses(reg, reg')
<1> DEFINE r == Current(reg)
<1>1. reg \in RegRec
  BY DEF TypeInv, StoreOK
<1>2. NeverCloses(reg, r)
  BY <1>1, OperatorsNeverClose
<1>3. r \in RegRec
  BY <1>1, FadesCurrent DEF Fades
<1>4. reg' = IF r.cur = NoBinding THEN r ELSE [r EXCEPT !.att[r.cur].closed = closed]
  BY DEF SetPromptGate
<1> HIDE DEF r
<1>5. r.cur \in SomeBinding
  BY <1>3 DEF RegRec
<1>6. CASE r.cur = NoBinding
  BY <1>2, <1>4, <1>6
<1>7. CASE r.cur \in Bindings
  <2>1. reg' = [r EXCEPT !.att[r.cur].closed = closed]
    BY <1>4, <1>7, Numbers
  <2>2. NeverCloses(r, reg')
    BY <1>3, <1>7, <2>1, FlagsNeverClose
  <2> QED BY <1>2, <2>2 DEF NeverCloses
<1> QED BY <1>5, <1>6, <1>7 DEF SomeBinding

LEMMA OnlySweeperCloses ==
    ASSUME BaseInv, Next, NEW c \in Bindings, reg.att[c].st # "Closing",
           reg'.att[c].st = "Closing"
    PROVE  ClaimClose(c)
<1>0. /\ TypeInv /\ RegShape(reg) /\ reg \in RegRec
  BY DEF BaseInv, Shape, TypeInv, StoreOK
<1>c. ~NeverCloses(reg, reg')
  BY DEF NeverCloses
<1>s. NeverCloses(reg, reg)
  BY DEF NeverCloses
<1>1. ASSUME NEW u \in Users, RequestRuntime(u) PROVE FALSE
  BY <1>c, <1>s, <1>1 DEF RequestRuntime
<1>2. ASSUME NEW u \in Users, EnterGate(u) PROVE FALSE
  BY <1>c, <1>s, <1>2 DEF EnterGate
<1>3. ASSUME NEW u \in Users, Look(u) PROVE FALSE
  BY <1>c, <1>s, <1>3 DEF Look
<1>4. ASSUME NEW u \in Users, ReadDurable(u) PROVE FALSE
  BY <1>c, <1>s, <1>4 DEF ReadDurable
<1>5. ASSUME NEW u \in Users, TakeExisting(u) PROVE FALSE
  <2>1. user[u].b \in Bindings
    BY <1>0, <1>5, DoesTakeExisting
  <2>2. reg' = reg \/ reg' = Detached(reg, user[u].b)
    BY <1>5 DEF TakeExisting
  <2> QED BY <1>0, <1>c, <1>s, <2>1, <2>2, OperatorsNeverClose
<1>6. ASSUME NEW u \in Users, CheckRevision(u) PROVE FALSE
  BY <1>c, <1>s, <1>6 DEF CheckRevision
<1>7. ASSUME NEW u \in Users, Spawn(u) PROVE FALSE
  <2>1. reg' = reg \/ \E p \in Processes : reg' = Spawned(reg, p)
    BY <1>7 DEF Spawn
  <2> QED BY <1>0, <1>c, <1>s, <2>1, OperatorsNeverClose
<1>8. ASSUME NEW u \in Users, OpenSession(u) PROVE FALSE
  <2>1. user[u].b \in Bindings /\ user[u].p \in SomeProcess /\ user[u].gen + 1 \in Nat
    BY <1>0, <1>8, DoesOpenSession, UserNames DEF TypeInv
  <2> DEFINE m == Registered(reg, user[u].b, user[u].gen + 1, user[u].p)
  <2>2. m \in RegRec /\ NeverCloses(reg, m)
    BY <1>0, <2>1, RegRegistered, OperatorsNeverClose
  <2>3. Released(m, user[u].p).att = m.att
    BY <2>1, <2>2, RegReleased
  <2>4. reg' = m \/ reg' = Released(m, user[u].p) \/ reg' = Released(reg, user[u].p)
    BY <1>8 DEF OpenSession
  <2> HIDE DEF m
  <2>5. NeverCloses(reg, Released(m, user[u].p))
    BY <2>2, <2>3 DEF NeverCloses
  <2> QED BY <1>0, <1>c, <2>1, <2>2, <2>4, <2>5, OperatorsNeverClose
<1>9. ASSUME NEW u \in Users, AdvanceGeneration(u) PROVE FALSE
  <2>1. user[u].b \in Bindings /\ (reg' = reg \/ reg' = Detached(reg, user[u].b))
    BY <1>0, <1>9, DoesAdvance
  <2> QED BY <1>0, <1>c, <1>s, <2>1, OperatorsNeverClose
<1>10. ASSUME NEW u \in Users, ReadPromptGate(u) PROVE FALSE
  BY <1>c, <1>s, <1>10 DEF ReadPromptGate
<1>11. ASSUME NEW u \in Users, Activate(u) PROVE FALSE
  <2>1. user[u].b \in Bindings /\ user[u].shut \in BOOLEAN
    BY <1>0, <1>11, DoesActivate, UserNames DEF TypeInv
  <2>2. \/ reg' = reg \/ reg' = Detached(reg, user[u].b)
        \/ reg' = Activated(reg, user[u].b, user[u].shut)
    BY <1>11 DEF Activate
  <2> QED BY <1>0, <1>c, <1>s, <2>1, <2>2, OperatorsNeverClose
<1>12. ASSUME NEW u \in Users, Touch(u) PROVE FALSE
  BY <1>c, <1>s, <1>12 DEF Touch
<1>13. ASSUME NEW u \in Users, TakeLease(u) PROVE FALSE
  BY <1>c, <1>s, <1>13 DEF TakeLease
<1>14. ASSUME NEW u \in Users, Refresh(u) PROVE FALSE
  BY <1>c, <1>s, <1>14 DEF Refresh
<1>15. CASE DetachClient
  BY <1>c, <1>s, <1>15 DEF DetachClient
<1>16. CASE UserSwitches
  BY <1>c, <1>s, <1>16 DEF UserSwitches
<1>17. CASE WaitIdle("probe", "close")
  <2>1. reg' = reg \/ SetPromptGate(TRUE)
    BY <1>17 DEF WaitIdle
  <2> QED BY <1>0, <1>c, <1>s, <2>1, GateNeverCloses
<1>18. CASE ClosePrompts("close", "reprobe")
  BY <1>0, <1>c, <1>18, GateNeverCloses DEF ClosePrompts
<1>19. CASE Reprobe
  BY <1>c, <1>s, <1>19 DEF Reprobe
<1>20. CASE ClosePrompts("closeToPrepare", "prepareIdle")
  BY <1>0, <1>c, <1>20, GateNeverCloses DEF ClosePrompts
<1>21. CASE WaitIdle("prepareIdle", "spawn")
  <2>1. reg' = reg \/ SetPromptGate(TRUE)
    BY <1>21 DEF WaitIdle
  <2> QED BY <1>0, <1>c, <1>s, <2>1, GateNeverCloses
<1>22. CASE SpawnTarget
  <2>1. reg' = reg \/ \E p \in Processes : reg' = Spawned(reg, p)
    BY <1>22 DEF SpawnTarget
  <2> QED BY <1>0, <1>c, <1>s, <2>1, OperatorsNeverClose
<1>23. CASE Protect("protectProcess", "placeProcess")
  BY <1>c, <1>s, <1>23 DEF Protect
<1>24. CASE PlaceLease("placeProcess", "switchProcess", "generation")
  BY <1>c, <1>s, <1>24 DEF PlaceLease
<1>25. CASE ReadGeneration
  BY <1>c, <1>s, <1>25 DEF ReadGeneration
<1>26. CASE CreateSession
  <2>1. sw.b \in Bindings /\ sw.p \in SomeProcess /\ sw.gen \in Nat
    BY <1>0, <1>26, SwitchNames DEF TypeInv, CreateSession, AtSwitch
  <2>2. reg' = Registered(reg, sw.b, sw.gen, sw.p) \/ reg' = Released(reg, sw.p)
    BY <1>26 DEF CreateSession
  <2> QED BY <1>0, <1>c, <2>1, <2>2, OperatorsNeverClose
<1>27. CASE Protect("protectTarget", "placeTarget")
  BY <1>c, <1>s, <1>27 DEF Protect
<1>28. CASE PlaceLease("placeTarget", "switchTarget", "insert")
  BY <1>c, <1>s, <1>28 DEF PlaceLease
<1>29. CASE InsertBinding
  BY <1>c, <1>s, <1>29 DEF InsertBinding
<1>30. CASE ClosePrompts("closeToCommit", "commitIdle")
  BY <1>0, <1>c, <1>30, GateNeverCloses DEF ClosePrompts
<1>31. CASE WaitIdle("commitIdle", "revalidate")
  <2>1. reg' = reg \/ SetPromptGate(TRUE)
    BY <1>31 DEF WaitIdle
  <2> QED BY <1>0, <1>c, <1>s, <2>1, GateNeverCloses
<1>32. CASE Revalidate
  BY <1>c, <1>s, <1>32 DEF Revalidate
<1>33. CASE Commit
  BY <1>c, <1>s, <1>33 DEF Commit
<1>34. CASE ActivationFails
  BY <1>c, <1>s, <1>34 DEF ActivationFails
<1>35. CASE ReadGateForTarget
  BY <1>c, <1>s, <1>35 DEF ReadGateForTarget
<1>36. CASE ActivateTarget
  <2>1. sw.b \in Bindings /\ sw.shut \in BOOLEAN
    BY <1>0, <1>36, SwitchNames DEF TypeInv, ActivateTarget, AtSwitch
  <2>2. reg' = Activated(reg, sw.b, sw.shut)
    BY <1>36 DEF ActivateTarget
  <2> QED BY <1>0, <1>c, <2>1, <2>2, OperatorsNeverClose
<1>37. CASE OpenPrompts
  BY <1>0, <1>c, <1>37, GateNeverCloses DEF OpenPrompts
<1>38. CASE FailSwitch
  BY <1>c, <1>s, <1>38 DEF FailSwitch
<1>39. CASE CleanupTarget
  <2>1. sw.b \in Bindings /\ sw.p \in SomeProcess
    BY <1>0, <1>39, SwitchNames DEF TypeInv, CleanupTarget, AtSwitch
  <2>2. reg' = Detached(reg, sw.b) \/ reg' = Released(reg, sw.p)
    BY <1>39 DEF CleanupTarget
  <2> QED BY <1>0, <1>c, <2>1, <2>2, OperatorsNeverClose
<1>40. CASE ReopenPrompts
  BY <1>0, <1>c, <1>40, GateNeverCloses DEF ReopenPrompts
<1>41. CASE AdmitTurn
  BY <1>c, <1>s, <1>41 DEF AdmitTurn
<1>42. CASE SendTurn
  BY <1>0, <1>c, <1>42, OperatorsNeverClose DEF SendTurn
<1>43. CASE AcquirePrompt
  <2>1. user["dispatch"].b \in Bindings
    BY <1>0, <1>43, UserPlaces, UserNames DEF TypeInv, AcquirePrompt, AtUser, Users
  <2>2. \/ reg' = reg
        \/ reg' = [reg EXCEPT !.att[user["dispatch"].b].prompt = TRUE]
    BY <1>43 DEF AcquirePrompt
  <2> QED BY <1>0, <1>c, <1>s, <2>1, <2>2, FlagsNeverClose
<1>44. CASE BeginTurn
  <2>1. user["dispatch"].b \in Bindings
    BY <1>0, <1>44, UserPlaces, UserNames DEF TypeInv, BeginTurn, AtUser, Users
  <2>2. \/ reg' = reg
        \/ reg' = [reg EXCEPT !.att[user["dispatch"].b].turn = TRUE]
        \/ reg' = [reg EXCEPT !.att[user["dispatch"].b].prompt = FALSE]
    BY <1>44 DEF BeginTurn
  <2> QED BY <1>0, <1>c, <1>s, <2>1, <2>2, FlagsNeverClose
<1>45. CASE EndTurn
  <2>1. user["dispatch"].b \in Bindings
    BY <1>0, <1>45, UserPlaces, UserNames DEF TypeInv, EndTurn, AtUser, Users
  <2>2. \/ reg' = reg
        \/ reg' = [reg EXCEPT !.att[user["dispatch"].b].prompt = FALSE,
                               !.att[user["dispatch"].b].turn = FALSE]
    BY <1>45 DEF EndTurn
  <2> QED BY <1>0, <1>c, <1>s, <2>1, <2>2, FlagsNeverClose
<1>46. CASE Tick
  BY <1>c, <1>s, <1>46 DEF Tick
<1>47. CASE StartSweep
  BY <1>c, <1>s, <1>47 DEF StartSweep
<1>48. CASE DetachSwept
  BY <1>0, <1>c, <1>48, DoesDetachSwept, OperatorsNeverClose DEF DetachSwept
<1>49. CASE EndSweep
  BY <1>c, <1>s, <1>49 DEF EndSweep
<1>50. CASE ShutdownAuthSource
  <2>1. reg'.att = reg.att
    BY <1>0, <1>50, DoesShutdown DEF Fault
  <2> QED BY <1>c, <2>1 DEF NeverCloses
<1>51. CASE RaiseRevision
  BY <1>c, <1>s, <1>51 DEF RaiseRevision
<1>52. ASSUME NEW b \in Bindings, ClaimClose(b) PROVE b = c
  <2>1. ASSUME b # c PROVE FALSE
    BY <1>0, <1>52, <2>1, DoesClaimClose
  <2> QED BY <2>1
<1>53. ASSUME NEW p \in Processes, ExitProcess(p) PROVE FALSE
  <2>1. reg'.att = reg.att
    BY <1>0, <1>53, DoesExit DEF Fault
  <2> QED BY <1>c, <2>1 DEF NeverCloses
<1>54. ASSUME NEW b \in Bindings, NoticeCrash(b) PROVE FALSE
  <2>1. reg' = Marked(reg, b, "Crashed")
    BY <1>54 DEF NoticeCrash, Crashed, Marked
  <2> QED BY <1>0, <1>c, <2>1, OperatorsNeverClose
<1> QED BY <1>1, <1>2, <1>3, <1>4, <1>5, <1>6, <1>7, <1>8, <1>9, <1>10, <1>11, <1>12, <1>13, <1>14, <1>15, <1>16, <1>17, <1>18, <1>19, <1>20, <1>21, <1>22, <1>23, <1>24, <1>25, <1>26, <1>27, <1>28, <1>29, <1>30, <1>31, <1>32, <1>33, <1>34, <1>35, <1>36, <1>37, <1>38, <1>39, <1>40, <1>41, <1>42, <1>43, <1>44, <1>45, <1>46, <1>47, <1>48, <1>49, <1>50, <1>51, <1>52, <1>53, <1>54
       DEF Next, Materialise, DriveSwitch, Turn, Sweep

\* Whatever the sweeper closes is on no process somebody holds a lease on, in any
\* interleaving of touches, leases and sweeps: leases are placed inside the gate, which
\* the sweeper has to itself from its listing to its last claim (sweep_idle,
\* claim_idle_close_if, acquire_internal).
THEOREM SweeperSparesLeases == Spec => LeaseProtects
<1>1. Init => LeaseInv
  BY DEF Init, NotSweeping, LeaseInv
<1>2. BaseInv /\ LeaseInv /\ [Next]_vars => LeaseInv'
  <2> SUFFICES ASSUME BaseInv, LeaseInv, [Next]_vars PROVE LeaseInv'
    OBVIOUS
  <2>1. CASE UNCHANGED vars
    BY <2>1 DEF vars, LeaseInv, Kept
  <2> QED BY <2>1, LeaseStep
<1>3. BaseInv /\ LeaseInv /\ [Next]_vars
        => [\A b \in Bindings :
              reg.att[b].st # "Closing" /\ reg'.att[b].st = "Closing"
                => reg.att[b].p \notin Kept(lease)]_vars
  <2> SUFFICES ASSUME BaseInv, LeaseInv, Next, NEW b \in Bindings,
                      reg.att[b].st # "Closing", reg'.att[b].st = "Closing"
               PROVE  reg.att[b].p \notin Kept(lease)
    OBVIOUS
  <2>1. ClaimClose(b)
    BY OnlySweeperCloses
  <2>2. b \in sweep.listed /\ reg.att[b].p # NoProcess
    BY <2>1, DoesClaimClose DEF BaseInv, Shape
  <2> QED BY <2>2 DEF LeaseInv
<1> QED BY <1>1, <1>2, <1>3, BaseAlways, PTL DEF Spec, LeaseProtects

-----------------------------------------------------------------------------
(* The prompt gate of the current attachment follows the set of fenced sessions. *)

\* Unless the last change of the set overtook an activation, whoever is about to
\* activate an attachment has the setting of the set.
FenceInv ==
    ~slip.gate =>
        /\ reg.cur # NoBinding => reg.att[reg.cur].closed = fenced
        /\ \A u \in Users : user[u].pc = "activate" => user[u].shut = fenced
        /\ sw.pc = "activate" => sw.shut = fenced

\* The current attachment that is left has the prompt gate it had.
KeepsGate(r, s) ==
    s.cur # NoBinding => s.cur = r.cur /\ s.att[s.cur].closed = r.att[s.cur].closed

LEMMA OperatorsKeepGate ==
    ASSUME NEW r \in RegRec, RegShape(r)
    PROVE  /\ KeepsGate(r, r)
           /\ \A p \in SomeProcess : KeepsGate(r, Released(r, p))
           /\ \A p \in Processes : KeepsGate(r, Spawned(r, p))
           /\ \A b \in Bindings : KeepsGate(r, Detached(r, b))
           /\ \A b \in Bindings : KeepsGate(r, Marked(r, b, "Crashed"))
           /\ KeepsGate(r, Current(r))
           /\ \A b \in Bindings, g \in Nat, p \in SomeProcess :
                 r.cur # b => KeepsGate(r, Registered(r, b, g, p))
<1>0. r.cur \in SomeBinding
  BY DEF RegRec
<1>1. KeepsGate(r, r) /\ \A p \in SomeProcess : KeepsGate(r, Released(r, p))
  BY RegReleased DEF KeepsGate
<1>2. \A p \in Processes : KeepsGate(r, Spawned(r, p))
  BY RegSpawned DEF KeepsGate
<1>3. ASSUME NEW b \in Bindings PROVE KeepsGate(r, Detached(r, b))
  <2>1. Detached(r, b).cur = IF r.cur = b THEN NoBinding ELSE r.cur
    BY FadesDetached
  <2>2. ASSUME NEW c \in Bindings, c # b PROVE Detached(r, b).att[c] = r.att[c]
    BY <2>2, FadesDetached
  <2> QED BY <1>0, <2>1, <2>2 DEF KeepsGate, SomeBinding
<1>4. ASSUME NEW b \in Bindings PROVE KeepsGate(r, Marked(r, b, "Crashed"))
  <2>1. Marked(r, b, "Crashed").cur = IF r.cur = b THEN NoBinding ELSE r.cur
    BY RegMarked
  <2>2. ASSUME NEW c \in Bindings, c # b PROVE Marked(r, b, "Crashed").att[c] = r.att[c]
    BY <2>2, MarkedElsewhere
  <2> QED BY <1>0, <2>1, <2>2 DEF KeepsGate, SomeBinding
<1>5. KeepsGate(r, Current(r))
  BY FadesCurrent DEF KeepsGate
<1>6. ASSUME NEW b \in Bindings, NEW g \in Nat, NEW p \in SomeProcess, r.cur # b
      PROVE  KeepsGate(r, Registered(r, b, g, p))
  <2>1. Registered(r, b, g, p).cur = r.cur
    BY RegRegistered
  <2>2. ASSUME NEW c \in Bindings, c # b PROVE Registered(r, b, g, p).att[c] = r.att[c]
    BY <2>2, RegisteredElsewhere
  <2> QED BY <1>0, <1>6, <2>1, <2>2 DEF KeepsGate, SomeBinding
<1> QED BY <1>1, <1>2, <1>3, <1>4, <1>5, <1>6

\* Whoever comes to an activation in the step has read the set in it.
UserReads(u) ==
    user'[u].pc = "activate" =>
        user'[u].shut = fenced \/ (user[u].pc = "activate" /\ user'[u].shut = user[u].shut)
SwitchReads ==
    sw'.pc = "activate" => sw'.shut = fenced \/ (sw.pc = "activate" /\ sw'.shut = sw.shut)

LEMMA FenceFrame ==
    ASSUME FenceInv, KeepsGate(reg, reg'), fenced' = fenced, slip'.gate = slip.gate,
           \A u \in Users : UserReads(u), SwitchReads
    PROVE  FenceInv'
  BY DEF FenceInv, KeepsGate, UserReads, SwitchReads

LEMMA FenceUser ==
    ASSUME FenceInv, KeepsGate(reg, reg'), fenced' = fenced, slip' = slip, sw' = sw,
           NEW u \in Users, Others(u), UserReads(u)
    PROVE  FenceInv'
<1>1. \A v \in Users : UserReads(v)
  BY DEF Others, UserReads
<1>2. SwitchReads
  BY DEF SwitchReads
<1> QED BY <1>1, <1>2, FenceFrame

LEMMA FenceSwitch ==
    ASSUME FenceInv, KeepsGate(reg, reg'), fenced' = fenced, slip' = slip, user' = user,
           SwitchReads
    PROVE  FenceInv'
<1>1. \A v \in Users : UserReads(v)
  BY DEF UserReads
<1> QED BY <1>1, FenceFrame

\* The set is changed, and whoever waited for the switch may go on.
LEMMA FenceSet ==
    ASSUME NEW closed, SetsGate(closed), sw'.pc # "activate",
           \A u \in Users : user'[u].pc = "activate" => user'[u] = user[u]
    PROVE  FenceInv'
  BY DEF FenceInv, SetsGate

LEMMA FenceActivated ==
    ASSUME TypeInv, FenceInv, NEW b \in Bindings, NEW shut \in BOOLEAN, ~slip.gate => shut = fenced,
           reg' = Activated(reg, b, shut), fenced' = fenced, slip' = slip,
           \A u \in Users : UserReads(u), SwitchReads
    PROVE  FenceInv'
<1>1. reg'.cur = b /\ reg'.att[b].closed = shut
  BY RegActivated DEF TypeInv, StoreOK
<1> QED BY <1>1 DEF FenceInv, UserReads, SwitchReads

LEMMA FinishedUsers ==
    ASSUME Finishes
    PROVE  /\ \A u \in Users : user'[u].pc \notin {"idle", "gate"} => user'[u] = user[u]
           /\ sw'.pc = "idle"
<1>1. ASSUME NEW u \in Users, user'[u].pc \notin {"idle", "gate"} PROVE user'[u] = user[u]
  <2>1. CASE u # sw.by
    BY <2>1 DEF Finishes
  <2>2. CASE u = sw.by
    BY <1>1, <2>2 DEF Finishes, Users, NoOne
  <2> QED BY <2>1, <2>2
<1> QED BY <1>1 DEF Finishes

LEMMA FenceStep ==
    ASSUME BaseInv, FenceInv, Next
    PROVE  FenceInv'
<1>0. /\ TypeInv /\ RegShape(reg) /\ TargetIsNew /\ Rebuilding /\ reg \in RegRec
  BY DEF BaseInv, Shape, TypeInv, StoreOK
<1>s. KeepsGate(reg, reg)
  BY DEF KeepsGate
<1>1. ASSUME NEW u \in Users, RequestRuntime(u) PROVE FenceInv'
  <2>1. UNCHANGED <<fenced, slip, sw>>
    BY <1>1 DEF RequestRuntime
  <2>2. Others(u) /\ UserReads(u) /\ reg' = reg
    BY <1>0, <1>1, DoesRequest DEF Leaves, UserReads, RequestRuntime
  <2> QED BY <1>s, <2>1, <2>2, FenceUser
<1>2. ASSUME NEW u \in Users, EnterGate(u) PROVE FenceInv'
  <2>1. UNCHANGED <<fenced, slip, sw>>
    BY <1>2 DEF EnterGate
  <2>2. Others(u) /\ UserReads(u) /\ reg' = reg
    BY <1>0, <1>2, DoesEnterGate DEF Leaves, UserReads, EnterGate
  <2> QED BY <1>s, <2>1, <2>2, FenceUser
<1>3. ASSUME NEW u \in Users, Look(u) PROVE FenceInv'
  <2>1. UNCHANGED <<fenced, slip, sw>>
    BY <1>3 DEF Look
  <2>2. Others(u) /\ UserReads(u) /\ reg' = reg
    BY <1>0, <1>3, DoesLook DEF Leaves, UserReads, Look
  <2> QED BY <1>s, <2>1, <2>2, FenceUser
<1>4. ASSUME NEW u \in Users, ReadDurable(u) PROVE FenceInv'
  <2>1. UNCHANGED <<fenced, slip, sw>>
    BY <1>4 DEF ReadDurable
  <2>2. Others(u) /\ UserReads(u) /\ reg' = reg
    BY <1>0, <1>4, DoesReadDurable DEF Leaves, UserReads, ReadDurable
  <2> QED BY <1>s, <2>1, <2>2, FenceUser
<1>5. ASSUME NEW u \in Users, TakeExisting(u) PROVE FenceInv'
  <2>1. UNCHANGED <<fenced, slip, sw>>
    BY <1>5 DEF TakeExisting
  <2>2. Others(u) /\ UserReads(u)
    BY <1>0, <1>5, DoesTakeExisting DEF Leaves, UserReads
  <2>3. user[u].b \in Bindings /\ (reg' = reg \/ reg' = Detached(reg, user[u].b))
    BY <1>0, <1>5, DoesTakeExisting DEF TakeExisting
  <2>4. KeepsGate(reg, reg')
    BY <1>0, <1>s, <2>3, OperatorsKeepGate
  <2> QED BY <2>1, <2>2, <2>4, FenceUser
<1>6. ASSUME NEW u \in Users, CheckRevision(u) PROVE FenceInv'
  <2>1. UNCHANGED <<fenced, slip, sw>>
    BY <1>6 DEF CheckRevision
  <2>2. Others(u) /\ UserReads(u) /\ reg' = reg
    BY <1>0, <1>6, DoesCheckRevision DEF Leaves, UserReads, CheckRevision
  <2> QED BY <1>s, <2>1, <2>2, FenceUser
<1>7. ASSUME NEW u \in Users, Spawn(u) PROVE FenceInv'
  <2>1. UNCHANGED <<fenced, slip, sw>>
    BY <1>7 DEF Spawn
  <2>2. Others(u) /\ UserReads(u)
    BY <1>0, <1>7, DoesSpawn DEF Leaves, UserReads
  <2>3. reg' = reg \/ \E p \in Processes : reg' = Spawned(reg, p)
    BY <1>7 DEF Spawn
  <2>4. KeepsGate(reg, reg')
    BY <1>0, <1>s, <2>3, OperatorsKeepGate
  <2> QED BY <2>1, <2>2, <2>4, FenceUser
<1>8. ASSUME NEW u \in Users, OpenSession(u) PROVE FenceInv'
  <2>1. UNCHANGED <<fenced, slip, sw>>
    BY <1>8 DEF OpenSession
  <2>2. /\ user[u].b \in Bindings /\ user[u].p \in SomeProcess /\ user[u].gen + 1 \in Nat
        /\ Others(u)
    BY <1>0, <1>8, DoesOpenSession, UserNames DEF TypeInv
  <2>3. UserReads(u)
    BY <1>0, <1>8, DoesOpenSession DEF Leaves, UserReads
  <2>4. reg.cur # user[u].b
    BY <1>0, <1>8, <2>2 DEF RegShape, Rebuilding, OpenSession, AtUser
  <2> DEFINE m == Registered(reg, user[u].b, user[u].gen + 1, user[u].p)
  <2>5. m \in RegRec /\ KeepsGate(reg, m)
    BY <1>0, <2>2, <2>4, RegRegistered, OperatorsKeepGate
  <2>6. Released(m, user[u].p).att = m.att /\ Released(m, user[u].p).cur = m.cur
    BY <2>2, <2>5, RegReleased
  <2>7. reg' = m \/ reg' = Released(m, user[u].p) \/ reg' = Released(reg, user[u].p)
    BY <1>8 DEF OpenSession
  <2> HIDE DEF m
  <2>8. KeepsGate(reg, Released(m, user[u].p)) /\ KeepsGate(reg, Released(reg, user[u].p))
    BY <1>0, <2>2, <2>5, <2>6, OperatorsKeepGate DEF KeepsGate
  <2>9. KeepsGate(reg, reg')
    BY <2>5, <2>7, <2>8
  <2> QED BY <2>1, <2>2, <2>3, <2>9, FenceUser
<1>9. ASSUME NEW u \in Users, AdvanceGeneration(u) PROVE FenceInv'
  <2>1. UNCHANGED <<fenced, slip, sw>>
    BY <1>9 DEF AdvanceGeneration
  <2>2. Others(u) /\ UserReads(u)
    BY <1>0, <1>9, DoesAdvance DEF Leaves, UserReads
  <2>3. user[u].b \in Bindings /\ (reg' = reg \/ reg' = Detached(reg, user[u].b))
    BY <1>0, <1>9, DoesAdvance
  <2>4. KeepsGate(reg, reg')
    BY <1>0, <1>s, <2>3, OperatorsKeepGate
  <2> QED BY <2>1, <2>2, <2>4, FenceUser
<1>10. ASSUME NEW u \in Users, ReadPromptGate(u) PROVE FenceInv'
  <2>1. UNCHANGED <<fenced, slip, sw>>
    BY <1>10 DEF ReadPromptGate
  <2>2. Others(u) /\ UserReads(u) /\ reg' = reg
    BY <1>0, <1>10, DoesReadPromptGate DEF UserReads, ReadPromptGate
  <2> QED BY <1>s, <2>1, <2>2, FenceUser
<1>11. ASSUME NEW u \in Users, Activate(u) PROVE FenceInv'
  <2>1. UNCHANGED <<fenced, slip, sw>>
    BY <1>11 DEF Activate
  <2>2. user[u].b \in Bindings /\ user[u].shut \in BOOLEAN /\ Others(u) /\ UserReads(u)
    BY <1>0, <1>11, DoesActivate, UserNames DEF TypeInv, Leaves, UserReads
  <2>3. CASE reg' = reg \/ reg' = Detached(reg, user[u].b)
    BY <1>0, <1>s, <2>1, <2>2, <2>3, OperatorsKeepGate, FenceUser
  <2>4. CASE reg' = Activated(reg, user[u].b, user[u].shut)
    <3>1. ~slip.gate => user[u].shut = fenced
      BY <1>11 DEF Activate, AtUser, FenceInv
    <3>2. SwitchReads /\ \A v \in Users : UserReads(v)
      BY <2>1, <2>2 DEF SwitchReads, UserReads, Others
    <3> QED BY <1>0, <2>1, <2>2, <2>4, <3>1, <3>2, FenceActivated
  <2> QED BY <1>11, <2>3, <2>4 DEF Activate
<1>12. ASSUME NEW u \in Users, Touch(u) PROVE FenceInv'
  <2>1. UNCHANGED <<fenced, slip, sw>>
    BY <1>12 DEF Touch
  <2>2. Others(u) /\ UserReads(u) /\ reg' = reg
    BY <1>0, <1>12, DoesTouch DEF Leaves, UserReads, Touch
  <2> QED BY <1>s, <2>1, <2>2, FenceUser
<1>13. ASSUME NEW u \in Users, TakeLease(u) PROVE FenceInv'
  <2>1. UNCHANGED <<fenced, slip, sw>>
    BY <1>13 DEF TakeLease
  <2>2. Others(u) /\ UserReads(u) /\ reg' = reg
    BY <1>0, <1>13, DoesTakeLease DEF Leaves, UserReads, TakeLease
  <2> QED BY <1>s, <2>1, <2>2, FenceUser
<1>14. ASSUME NEW u \in Users, Refresh(u) PROVE FenceInv'
  <2>1. UNCHANGED <<fenced, slip, reg>>
    BY <1>14 DEF Refresh
  <2>2. \A v \in Users : UserReads(v)
    BY <1>0, <1>14, DoesRefresh DEF UserReads, Others
  <2>3. SwitchReads
    BY <1>0, <1>14, DoesRefresh DEF SwitchReads, Starts
  <2> QED BY <1>s, <2>1, <2>2, <2>3, FenceFrame
<1>15. CASE DetachClient
  <2>1. UNCHANGED <<reg, fenced, slip, user>>
    BY <1>15 DEF DetachClient
  <2>2. SwitchReads
    BY <1>0, <1>15, DoesDetachClient DEF SwitchReads, SwitchGoes, Starts, DetachClient
  <2> QED BY <1>s, <2>1, <2>2, FenceSwitch
<1>16. CASE UserSwitches
  <2>1. UNCHANGED <<reg, fenced, slip, user>>
    BY <1>16 DEF UserSwitches
  <2>2. SwitchReads
    BY <1>0, <1>16, DoesUserSwitch DEF SwitchReads, SwitchGoes, Starts, UserSwitches
  <2> QED BY <1>s, <2>1, <2>2, FenceSwitch
<1>17. CASE WaitIdle("probe", "close")
  <2>1. "probe" \in PreCommit /\ "close" \in PreCommit
    BY SwitchPlacesNamed
  <2>2. user' = user
    BY <1>17 DEF WaitIdle
  <2>3. CASE SetsGate(TRUE) /\ SwitchGoes("probe")
    BY <2>2, <2>3, FenceSet DEF SwitchGoes
  <2>4. CASE SwitchGoes("close") /\ UNCHANGED <<reg, fenced, slip>>
    <3>1. SwitchReads
      BY <2>4 DEF SwitchReads, SwitchGoes
    <3> QED BY <1>s, <2>2, <2>4, <3>1, FenceSwitch
  <2> QED BY <1>0, <1>17, <2>1, <2>3, <2>4, DoesWaitIdle
<1>18. CASE ClosePrompts("close", "reprobe")
  <2>1. "close" \in PreCommit /\ "reprobe" \in PreCommit
    BY SwitchPlacesNamed
  <2>2. SetsGate(TRUE) /\ sw'.pc = "reprobe" /\ user' = user
    BY <1>0, <1>18, <2>1, DoesClosePrompts DEF SwitchGoes, ClosePrompts
  <2> QED BY <2>2, FenceSet
<1>19. CASE Reprobe
  <2>1. UNCHANGED <<reg, fenced, slip, user>>
    BY <1>19 DEF Reprobe
  <2>2. SwitchReads
    BY <1>0, <1>19, DoesReprobe DEF SwitchReads, SwitchGoes, Starts, Reprobe
  <2> QED BY <1>s, <2>1, <2>2, FenceSwitch
<1>20. CASE ClosePrompts("closeToPrepare", "prepareIdle")
  <2>1. "closeToPrepare" \in PreCommit /\ "prepareIdle" \in PreCommit
    BY SwitchPlacesNamed
  <2>2. SetsGate(TRUE) /\ sw'.pc = "prepareIdle" /\ user' = user
    BY <1>0, <1>20, <2>1, DoesClosePrompts DEF SwitchGoes, ClosePrompts
  <2> QED BY <2>2, FenceSet
<1>21. CASE WaitIdle("prepareIdle", "spawn")
  <2>1. "prepareIdle" \in PreCommit /\ "spawn" \in PreCommit
    BY SwitchPlacesNamed
  <2>2. user' = user
    BY <1>21 DEF WaitIdle
  <2>3. CASE SetsGate(TRUE) /\ SwitchGoes("prepareIdle")
    BY <2>2, <2>3, FenceSet DEF SwitchGoes
  <2>4. CASE SwitchGoes("spawn") /\ UNCHANGED <<reg, fenced, slip>>
    <3>1. SwitchReads
      BY <2>4 DEF SwitchReads, SwitchGoes
    <3> QED BY <1>s, <2>2, <2>4, <3>1, FenceSwitch
  <2> QED BY <1>0, <1>21, <2>1, <2>3, <2>4, DoesWaitIdle
<1>22. CASE SpawnTarget
  <2>1. UNCHANGED <<fenced, slip, user>> /\ sw.pc = "spawn"
    BY <1>22 DEF SpawnTarget, AtSwitch
  <2>2. SwitchReads
    BY <1>0, <1>22, DoesSpawnTarget DEF SwitchReads
  <2>3. /\ sw.b \in Bindings /\ sw.p \in SomeProcess /\ sw.gen \in Nat
        /\ reg.att[sw.b].st # "Committed"
    BY <1>0, <2>1, SwitchNames, SwitchPlacesNamed DEF TypeInv, TargetIsNew
  <2>4. reg' = reg \/ \E p \in Processes : reg' = Spawned(reg, p)
    BY <1>22 DEF SpawnTarget
  <2>5. reg.cur # sw.b
    BY <1>0, <2>3 DEF RegShape
  <2>6. KeepsGate(reg, reg')
    BY <1>0, <1>s, <2>3, <2>4, <2>5, OperatorsKeepGate
  <2> QED BY <2>1, <2>2, <2>6, FenceSwitch
<1>23. CASE Protect("protectProcess", "placeProcess")
  <2>1. UNCHANGED <<reg, fenced, slip, user>>
    BY <1>23 DEF Protect
  <2>2. "protectProcess" \in PreCommit /\ "placeProcess" \in PreCommit
    BY SwitchPlacesNamed
  <2>3. SwitchReads
    BY <1>0, <1>23, <2>2, DoesProtect DEF SwitchReads
  <2> QED BY <1>s, <2>1, <2>3, FenceSwitch
<1>24. CASE PlaceLease("placeProcess", "switchProcess", "generation")
  <2>1. UNCHANGED <<reg, fenced, slip, user>>
    BY <1>24 DEF PlaceLease
  <2>2. "placeProcess" \in PreCommit /\ "generation" \in PreCommit /\ "switchProcess" \in LeaseHolders
    BY SwitchPlacesNamed
  <2>3. SwitchReads
    BY <1>0, <1>24, <2>2, DoesPlaceLease DEF SwitchReads
  <2> QED BY <1>s, <2>1, <2>3, FenceSwitch
<1>25. CASE ReadGeneration
  <2>1. UNCHANGED <<reg, fenced, slip, user>>
    BY <1>25 DEF ReadGeneration
  <2>2. SwitchReads
    BY <1>0, <1>25, DoesReadGeneration DEF SwitchReads, SwitchGoes, Starts, ReadGeneration
  <2> QED BY <1>s, <2>1, <2>2, FenceSwitch
<1>26. CASE CreateSession
  <2>1. UNCHANGED <<fenced, slip, user>> /\ sw.pc = "create"
    BY <1>26 DEF CreateSession, AtSwitch
  <2>2. SwitchReads
    BY <1>0, <1>26, DoesCreateSession DEF SwitchReads
  <2>3. /\ sw.b \in Bindings /\ sw.p \in SomeProcess /\ sw.gen \in Nat
        /\ reg.att[sw.b].st # "Committed"
    BY <1>0, <2>1, SwitchNames, SwitchPlacesNamed DEF TypeInv, TargetIsNew
  <2>4. reg' = Registered(reg, sw.b, sw.gen, sw.p) \/ reg' = Released(reg, sw.p)
    BY <1>26 DEF CreateSession
  <2>5. reg.cur # sw.b
    BY <1>0, <2>3 DEF RegShape
  <2>6. KeepsGate(reg, reg')
    BY <1>0, <1>s, <2>3, <2>4, <2>5, OperatorsKeepGate
  <2> QED BY <2>1, <2>2, <2>6, FenceSwitch
<1>27. CASE Protect("protectTarget", "placeTarget")
  <2>1. UNCHANGED <<reg, fenced, slip, user>>
    BY <1>27 DEF Protect
  <2>2. "protectTarget" \in PreCommit /\ "placeTarget" \in PreCommit
    BY SwitchPlacesNamed
  <2>3. SwitchReads
    BY <1>0, <1>27, <2>2, DoesProtect DEF SwitchReads
  <2> QED BY <1>s, <2>1, <2>3, FenceSwitch
<1>28. CASE PlaceLease("placeTarget", "switchTarget", "insert")
  <2>1. UNCHANGED <<reg, fenced, slip, user>>
    BY <1>28 DEF PlaceLease
  <2>2. "placeTarget" \in PreCommit /\ "insert" \in PreCommit /\ "switchTarget" \in LeaseHolders
    BY SwitchPlacesNamed
  <2>3. SwitchReads
    BY <1>0, <1>28, <2>2, DoesPlaceLease DEF SwitchReads
  <2> QED BY <1>s, <2>1, <2>3, FenceSwitch
<1>29. CASE InsertBinding
  <2>1. UNCHANGED <<reg, fenced, slip, user>>
    BY <1>29 DEF InsertBinding
  <2>2. SwitchReads
    BY <1>0, <1>29, DoesInsertBinding DEF SwitchReads, SwitchGoes, Starts, InsertBinding
  <2> QED BY <1>s, <2>1, <2>2, FenceSwitch
<1>30. CASE ClosePrompts("closeToCommit", "commitIdle")
  <2>1. "closeToCommit" \in PreCommit /\ "commitIdle" \in PreCommit
    BY SwitchPlacesNamed
  <2>2. SetsGate(TRUE) /\ sw'.pc = "commitIdle" /\ user' = user
    BY <1>0, <1>30, <2>1, DoesClosePrompts DEF SwitchGoes, ClosePrompts
  <2> QED BY <2>2, FenceSet
<1>31. CASE WaitIdle("commitIdle", "revalidate")
  <2>1. "commitIdle" \in PreCommit /\ "revalidate" \in PreCommit
    BY SwitchPlacesNamed
  <2>2. user' = user
    BY <1>31 DEF WaitIdle
  <2>3. CASE SetsGate(TRUE) /\ SwitchGoes("commitIdle")
    BY <2>2, <2>3, FenceSet DEF SwitchGoes
  <2>4. CASE SwitchGoes("revalidate") /\ UNCHANGED <<reg, fenced, slip>>
    <3>1. SwitchReads
      BY <2>4 DEF SwitchReads, SwitchGoes
    <3> QED BY <1>s, <2>2, <2>4, <3>1, FenceSwitch
  <2> QED BY <1>0, <1>31, <2>1, <2>3, <2>4, DoesWaitIdle
<1>32. CASE Revalidate
  <2>1. UNCHANGED <<reg, fenced, slip, user>>
    BY <1>32 DEF Revalidate
  <2>2. SwitchReads
    BY <1>0, <1>32, DoesRevalidate DEF SwitchReads, SwitchGoes, Starts, Revalidate
  <2> QED BY <1>s, <2>1, <2>2, FenceSwitch
<1>33. CASE Commit
  <2>1. UNCHANGED <<reg, fenced, slip, user>>
    BY <1>33 DEF Commit
  <2>2. SwitchReads
    BY <1>0, <1>33, DoesCommit DEF SwitchReads, SwitchGoes, Starts, Commit
  <2> QED BY <1>s, <2>1, <2>2, FenceSwitch
<1>34. CASE ActivationFails
  <2>1. Finishes /\ UNCHANGED <<reg, fenced>> /\ slip' = [slip EXCEPT !.stranded = TRUE]
    BY <1>0, <1>34, DoesActivationFail DEF ActivationFails
  <2>2. slip'.gate = slip.gate
    BY <1>0, <2>1 DEF TypeInv, RestOK
  <2>3. SwitchReads /\ \A u \in Users : UserReads(u)
    BY <2>1, FinishedUsers DEF SwitchReads, UserReads
  <2> QED BY <1>s, <2>1, <2>2, <2>3, FenceFrame
<1>35. CASE ReadGateForTarget
  <2>1. UNCHANGED <<reg, fenced, slip, user>>
    BY <1>35 DEF ReadGateForTarget
  <2>2. SwitchReads
    BY <1>0, <1>35, DoesReadGate DEF SwitchReads, SwitchGoes, Starts, ReadGateForTarget
  <2> QED BY <1>s, <2>1, <2>2, FenceSwitch
<1>36. CASE ActivateTarget
  <2>1. /\ sw.b \in Bindings /\ sw'.pc = "open" /\ reg' = Activated(reg, sw.b, sw.shut)
    BY <1>0, <1>36, DoesActivateTarget DEF SwitchGoes
  <2>2. UNCHANGED <<fenced, slip, user>> /\ sw.pc = "activate"
    BY <1>36 DEF ActivateTarget, AtSwitch
  <2>3. sw.shut \in BOOLEAN /\ (~slip.gate => sw.shut = fenced)
    BY <1>0, <2>2, SwitchNames DEF TypeInv, FenceInv
  <2>4. SwitchReads /\ \A u \in Users : UserReads(u)
    BY <2>1, <2>2 DEF SwitchReads, UserReads
  <2> QED BY <1>0, <2>1, <2>2, <2>3, <2>4, FenceActivated
<1>37. CASE OpenPrompts
  <2>1. Finishes /\ SetsGate(FALSE)
    BY <1>0, <1>37, DoesReopen DEF Reopens
  <2> QED BY <2>1, FinishedUsers, FenceSet
<1>38. CASE FailSwitch
  <2>1. UNCHANGED <<reg, fenced, slip, user>>
    BY <1>38 DEF FailSwitch
  <2>2. SwitchReads
    BY <1>0, <1>38, DoesFailSwitch DEF SwitchReads, SwitchGoes, Starts, FailSwitch
  <2> QED BY <1>s, <2>1, <2>2, FenceSwitch
<1>39. CASE CleanupTarget
  <2>1. UNCHANGED <<fenced, slip, user>> /\ sw.pc = "cleanup"
    BY <1>39 DEF CleanupTarget, AtSwitch
  <2>2. SwitchReads
    BY <1>0, <1>39, DoesCleanup DEF SwitchReads
  <2>3. /\ sw.b \in Bindings /\ sw.p \in SomeProcess /\ sw.gen \in Nat
        /\ reg.att[sw.b].st # "Committed"
    BY <1>0, <2>1, SwitchNames, SwitchPlacesNamed DEF TypeInv, TargetIsNew
  <2>4. reg' = Detached(reg, sw.b) \/ reg' = Released(reg, sw.p)
    BY <1>39 DEF CleanupTarget
  <2>5. reg.cur # sw.b
    BY <1>0, <2>3 DEF RegShape
  <2>6. KeepsGate(reg, reg')
    BY <1>0, <1>s, <2>3, <2>4, <2>5, OperatorsKeepGate
  <2> QED BY <2>1, <2>2, <2>6, FenceSwitch
<1>40. CASE ReopenPrompts
  <2>1. Finishes /\ SetsGate(FALSE)
    BY <1>0, <1>40, DoesReopen DEF Reopens
  <2> QED BY <2>1, FinishedUsers, FenceSet
<1>41. CASE AdmitTurn
  <2>1. UNCHANGED <<fenced, slip, sw>> /\ "dispatch" \in Users
    BY <1>41 DEF AdmitTurn, Users
  <2>2. Others("dispatch") /\ UserReads("dispatch")
    BY <1>0, <1>41, DoesAdmitTurn DEF Stops, UserReads
  <2>3. KeepsGate(reg, reg')
    BY <1>0, <1>s, <1>41, DoesAdmitTurn, OperatorsKeepGate DEF AdmitTurn
  <2> QED BY <2>1, <2>2, <2>3, FenceUser
<1>42. CASE SendTurn
  <2>1. UNCHANGED <<fenced, slip, sw>> /\ "dispatch" \in Users
    BY <1>42 DEF SendTurn, Users
  <2>2. Others("dispatch") /\ UserReads("dispatch")
    BY <1>0, <1>42, DoesSendTurn DEF Stops, UserReads
  <2>3. KeepsGate(reg, reg')
    BY <1>0, <1>s, <1>42, DoesSendTurn, OperatorsKeepGate DEF SendTurn
  <2> QED BY <2>1, <2>2, <2>3, FenceUser
<1>43. CASE AcquirePrompt
  <2>1. UNCHANGED <<fenced, slip, sw>> /\ "dispatch" \in Users
    BY <1>43 DEF AcquirePrompt, Users
  <2>2. Others("dispatch") /\ UserReads("dispatch")
    BY <1>0, <1>43, DoesAcquirePrompt DEF Stops, UserReads
  <2>3. KeepsGate(reg, reg')
    BY <1>0, <1>s, <1>43, DoesAcquirePrompt, OperatorsKeepGate DEF KeepsGate, RegRec, SomeBinding
  <2> QED BY <2>1, <2>2, <2>3, FenceUser
<1>44. CASE BeginTurn
  <2>1. UNCHANGED <<fenced, slip, sw>> /\ "dispatch" \in Users
    BY <1>44 DEF BeginTurn, Users
  <2>2. Others("dispatch") /\ UserReads("dispatch")
    BY <1>0, <1>44, DoesBeginTurn DEF Stops, UserReads
  <2>3. KeepsGate(reg, reg')
    BY <1>0, <1>s, <1>44, DoesBeginTurn, OperatorsKeepGate DEF KeepsGate, RegRec, SomeBinding
  <2> QED BY <2>1, <2>2, <2>3, FenceUser
<1>45. CASE EndTurn
  <2>1. UNCHANGED <<fenced, slip, sw>> /\ "dispatch" \in Users
    BY <1>45 DEF EndTurn, Users
  <2>2. Others("dispatch") /\ UserReads("dispatch")
    BY <1>0, <1>45, DoesEndTurn DEF Stops, UserReads
  <2>3. KeepsGate(reg, reg')
    BY <1>0, <1>s, <1>45, DoesEndTurn, OperatorsKeepGate DEF KeepsGate, RegRec, SomeBinding
  <2> QED BY <2>1, <2>2, <2>3, FenceUser
<1>46. CASE Tick
  <2>1. UNCHANGED <<reg, fenced, slip, user>>
    BY <1>46 DEF Tick
  <2>2. SwitchReads
    BY <1>0, <1>46, DoesTick DEF SwitchReads, SwitchGoes, Starts, Tick
  <2> QED BY <1>s, <2>1, <2>2, FenceSwitch
<1>47. CASE StartSweep
  <2>1. UNCHANGED <<reg, fenced, slip, user>>
    BY <1>47 DEF StartSweep
  <2>2. SwitchReads
    BY <1>0, <1>47, DoesStartSweep DEF SwitchReads, SwitchGoes, Starts, StartSweep
  <2> QED BY <1>s, <2>1, <2>2, FenceSwitch
<1>48. CASE DetachSwept
  <2>1. UNCHANGED <<fenced, slip, user, sw>> /\ reg' = Detached(reg, sweep.b)
    BY <1>48 DEF DetachSwept
  <2>2. KeepsGate(reg, reg') /\ SwitchReads
    BY <1>0, <1>48, <2>1, DoesDetachSwept, OperatorsKeepGate DEF SwitchReads
  <2> QED BY <2>1, <2>2, FenceSwitch
<1>49. CASE EndSweep
  <2>1. UNCHANGED <<reg, fenced, slip, user>>
    BY <1>49 DEF EndSweep
  <2>2. SwitchReads
    BY <1>0, <1>49, DoesEndSweep DEF SwitchReads, SwitchGoes, Starts, EndSweep
  <2> QED BY <1>s, <2>1, <2>2, FenceSwitch
<1>50. CASE ShutdownAuthSource
  <2>1. UNCHANGED <<fenced, slip, user, sw>>
    BY <1>50 DEF ShutdownAuthSource
  <2>2. KeepsGate(reg, reg') /\ SwitchReads
    BY <1>0, <1>50, <2>1, DoesShutdown DEF Fault, KeepsGate, SwitchReads
  <2> QED BY <2>1, <2>2, FenceSwitch
<1>51. CASE RaiseRevision
  <2>1. UNCHANGED <<reg, fenced, slip, user>>
    BY <1>51 DEF RaiseRevision
  <2>2. SwitchReads
    BY <1>0, <1>51, DoesRaise DEF SwitchReads, SwitchGoes, Starts, RaiseRevision
  <2> QED BY <1>s, <2>1, <2>2, FenceSwitch
<1>52. ASSUME NEW b \in Bindings, ClaimClose(b) PROVE FenceInv'
  <2>1. UNCHANGED <<fenced, slip, user, sw>>
    BY <1>52 DEF ClaimClose
  <2>2. KeepsGate(reg, reg')
    <3>1. reg' = Marked(reg, b, "Closing")
      BY <1>52 DEF ClaimClose, Marked
    <3>2. reg'.cur = IF reg.cur = b THEN NoBinding ELSE reg.cur
      BY <1>0, <3>1, RegMarked
    <3>3. ASSUME NEW c \in Bindings, c # b PROVE reg'.att[c] = reg.att[c]
      BY <1>0, <3>1, <3>3, MarkedElsewhere
    <3>4. reg.cur \in SomeBinding
      BY <1>0 DEF RegRec
    <3> QED BY <3>2, <3>3, <3>4 DEF KeepsGate, SomeBinding
  <2>3. SwitchReads
    BY <2>1 DEF SwitchReads
  <2> QED BY <2>1, <2>2, <2>3, FenceSwitch
<1>53. ASSUME NEW p \in Processes, ExitProcess(p) PROVE FenceInv'
  <2>1. UNCHANGED <<fenced, slip, user, sw>>
    BY <1>53 DEF ExitProcess
  <2>2. KeepsGate(reg, reg') /\ SwitchReads
    BY <1>0, <1>53, <2>1, DoesExit DEF Fault, KeepsGate, SwitchReads
  <2> QED BY <2>1, <2>2, FenceSwitch
<1>54. ASSUME NEW b \in Bindings, NoticeCrash(b) PROVE FenceInv'
  <2>1. UNCHANGED <<fenced, slip, user, sw>>
    BY <1>54 DEF NoticeCrash
  <2>2. reg' = Marked(reg, b, "Crashed")
    BY <1>54 DEF NoticeCrash, Crashed, Marked
  <2>3. KeepsGate(reg, reg') /\ SwitchReads
    BY <1>0, <2>1, <2>2, OperatorsKeepGate DEF SwitchReads
  <2> QED BY <2>1, <2>3, FenceSwitch
<1> QED BY <1>1, <1>2, <1>3, <1>4, <1>5, <1>6, <1>7, <1>8, <1>9, <1>10, <1>11, <1>12, <1>13, <1>14, <1>15, <1>16, <1>17, <1>18, <1>19, <1>20, <1>21, <1>22, <1>23, <1>24, <1>25, <1>26, <1>27, <1>28, <1>29, <1>30, <1>31, <1>32, <1>33, <1>34, <1>35, <1>36, <1>37, <1>38, <1>39, <1>40, <1>41, <1>42, <1>43, <1>44, <1>45, <1>46, <1>47, <1>48, <1>49, <1>50, <1>51, <1>52, <1>53, <1>54
       DEF Next, Materialise, DriveSwitch, Turn, Sweep

LEMMA FenceAlways == Spec => []FenceInv
<1>1. Init => FenceInv
  <2> SUFFICES ASSUME Init PROVE FenceInv
    OBVIOUS
  <2>1. reg.cur = 1 /\ 1 \in Bindings /\ reg.att[1].closed = FALSE /\ fenced = FALSE
    BY Numbers DEF Init, NoAttachment
  <2>2. sw.pc = "idle" /\ \A u \in Users : user[u].pc = "idle"
    BY NoSwitchType, RestingType DEF Init
  <2> QED BY <2>1, <2>2 DEF FenceInv
<1>2. BaseInv /\ FenceInv /\ [Next]_vars => FenceInv'
  <2> SUFFICES ASSUME BaseInv, FenceInv, [Next]_vars PROVE FenceInv'
    OBVIOUS
  <2>1. CASE UNCHANGED vars
    BY <2>1 DEF vars, FenceInv
  <2> QED BY <2>1, FenceStep
<1> QED BY <1>1, <1>2, BaseAlways, PTL DEF Spec

\* At rest the current attachment refuses prompts exactly if the session is in the set of
\* fenced sessions, unless the last change of the set overtook an activation that had
\* read it: no switch, crash or rebuild leaves a session mute (activate_attachment,
\* set_session_prompt_gate).
THEOREM GateFollows == Spec => []GateFollowsFence
<1>1. FenceInv => GateFollowsFence
  BY DEF FenceInv, GateFollowsFence
<1> QED BY <1>1, FenceAlways, PTL

-----------------------------------------------------------------------------
(* Generations: the registry is at most one ahead of the session row, and with nothing *)
(* under way the current attachment has the durable binding and generation.            *)

Advancing(b) == \E u \in Users : user[u].pc = "advance" /\ user[u].b = b

\* No generation is more than one ahead of the session's.
GenInv ==
    /\ \A b \in Bindings : reg.att[b].gen <= reg.last
    /\ reg.last <= db.gen + 1
    /\ \A b \in Bindings : db.row[b] <= db.gen + 1
    /\ sw.pc \in PreCommit => sw.gen <= db.gen + 1

\* A materialisation has the generation of the session, or lost its binding to a switch.
UserQuiet(u) ==
    /\ user[u].pc \in {"existing", "revision", "spawn", "open", "advance"} =>
         user[u].gen <= db.gen /\ (user[u].gen = db.gen <=> user[u].b = db.cur)
    /\ user[u].pc = "advance" =>
         /\ user[u].p # NoProcess /\ reg.att[user[u].b].p = user[u].p
         /\ reg.att[user[u].b].gen = user[u].gen + 1
    /\ user[u].pc \in {"promptGate", "activate"} =>
         /\ user[u].p # NoProcess
         /\ reg.att[user[u].b].p = user[u].p =>
              /\ user[u].b = db.cur => reg.att[user[u].b].gen = db.gen
              /\ user[u].b # db.cur => reg.att[user[u].b].gen < db.gen

\* An attachment a committed switch may activate: it has the generation of the session,
\* or a materialisation is about to raise that, or its process is gone.
OkGen(b) ==
    /\ reg.att[b].gen >= db.gen
    /\ \/ reg.att[b].gen = db.gen
       \/ Advancing(b)
       \/ reg.proc[reg.att[b].p] # "up"

FitInv ==
    /\ sw.pc = "commit" /\ reg.att[sw.b].st # "none" => reg.att[sw.b].gen = db.row[sw.b]
    /\ sw.pc = "fit" => sw.gen <= db.gen
    /\ sw.pc = "fit" /\ sw.gen = db.gen /\ reg.att[sw.b].st # "none" => OkGen(sw.b)
    /\ sw.pc = "activate" => sw.p # NoProcess /\ (reg.att[sw.b].p = sw.p => OkGen(sw.b))

\* The current attachment is the durable one, unless a switch is between its commit and
\* its activation or was left there.
CurInv ==
    /\ reg.cur = db.cur => reg.att[reg.cur].gen >= db.gen
    /\ ~slip.stranded /\ sw.pc \notin {"fit", "activate"} =>
         /\ reg.last >= db.gen
         /\ reg.cur # NoBinding =>
              /\ reg.cur = db.cur
              /\ \/ reg.att[reg.cur].gen = db.gen
                 \/ Advancing(reg.cur)
                 \/ sw.pc = "open" /\ reg.proc[reg.att[reg.cur].p] # "up"

QuietInv == GenInv /\ (\A u \in Users : UserQuiet(u)) /\ FitInv /\ CurInv

\* What most steps do to the registry: an attachment keeps its fence and its generation
\* or goes, nothing is activated, and no process of an attachment comes back.
Kin(c) ==
    \/ reg'.att[c].p = reg.att[c].p /\ reg'.att[c].gen = reg.att[c].gen
    \/ reg'.att[c].p = NoProcess /\ reg'.att[c].gen = 0

Revives(c) ==
    /\ reg'.att[c].p # NoProcess /\ reg'.proc[reg'.att[c].p] = "up"
    /\ reg.proc[reg'.att[c].p] # "up"

Calm ==
    /\ \A c \in Bindings : Kin(c) /\ ~Revives(c)
    /\ reg'.last = reg.last /\ reg'.cur \in {reg.cur, NoBinding}

SameRow == db'.cur = db.cur /\ db'.gen = db.gen /\ db'.row = db.row

\* The task about to raise the generation of the session stays where it is, and whoever
\* stays there keeps its attachment.
AdvanceStays ==
    \A v \in Users : user[v].pc = "advance" =>
        /\ user[v].b = db.cur => user'[v].pc = "advance" /\ user'[v].b = user[v].b
        /\ user'[v].pc = "advance" => reg'.att[user[v].b].p = reg.att[user[v].b].p

\* The switch does not commit, and neither reaches nor leaves its activation.
SwitchStays ==
    /\ sw'.pc \in {"fit", "activate"} => sw'.b = sw.b /\ sw'.p = sw.p /\ sw'.gen = sw.gen
    /\ sw.pc \in {"fit", "activate"} \/ sw'.pc \in {"fit", "activate"} => sw'.pc = sw.pc
    /\ sw'.pc = "commit" =>
         /\ sw'.b = sw.b /\ sw.b \in Bindings
         /\ sw.pc = "commit" \/ reg.att[sw.b].gen = db.row[sw.b]
    /\ sw'.pc \in PreCommit => sw'.gen <= db.gen + 1
    /\ sw.pc = "open" =>
         sw'.pc = "open" \/ (reg'.cur # NoBinding => reg'.proc[reg'.att[reg'.cur].p] = "up")

LEMMA FadesCalm ==
    ASSUME Fades(reg, reg')
    PROVE  Calm
<1>1. ASSUME NEW c \in Bindings PROVE Kin(c)
  BY NoAttachmentType DEF Fades, Kin, Same
<1>2. ASSUME NEW c \in Bindings, Revives(c) PROVE FALSE
  <2>1. reg'.att[c].p \in Processes
    BY <1>2, AttNames DEF Fades, Revives, SomeProcess
  <2> QED BY <1>2, <2>1 DEF Fades, Revives
<1> QED BY <1>1, <1>2 DEF Calm, Fades

\* The numbers in the invariant are numbers.
LEMMA QuietNumbers ==
    ASSUME TypeInv
    PROVE  /\ \A b \in Bindings : reg.att[b].gen \in Nat /\ reg.att[b].p \in SomeProcess
           /\ \A b \in Bindings : db.row[b] \in Nat
           /\ reg.last \in Nat /\ db.gen \in Nat /\ db.cur \in Bindings /\ sw.gen \in Nat
           /\ reg.cur \in SomeBinding
           /\ \A u \in Users : user[u].gen \in Nat /\ user[u].p \in SomeProcess
  BY AttNames, UserNames DEF TypeInv, StoreOK, RegRec, DbRec, SwitchOK, SwitchRec

LEMMA UserQuietStays ==
    ASSUME TypeInv, TypeInv', NEW v \in Users, UserQuiet(v), user'[v] = user[v],
           \A c \in Bindings : Kin(c), SameRow,
           user[v].pc = "advance" => reg'.att[user[v].b].p = reg.att[user[v].b].p
    PROVE  UserQuiet(v)'
<1> DEFINE b == user[v].b
<1>1. user[v].pc \in {"advance", "promptGate", "activate"} => b \in Bindings /\ Kin(b)
  BY UserPlaces, UserNames DEF TypeInv
<1>2. user[v].pc = "advance" =>
         /\ user[v].p # NoProcess /\ reg'.att[b].p = user[v].p
         /\ reg'.att[b].gen = user[v].gen + 1
  BY <1>1 DEF UserQuiet, Kin
<1>3. user[v].pc \in {"promptGate", "activate"} =>
         /\ user[v].p # NoProcess
         /\ reg'.att[b].p = user[v].p =>
              /\ b = db.cur => reg'.att[b].gen = db.gen
              /\ b # db.cur => reg'.att[b].gen < db.gen
  BY <1>1 DEF UserQuiet, Kin
<1> QED BY <1>2, <1>3 DEF UserQuiet, SameRow

LEMMA GenStays ==
    ASSUME TypeInv, TypeInv', GenInv, Calm, SameRow,
           sw'.pc \in PreCommit => sw'.gen <= db.gen + 1
    PROVE  GenInv'
<1>1. ASSUME NEW b \in Bindings PROVE reg'.att[b].gen <= reg'.last
  BY QuietNumbers DEF GenInv, Calm, Kin
<1> QED BY <1>1 DEF GenInv, Calm, SameRow

LEMMA OkStays ==
    ASSUME TypeInv, TypeInv', NEW b \in Bindings, OkGen(b), Calm, SameRow, b = db.cur,
           AdvanceStays, reg'.att[b].p # NoProcess
    PROVE  /\ reg'.att[b].gen >= db'.gen
           /\ \/ reg'.att[b].gen = db'.gen
              \/ \E u \in Users : user'[u].pc = "advance" /\ user'[u].b = b
              \/ reg'.proc[reg'.att[b].p] # "up"
<1>1. reg'.att[b].p = reg.att[b].p /\ reg'.att[b].gen = reg.att[b].gen /\ ~Revives(b)
  BY DEF Calm, Kin
<1>2. Advancing(b) => \E u \in Users : user'[u].pc = "advance" /\ user'[u].b = b
  BY DEF AdvanceStays, Advancing
<1> QED BY <1>1, <1>2 DEF OkGen, SameRow, Revives

LEMMA QuietFrame ==
    ASSUME BaseInv, TypeInv', RegShape(reg'), QuietInv, Calm, SameRow,
           slip'.stranded = slip.stranded, AdvanceStays, SwitchStays,
           \A v \in Users : user'[v] = user[v] \/ UserQuiet(v)'
    PROVE  QuietInv'
<1>0. /\ TypeInv /\ RegShape(reg) /\ GenInv /\ FitInv /\ CurInv /\ TargetIsCurrent
      /\ \A v \in Users : UserQuiet(v)
  BY DEF BaseInv, Shape, QuietInv
<1>1. GenInv'
  BY <1>0, GenStays DEF SwitchStays, GenInv
<1>2. \A v \in Users : UserQuiet(v)'
  BY <1>0, UserQuietStays DEF Calm, AdvanceStays
<1>3. FitInv'
  <2>1. ASSUME sw'.pc \in {"commit", "fit", "activate"} PROVE FitInv'
    <3>1. /\ sw'.b = sw.b /\ sw.b \in Bindings
          /\ sw'.pc \in {"fit", "activate"} => sw'.pc = sw.pc /\ sw'.p = sw.p /\ sw'.gen = sw.gen
      BY <1>0, <2>1, SwitchNames DEF TypeInv, SwitchStays
    <3>2. Kin(sw.b) /\ (reg'.att[sw.b].st = "none" <=> reg'.att[sw.b].p = NoProcess)
          /\ (reg.att[sw.b].st = "none" <=> reg.att[sw.b].p = NoProcess)
      BY <1>0, <3>1 DEF Calm, RegShape
    <3>3. sw'.pc = "commit" /\ reg'.att[sw.b].st # "none" => reg'.att[sw.b].gen = db'.row[sw.b]
      BY <1>0, <3>1, <3>2 DEF FitInv, SwitchStays, SameRow, Kin
    <3>4. sw.pc \in {"fit", "activate"} => sw.b = db.cur
      BY <1>0 DEF PostCommit, TargetIsCurrent
    <3>5. ASSUME sw'.pc \in {"fit", "activate"}, OkGen(sw.b), reg'.att[sw.b].p # NoProcess
          PROVE  OkGen(sw.b)'
      <4>1. sw.b = db.cur
        BY <3>1, <3>4, <3>5
      <4> QED BY <1>0, <3>1, <3>5, <4>1, OkStays DEF OkGen, Advancing
    <3> QED BY <1>0, <3>1, <3>2, <3>3, <3>5 DEF FitInv, SameRow, Kin
  <2> QED BY <2>1 DEF FitInv
<1>4. CurInv'
  <2> DEFINE AdvancingNow == \E u \in Users : user'[u].pc = "advance" /\ user'[u].b = reg.cur
  <2>0. reg'.cur # NoBinding =>
          /\ reg'.cur = reg.cur /\ reg.cur \in Bindings
          /\ reg'.att[reg.cur].gen = reg.att[reg.cur].gen
          /\ reg'.att[reg.cur].p = reg.att[reg.cur].p /\ reg'.att[reg.cur].p # NoProcess
          /\ ~Revives(reg.cur)
    <3> SUFFICES ASSUME reg'.cur # NoBinding
                 PROVE  /\ reg'.cur = reg.cur /\ reg.cur \in Bindings
                        /\ reg'.att[reg.cur].gen = reg.att[reg.cur].gen
                        /\ reg'.att[reg.cur].p = reg.att[reg.cur].p
                        /\ reg'.att[reg.cur].p # NoProcess
                        /\ ~Revives(reg.cur)
      OBVIOUS
    <3>1. reg'.cur = reg.cur /\ reg.cur \in Bindings
      BY <1>0, QuietNumbers DEF Calm, SomeBinding
    <3>2. reg'.att[reg.cur].p # NoProcess
      BY <3>1 DEF RegShape
    <3> QED BY <3>1, <3>2 DEF Calm, Kin
  <2>1. db'.cur # NoBinding /\ db'.cur = db.cur /\ db'.gen = db.gen
    BY <1>0, QuietNumbers, Numbers DEF SameRow
  <2>2. reg'.cur = db'.cur => reg'.att[reg'.cur].gen >= db'.gen
    BY <1>0, <2>0, <2>1 DEF CurInv
  <2>3. ASSUME ~slip'.stranded, sw'.pc \notin {"fit", "activate"}
        PROVE  /\ reg'.last >= db'.gen
               /\ reg'.cur # NoBinding =>
                    /\ reg'.cur = db'.cur
                    /\ \/ reg'.att[reg'.cur].gen = db'.gen
                       \/ AdvancingNow
                       \/ sw'.pc = "open" /\ reg'.proc[reg'.att[reg'.cur].p] # "up"
    <3>1. ~slip.stranded /\ sw.pc \notin {"fit", "activate"}
      BY <2>3 DEF SwitchStays
    <3>2. reg.last >= db.gen
      BY <1>0, <3>1 DEF CurInv
    <3>3. ASSUME reg'.cur # NoBinding
          PROVE  /\ reg'.cur = db'.cur
                 /\ \/ reg'.att[reg'.cur].gen = db'.gen
                    \/ AdvancingNow
                    \/ sw'.pc = "open" /\ reg'.proc[reg'.att[reg'.cur].p] # "up"
      <4>1. /\ reg.cur = db.cur
            /\ \/ reg.att[reg.cur].gen = db.gen
               \/ Advancing(reg.cur)
               \/ sw.pc = "open" /\ reg.proc[reg.att[reg.cur].p] # "up"
        BY <1>0, <2>0, <3>1, <3>3, Numbers DEF CurInv
      <4>2. Advancing(reg.cur) => AdvancingNow
        BY <4>1 DEF AdvanceStays, Advancing
      <4>3. sw.pc = "open" /\ reg.proc[reg.att[reg.cur].p] # "up" =>
              sw'.pc = "open" /\ reg'.proc[reg'.att[reg'.cur].p] # "up"
        BY <2>0, <3>3 DEF SwitchStays, Revives
      <4> QED BY <2>0, <2>1, <3>3, <4>1, <4>2, <4>3
    <3> QED BY <2>1, <3>2, <3>3 DEF Calm
  <2> QED BY <2>0, <2>2, <2>3 DEF CurInv, Advancing
<1> QED BY <1>1, <1>2, <1>3, <1>4 DEF QuietInv

-----------------------------------------------------------------------------
(* The steps, one by one. *)

\* Every attachment is on the process it was on.
FencesKept(r, s) == \A b \in Bindings : s.att[b].p = r.att[b].p

LEMMA OperatorsKeepFences ==
    ASSUME NEW r \in RegRec, RegShape(r)
    PROVE  /\ FencesKept(r, r)
           /\ \A b \in Bindings, st \in {"Crashed", "Closing"} : FencesKept(r, Marked(r, b, st))
           /\ FencesKept(r, Current(r))
           /\ \A b \in Bindings, f \in BOOLEAN : FencesKept(r, [r EXCEPT !.att[b].closed = f])
<1>1. ASSUME NEW b \in Bindings, NEW st \in {"Crashed", "Closing"}, NEW c \in Bindings
      PROVE  Marked(r, b, st).att[c].p = r.att[c].p
  <2>1. ASSUME c # b PROVE Marked(r, b, st).att[c] = r.att[c]
    <3> HIDE DEF Marked
    <3> QED BY <2>1, MarkedElsewhere
  <2>2. Same(Marked(r, b, st).att[b], r.att[b])
    BY RegMarked
  <2> QED BY <2>1, <2>2 DEF Same
<1>2. FencesKept(r, Current(r))
  <2>1. r.cur \in SomeBinding
    BY DEF RegRec
  <2>2. CASE Current(r) = r
    BY <2>2 DEF FencesKept
  <2>3. CASE r.cur # NoBinding /\ Current(r) = Marked(r, r.cur, "Crashed")
    BY <1>1, <2>1, <2>3 DEF FencesKept, SomeBinding
  <2> QED BY <2>2, <2>3 DEF Current, Crashed, Marked
<1>3. ASSUME NEW b \in Bindings, NEW f \in BOOLEAN, NEW c \in Bindings
      PROVE  [r EXCEPT !.att[b].closed = f].att[c].p = r.att[c].p
  BY DEF RegRec, Attachments
<1> QED BY <1>1, <1>2, <1>3 DEF FencesKept

LEMMA GateKeepsFences ==
    ASSUME TypeInv, RegShape(reg), NEW closed \in BOOLEAN, SetPromptGate(closed)
    PROVE  FencesKept(reg, reg')
<1> DEFINE r == Current(reg)
<1>1. reg \in RegRec
  BY DEF TypeInv, StoreOK
<1>2. FencesKept(reg, r)
  BY <1>1, OperatorsKeepFences
<1>3. r \in RegRec /\ RegShape(r)
  BY <1>1, FadesCurrent, FadesShape DEF Fades
<1>4. reg' = IF r.cur = NoBinding THEN r ELSE [r EXCEPT !.att[r.cur].closed = closed]
  BY DEF SetPromptGate
<1> HIDE DEF r
<1>5. r.cur \in SomeBinding
  BY <1>3 DEF RegRec
<1>6. CASE r.cur = NoBinding
  BY <1>2, <1>4, <1>6
<1>7. CASE r.cur \in Bindings
  <2>1. reg' = [r EXCEPT !.att[r.cur].closed = closed]
    BY <1>4, <1>7, Numbers
  <2>2. FencesKept(r, reg')
    BY <1>3, <1>7, <2>1, OperatorsKeepFences
  <2> QED BY <1>2, <2>2 DEF FencesKept
<1> QED BY <1>5, <1>6, <1>7 DEF SomeBinding

\* Where a materialisation has an opinion about generations.
Weighing == {"existing", "revision", "spawn", "open", "advance", "promptGate", "activate"}

LEMMA NotWeighing ==
    ASSUME NEW u \in Users, user'[u].pc \notin Weighing
    PROVE  UserQuiet(u)'
  BY DEF UserQuiet, Weighing

\* Only one task is past the session lock.
LEMMA OneWeighs ==
    ASSUME Serial, NEW u \in Users, user[u].pc \in Locked, NEW v \in Users, v # u
    PROVE  user[v].pc \notin Weighing
<1>1. user[v].pc \in Weighing => user[v].pc \in Locked
  BY UserPlaces DEF Weighing
<1> QED BY <1>1 DEF Serial

LEMMA SwitchSits ==
    ASSUME BaseInv, QuietInv, sw' = sw
    PROVE  SwitchStays
<1>1. sw.pc = "commit" => sw.b \in Bindings
  BY SwitchNames DEF BaseInv, TypeInv
<1> QED BY <1>1 DEF SwitchStays, QuietInv, GenInv

\* A step of u, not the one that raises the generation.
LEMMA QuietUser ==
    ASSUME BaseInv, TypeInv', RegShape(reg'), QuietInv, NEW u \in Users, Others(u),
           user[u].pc # "advance", user[u].pc \in Locked \/ FencesKept(reg, reg'), Calm, SameRow,
           slip'.stranded = slip.stranded, SwitchStays, UserQuiet(u)'
    PROVE  QuietInv'
<1>1. ASSUME user[u].pc \in Locked PROVE \A v \in Users : user[v].pc # "advance"
  BY <1>1, OneWeighs DEF BaseInv, Weighing
<1>2. ASSUME FencesKept(reg, reg'), NEW v \in Users, user[v].pc = "advance"
      PROVE  /\ user'[v].pc = "advance" /\ user'[v].b = user[v].b
             /\ reg'.att[user[v].b].p = reg.att[user[v].b].p
  <2>1. v # u /\ user[v].b \in Bindings
    BY <1>2, UserPlaces, UserNames DEF BaseInv, TypeInv
  <2> QED BY <1>2, <2>1 DEF Others, FencesKept
<1>3. AdvanceStays
  BY <1>1, <1>2 DEF AdvanceStays
<1>4. \A v \in Users : user'[v] = user[v] \/ UserQuiet(v)'
  BY DEF Others
<1> QED BY <1>3, <1>4, QuietFrame

\* A step of the switch, the sweeper, a process or the credentials.
LEMMA QuietElsewhere ==
    ASSUME BaseInv, TypeInv', RegShape(reg'), QuietInv, user' = user,
           \A v \in Users : user[v].pc = "advance" =>
              reg'.att[user[v].b].p = reg.att[user[v].b].p,
           Calm, SameRow, slip'.stranded = slip.stranded, SwitchStays
    PROVE  QuietInv'
<1>1. AdvanceStays
  BY DEF AdvanceStays
<1> QED BY <1>1, QuietFrame

LEMMA AdvancersKeep ==
    ASSUME TypeInv, FencesKept(reg, reg')
    PROVE  \A v \in Users : user[v].pc = "advance" =>
              reg'.att[user[v].b].p = reg.att[user[v].b].p
<1>1. \A v \in Users : user[v].pc = "advance" => user[v].b \in Bindings
  BY UserPlaces, UserNames DEF TypeInv
<1> QED BY <1>1 DEF FencesKept

LEMMA SpawnedCalm ==
    ASSUME TypeInv, NEW p \in Processes, Unused(p), reg' = Spawned(reg, p)
    PROVE  Calm /\ FencesKept(reg, reg')
<1>1. reg \in RegRec
  BY DEF TypeInv, StoreOK
<1>2. /\ reg'.att = reg.att /\ reg'.cur = reg.cur /\ reg'.last = reg.last
      /\ \A q \in Processes : reg'.proc[q] = IF q = p THEN "up" ELSE reg.proc[q]
  BY <1>1, RegSpawned
<1>3. \A c \in Bindings : reg.att[c].p # p /\ reg.att[c].p \in SomeProcess
  BY <1>1, AttNames DEF Unused
<1>4. ASSUME NEW c \in Bindings PROVE ~Revives(c)
  BY <1>2, <1>3 DEF Revives, SomeProcess
<1> QED BY <1>2, <1>4 DEF Calm, Kin, FencesKept

LEMMA RegisteredParts ==
    ASSUME TypeInv, NEW b \in Bindings, NEW g \in Nat, NEW p \in SomeProcess,
           \/ reg' = Registered(reg, b, g, p)
           \/ reg' = Released(Registered(reg, b, g, p), p)
    PROVE  /\ reg'.cur = reg.cur /\ reg'.last = IF g > reg.last THEN g ELSE reg.last
           /\ reg'.att[b].gen = g /\ reg'.att[b].p = p
           /\ \A c \in Bindings : c # b => reg'.att[c] = reg.att[c]
           /\ \A q \in Processes : reg'.proc[q] = "up" => reg.proc[q] = "up"
           /\ reg' = Released(Registered(reg, b, g, p), p) /\ p # NoProcess =>
                reg'.proc[p] # "up"
<1>0. reg \in RegRec
  BY DEF TypeInv, StoreOK
<1> DEFINE m == Registered(reg, b, g, p)
<1>1. /\ m \in RegRec /\ m.cur = reg.cur /\ m.proc = reg.proc
      /\ m.last = IF g > reg.last THEN g ELSE reg.last
      /\ m.att[b].gen = g /\ m.att[b].p = p
  BY <1>0, RegRegistered
<1>2. ASSUME NEW c \in Bindings, c # b PROVE m.att[c] = reg.att[c]
  BY <1>0, <1>2, RegisteredElsewhere
<1>3. reg' = m \/ reg' = Released(m, p)
  OBVIOUS
<1> HIDE DEF m
<1>4. /\ reg'.att = m.att /\ reg'.cur = m.cur /\ reg'.last = m.last
      /\ \A q \in Processes : reg'.proc[q] = "up" => m.proc[q] = "up"
      /\ reg' = Released(m, p) /\ p # NoProcess => reg'.proc[p] # "up"
  BY <1>1, <1>3, RegReleased DEF SomeProcess
<1> QED BY <1>1, <1>2, <1>4 DEF m

\* acquire_attachment: the attachment is one generation ahead, which either its task
\* goes on to make the session's or its process does not survive.
LEMMA QuietOpens ==
    ASSUME BaseInv, TypeInv', RegShape(reg'), QuietInv, NEW u \in Users, Others(u),
           user[u].pc = "open", user[u].b \in Bindings,
           \/ /\ reg' = Registered(reg, user[u].b, user[u].gen + 1, user[u].p)
              /\ user'[u].pc = "advance" /\ Carries(u)
           \/ /\ reg' = Released(Registered(reg, user[u].b, user[u].gen + 1, user[u].p), user[u].p)
              /\ user'[u].pc = "idle",
           UNCHANGED <<db, sw, slip>>
    PROVE  QuietInv'
<1> DEFINE b == user[u].b
           p == user[u].p
           g == user[u].gen
<1>0. /\ TypeInv /\ RegShape(reg) /\ TargetIsNew /\ TargetIsCurrent /\ Rebuilding /\ Serial
      /\ GenInv /\ FitInv /\ CurInv /\ \A v \in Users : UserQuiet(v)
  BY DEF BaseInv, Shape, QuietInv
<1>1. /\ p \in SomeProcess /\ p # NoProcess /\ p # sw.p /\ p \in Processes
      /\ g \in Nat /\ g + 1 \in Nat
      /\ reg.att[b].st = "none" /\ reg.cur # b
  BY <1>0, UserNames DEF TypeInv, Rebuilding, RegShape, SomeProcess
<1>2. /\ reg'.cur = reg.cur /\ reg'.last = IF g + 1 > reg.last THEN g + 1 ELSE reg.last
      /\ reg'.att[b].gen = g + 1 /\ reg'.att[b].p = p
      /\ \A c \in Bindings : c # b => reg'.att[c] = reg.att[c]
      /\ \A q \in Processes : reg'.proc[q] = "up" => reg.proc[q] = "up"
      /\ reg'.proc[p] # "up" \/ (user'[u].pc = "advance" /\ Carries(u))
  BY <1>0, <1>1, RegisteredParts
<1>3. user[u].pc \in Locked /\ \A v \in Users : user[v].pc # "advance"
  BY <1>0, UserPlaces, OneWeighs DEF Weighing
<1>4. g <= db.gen /\ (g = db.gen <=> b = db.cur)
  BY <1>0 DEF UserQuiet
<1>5. \A v \in Users : UserQuiet(v)'
  <2>1. ASSUME NEW v \in Users, v # u PROVE UserQuiet(v)'
    BY <1>0, <1>3, <2>1, OneWeighs, NotWeighing DEF Others
  <2>2. CASE user'[u].pc = "advance" /\ Carries(u)
    <3>1. /\ user'[u].pc = "advance" /\ user'[u].b = b /\ user'[u].gen = g
          /\ user'[u].p = p /\ db' = db
      BY <2>2 DEF Carries
    <3> HIDE DEF b, p, g
    <3>2. UserQuiet(u)'
      BY <1>1, <1>2, <1>4, <3>1 DEF UserQuiet
    <3> QED BY <2>1, <3>2
  <2>3. CASE user'[u].pc = "idle"
    BY <2>1, <2>3, NotWeighing DEF Weighing
  <2> QED BY <2>2, <2>3
<1>6. GenInv'
  <2>1. ASSUME NEW c \in Bindings PROVE reg'.att[c].gen <= reg'.last
    <3>1. reg.att[c].gen \in Nat /\ reg.last \in Nat /\ reg.att[c].gen <= reg.last
      BY <1>0, QuietNumbers DEF GenInv
    <3> QED BY <1>1, <1>2, <3>1
  <2>2. db.gen \in Nat /\ reg.last \in Nat /\ reg.last <= db.gen + 1
    BY <1>0, QuietNumbers DEF GenInv
  <2>3. reg'.last <= db.gen + 1
    BY <1>1, <1>2, <1>4, <2>2
  <2> QED BY <1>0, <2>1, <2>3 DEF GenInv
<1> DEFINE AdvancingTo(c) == \E v \in Users : user'[v].pc = "advance" /\ user'[v].b = c
<1>7. ASSUME NEW c \in Bindings, c # b, reg.att[c].p # NoProcess
      PROVE  /\ reg'.att[c] = reg.att[c]
             /\ reg.proc[reg.att[c].p] # "up" => reg'.proc[reg'.att[c].p] # "up"
             /\ ~Advancing(c)
  <2>1. reg.att[c].p \in Processes
    BY <1>0, <1>7, QuietNumbers DEF SomeProcess
  <2> QED BY <1>2, <1>3, <1>7, <2>1 DEF Advancing
<1>8. b = db.cur => /\ reg'.att[b].gen >= db.gen
                    /\ AdvancingTo(b) \/ reg'.proc[reg'.att[b].p] # "up"
  BY <1>0, <1>1, <1>2, <1>4, QuietNumbers DEF Carries
<1>9. FitInv'
  <2>1. ASSUME sw.pc = "commit", reg'.att[sw.b].st # "none"
        PROVE  reg'.att[sw.b].gen = db.row[sw.b]
    <3>1. sw.b \in Bindings /\ sw.b # b
      BY <1>0, <2>1, SwitchNames, SwitchPlacesNamed DEF TypeInv, TargetIsNew
    <3> QED BY <1>0, <1>2, <2>1, <3>1 DEF FitInv
  <2>2. ASSUME sw.pc \in {"fit", "activate"}, reg'.att[sw.b].p # NoProcess,
               sw.b # b => OkGen(sw.b)
        PROVE  OkGen(sw.b)'
    <3>1. sw.b \in Bindings /\ sw.b = db.cur
      BY <1>0, <2>2, SwitchNames DEF TypeInv, TargetIsCurrent, PostCommit
    <3>2. CASE sw.b = b
      BY <1>8, <3>1, <3>2 DEF OkGen, Advancing
    <3>3. CASE sw.b # b
      <4>1. reg'.att[sw.b] = reg.att[sw.b]
        BY <1>2, <3>1, <3>3
      <4>2. /\ reg.proc[reg.att[sw.b].p] # "up" => reg'.proc[reg'.att[sw.b].p] # "up"
            /\ ~Advancing(sw.b)
        BY <1>7, <2>2, <3>1, <3>3, <4>1
      <4> QED BY <2>2, <3>3, <4>1, <4>2 DEF OkGen
    <3> QED BY <3>2, <3>3
  <2>3. sw.pc \in {"fit", "activate"} => sw.b \in Bindings
    BY <1>0, SwitchNames DEF TypeInv
  <2>4. sw.pc \in {"fit", "activate"} =>
          /\ reg'.att[sw.b].st = "none" <=> reg'.att[sw.b].p = NoProcess
          /\ sw.b # b => reg'.att[sw.b] = reg.att[sw.b]
    BY <1>2, <2>3 DEF RegShape
  <2>5. sw.pc = "fit" /\ sw.gen = db.gen /\ reg'.att[sw.b].st # "none" => OkGen(sw.b)'
    BY <1>0, <2>2, <2>4 DEF FitInv
  <2>6. sw.pc = "activate" => sw.p # NoProcess /\ (reg'.att[sw.b].p = sw.p => OkGen(sw.b)')
    BY <1>0, <1>1, <1>2, <2>2, <2>4 DEF FitInv
  <2> QED BY <1>0, <2>1, <2>5, <2>6 DEF FitInv
<1>10. CurInv'
  <2>1. ASSUME reg.cur # NoBinding
        PROVE  /\ reg.cur \in Bindings /\ reg'.att[reg.cur] = reg.att[reg.cur]
               /\ ~Advancing(reg.cur)
               /\ reg.proc[reg.att[reg.cur].p] # "up" => reg'.proc[reg'.att[reg.cur].p] # "up"
    <3>1. reg.cur \in Bindings
      BY <1>0, <2>1, QuietNumbers DEF SomeBinding
    <3>2. reg.att[reg.cur].p # NoProcess
      BY <1>0, <3>1 DEF RegShape
    <3> QED BY <1>1, <1>7, <3>1, <3>2
  <2>2. db.cur # NoBinding
    BY <1>0, QuietNumbers, Numbers
  <2>3. reg.last \in Nat /\ db.gen \in Nat
    BY <1>0, QuietNumbers
  <2>4. reg.last >= db.gen => reg'.last >= db.gen
    BY <1>1, <1>2, <2>3
  <2> QED BY <1>0, <1>2, <2>1, <2>2, <2>4 DEF CurInv
<1> QED BY <1>5, <1>6, <1>9, <1>10 DEF QuietInv

\* advance_current_activation_generation: the session has the generation of the prepared
\* attachment now, or the attachment is detached.
LEMMA QuietAdvances ==
    ASSUME BaseInv, TypeInv', RegShape(reg'), QuietInv, NEW u \in Users, AdvanceGeneration(u)
    PROVE  QuietInv'
<1> DEFINE b == user[u].b
           g == user[u].gen
<1>0. /\ TypeInv /\ RegShape(reg) /\ TargetIsNew /\ TargetIsCurrent /\ Serial /\ reg \in RegRec
      /\ GenInv /\ FitInv /\ CurInv /\ \A v \in Users : UserQuiet(v)
  BY DEF BaseInv, Shape, QuietInv, TypeInv, StoreOK
<1>1. /\ Others(u) /\ b \in Bindings /\ user[u].pc = "advance" /\ db'.cur = db.cur
      /\ UNCHANGED <<sw, slip>> /\ g \in Nat
  BY <1>0, DoesAdvance, UserNames DEF AdvanceGeneration, AtUser, TypeInv
<1>2. /\ g <= db.gen /\ (g = db.gen <=> b = db.cur)
      /\ user[u].p # NoProcess /\ reg.att[b].p = user[u].p /\ reg.att[b].gen = g + 1
  BY <1>0, <1>1 DEF UserQuiet
<1>3. /\ \/ user'[u].pc = "promptGate" /\ Carries(u) /\ reg' = reg
            /\ db.cur = b /\ db.gen = g
         \/ user'[u].pc = "idle" /\ reg' = Detached(reg, b)
      /\ \/ db.cur = b /\ db.gen = g /\ db'.gen = g + 1 /\ db'.row = [db.row EXCEPT ![b] = g + 1]
         \/ db' = db /\ b # db.cur
  BY <1>0, <1>2, DoesAdvance DEF Leaves
<1>4. ASSUME NEW v \in Users, v # u PROVE user[v].pc \notin Weighing /\ UserQuiet(v)'
  BY <1>0, <1>1, <1>4, UserPlaces, OneWeighs, NotWeighing DEF Others
<1>5. SwitchStays
  BY <1>1, SwitchSits
<1>6. ASSUME db' = db, b # db.cur, user'[u].pc = "idle", reg' = Detached(reg, b)
      PROVE  QuietInv'
  <2>1. Calm
    BY <1>0, <1>1, <1>6, FadesDetached, FadesCalm
  <2>2. AdvanceStays
    BY <1>4, <1>6 DEF AdvanceStays, Weighing
  <2>3. \A v \in Users : UserQuiet(v)'
    BY <1>4, <1>6, NotWeighing DEF Weighing
  <2>4. SameRow
    BY <1>6 DEF SameRow
  <2> QED BY <1>1, <1>5, <2>1, <2>2, <2>3, <2>4, QuietFrame
<1>7. ASSUME db.cur = b, db.gen = g, db'.gen = g + 1, db'.row = [db.row EXCEPT ![b] = g + 1]
      PROVE  QuietInv'
  <2>1. /\ \A c \in Bindings : Kin(c)
        /\ reg'.last = reg.last /\ reg'.cur \in {reg.cur, NoBinding}
        /\ reg' = reg \/ (reg'.att[b].p = NoProcess /\ reg'.cur # b)
    <3>1. CASE reg' = reg
      BY <3>1 DEF Kin
    <3>2. CASE reg' = Detached(reg, b)
      <4>1. Calm
        BY <1>0, <1>1, <3>2, FadesDetached, FadesCalm
      <4>2. reg'.att[b].p = NoProcess /\ reg'.cur = IF reg.cur = b THEN NoBinding ELSE reg.cur
        BY <1>0, <1>1, <3>2, FadesDetached
      <4> QED BY <1>1, <4>1, <4>2, Numbers DEF Calm
    <3> QED BY <1>3, <3>1, <3>2
  <2>2. \A v \in Users : UserQuiet(v)'
    <3>1. CASE user'[u].pc = "promptGate" /\ Carries(u) /\ reg' = reg
      BY <1>1, <1>2, <1>4, <1>7, <3>1 DEF UserQuiet, Carries
    <3>2. CASE user'[u].pc = "idle"
      BY <1>4, <3>2, NotWeighing DEF Weighing
    <3> QED BY <1>3, <3>1, <3>2
  <2>3. GenInv'
    <3>1. ASSUME NEW c \in Bindings PROVE reg'.att[c].gen <= reg'.last
      BY <1>0, <2>1, QuietNumbers DEF GenInv, Kin
    <3>2. ASSUME NEW c \in Bindings PROVE db'.row[c] <= db'.gen + 1
      <4>1. db.row \in [Bindings -> Nat] /\ db.row[c] \in Nat /\ db.row[c] <= db.gen + 1
        BY <1>0, QuietNumbers DEF GenInv, TypeInv, StoreOK, DbRec
      <4> QED BY <1>1, <1>7, <4>1
    <3>3. reg.last \in Nat /\ sw.gen \in Nat /\ reg.last <= db.gen + 1
      BY <1>0, QuietNumbers DEF GenInv
    <3>4. reg'.last <= db'.gen + 1 /\ (sw.pc \in PreCommit => sw.gen <= db'.gen + 1)
      BY <1>0, <1>1, <1>7, <2>1, <3>3 DEF GenInv
    <3> QED BY <1>1, <3>1, <3>2, <3>4 DEF GenInv
  <2>4. FitInv'
    <3>1. ASSUME sw.pc = "commit", reg'.att[sw.b].st # "none"
          PROVE  reg'.att[sw.b].gen = db'.row[sw.b]
      <4>1. sw.b \in Bindings /\ sw.b # b
        BY <1>0, <1>7, <3>1, SwitchNames, SwitchPlacesNamed DEF TypeInv, TargetIsNew
      <4>2. Kin(sw.b) /\ (reg'.att[sw.b].st = "none" <=> reg'.att[sw.b].p = NoProcess)
            /\ (reg.att[sw.b].st = "none" <=> reg.att[sw.b].p = NoProcess)
        BY <1>0, <2>1, <4>1 DEF RegShape
      <4>3. db'.row[sw.b] = db.row[sw.b]
        BY <1>0, <1>7, <4>1 DEF TypeInv, StoreOK, DbRec
      <4> QED BY <1>0, <3>1, <4>2, <4>3 DEF FitInv, Kin
    <3>2. ASSUME sw.pc = "fit" PROVE sw.gen <= db'.gen /\ sw.gen # db'.gen
      BY <1>0, <1>1, <1>7, <3>2, QuietNumbers DEF FitInv
    <3>3. ASSUME sw.pc = "activate"
          PROVE  sw.p # NoProcess /\ (reg'.att[sw.b].p = sw.p => OkGen(sw.b)')
      <4>1. sw.b = b /\ sw.p # NoProcess
        BY <1>0, <1>7, <3>3 DEF TargetIsCurrent, PostCommit, FitInv
      <4>2. CASE reg' = reg
        <5>1. reg'.att[b].gen = db'.gen /\ db'.gen \in Nat
          BY <1>1, <1>2, <1>7, <4>2
        <5> QED BY <1>1, <4>1, <5>1 DEF OkGen
      <4>3. CASE reg'.att[b].p = NoProcess
        BY <4>1, <4>3
      <4> QED BY <2>1, <4>2, <4>3
    <3> QED BY <1>1, <3>1, <3>2, <3>3 DEF FitInv
  <2>5. CurInv'
    <3>1. reg.last >= g + 1 /\ reg.att[b].gen <= reg.last
      BY <1>0, <1>1, <1>2 DEF GenInv
    <3>2. reg'.cur = b => reg'.att[b].gen = db'.gen /\ db'.gen \in Nat
      BY <1>1, <1>2, <1>7, <2>1
    <3>3. ~slip.stranded /\ sw.pc \notin {"fit", "activate"} /\ reg'.cur # NoBinding => reg'.cur = b
      BY <1>0, <1>7, <2>1 DEF CurInv
    <3> QED BY <1>1, <1>7, <2>1, <3>1, <3>2, <3>3 DEF CurInv
  <2> QED BY <2>2, <2>3, <2>4, <2>5 DEF QuietInv
<1> QED BY <1>3, <1>6, <1>7

LEMMA ActivatedParts ==
    ASSUME TypeInv, GenInv, NEW b \in Bindings, NEW shut \in BOOLEAN,
           reg' = Activated(reg, b, shut)
    PROVE  /\ reg'.cur = b /\ reg'.proc = reg.proc /\ reg'.last = reg.last
           /\ \A c \in Bindings : reg'.att[c].gen = reg.att[c].gen /\ reg'.att[c].p = reg.att[c].p
<1>1. reg \in RegRec /\ reg.att[b].gen \in Nat /\ reg.last \in Nat /\ reg.att[b].gen <= reg.last
  BY QuietNumbers DEF TypeInv, StoreOK, GenInv
<1>2. reg'.last = IF reg.att[b].gen > reg.last THEN reg.att[b].gen ELSE reg.last
  BY <1>1, RegActivated
<1>3. \A c \in Bindings : Same(reg'.att[c], reg.att[c])
  BY <1>1, RegActivated
<1>4. reg'.cur = b /\ reg'.proc = reg.proc
  BY <1>1, RegActivated
<1> QED BY <1>1, <1>2, <1>3, <1>4 DEF Same

\* What an activation leaves of the invariant whoever makes it.
LEMMA ActivatedQuiet ==
    ASSUME BaseInv, TypeInv', QuietInv, NEW b \in Bindings, NEW shut \in BOOLEAN,
           reg' = Activated(reg, b, shut), db' = db, sw'.pc \in PreCommit => sw'.gen = sw.gen,
           sw'.pc \in PreCommit => sw.pc \in PreCommit,
           \A v \in Users : user'[v] = user[v] \/ user'[v].pc \notin Weighing
    PROVE  GenInv' /\ \A v \in Users : UserQuiet(v)'
<1>0. TypeInv /\ GenInv /\ \A v \in Users : UserQuiet(v)
  BY DEF BaseInv, QuietInv
<1>1. /\ reg'.cur = b /\ reg'.proc = reg.proc /\ reg'.last = reg.last
      /\ \A c \in Bindings : reg'.att[c].gen = reg.att[c].gen /\ reg'.att[c].p = reg.att[c].p
  BY <1>0, ActivatedParts
<1>2. GenInv'
  BY <1>0, <1>1 DEF GenInv
<1>3. ASSUME NEW v \in Users PROVE UserQuiet(v)'
  <2>1. CASE user'[v] = user[v]
    <3>1. user[v].pc = "advance" => user[v].b \in Bindings
      BY <1>0, UserPlaces, UserNames DEF TypeInv
    <3>2. (\A c \in Bindings : Kin(c)) /\ SameRow
      BY <1>1 DEF Kin, SameRow
    <3> QED BY <1>0, <1>1, <2>1, <3>1, <3>2, UserQuietStays
  <2>2. CASE user'[v].pc \notin Weighing
    BY <2>2, NotWeighing
  <2> QED BY <2>1, <2>2
<1> QED BY <1>2, <1>3

\* activate_attachment of a materialisation: a binding that lost the session to a switch
\* has a generation too low to replace its successor.
LEMMA QuietActivates ==
    ASSUME BaseInv, TypeInv', RegShape(reg'), QuietInv, NEW u \in Users, Others(u),
           user[u].pc = "activate", user'[u].pc \notin Weighing,
           Activatable(reg, user[u].b, user[u].p),
           reg' = Activated(reg, user[u].b, user[u].shut), UNCHANGED <<db, sw, slip>>
    PROVE  QuietInv'
<1> DEFINE b == user[u].b
<1>0. /\ TypeInv /\ RegShape(reg) /\ TargetIsCurrent /\ Serial
      /\ GenInv /\ FitInv /\ CurInv /\ \A v \in Users : UserQuiet(v)
  BY DEF BaseInv, Shape, QuietInv
<1>1. b \in Bindings /\ user[u].shut \in BOOLEAN /\ user[u].pc \in Locked
  BY <1>0, UserPlaces, UserNames DEF TypeInv
<1>2. /\ reg'.cur = b /\ reg'.proc = reg.proc /\ reg'.last = reg.last
      /\ \A c \in Bindings : reg'.att[c].gen = reg.att[c].gen /\ reg'.att[c].p = reg.att[c].p
  BY <1>0, <1>1, ActivatedParts
<1>3. \A v \in Users : user[v].pc # "advance"
  BY <1>0, <1>1, OneWeighs DEF Weighing
<1>4. GenInv' /\ \A v \in Users : UserQuiet(v)'
  BY <1>1, ActivatedQuiet DEF Others
<1>5. /\ b = db.cur => reg.att[b].gen = db.gen
      /\ b # db.cur => reg.att[b].gen < db.gen
  BY <1>0 DEF UserQuiet, Activatable
<1>6. FitInv'
  <2>1. ASSUME sw.pc \in {"commit", "fit", "activate"}
        PROVE  /\ sw.b \in Bindings
               /\ reg'.att[sw.b].st # "none" => reg.att[sw.b].st # "none"
               /\ OkGen(sw.b) => OkGen(sw.b)'
    <3>1. sw.b \in Bindings
      BY <1>0, <2>1, SwitchNames DEF TypeInv
    <3>2. reg'.att[sw.b].st # "none" => reg.att[sw.b].st # "none"
      BY <1>0, <1>2, <3>1 DEF RegShape
    <3> QED BY <1>2, <1>3, <3>1, <3>2 DEF OkGen, Advancing
  <2> QED BY <1>0, <1>2, <2>1 DEF FitInv
<1>7. CurInv'
  <2>1. reg.att[b].gen \in Nat /\ db.gen \in Nat /\ reg.last \in Nat /\ db.cur \in Bindings
        /\ (reg.cur # NoBinding => reg.cur \in Bindings /\ reg.att[reg.cur].gen \in Nat)
    BY <1>0, <1>1, QuietNumbers DEF SomeBinding
  <2>2. ASSUME ~slip.stranded, sw.pc \notin {"fit", "activate"}, b # db.cur PROVE FALSE
    <3>1. /\ reg.last >= db.gen
          /\ reg.cur # NoBinding => reg.cur = db.cur /\ reg.att[reg.cur].gen >= db.gen
      BY <1>0, <2>2 DEF CurInv
    <3>2. reg.cur # b
      BY <1>1, <2>2, <3>1, Numbers
    <3>3. IF reg.cur # NoBinding THEN reg.att[b].gen > reg.att[reg.cur].gen
          ELSE reg.att[b].gen >= reg.last
      BY <3>2 DEF Activatable
    <3> QED BY <1>5, <2>1, <2>2, <3>1, <3>3
  <2>3. ~slip.stranded /\ sw.pc \notin {"fit", "activate"} => reg.last >= db.gen
    BY <1>0 DEF CurInv
  <2> QED BY <1>1, <1>2, <1>5, <2>1, <2>2, <2>3 DEF CurInv
<1> QED BY <1>4, <1>6, <1>7 DEF QuietInv

\* A prepared target has the next generation and is not the current attachment.
LEMMA QuietCreates ==
    ASSUME BaseInv, TypeInv', QuietInv, CreateSession, sw'.pc = "protectTarget", SwitchCarries,
           reg' = Registered(reg, sw.b, sw.gen, sw.p)
    PROVE  QuietInv'
<1>0. /\ TypeInv /\ RegShape(reg) /\ TargetIsNew
      /\ GenInv /\ FitInv /\ CurInv /\ \A v \in Users : UserQuiet(v)
  BY DEF BaseInv, Shape, QuietInv
<1>1. sw.pc = "create" /\ UNCHANGED <<db, user, slip>>
  BY DEF CreateSession, AtSwitch
<1>2. /\ sw.b \in Bindings /\ sw.p \in SomeProcess /\ sw.gen \in Nat
      /\ \A u \in Users : user[u].b # sw.b
      /\ reg.att[sw.b].st = "none" /\ reg.cur # sw.b /\ sw.gen <= db.gen + 1
  BY <1>0, <1>1, SwitchNames DEF TypeInv, TargetIsNew, PreCommit, PreCreate, RegShape, GenInv
<1>3. /\ reg'.cur = reg.cur /\ reg'.last = IF sw.gen > reg.last THEN sw.gen ELSE reg.last
      /\ reg'.att[sw.b].gen = sw.gen /\ reg'.att[sw.b].p = sw.p
      /\ \A c \in Bindings : c # sw.b => reg'.att[c] = reg.att[c]
  BY <1>0, <1>2, RegisteredParts
<1>4. reg'.proc = reg.proc
  BY <1>0, <1>2, RegRegistered DEF TypeInv, StoreOK
<1>5. reg.last \in Nat /\ db.gen \in Nat
  BY <1>0, QuietNumbers
<1>6. GenInv'
  <2>1. ASSUME NEW c \in Bindings PROVE reg'.att[c].gen <= reg'.last
    <3>1. reg.att[c].gen \in Nat /\ reg.att[c].gen <= reg.last
      BY <1>0, QuietNumbers DEF GenInv
    <3> QED BY <1>2, <1>3, <1>5, <3>1
  <2>2. reg'.last <= db.gen + 1
    BY <1>0, <1>2, <1>3, <1>5 DEF GenInv
  <2> QED BY <1>0, <1>1, <1>2, <2>1, <2>2 DEF GenInv, SwitchCarries
<1>7. ASSUME NEW v \in Users PROVE UserQuiet(v)'
  <2>1. user[v].pc \in {"advance", "promptGate", "activate"} => user[v].b \in Bindings
    BY <1>0, UserPlaces, UserNames DEF TypeInv
  <2> QED BY <1>0, <1>1, <1>2, <1>3, <2>1 DEF UserQuiet
<1>8. FitInv'
  BY DEF FitInv
<1>9. CurInv'
  <2>1. reg.cur # NoBinding => reg.cur \in Bindings /\ reg'.att[reg.cur] = reg.att[reg.cur]
    BY <1>0, <1>2, <1>3, QuietNumbers DEF SomeBinding
  <2>2. reg.last >= db.gen => reg'.last >= db.gen
    BY <1>2, <1>3, <1>5
  <2>3. db.cur # NoBinding
    BY <1>0, QuietNumbers, Numbers
  <2> QED BY <1>0, <1>1, <1>3, <1>4, <2>1, <2>2, <2>3 DEF CurInv, Advancing
<1> QED BY <1>6, <1>7, <1>8, <1>9 DEF QuietInv

\* ensure_prepared_binding: only the row of the target changes.
LEMMA QuietInserts ==
    ASSUME BaseInv, TypeInv', QuietInv, InsertBinding
    PROVE  QuietInv'
<1>0. TypeInv /\ GenInv /\ FitInv /\ CurInv /\ \A v \in Users : UserQuiet(v)
  BY DEF BaseInv, QuietInv
<1>1. /\ UNCHANGED <<reg, user, slip>> /\ sw.b \in Bindings /\ sw.pc = "insert"
      /\ sw'.pc \in {"closeToCommit", "fail"} /\ SwitchCarries
      /\ db'.cur = db.cur /\ db'.gen = db.gen
      /\ db'.row = [db.row EXCEPT ![sw.b] = db.gen + 1]
  BY <1>0, DoesInsertBinding DEF InsertBinding, AtSwitch
<1>2. GenInv'
  <2>1. ASSUME NEW c \in Bindings PROVE db'.row[c] <= db.gen + 1
    <3>1. db.row \in [Bindings -> Nat] /\ db.row[c] <= db.gen + 1 /\ db.gen \in Nat
      BY <1>0 DEF GenInv, TypeInv, StoreOK, DbRec
    <3> QED BY <1>1, <3>1
  <2>2. sw.pc \in PreCommit
    BY <1>1, SwitchPlacesNamed
  <2> QED BY <1>0, <1>1, <2>1, <2>2 DEF GenInv, SwitchCarries
<1>3. \A v \in Users : UserQuiet(v)'
  BY <1>0, <1>1 DEF UserQuiet
<1>4. FitInv' /\ CurInv'
  BY <1>0, <1>1 DEF FitInv, CurInv, Advancing
<1> QED BY <1>2, <1>3, <1>4 DEF QuietInv

\* commit: the session moves to a generation no materialisation has read.
LEMMA QuietCommits ==
    ASSUME BaseInv, TypeInv', QuietInv, Commit
    PROVE  QuietInv'
<1>0. /\ TypeInv /\ RegShape(reg) /\ TargetIsNew
      /\ GenInv /\ FitInv /\ CurInv /\ \A v \in Users : UserQuiet(v)
  BY DEF BaseInv, Shape, QuietInv
<1>1. /\ UNCHANGED <<reg, user, slip>> /\ sw.b \in Bindings /\ sw.pc = "commit"
      /\ sw'.pc = "fit" /\ sw'.gen = db.row[sw.b] /\ sw'.b = sw.b
      /\ db'.cur = sw.b /\ db'.gen = db.gen + 1
  BY <1>0, DoesCommit DEF Commit, AtSwitch
<1>2. db'.row = [db.row EXCEPT ![sw.b] = db.gen + 1]
  BY <1>0 DEF Commit, TypeInv, StoreOK, DbRec
<1>3. /\ \A u \in Users : user[u].b # sw.b
      /\ reg.att[sw.b].st \notin {"Committed", "Inactive"}
  BY <1>0, <1>1, SwitchPlacesNamed DEF TargetIsNew
<1>4. db.gen \in Nat /\ reg.last \in Nat
  BY <1>0, QuietNumbers
<1>5. GenInv'
  <2>1. ASSUME NEW c \in Bindings PROVE db'.row[c] <= db'.gen + 1
    <3>1. db.row \in [Bindings -> Nat] /\ db.row[c] <= db.gen + 1
      BY <1>0 DEF GenInv, TypeInv, StoreOK, DbRec
    <3> QED BY <1>1, <1>2, <1>4, <3>1
  <2>2. reg.last <= db'.gen + 1
    BY <1>0, <1>1, <1>4 DEF GenInv
  <2>3. "fit" \notin PreCommit
    BY SwitchPlaces DEF PostCommit
  <2> QED BY <1>0, <1>1, <2>1, <2>2, <2>3 DEF GenInv
<1>6. ASSUME NEW v \in Users PROVE UserQuiet(v)'
  <2>1. user[v].gen \in Nat /\ user[v].b # sw.b
    BY <1>0, <1>3, QuietNumbers
  <2>2. user[v].pc \in {"promptGate", "activate"} =>
          user[v].b \in Bindings /\ reg.att[user[v].b].gen \in Nat
    BY <1>0, UserPlaces, UserNames, QuietNumbers DEF TypeInv
  <2> QED BY <1>0, <1>1, <1>4, <2>1, <2>2 DEF UserQuiet
<1>7. FitInv'
  <2>1. db.row[sw.b] \in Nat /\ db.row[sw.b] <= db.gen + 1
    BY <1>0, <1>1, QuietNumbers DEF GenInv
  <2>2. reg.att[sw.b].st # "none" => reg.att[sw.b].gen = db.row[sw.b]
    BY <1>0, <1>1 DEF FitInv
  <2>3. reg.att[sw.b].st # "none" /\ sw'.gen = db'.gen => OkGen(sw.b)'
    BY <1>1, <1>4, <2>2 DEF OkGen
  <2> QED BY <1>1, <2>1, <2>3 DEF FitInv
<1>8. CurInv'
  <2>1. reg.cur # sw.b
    BY <1>0, <1>1, <1>3 DEF RegShape
  <2> QED BY <1>1, <2>1 DEF CurInv
<1> QED BY <1>5, <1>6, <1>7, <1>8 DEF QuietInv

\* The generation of the attachment was looked at after the commit.
LEMMA QuietReadsGate ==
    ASSUME BaseInv, TypeInv', QuietInv, ReadGateForTarget
    PROVE  QuietInv'
<1>0. /\ TypeInv /\ RegShape(reg)
      /\ GenInv /\ FitInv /\ CurInv /\ \A v \in Users : UserQuiet(v)
  BY DEF BaseInv, Shape, QuietInv
<1>1. /\ UNCHANGED <<reg, db, user, slip>> /\ sw.b \in Bindings /\ sw.pc = "fit"
      /\ sw.gen = db.gen /\ reg.att[sw.b].st # "none"
      /\ sw'.pc = "activate" /\ sw'.p = reg.att[sw.b].p /\ sw'.b = sw.b
  BY <1>0, DoesReadGate DEF ReadGateForTarget, AtSwitch, FitsFence
<1>2. sw'.p # NoProcess
  BY <1>0, <1>1 DEF RegShape
<1>3. OkGen(sw.b)'
  <2>1. OkGen(sw.b)
    BY <1>0, <1>1 DEF FitInv
  <2> QED BY <1>1, <2>1 DEF OkGen, Advancing
<1>4. "activate" \notin PreCommit
  BY SwitchPlaces DEF PostCommit
<1> QED BY <1>0, <1>1, <1>2, <1>3, <1>4 DEF QuietInv, GenInv, UserQuiet, FitInv, CurInv

LEMMA QuietActivatesTarget ==
    ASSUME BaseInv, TypeInv', QuietInv, ActivateTarget
    PROVE  QuietInv'
<1>0. /\ TypeInv /\ RegShape(reg) /\ TargetIsCurrent
      /\ GenInv /\ FitInv /\ CurInv /\ \A v \in Users : UserQuiet(v)
  BY DEF BaseInv, Shape, QuietInv
<1>1. /\ UNCHANGED <<db, user, slip>> /\ sw.b \in Bindings /\ sw.pc = "activate"
      /\ sw'.pc = "open" /\ sw.shut \in BOOLEAN
      /\ Activatable(reg, sw.b, sw.p) /\ reg' = Activated(reg, sw.b, sw.shut)
  BY <1>0, DoesActivateTarget, SwitchNames DEF ActivateTarget, AtSwitch, SwitchGoes, TypeInv
<1>2. /\ reg'.cur = sw.b /\ reg'.proc = reg.proc /\ reg'.last = reg.last
      /\ \A c \in Bindings : reg'.att[c].gen = reg.att[c].gen /\ reg'.att[c].p = reg.att[c].p
  BY <1>0, <1>1, ActivatedParts
<1>3. "open" \notin PreCommit
  BY SwitchPlaces DEF PostCommit
<1>4. GenInv' /\ \A v \in Users : UserQuiet(v)'
  BY <1>1, <1>3, ActivatedQuiet
<1>5. sw.b = db.cur /\ OkGen(sw.b)
  BY <1>0, <1>1 DEF TargetIsCurrent, PostCommit, FitInv, Activatable
<1>6. FitInv'
  BY <1>1 DEF FitInv
<1>7. reg.att[sw.b].gen >= db.gen /\ reg.last >= db.gen
  BY <1>0, <1>1, <1>5, QuietNumbers DEF OkGen, GenInv
<1>8. CurInv'
  BY <1>1, <1>2, <1>5, <1>7 DEF CurInv, OkGen, Advancing
<1> QED BY <1>4, <1>6, <1>8 DEF QuietInv

LEMMA QuietStrands ==
    ASSUME BaseInv, TypeInv', QuietInv, ActivationFails
    PROVE  QuietInv'
<1>0. TypeInv /\ GenInv /\ FitInv /\ CurInv /\ \A v \in Users : UserQuiet(v)
  BY DEF BaseInv, QuietInv
<1>1. UNCHANGED <<reg, db>> /\ sw'.pc = "idle" /\ slip'.stranded
  BY <1>0, DoesActivationFail DEF ActivationFails, Finishes
<1>2. ASSUME NEW v \in Users PROVE UserQuiet(v)'
  <2>1. CASE user'[v].pc \in {"idle", "gate"}
    BY <2>1, NotWeighing DEF Weighing
  <2>2. CASE user'[v] = user[v]
    BY <1>0, <1>1, <2>2 DEF UserQuiet
  <2> QED BY <1>0, <2>1, <2>2, DoesActivationFail, FinishedUsers
<1>3. "idle" \notin PreCommit
  BY SwitchPlaces
<1> QED BY <1>0, <1>1, <1>2, <1>3 DEF QuietInv, GenInv, FitInv, CurInv

\* No attachment changes its fence or its generation.
FlagsOnly ==
    \A c \in Bindings : reg'.att[c].p = reg.att[c].p /\ reg'.att[c].gen = reg.att[c].gen

LEMMA FlagsKeepFences ==
    ASSUME reg \in RegRec, NEW b \in Bindings, NEW f \in BOOLEAN, NEW h \in BOOLEAN,
           \/ reg' = reg
           \/ reg' = [reg EXCEPT !.att[b].prompt = f]
           \/ reg' = [reg EXCEPT !.att[b].turn = f]
           \/ reg' = [reg EXCEPT !.att[b].prompt = f, !.att[b].turn = h]
    PROVE  FlagsOnly
<1> SUFFICES ASSUME NEW c \in Bindings
             PROVE  reg'.att[c].p = reg.att[c].p /\ reg'.att[c].gen = reg.att[c].gen
  BY DEF FlagsOnly
<1>1. CASE reg' = reg
  BY <1>1
<1>2. CASE reg' = [reg EXCEPT !.att[b].prompt = f]
  BY <1>2 DEF RegRec, Attachments
<1>3. CASE reg' = [reg EXCEPT !.att[b].turn = f]
  BY <1>3 DEF RegRec, Attachments
<1>4. CASE reg' = [reg EXCEPT !.att[b].prompt = f, !.att[b].turn = h]
  BY <1>4 DEF RegRec, Attachments
<1> QED BY <1>1, <1>2, <1>3, <1>4

LEMMA SwitchMoves ==
    ASSUME sw.pc \in PreCommit, sw'.pc \in PreCommit, sw'.pc # "commit",
           sw'.gen <= db.gen + 1
    PROVE  SwitchStays
<1>1. {"fit", "activate", "open"} \cap PreCommit = {}
  BY SwitchPlaces DEF PostCommit
<1> QED BY <1>1 DEF SwitchStays

\* A step of a switch before its commit.
LEMMA QuietMoves ==
    ASSUME BaseInv, TypeInv', RegShape(reg'), QuietInv, user' = user, Calm,
           FencesKept(reg, reg'), SameRow, slip'.stranded = slip.stranded,
           sw.pc \in PreCommit, sw'.pc \in PreCommit, sw'.pc # "commit", sw'.gen = sw.gen
    PROVE  QuietInv'
<1>1. SwitchStays
  BY SwitchMoves DEF QuietInv, GenInv
<1> QED BY <1>1, AdvancersKeep, QuietElsewhere DEF BaseInv

LEMMA QuietSets ==
    ASSUME BaseInv, TypeInv', RegShape(reg'), QuietInv, user' = user, db' = db,
           NEW pc, SetsGate(TRUE), FencesKept(reg, reg'), SwitchGoes(pc),
           sw.pc \in PreCommit, pc \in PreCommit, pc # "commit"
    PROVE  QuietInv'
<1>1. Calm /\ SameRow /\ slip'.stranded = slip.stranded /\ sw'.pc = pc /\ sw'.gen = sw.gen
  BY FadesCalm DEF SetsGate, SameRow, SwitchGoes, SwitchCarries
<1> QED BY <1>1, QuietMoves

\* The switch is over and prompts are open.
LEMMA QuietEnds ==
    ASSUME BaseInv, TypeInv', RegShape(reg'), QuietInv, db' = db, Finishes, SetsGate(FALSE),
           FencesKept(reg, reg'), sw.pc \in {"open", "reopen"}
    PROVE  QuietInv'
<1>0. TypeInv /\ Serial
  BY DEF BaseInv
<1>1. Calm /\ SameRow /\ slip'.stranded = slip.stranded /\ sw'.pc = "idle"
  BY FadesCalm DEF SetsGate, SameRow, Finishes
<1>2. SwitchStays
  BY <1>1, SwitchPlaces DEF SwitchStays, SetsGate, Up
<1>3. ASSUME NEW v \in Users PROVE user'[v] = user[v] \/ UserQuiet(v)'
  <2>1. CASE user'[v].pc \in {"idle", "gate"}
    BY <2>1, NotWeighing DEF Weighing
  <2> QED BY <2>1, FinishedUsers
<1>4. ASSUME NEW v \in Users, user[v].pc = "advance" PROVE user'[v] = user[v]
  BY <1>0, <1>4 DEF Serial, Finishes, Users, NoOne
<1>5. AdvanceStays
  BY <1>0, <1>4, AdvancersKeep DEF AdvanceStays
<1> QED BY <1>1, <1>2, <1>3, <1>5, QuietFrame

LEMMA QuietStep ==
    ASSUME BaseInv, QuietInv, Next
    PROVE  QuietInv'
<1>0. /\ TypeInv /\ RegShape(reg) /\ TargetIsNew /\ Rebuilding /\ Serial /\ reg \in RegRec
      /\ GenInv /\ FitInv /\ \A v \in Users : UserQuiet(v)
  BY DEF BaseInv, Shape, TypeInv, StoreOK, QuietInv
<1>b. TypeInv' /\ RegShape(reg')
  BY ShapeStep DEF Shape
<1>s. ASSUME reg' = reg PROVE Calm /\ FencesKept(reg, reg')
  BY <1>0, <1>s, FadesStays, FadesCalm, OperatorsKeepFences
<1>d. ASSUME db' = db PROVE SameRow
  BY <1>d DEF SameRow
<1>u. ASSUME sw' = sw PROVE SwitchStays
  BY <1>u, SwitchSits
<1>i. ASSUME NEW u \in Users, user'[u].pc \notin Weighing PROVE UserQuiet(u)'
  BY <1>i, NotWeighing

<1>1. ASSUME NEW u \in Users, RequestRuntime(u) PROVE QuietInv'
  <2>1. /\ UNCHANGED <<reg, db, sw, slip>> /\ user[u].pc = "idle" /\ Others(u)
    BY <1>0, <1>1, DoesRequest DEF RequestRuntime, AtUser
  <2>2. UserQuiet(u)'
    BY <1>0, <1>i, <1>1, DoesRequest DEF Weighing, Leaves
  <2> QED BY <1>b, <1>s, <1>d, <1>u, <2>1, <2>2, QuietUser
<1>2. ASSUME NEW u \in Users, EnterGate(u) PROVE QuietInv'
  <2>1. /\ UNCHANGED <<reg, db, sw, slip>> /\ user[u].pc = "gate" /\ Others(u)
    BY <1>0, <1>2, DoesEnterGate DEF EnterGate, AtUser
  <2>2. UserQuiet(u)'
    BY <1>0, <1>i, <1>2, DoesEnterGate DEF Weighing, Leaves
  <2> QED BY <1>b, <1>s, <1>d, <1>u, <2>1, <2>2, QuietUser
<1>3. ASSUME NEW u \in Users, Look(u) PROVE QuietInv'
  <2>1. /\ UNCHANGED <<reg, db, sw, slip>> /\ user[u].pc = "lock" /\ Others(u)
    BY <1>0, <1>3, DoesLook DEF Look, AtUser
  <2>2. UserQuiet(u)'
    BY <1>0, <1>i, <1>3, DoesLook DEF Weighing, Leaves
  <2> QED BY <1>b, <1>s, <1>d, <1>u, <2>1, <2>2, QuietUser
<1>4. ASSUME NEW u \in Users, ReadDurable(u) PROVE QuietInv'
  <2>1. UNCHANGED <<reg, db, sw, slip>> /\ user[u].pc = "read" /\ Others(u)
    BY <1>0, <1>4, DoesReadDurable DEF ReadDurable, AtUser
  <2>2. UserQuiet(u)'
    BY <1>0, <1>4, <2>1, DoesReadDurable, QuietNumbers DEF UserQuiet
  <2> QED BY <1>b, <1>s, <1>d, <1>u, <2>1, <2>2, QuietUser
<1>5. ASSUME NEW u \in Users, TakeExisting(u) PROVE QuietInv'
  <2>1. /\ UNCHANGED <<db, sw, slip>> /\ user[u].pc = "existing" /\ user[u].pc \in Locked
        /\ Others(u) /\ Calm /\ user[u].b \in Bindings
    BY <1>0, <1>5, DoesTakeExisting, UserPlaces, FadesCalm DEF TakeExisting, AtUser
  <2>2. UserQuiet(u)'
    <3>1. CASE /\ user'[u].pc = "promptGate" /\ reg' = reg /\ user'[u].b = user[u].b
               /\ user'[u].p = reg.att[user[u].b].p /\ IsLive(reg.att[user[u].b])
               /\ reg.att[user[u].b].gen = user[u].gen
      <4>1. user[u].gen <= db.gen /\ (user[u].gen = db.gen <=> user[u].b = db.cur)
        BY <1>0, <2>1 DEF UserQuiet
      <4>2. reg.att[user[u].b].p # NoProcess
        BY <1>0, <2>1, <3>1 DEF RegShape, IsLive
      <4>3. user[u].gen \in Nat /\ db.gen \in Nat
        BY <1>0, QuietNumbers
      <4> QED BY <2>1, <3>1, <4>1, <4>2, <4>3 DEF UserQuiet
    <3>2. CASE user'[u].pc = "revision" /\ user'[u].b = user[u].b /\ user'[u].gen = user[u].gen
      BY <1>0, <2>1, <3>2 DEF UserQuiet
    <3> QED BY <1>0, <1>5, <3>1, <3>2, DoesTakeExisting
  <2> QED BY <1>b, <1>d, <1>u, <2>1, <2>2, QuietUser
<1>6. ASSUME NEW u \in Users, CheckRevision(u) PROVE QuietInv'
  <2>1. /\ UNCHANGED <<reg, db, sw, slip>> /\ user[u].pc = "revision" /\ Others(u)
    BY <1>0, <1>6, DoesCheckRevision DEF CheckRevision, AtUser
  <2>2. UserQuiet(u)'
    <3>1. CASE user'[u].pc = "spawn" /\ Carries(u)
      BY <1>0, <2>1, <3>1 DEF UserQuiet, Carries
    <3>2. CASE user'[u].pc \in {"idle", "refresh"}
      BY <1>i, <3>2 DEF Weighing
    <3> QED BY <1>0, <1>6, <3>1, <3>2, DoesCheckRevision
  <2> QED BY <1>b, <1>s, <1>d, <1>u, <2>1, <2>2, QuietUser
<1>7. ASSUME NEW u \in Users, Spawn(u) PROVE QuietInv'
  <2>1. /\ UNCHANGED <<db, sw, slip>> /\ user[u].pc = "spawn" /\ Others(u)
    BY <1>0, <1>7, DoesSpawn DEF Spawn, AtUser
  <2>2. CASE /\ user'[u].pc = "open" /\ user'[u].b = user[u].b /\ user'[u].gen = user[u].gen
             /\ user'[u].p \in Processes /\ Unused(user'[u].p) /\ reg' = Spawned(reg, user'[u].p)
    <3>1. Calm /\ FencesKept(reg, reg')
      BY <1>0, <2>2, SpawnedCalm
    <3>2. UserQuiet(u)'
      BY <1>0, <2>1, <2>2 DEF UserQuiet
    <3> QED BY <1>b, <1>d, <1>u, <2>1, <3>1, <3>2, QuietUser
  <2>3. CASE reg' = reg /\ user'[u].pc = "idle"
    <3>1. UserQuiet(u)'
      BY <1>i, <2>3 DEF Weighing
    <3> QED BY <1>b, <1>s, <1>d, <1>u, <2>1, <2>3, <3>1, QuietUser
  <2> QED BY <1>0, <1>7, <2>2, <2>3, DoesSpawn DEF Leaves
<1>8. ASSUME NEW u \in Users, OpenSession(u) PROVE QuietInv'
  <2>1. /\ UNCHANGED <<db, sw, slip>> /\ user[u].pc = "open" /\ user[u].pc \in Locked
        /\ Others(u) /\ user[u].b \in Bindings
    BY <1>0, <1>8, DoesOpenSession, UserPlaces DEF OpenSession, AtUser
  <2>2. CASE \/ /\ reg' = Registered(reg, user[u].b, user[u].gen + 1, user[u].p)
                /\ user'[u].pc = "advance" /\ Carries(u)
             \/ /\ reg' = Released(Registered(reg, user[u].b, user[u].gen + 1, user[u].p),
                                   user[u].p)
                /\ user'[u].pc = "idle"
    BY <1>b, <2>1, <2>2, QuietOpens
  <2>3. CASE reg' = Released(reg, user[u].p) /\ user'[u].pc = "idle"
    <3>1. Calm
      BY <1>0, <2>3, QuietNumbers, FadesReleased, FadesCalm
    <3>2. UserQuiet(u)'
      BY <1>i, <2>3 DEF Weighing
    <3> QED BY <1>b, <1>d, <1>u, <2>1, <3>1, <3>2, QuietUser
  <2> QED BY <1>0, <1>8, <2>2, <2>3, DoesOpenSession DEF Leaves
<1>9. ASSUME NEW u \in Users, AdvanceGeneration(u) PROVE QuietInv'
  BY <1>b, <1>9, QuietAdvances
<1>10. ASSUME NEW u \in Users, ReadPromptGate(u) PROVE QuietInv'
  <2>1. UNCHANGED <<reg, db, sw, slip>> /\ user[u].pc = "promptGate" /\ Others(u)
    BY <1>0, <1>10, DoesReadPromptGate DEF ReadPromptGate, AtUser
  <2>2. UserQuiet(u)'
    BY <1>0, <1>10, <2>1, DoesReadPromptGate DEF UserQuiet
  <2> QED BY <1>b, <1>s, <1>d, <1>u, <2>1, <2>2, QuietUser
<1>11. ASSUME NEW u \in Users, Activate(u) PROVE QuietInv'
  <2>1. /\ UNCHANGED <<db, sw, slip>> /\ user[u].pc = "activate" /\ user[u].pc \in Locked
        /\ Others(u) /\ user'[u].pc \notin Weighing
    BY <1>0, <1>11, DoesActivate, UserPlaces DEF Activate, AtUser, Leaves, Weighing
  <2>2. CASE /\ Activatable(reg, user[u].b, user[u].p)
             /\ reg' = Activated(reg, user[u].b, user[u].shut)
    BY <1>b, <2>1, <2>2, QuietActivates
  <2>3. CASE Fades(reg, reg')
    <3>1. Calm
      BY <2>3, FadesCalm
    <3> QED BY <1>b, <1>d, <1>u, <1>i, <2>1, <3>1, QuietUser
  <2> QED BY <1>0, <1>11, <2>2, <2>3, DoesActivate
<1>12. ASSUME NEW u \in Users, Touch(u) PROVE QuietInv'
  <2>1. /\ UNCHANGED <<reg, db, sw, slip>> /\ user[u].pc = "touch" /\ Others(u)
    BY <1>0, <1>12, DoesTouch DEF Touch, AtUser
  <2>2. UserQuiet(u)'
    BY <1>0, <1>i, <1>12, DoesTouch DEF Weighing, Leaves
  <2> QED BY <1>b, <1>s, <1>d, <1>u, <2>1, <2>2, QuietUser
<1>13. ASSUME NEW u \in Users, TakeLease(u) PROVE QuietInv'
  <2>1. /\ UNCHANGED <<reg, db, sw, slip>> /\ user[u].pc = "lease" /\ Others(u)
    BY <1>0, <1>13, DoesTakeLease DEF TakeLease, AtUser
  <2>2. UserQuiet(u)'
    BY <1>0, <1>i, <1>13, DoesTakeLease DEF Weighing, Leaves
  <2> QED BY <1>b, <1>s, <1>d, <1>u, <2>1, <2>2, QuietUser
<1>14. ASSUME NEW u \in Users, Refresh(u) PROVE QuietInv'
  <2>1. /\ UNCHANGED <<reg, slip>> /\ user[u].pc = "refresh" /\ Others(u)
        /\ user'[u].pc \notin Weighing
    BY <1>0, <1>14, DoesRefresh DEF Refresh, AtUser, Weighing
  <2>2. SameRow /\ SwitchStays
    <3>1. CASE db' = db /\ sw' = sw
      BY <1>d, <1>u, <3>1
    <3>2. CASE Starts(u)
      BY <1>0, <3>2, QuietNumbers DEF Starts, SameRow, SwitchStays
    <3> QED BY <1>0, <1>14, <3>1, <3>2, DoesRefresh
  <2> QED BY <1>b, <1>s, <1>i, <2>1, <2>2, QuietUser
<1>15. CASE DetachClient
  <2>1. UNCHANGED <<reg, db, user, sw, slip>>
    BY <1>15 DEF DetachClient
  <2> QED BY <1>b, <1>s, <1>d, <1>u, <2>1, AdvancersKeep, QuietElsewhere DEF BaseInv
<1>16. CASE UserSwitches
  <2>1. UNCHANGED <<reg, user, slip>> /\ Starts(NoOne)
    BY <1>0, <1>16, DoesUserSwitch DEF UserSwitches
  <2>2. SameRow /\ SwitchStays
    BY <1>0, <2>1, QuietNumbers DEF Starts, SameRow, SwitchStays
  <2> QED BY <1>b, <1>s, <2>1, <2>2, AdvancersKeep, QuietElsewhere DEF BaseInv
<1>17. CASE WaitIdle("probe", "close")
  <2>1. "probe" \in PreCommit /\ "close" \in PreCommit
    BY SwitchPlacesNamed
  <2>2. UNCHANGED <<db, user>> /\ sw.pc = "probe"
    BY <1>17 DEF WaitIdle, AtSwitch
  <2>3. CASE SetPromptGate(TRUE) /\ SetsGate(TRUE) /\ SwitchGoes("probe")
    BY <1>0, <1>b, <2>1, <2>2, <2>3, GateKeepsFences, QuietSets
  <2>5. CASE Busy
    <3>1. SetPromptGate(TRUE) /\ sw' = sw
      BY <1>17, <2>5 DEF WaitIdle
    <3>2. SetsGate(TRUE) /\ SwitchGoes("probe")
      BY <1>0, <1>17, <2>1, <2>5, <3>1, DoesSetGate, DoesWaitIdle DEF SwitchGoes, SwitchCarries
    <3> QED BY <2>3, <3>1, <3>2
  <2>6. CASE ~Busy
    <3>1. UNCHANGED <<reg, slip>> /\ GotoSwitch("close")
      BY <1>17, <2>6 DEF WaitIdle
    <3>2. sw'.pc = "close" /\ sw'.gen = sw.gen
      BY <1>0, <2>1, <2>2, <3>1, GotoSwitchStep, SwitchPlaces DEF TypeInv, SwitchCarries
    <3> QED BY <1>b, <1>s, <1>d, <2>1, <2>2, <3>1, <3>2, QuietMoves
  <2> QED BY <2>5, <2>6
<1>18. CASE ClosePrompts("close", "reprobe")
  <2>1. "close" \in PreCommit /\ "reprobe" \in PreCommit
    BY SwitchPlacesNamed
  <2>2. UNCHANGED <<db, user>> /\ sw.pc = "close" /\ SetPromptGate(TRUE)
    BY <1>18 DEF ClosePrompts, AtSwitch
  <2>3. SetsGate(TRUE) /\ SwitchGoes("reprobe")
    BY <1>0, <1>18, <2>1, DoesClosePrompts
  <2> QED BY <1>0, <1>b, <2>1, <2>2, <2>3, GateKeepsFences, QuietSets
<1>19. CASE Reprobe
  <2>1. UNCHANGED <<reg, db, user, slip>> /\ sw.pc = "reprobe"
    BY <1>19 DEF Reprobe, AtSwitch
  <2>2. sw'.pc \in {"fail", "closeToPrepare"} /\ sw'.gen = sw.gen
    BY <1>0, <1>19, DoesReprobe DEF SwitchGoes, SwitchCarries
  <2> QED BY <1>b, <1>s, <1>d, <2>1, <2>2, SwitchPlacesNamed, QuietMoves
<1>20. CASE ClosePrompts("closeToPrepare", "prepareIdle")
  <2>1. "closeToPrepare" \in PreCommit /\ "prepareIdle" \in PreCommit
    BY SwitchPlacesNamed
  <2>2. UNCHANGED <<db, user>> /\ sw.pc = "closeToPrepare" /\ SetPromptGate(TRUE)
    BY <1>20 DEF ClosePrompts, AtSwitch
  <2>3. SetsGate(TRUE) /\ SwitchGoes("prepareIdle")
    BY <1>0, <1>20, <2>1, DoesClosePrompts
  <2> QED BY <1>0, <1>b, <2>1, <2>2, <2>3, GateKeepsFences, QuietSets
<1>21. CASE WaitIdle("prepareIdle", "spawn")
  <2>1. "prepareIdle" \in PreCommit /\ "spawn" \in PreCommit
    BY SwitchPlacesNamed
  <2>2. UNCHANGED <<db, user>> /\ sw.pc = "prepareIdle"
    BY <1>21 DEF WaitIdle, AtSwitch
  <2>3. CASE SetPromptGate(TRUE) /\ SetsGate(TRUE) /\ SwitchGoes("prepareIdle")
    BY <1>0, <1>b, <2>1, <2>2, <2>3, GateKeepsFences, QuietSets
  <2>5. CASE Busy
    <3>1. SetPromptGate(TRUE) /\ sw' = sw
      BY <1>21, <2>5 DEF WaitIdle
    <3>2. SetsGate(TRUE) /\ SwitchGoes("prepareIdle")
      BY <1>0, <1>21, <2>1, <2>5, <3>1, DoesSetGate, DoesWaitIdle DEF SwitchGoes, SwitchCarries
    <3> QED BY <2>3, <3>1, <3>2
  <2>6. CASE ~Busy
    <3>1. UNCHANGED <<reg, slip>> /\ GotoSwitch("spawn")
      BY <1>21, <2>6 DEF WaitIdle
    <3>2. sw'.pc = "spawn" /\ sw'.gen = sw.gen
      BY <1>0, <2>1, <2>2, <3>1, GotoSwitchStep, SwitchPlaces DEF TypeInv, SwitchCarries
    <3> QED BY <1>b, <1>s, <1>d, <2>1, <2>2, <3>1, <3>2, QuietMoves
  <2> QED BY <2>5, <2>6
<1>22. CASE SpawnTarget
  <2>1. UNCHANGED <<db, user, slip>> /\ sw.pc = "spawn"
    BY <1>22 DEF SpawnTarget, AtSwitch
  <2>2. sw'.pc \in {"protectProcess", "fail"} /\ sw'.gen = sw.gen
    BY <1>0, <1>22, DoesSpawnTarget
  <2>3. Calm /\ FencesKept(reg, reg')
    BY <1>0, <1>s, <1>22, DoesSpawnTarget, SpawnedCalm
  <2> QED BY <1>b, <1>d, <2>1, <2>2, <2>3, SwitchPlacesNamed, QuietMoves
<1>23. CASE Protect("protectProcess", "placeProcess")
  <2>1. UNCHANGED <<reg, db, user, slip>> /\ sw.pc = "protectProcess"
    BY <1>23 DEF Protect, AtSwitch
  <2>2. sw'.pc \in {"placeProcess", "fail"} /\ sw'.gen = sw.gen
    BY <1>0, <1>23, SwitchPlacesNamed, DoesProtect DEF SwitchCarries
  <2> QED BY <1>b, <1>s, <1>d, <2>1, <2>2, SwitchPlacesNamed, QuietMoves
<1>24. CASE PlaceLease("placeProcess", "switchProcess", "generation")
  <2>1. UNCHANGED <<reg, db, user, slip>> /\ sw.pc = "placeProcess"
    BY <1>24 DEF PlaceLease, AtSwitch
  <2>2. sw'.pc \in {"generation", "fail"} /\ sw'.gen = sw.gen
    BY <1>0, <1>24, SwitchPlacesNamed, DoesPlaceLease DEF SwitchCarries
  <2> QED BY <1>b, <1>s, <1>d, <2>1, <2>2, SwitchPlacesNamed, QuietMoves
<1>25. CASE ReadGeneration
  <2>1. UNCHANGED <<reg, db, user, slip>> /\ sw.pc = "generation"
    BY <1>25 DEF ReadGeneration, AtSwitch
  <2>2. sw'.pc = "create" /\ sw'.gen = db.gen + 1 /\ sw'.gen <= db.gen + 1
    BY <1>0, <1>25, DoesReadGeneration, QuietNumbers
  <2>3. SwitchStays
    BY <2>1, <2>2, SwitchPlacesNamed, SwitchMoves
  <2> QED BY <1>b, <1>s, <1>d, <2>1, <2>3, AdvancersKeep, QuietElsewhere DEF BaseInv
<1>26. CASE CreateSession
  <2>1. UNCHANGED <<db, user, slip>> /\ sw.pc = "create" /\ SwitchCarries
    BY <1>0, <1>26, DoesCreateSession DEF CreateSession, AtSwitch
  <2>2. CASE sw'.pc = "protectTarget" /\ reg' = Registered(reg, sw.b, sw.gen, sw.p)
    BY <1>b, <1>26, <2>1, <2>2, QuietCreates
  <2>3. CASE sw'.pc = "fail" /\ reg' = Released(reg, sw.p)
    <3>1. sw.p \in SomeProcess
      BY <1>0, <2>1, SwitchNames DEF TypeInv
    <3>2. Calm /\ reg'.att = reg.att
      BY <1>0, <2>3, <3>1, FadesReleased, FadesCalm, RegReleased
    <3>3. FencesKept(reg, reg')
      BY <3>2 DEF FencesKept
    <3> QED BY <1>b, <1>d, <2>1, <2>3, <3>2, <3>3, SwitchPlacesNamed, QuietMoves DEF SwitchCarries
  <2> QED BY <1>0, <1>26, <2>2, <2>3, DoesCreateSession
<1>27. CASE Protect("protectTarget", "placeTarget")
  <2>1. UNCHANGED <<reg, db, user, slip>> /\ sw.pc = "protectTarget"
    BY <1>27 DEF Protect, AtSwitch
  <2>2. sw'.pc \in {"placeTarget", "fail"} /\ sw'.gen = sw.gen
    BY <1>0, <1>27, SwitchPlacesNamed, DoesProtect DEF SwitchCarries
  <2> QED BY <1>b, <1>s, <1>d, <2>1, <2>2, SwitchPlacesNamed, QuietMoves
<1>28. CASE PlaceLease("placeTarget", "switchTarget", "insert")
  <2>1. UNCHANGED <<reg, db, user, slip>> /\ sw.pc = "placeTarget"
    BY <1>28 DEF PlaceLease, AtSwitch
  <2>2. sw'.pc \in {"insert", "fail"} /\ sw'.gen = sw.gen
    BY <1>0, <1>28, SwitchPlacesNamed, DoesPlaceLease DEF SwitchCarries
  <2> QED BY <1>b, <1>s, <1>d, <2>1, <2>2, SwitchPlacesNamed, QuietMoves
<1>29. CASE InsertBinding
  BY <1>b, <1>29, QuietInserts
<1>30. CASE ClosePrompts("closeToCommit", "commitIdle")
  <2>1. "closeToCommit" \in PreCommit /\ "commitIdle" \in PreCommit
    BY SwitchPlacesNamed
  <2>2. UNCHANGED <<db, user>> /\ sw.pc = "closeToCommit" /\ SetPromptGate(TRUE)
    BY <1>30 DEF ClosePrompts, AtSwitch
  <2>3. SetsGate(TRUE) /\ SwitchGoes("commitIdle")
    BY <1>0, <1>30, <2>1, DoesClosePrompts
  <2> QED BY <1>0, <1>b, <2>1, <2>2, <2>3, GateKeepsFences, QuietSets
<1>31. CASE WaitIdle("commitIdle", "revalidate")
  <2>1. "commitIdle" \in PreCommit /\ "revalidate" \in PreCommit
    BY SwitchPlacesNamed
  <2>2. UNCHANGED <<db, user>> /\ sw.pc = "commitIdle"
    BY <1>31 DEF WaitIdle, AtSwitch
  <2>3. CASE SetPromptGate(TRUE) /\ SetsGate(TRUE) /\ SwitchGoes("commitIdle")
    BY <1>0, <1>b, <2>1, <2>2, <2>3, GateKeepsFences, QuietSets
  <2>5. CASE Busy
    <3>1. SetPromptGate(TRUE) /\ sw' = sw
      BY <1>31, <2>5 DEF WaitIdle
    <3>2. SetsGate(TRUE) /\ SwitchGoes("commitIdle")
      BY <1>0, <1>31, <2>1, <2>5, <3>1, DoesSetGate, DoesWaitIdle DEF SwitchGoes, SwitchCarries
    <3> QED BY <2>3, <3>1, <3>2
  <2>6. CASE ~Busy
    <3>1. UNCHANGED <<reg, slip>> /\ GotoSwitch("revalidate")
      BY <1>31, <2>6 DEF WaitIdle
    <3>2. sw'.pc = "revalidate" /\ sw'.gen = sw.gen
      BY <1>0, <2>1, <2>2, <3>1, GotoSwitchStep, SwitchPlaces DEF TypeInv, SwitchCarries
    <3> QED BY <1>b, <1>s, <1>d, <2>1, <2>2, <3>1, <3>2, QuietMoves
  <2> QED BY <2>5, <2>6
<1>32. CASE Revalidate
  <2>1. UNCHANGED <<reg, db, user, slip>> /\ sw.pc = "revalidate" /\ SwitchCarries
    BY <1>0, <1>32, DoesRevalidate DEF Revalidate, AtSwitch
  <2>2. /\ sw'.pc \in {"commit", "fail"} /\ sw.b \in Bindings /\ sw.pc \in PreCommit
        /\ sw'.pc = "commit" => reg.att[sw.b].gen = db.row[sw.b]
    BY <1>0, <1>32, <2>1, DoesRevalidate, SwitchNames, SwitchPlacesNamed DEF TypeInv
  <2>3. SwitchStays
    BY <1>0, <2>1, <2>2 DEF SwitchStays, SwitchCarries, GenInv
  <2> QED BY <1>b, <1>s, <1>d, <2>1, <2>3, AdvancersKeep, QuietElsewhere DEF BaseInv
<1>33. CASE Commit
  BY <1>b, <1>33, QuietCommits
<1>34. CASE ActivationFails
  BY <1>b, <1>34, QuietStrands
<1>35. CASE ReadGateForTarget
  BY <1>b, <1>35, QuietReadsGate
<1>36. CASE ActivateTarget
  BY <1>b, <1>36, QuietActivatesTarget
<1>37. CASE OpenPrompts
  <2>1. sw.pc = "open" /\ SetPromptGate(FALSE)
    BY <1>37 DEF OpenPrompts, AtSwitch
  <2>2. db' = db /\ Finishes /\ SetsGate(FALSE)
    BY <1>0, <1>37, DoesReopen DEF Reopens
  <2> QED BY <1>0, <1>b, <2>1, <2>2, GateKeepsFences, QuietEnds
<1>38. CASE FailSwitch
  <2>1. UNCHANGED <<reg, user, slip>> /\ sw.pc = "fail"
    BY <1>38 DEF FailSwitch, AtSwitch
  <2>2. sw'.pc = "cleanup" /\ sw'.gen = sw.gen /\ SameRow
    BY <1>0, <1>38, DoesFailSwitch DEF SwitchCarries, SameRow
  <2> QED BY <1>b, <1>s, <2>1, <2>2, SwitchPlacesNamed, QuietMoves
<1>39. CASE CleanupTarget
  <2>1. UNCHANGED <<db, user, slip>> /\ sw.pc = "cleanup" /\ sw.pc \in PreCommit
    BY <1>39, SwitchPlacesNamed DEF CleanupTarget, AtSwitch
  <2>2. sw'.pc = "reopen" /\ sw'.pc \in PreCommit /\ SwitchCarries /\ Calm /\ sw.b \in Bindings
    BY <1>0, <1>39, DoesCleanup, SwitchPlacesNamed, FadesCalm
  <2>3. SwitchStays
    BY <1>0, <2>1, <2>2, SwitchMoves DEF GenInv, SwitchCarries
  <2>4. ASSUME NEW c \in Bindings, c # sw.b PROVE reg'.att[c].p = reg.att[c].p
    <3>1. CASE reg' = Detached(reg, sw.b)
      <4>1. Detached(reg, sw.b).att[c] = reg.att[c]
        BY <1>0, <2>2, <2>4, FadesDetached
      <4> QED BY <3>1, <4>1
    <3>2. CASE reg' = Released(reg, sw.p)
      <4>1. sw.p \in SomeProcess
        BY <1>0, <2>1, SwitchNames DEF TypeInv
      <4> QED BY <1>0, <3>2, <4>1, RegReleased
    <3> QED BY <1>0, <1>39, <3>1, <3>2, DoesCleanup
  <2>5. \A v \in Users : user[v].pc = "advance" => user[v].b \in Bindings /\ user[v].b # sw.b
    BY <1>0, <2>1, UserPlaces, UserNames DEF TypeInv, TargetIsNew
  <2> QED BY <1>b, <1>d, <2>1, <2>2, <2>3, <2>4, <2>5, QuietElsewhere
<1>40. CASE ReopenPrompts
  <2>1. sw.pc = "reopen" /\ SetPromptGate(FALSE)
    BY <1>40 DEF ReopenPrompts, AtSwitch
  <2>2. db' = db /\ Finishes /\ SetsGate(FALSE)
    BY <1>0, <1>40, DoesReopen DEF Reopens
  <2> QED BY <1>0, <1>b, <2>1, <2>2, GateKeepsFences, QuietEnds
<1>41. CASE AdmitTurn
  <2>1. UNCHANGED <<reg, sw, slip>> /\ user["dispatch"].pc = "admit" /\ "dispatch" \in Users
    BY <1>41, SwitchPlacesNamed DEF AdmitTurn, AtUser
  <2>2. SameRow /\ Others("dispatch") /\ user'["dispatch"].pc \notin Weighing
    BY <1>0, <1>d, <1>41, DoesAdmitTurn DEF Stops, SameRow, Weighing
  <2> QED BY <1>b, <1>s, <1>u, <1>i, <2>1, <2>2, QuietUser
<1>42. CASE SendTurn
  <2>1. UNCHANGED <<sw, slip>> /\ user["dispatch"].pc = "send" /\ "dispatch" \in Users
    BY <1>42, SwitchPlacesNamed DEF SendTurn, AtUser
  <2>2. SameRow /\ Others("dispatch") /\ user'["dispatch"].pc \notin Weighing
    BY <1>0, <1>d, <1>42, DoesSendTurn DEF Stops, SameRow, Weighing
  <2>3. Calm /\ FencesKept(reg, reg')
    BY <1>0, <1>42, DoesSendTurn, FadesCalm, OperatorsKeepFences DEF SendTurn
  <2> QED BY <1>b, <1>u, <1>i, <2>1, <2>2, <2>3, QuietUser
<1>43. CASE AcquirePrompt
  <2>1. UNCHANGED <<sw, slip>> /\ user["dispatch"].pc = "prompt" /\ "dispatch" \in Users
    BY <1>43, SwitchPlacesNamed DEF AcquirePrompt, AtUser
  <2>2. SameRow /\ Others("dispatch") /\ user'["dispatch"].pc \notin Weighing
    BY <1>0, <1>d, <1>43, DoesAcquirePrompt DEF Stops, SameRow, Weighing
  <2>3. user["dispatch"].b \in Bindings
    BY <1>0, <2>1, UserPlaces, UserNames DEF TypeInv
  <2>4. FencesKept(reg, reg')
    BY <1>0, <1>43, <2>3, FlagsKeepFences DEF AcquirePrompt, FencesKept, FlagsOnly
  <2>5. Calm
    BY <1>0, <1>43, DoesAcquirePrompt, FadesCalm
  <2> QED BY <1>b, <1>u, <1>i, <2>1, <2>2, <2>3, <2>4, <2>5, QuietUser
<1>44. CASE BeginTurn
  <2>1. UNCHANGED <<sw, slip>> /\ user["dispatch"].pc = "begin" /\ "dispatch" \in Users
    BY <1>44, SwitchPlacesNamed DEF BeginTurn, AtUser
  <2>2. SameRow /\ Others("dispatch") /\ user'["dispatch"].pc \notin Weighing
    BY <1>0, <1>d, <1>44, DoesBeginTurn DEF Stops, SameRow, Weighing
  <2>3. user["dispatch"].b \in Bindings
    BY <1>0, <1>44, DoesBeginTurn
  <2>4. /\ \A c \in Bindings : reg'.att[c].p = reg.att[c].p /\ reg'.att[c].gen = reg.att[c].gen
        /\ reg'.cur = reg.cur /\ reg'.last = reg.last /\ reg'.proc = reg.proc
    <3>1. CASE Fades(reg, reg') /\ reg'.cur = reg.cur /\ reg'.proc = reg.proc
      <4>1. reg'.last = reg.last
        BY <3>1 DEF Fades
      <4>2. FlagsOnly
        BY <1>0, <1>44, <2>3, FlagsKeepFences DEF BeginTurn
      <4> QED BY <3>1, <4>1, <4>2 DEF FlagsOnly
    <3> QED BY <1>0, <1>44, <3>1, DoesBeginTurn
  <2>5. Calm /\ FencesKept(reg, reg')
    BY <2>4 DEF Calm, Kin, Revives, FencesKept
  <2> QED BY <1>b, <1>u, <1>i, <2>1, <2>2, <2>3, <2>4, <2>5, QuietUser
<1>45. CASE EndTurn
  <2>1. UNCHANGED <<sw, slip>> /\ user["dispatch"].pc = "turn" /\ "dispatch" \in Users
    BY <1>45, SwitchPlacesNamed DEF EndTurn, AtUser
  <2>2. SameRow /\ Others("dispatch") /\ user'["dispatch"].pc \notin Weighing
    BY <1>0, <1>d, <1>45, DoesEndTurn DEF Stops, SameRow, Weighing
  <2>3. user["dispatch"].b \in Bindings
    BY <1>0, <2>1, UserPlaces, UserNames DEF TypeInv
  <2>4. FencesKept(reg, reg')
    BY <1>0, <1>45, <2>3, FlagsKeepFences DEF EndTurn, FencesKept, FlagsOnly
  <2>5. Calm
    BY <1>0, <1>45, DoesEndTurn, FadesCalm
  <2> QED BY <1>b, <1>u, <1>i, <2>1, <2>2, <2>3, <2>4, <2>5, QuietUser
<1>46. CASE Tick
  <2>1. UNCHANGED <<reg, db, user, sw, slip>>
    BY <1>46 DEF Tick
  <2> QED BY <1>b, <1>s, <1>d, <1>u, <2>1, AdvancersKeep, QuietElsewhere DEF BaseInv
<1>47. CASE StartSweep
  <2>1. UNCHANGED <<reg, db, user, sw, slip>>
    BY <1>47 DEF StartSweep
  <2> QED BY <1>b, <1>s, <1>d, <1>u, <2>1, AdvancersKeep, QuietElsewhere DEF BaseInv
<1>48. CASE DetachSwept
  <2>1. UNCHANGED <<db, user, sw, slip>> /\ Calm /\ sweep.pc = "detach"
    BY <1>0, <1>48, DoesDetachSwept, FadesCalm DEF DetachSwept
  <2>2. \A v \in Users : user[v].pc # "advance"
    BY <1>0, <2>1, UserPlaces DEF Serial
  <2> QED BY <1>b, <1>d, <1>u, <2>1, <2>2, QuietElsewhere
<1>49. CASE EndSweep
  <2>1. UNCHANGED <<reg, db, user, sw, slip>>
    BY <1>49 DEF EndSweep
  <2> QED BY <1>b, <1>s, <1>d, <1>u, <2>1, AdvancersKeep, QuietElsewhere DEF BaseInv
<1>50. CASE ShutdownAuthSource
  <2>1. UNCHANGED <<db, user, sw, slip>> /\ Calm /\ FencesKept(reg, reg')
    BY <1>0, <1>50, DoesShutdown, FadesCalm DEF ShutdownAuthSource, Fault, FencesKept
  <2> QED BY <1>0, <1>b, <1>d, <1>u, <2>1, AdvancersKeep, QuietElsewhere
<1>51. CASE RaiseRevision
  <2>1. UNCHANGED <<reg, db, user, sw, slip>>
    BY <1>51 DEF RaiseRevision
  <2> QED BY <1>b, <1>s, <1>d, <1>u, <2>1, AdvancersKeep, QuietElsewhere DEF BaseInv
<1>52. ASSUME NEW b \in Bindings, ClaimClose(b) PROVE QuietInv'
  <2>1. UNCHANGED <<db, user, sw, slip>> /\ reg' = Marked(reg, b, "Closing") /\ Calm
    BY <1>0, <1>52, DoesClaimClose, FadesCalm DEF ClaimClose, Crashed, Marked
  <2>2. FencesKept(reg, reg')
    BY <1>0, <2>1, OperatorsKeepFences
  <2> QED BY <1>0, <1>b, <1>d, <1>u, <2>1, <2>2, AdvancersKeep, QuietElsewhere
<1>53. ASSUME NEW p \in Processes, ExitProcess(p) PROVE QuietInv'
  <2>1. UNCHANGED <<db, user, sw, slip>> /\ Calm /\ FencesKept(reg, reg')
    BY <1>0, <1>53, DoesExit, FadesCalm DEF ExitProcess, Fault, FencesKept
  <2> QED BY <1>0, <1>b, <1>d, <1>u, <2>1, AdvancersKeep, QuietElsewhere
<1>54. ASSUME NEW b \in Bindings, NoticeCrash(b) PROVE QuietInv'
  <2>1. UNCHANGED <<db, user, sw, slip>> /\ reg' = Marked(reg, b, "Crashed") /\ Calm
    BY <1>0, <1>54, DoesNotice, FadesCalm DEF NoticeCrash, Crashed, Marked
  <2>2. FencesKept(reg, reg')
    BY <1>0, <2>1, OperatorsKeepFences
  <2> QED BY <1>0, <1>b, <1>d, <1>u, <2>1, <2>2, AdvancersKeep, QuietElsewhere
<1> QED BY <1>1, <1>2, <1>3, <1>4, <1>5, <1>6, <1>7, <1>8, <1>9, <1>10, <1>11, <1>12, <1>13, <1>14, <1>15, <1>16, <1>17, <1>18, <1>19, <1>20, <1>21, <1>22, <1>23, <1>24, <1>25, <1>26, <1>27, <1>28, <1>29, <1>30, <1>31, <1>32, <1>33, <1>34, <1>35, <1>36, <1>37, <1>38, <1>39, <1>40, <1>41, <1>42, <1>43, <1>44, <1>45, <1>46, <1>47, <1>48, <1>49, <1>50, <1>51, <1>52, <1>53, <1>54
       DEF Next, Materialise, DriveSwitch, Turn, Sweep

LEMMA QuietAlways == Spec => []QuietInv
<1>1. Init => QuietInv
  <2> SUFFICES ASSUME Init PROVE QuietInv
    OBVIOUS
  <2>1. /\ reg.cur = 1 /\ 1 \in Bindings /\ reg.att[1].gen = 1 /\ reg.last = 1
        /\ db.cur = 1 /\ db.gen = 1 /\ \A b \in Bindings : reg.att[b].gen \in {0, 1}
        /\ \A b \in Bindings : db.row[b] \in {0, 1}
    BY Numbers DEF Init, NoAttachment
  <2>2. sw.pc = "idle" /\ \A u \in Users : user[u].pc = "idle"
    BY NoSwitchType, RestingType DEF Init
  <2>3. "idle" \notin PreCommit
    BY SwitchPlaces
  <2>4. GenInv
    BY <2>1, <2>2, <2>3 DEF GenInv
  <2>5. (\A u \in Users : UserQuiet(u)) /\ FitInv
    BY <2>2 DEF UserQuiet, FitInv
  <2>6. CurInv
    BY <2>1 DEF CurInv
  <2> QED BY <2>4, <2>5, <2>6 DEF QuietInv
<1>2. BaseInv /\ QuietInv /\ [Next]_vars => QuietInv'
  <2> SUFFICES ASSUME BaseInv, QuietInv, [Next]_vars PROVE QuietInv'
    OBVIOUS
  <2>1. CASE UNCHANGED vars
    BY <2>1 DEF vars, QuietInv, GenInv, UserQuiet, FitInv, CurInv, OkGen, Advancing
  <2> QED BY <2>1, QuietStep
<1> QED BY <1>1, <1>2, BaseAlways, PTL DEF Spec

\* With no materialisation and no switch under way the current attachment is the durable
\* current binding at its durable generation, whatever raced before: of a switch and a
\* rebuild of its source only one keeps the session, and the other's attachment is
\* detached or refused (materialize_current_runtime,
\* advance_current_activation_generation, activate_with_prompt_closed).
THEOREM QuietSessionsAgree == Spec => []QuietAgrees
<1>1. QuietInv => QuietAgrees
  BY DEF QuietInv, CurInv, Advancing, QuietAgrees, AtRest, SwitchRuns, Materialising
<1> QED BY <1>1, QuietAlways, PTL

-----------------------------------------------------------------------------
(* No turn of the session runs on its source when a switch commits. *)

\* Where the dispatch has the identity of its execution, and where a switch has closed
\* prompts for its commit.
Dispatched == {"send", "prompt", "begin", "turn"}
Settling == {"commitIdle", "revalidate", "commit"}

TurnIsDispatched ==
    \A b \in Bindings : reg.att[b].turn =>
        /\ user["dispatch"].pc = "turn"
        /\ user["dispatch"].b = b /\ user["dispatch"].p = reg.att[b].p

RunningMarked == user["dispatch"].pc \in Dispatched => db.running

\* The durable binding with a turn is not behind the session, so nothing older takes its
\* place as the current one.
DurableTurn ==
    reg.att[db.cur].turn => reg.att[db.cur].gen >= db.gen /\ reg.cur \in {NoBinding, db.cur}

Settled ==
    ~slip.prompt /\ ~slip.gate =>
        /\ sw.pc \in Settling => fenced /\ user["dispatch"].pc # "begin"
        /\ sw.pc \in {"revalidate", "commit"} =>
             \A b \in Bindings \cap {sw.src, reg.cur} : ~reg.att[b].turn

TurnInv == TurnIsDispatched /\ RunningMarked /\ DurableTurn /\ Settled

\* No turn begins in the step, and what has a turn keeps its fence and its generation.
TurnsOnlyEnd ==
    \A c \in Bindings : reg'.att[c].turn =>
        reg.att[c].turn /\ reg'.att[c].p = reg.att[c].p /\ reg'.att[c].gen = reg.att[c].gen

DispatchStays ==
    \/ user'["dispatch"] = user["dispatch"]
    \/ user["dispatch"].pc \notin Dispatched /\ user'["dispatch"].pc \notin Dispatched

\* The switch does not come to its commit in the step.
SwitchSettles ==
    sw'.pc \in Settling =>
        /\ sw.pc \in Settling /\ sw'.src = sw.src /\ fenced' = fenced /\ slip' = slip
        /\ sw'.pc # "commitIdle" => sw.pc # "commitIdle"

LEMMA TurnStays ==
    ASSUME TurnInv, TurnsOnlyEnd, DispatchStays, db'.running = db.running
    PROVE  TurnIsDispatched' /\ RunningMarked'
<1>1. TurnIsDispatched'
  BY DEF TurnInv, TurnIsDispatched, TurnsOnlyEnd, DispatchStays, Dispatched
<1>2. RunningMarked'
  BY DEF TurnInv, RunningMarked, DispatchStays
<1> QED BY <1>1, <1>2

LEMMA SettledStays ==
    ASSUME TurnInv, TurnsOnlyEnd, DispatchStays, SwitchSettles,
           reg'.cur \in {reg.cur, NoBinding}
    PROVE  Settled'
<1> SUFFICES ASSUME ~slip'.prompt, ~slip'.gate, sw'.pc \in Settling
             PROVE  /\ fenced' /\ user'["dispatch"].pc # "begin"
                    /\ sw'.pc \in {"revalidate", "commit"} =>
                         \A b \in Bindings \cap {sw'.src, reg'.cur} : ~reg'.att[b].turn
  BY DEF Settled, Settling
<1>1. /\ sw.pc \in Settling /\ sw'.src = sw.src /\ fenced' = fenced /\ slip' = slip
      /\ sw'.pc # "commitIdle" => sw.pc # "commitIdle"
  BY DEF SwitchSettles
<1>2. fenced /\ user["dispatch"].pc # "begin"
  BY <1>1 DEF TurnInv, Settled
<1>3. sw'.pc # "commitIdle" => \A b \in Bindings \cap {sw.src, reg.cur} : ~reg.att[b].turn
  BY <1>1 DEF TurnInv, Settled, Settling
<1>4. user'["dispatch"].pc # "begin"
  BY <1>2 DEF DispatchStays, Dispatched
<1>5. ASSUME sw'.pc # "commitIdle", NEW b \in Bindings \cap {sw'.src, reg'.cur}
      PROVE  ~reg'.att[b].turn
  <2>1. b \in Bindings \cap {sw.src, reg.cur}
    BY <1>1, Numbers
  <2> QED BY <1>3, <1>5, <2>1 DEF TurnsOnlyEnd
<1> QED BY <1>1, <1>2, <1>4, <1>5

LEMMA TurnFrame ==
    ASSUME TypeInv, TurnInv, TurnsOnlyEnd, DispatchStays, SwitchSettles,
           reg'.cur \in {reg.cur, NoBinding},
           db'.cur = db.cur, db'.gen = db.gen, db'.running = db.running
    PROVE  TurnInv'
<1>1. db.cur \in Bindings
  BY QuietNumbers
<1>2. DurableTurn'
  BY <1>1 DEF TurnInv, DurableTurn, TurnsOnlyEnd
<1> QED BY <1>2, TurnStays, SettledStays DEF TurnInv

LEMMA FadesTurns ==
    ASSUME Fades(reg, reg')
    PROVE  TurnsOnlyEnd /\ reg'.cur \in {reg.cur, NoBinding}
<1>1. ASSUME NEW c \in Bindings, reg'.att[c].turn
      PROVE  reg.att[c].turn /\ reg'.att[c].p = reg.att[c].p /\ reg'.att[c].gen = reg.att[c].gen
  BY <1>1, NoAttachmentType DEF Fades, Same
<1> QED BY <1>1 DEF TurnsOnlyEnd, Fades

LEMMA RegisteredTurns ==
    ASSUME TypeInv, NEW b \in Bindings, NEW g \in Nat, NEW p \in SomeProcess,
           \/ reg' = Registered(reg, b, g, p)
           \/ reg' = Released(Registered(reg, b, g, p), p)
    PROVE  TurnsOnlyEnd /\ reg'.cur = reg.cur
<1>0. reg \in RegRec
  BY DEF TypeInv, StoreOK
<1> DEFINE m == Registered(reg, b, g, p)
<1>1. m \in RegRec /\ m.cur = reg.cur /\ ~m.att[b].turn
  BY <1>0, RegRegistered
<1>2. ASSUME NEW c \in Bindings, c # b PROVE m.att[c] = reg.att[c]
  BY <1>0, <1>2, RegisteredElsewhere
<1>3. reg' = m \/ reg' = Released(m, p)
  OBVIOUS
<1> HIDE DEF m
<1>4. reg'.att = m.att /\ reg'.cur = m.cur
  BY <1>1, <1>3, RegReleased
<1> QED BY <1>1, <1>2, <1>4 DEF TurnsOnlyEnd

LEMMA ActivatedTurns ==
    ASSUME TypeInv, NEW b \in Bindings, NEW shut \in BOOLEAN, reg' = Activated(reg, b, shut)
    PROVE  TurnsOnlyEnd
<1>1. reg \in RegRec
  BY DEF TypeInv, StoreOK
<1>2. \A c \in Bindings : Same(reg'.att[c], reg.att[c])
  BY <1>1, RegActivated
<1> QED BY <1>2 DEF TurnsOnlyEnd, Same

\* A step of a task that is not at its execution before or after it.
LEMMA TurnUser ==
    ASSUME TypeInv, TurnInv, NEW u \in Users, Others(u), user[u].pc \notin Dispatched,
           user'[u].pc \notin Dispatched, TurnsOnlyEnd, SwitchSettles,
           reg'.cur \in {reg.cur, NoBinding},
           db'.cur = db.cur, db'.gen = db.gen, db'.running = db.running
    PROVE  TurnInv'
<1>1. DispatchStays
  BY SwitchPlacesNamed DEF Others, DispatchStays
<1> QED BY <1>1, TurnFrame

LEMMA TurnElsewhere ==
    ASSUME TypeInv, TurnInv, user' = user, TurnsOnlyEnd, SwitchSettles,
           reg'.cur \in {reg.cur, NoBinding},
           db'.cur = db.cur, db'.gen = db.gen, db'.running = db.running
    PROVE  TurnInv'
<1>1. DispatchStays
  BY DEF DispatchStays
<1> QED BY <1>1, TurnFrame

\* Prompts are closed: a prompt acquired before is known not to have begun, unless the
\* setting came too late for it.
LEMMA TurnSets ==
    ASSUME TypeInv, TurnInv, SetsGate(TRUE), user' = user, db' = db,
           sw'.pc \notin {"revalidate", "commit"}
    PROVE  TurnInv'
<1>1. TurnsOnlyEnd /\ DispatchStays /\ reg'.cur \in {reg.cur, NoBinding}
  BY FadesTurns DEF SetsGate, DispatchStays
<1>2. Settled'
  BY DEF Settled, SetsGate
<1>3. DurableTurn'
  BY <1>1, QuietNumbers DEF TurnInv, DurableTurn, TurnsOnlyEnd
<1> QED BY <1>1, <1>2, <1>3, TurnStays DEF TurnInv

\* A step of the dispatch after which no turn runs.
LEMMA TurnDispatch ==
    ASSUME TypeInv', TurnInv, \A c \in Bindings : ~reg'.att[c].turn,
           user'["dispatch"].pc \in Dispatched => db'.running,
           UNCHANGED <<sw, fenced, slip>>,
           user'["dispatch"].pc = "begin" => slip.prompt \/ slip.gate \/ sw.pc \notin Settling
    PROVE  TurnInv'
<1>1. TurnIsDispatched' /\ RunningMarked'
  BY DEF TurnIsDispatched, RunningMarked
<1> db'.cur \in Bindings
  BY DEF TypeInv, StoreOK, DbRec
<1>2. DurableTurn'
  BY DEF DurableTurn
<1>3. Settled'
  BY DEF TurnInv, Settled
<1> QED BY <1>1, <1>2, <1>3 DEF TurnInv

LEMMA NoTurns ==
    ASSUME TurnInv, user["dispatch"].pc # "turn", TurnsOnlyEnd
    PROVE  \A c \in Bindings : ~reg'.att[c].turn
  BY DEF TurnInv, TurnIsDispatched, TurnsOnlyEnd

\* The session was seen idle: neither the current attachment nor the source has a turn.
LEMMA SeenIdle ==
    ASSUME TypeInv, TurnInv, ~Busy, sw.src = db.cur
    PROVE  \A b \in Bindings \cap {sw.src, reg.cur} : ~reg.att[b].turn
<1>1. db.cur \in Bindings /\ NoBinding \notin Bindings
  BY QuietNumbers, Numbers
<1>2. CASE reg.cur # NoBinding
  BY <1>1, <1>2 DEF Busy, TurnInv, DurableTurn
<1>3. CASE reg.cur = NoBinding
  BY <1>1, <1>3 DEF Busy, TurnInv, TurnIsDispatched, RunningMarked, Dispatched
<1> QED BY <1>2, <1>3

\* A materialisation that activates while a turn runs has the binding of that turn or one
\* that lost the session, and the registry refuses the latter.
LEMMA TurnActivates ==
    ASSUME BaseInv, QuietInv, TurnInv, NEW u \in Users, Others(u), user[u].pc = "activate",
           user'[u].pc \notin Dispatched, Activatable(reg, user[u].b, user[u].p),
           reg' = Activated(reg, user[u].b, user[u].shut), UNCHANGED <<db, sw, fenced, slip>>
    PROVE  TurnInv'
<1> DEFINE b == user[u].b
<1>0. TypeInv /\ RegShape(reg) /\ GenInv /\ UserQuiet(u)
  BY DEF BaseInv, Shape, QuietInv
<1>1. b \in Bindings /\ user[u].shut \in BOOLEAN
  BY <1>0, UserPlaces, UserNames DEF TypeInv
<1>2. TurnsOnlyEnd /\ DispatchStays
  BY <1>0, <1>1, ActivatedTurns, SwitchPlacesNamed DEF Others, DispatchStays, Dispatched
<1>3. reg'.cur = b
  BY <1>0, <1>1, RegActivated DEF TypeInv, StoreOK
<1>4. b # db.cur => reg.att[b].gen < db.gen
  BY <1>0 DEF UserQuiet, Activatable
<1>5. DurableTurn'
  <2> SUFFICES ASSUME reg'.att[db.cur].turn
               PROVE  reg'.att[db.cur].gen >= db.gen /\ reg'.cur \in {NoBinding, db.cur}
    BY DEF DurableTurn
  <2>1. db.cur \in Bindings /\ db.gen \in Nat /\ reg.last \in Nat
        /\ reg.att[b].gen \in Nat /\ reg.att[db.cur].gen \in Nat
        /\ reg.att[db.cur].gen <= reg.last
    BY <1>0, <1>1, QuietNumbers DEF GenInv
  <2>2. /\ reg.att[db.cur].turn /\ reg'.att[db.cur].gen = reg.att[db.cur].gen
        /\ reg.att[db.cur].gen >= db.gen /\ reg.cur \in {NoBinding, db.cur}
    BY <1>2, <2>1 DEF TurnsOnlyEnd, TurnInv, DurableTurn
  <2>3. ASSUME b # db.cur PROVE FALSE
    <3>1. reg.cur # b
      BY <1>1, <2>2, <2>3, Numbers
    <3>2. IF reg.cur # NoBinding THEN reg.att[b].gen > reg.att[reg.cur].gen
          ELSE reg.att[b].gen >= reg.last
      BY <3>1 DEF Activatable
    <3> QED BY <1>4, <2>1, <2>2, <2>3, <3>2
  <2> QED BY <1>3, <2>2, <2>3
<1>6. Settled'
  <2>1. ASSUME ~slip.prompt, ~slip.gate, sw.pc \in {"revalidate", "commit"}, reg.att[b].turn
        PROVE  FALSE
    <3>1. reg.cur = b
      BY <1>0, <1>1, <2>1 DEF RegShape, Activatable, IsLive
    <3> QED BY <1>1, <2>1, <3>1 DEF TurnInv, Settled
  <2>2. ASSUME ~slip.prompt, ~slip.gate, sw.pc \in {"revalidate", "commit"},
               NEW c \in Bindings \cap {sw.src, b}
        PROVE  ~reg'.att[c].turn
    BY <1>2, <2>1, <2>2 DEF TurnsOnlyEnd, TurnInv, Settled
  <2>3. user["dispatch"].pc # "begin" => user'["dispatch"].pc # "begin"
    BY <1>2 DEF DispatchStays, Dispatched
  <2> QED BY <1>3, <2>2, <2>3 DEF TurnInv, Settled
<1> QED BY <1>2, <1>5, <1>6, TurnStays DEF TurnInv

LEMMA TurnAdvances ==
    ASSUME BaseInv, QuietInv, TurnInv, NEW u \in Users, AdvanceGeneration(u)
    PROVE  TurnInv'
<1> DEFINE b == user[u].b
<1>0. TypeInv /\ RegShape(reg) /\ UserQuiet(u) /\ reg \in RegRec
  BY DEF BaseInv, Shape, QuietInv, TypeInv, StoreOK
<1>1. /\ Others(u) /\ b \in Bindings /\ user[u].pc = "advance" /\ user[u].gen \in Nat
      /\ UNCHANGED <<sw, slip, fenced>> /\ db'.cur = db.cur /\ db'.running = db.running
      /\ user'[u].pc \in {"promptGate", "idle"}
      /\ reg' = reg \/ reg' = Detached(reg, b)
      /\ db'.gen = db.gen \/ (db.cur = b /\ db'.gen = user[u].gen + 1)
  BY <1>0, DoesAdvance, UserNames DEF AdvanceGeneration, AtUser, TypeInv, Leaves
<1>2. TurnsOnlyEnd /\ reg'.cur \in {reg.cur, NoBinding}
  BY <1>0, <1>1, FadesStays, FadesDetached, FadesTurns
<1>3. DispatchStays /\ SwitchSettles
  BY <1>1, SwitchPlacesNamed DEF Others, DispatchStays, SwitchSettles, Dispatched
<1>4. DurableTurn'
  <2>1. db.cur \in Bindings
    BY <1>0, QuietNumbers
  <2>2. CASE db'.gen = db.gen
    BY <1>1, <1>2, <2>1, <2>2 DEF TurnInv, DurableTurn, TurnsOnlyEnd
  <2>3. CASE db.cur = b /\ db'.gen = user[u].gen + 1
    <3>1. reg.att[b].gen = user[u].gen + 1
      BY <1>0, <1>1 DEF UserQuiet
    <3> QED BY <1>1, <1>2, <2>1, <2>3, <3>1 DEF TurnInv, DurableTurn, TurnsOnlyEnd
  <2> QED BY <1>1, <2>2, <2>3
<1> QED BY <1>1, <1>2, <1>3, <1>4, TurnStays, SettledStays DEF TurnInv

\* The session moves to a binding no turn has run on.
LEMMA TurnCommits ==
    ASSUME BaseInv, TurnInv, Commit
    PROVE  TurnInv'
<1>0. TypeInv /\ TargetIsNew
  BY DEF BaseInv, Shape
<1>1. /\ UNCHANGED <<reg, user, slip>> /\ sw.b \in Bindings /\ sw.pc = "commit"
      /\ sw'.pc = "fit" /\ db'.cur = sw.b /\ db'.running = db.running
  BY <1>0, DoesCommit DEF Commit, AtSwitch
<1>2. TurnsOnlyEnd /\ DispatchStays /\ SwitchSettles
  BY <1>1 DEF TurnsOnlyEnd, DispatchStays, SwitchSettles, Settling
<1>3. ~reg.att[sw.b].turn
  BY <1>0, <1>1, SwitchPlacesNamed DEF TargetIsNew, TurnInv, TurnIsDispatched
<1>4. DurableTurn'
  BY <1>1, <1>3 DEF DurableTurn
<1> QED BY <1>1, <1>2, <1>4, TurnStays, SettledStays DEF TurnInv

LEMMA TurnActivatesTarget ==
    ASSUME BaseInv, QuietInv, TurnInv, ActivateTarget
    PROVE  TurnInv'
<1>0. TypeInv /\ TargetIsCurrent
  BY DEF BaseInv, Shape
<1>1. /\ UNCHANGED <<db, user, slip>> /\ sw.b \in Bindings /\ sw.pc = "activate"
      /\ sw'.pc = "open" /\ sw.shut \in BOOLEAN /\ reg' = Activated(reg, sw.b, sw.shut)
  BY <1>0, DoesActivateTarget, SwitchNames DEF ActivateTarget, AtSwitch, SwitchGoes, TypeInv
<1>2. TurnsOnlyEnd /\ DispatchStays
  BY <1>0, <1>1, ActivatedTurns DEF DispatchStays
<1>3. reg'.cur = sw.b /\ sw.b = db.cur
  BY <1>0, <1>1, RegActivated DEF TypeInv, StoreOK, TargetIsCurrent, PostCommit
<1>4. DurableTurn'
  BY <1>1, <1>2, <1>3 DEF TurnInv, DurableTurn, TurnsOnlyEnd
<1>5. Settled'
  BY <1>1 DEF Settled, Settling
<1> QED BY <1>1, <1>2, <1>4, <1>5, TurnStays DEF TurnInv

LEMMA TurnEnds ==
    ASSUME BaseInv, TurnInv, Finishes, Fades(reg, reg'), db' = db
    PROVE  TurnInv'
<1>0. TypeInv /\ Serial
  BY DEF BaseInv
<1>1. DispatchStays
  <2>1. CASE sw.by # "dispatch"
    BY <2>1, SwitchPlacesNamed DEF Finishes, DispatchStays
  <2>2. CASE sw.by = "dispatch"
    <3>1. user["dispatch"].pc = "await" /\ user'["dispatch"].pc \in {"idle", "gate"}
      BY <1>0, <2>2 DEF Serial, Finishes, NoOne
    <3> QED BY <3>1 DEF DispatchStays, Dispatched
  <2> QED BY <2>1, <2>2
<1>2. SwitchSettles
  BY DEF Finishes, SwitchSettles, Settling
<1> QED BY <1>0, <1>1, <1>2, FadesTurns, TurnFrame

LEMMA TurnStep ==
    ASSUME BaseInv, QuietInv, FenceInv, TurnInv, Next
    PROVE  TurnInv'
<1>0. /\ TypeInv /\ RegShape(reg) /\ TargetIsNew /\ reg \in RegRec
      /\ CurInv /\ TypeInv'
  BY ShapeStep DEF BaseInv, Shape, TypeInv, StoreOK, QuietInv
<1>s. ASSUME reg' = reg PROVE TurnsOnlyEnd /\ reg'.cur \in {reg.cur, NoBinding}
  BY <1>s DEF TurnsOnlyEnd
<1>u. ASSUME UNCHANGED <<sw, fenced, slip>> PROVE SwitchSettles
  BY <1>u DEF SwitchSettles
<1>p. ASSUME NEW p \in Processes, reg' = Spawned(reg, p)
      PROVE  TurnsOnlyEnd /\ reg'.cur \in {reg.cur, NoBinding}
  BY <1>0, <1>p, RegSpawned DEF TurnsOnlyEnd

<1>1. ASSUME NEW u \in Users, RequestRuntime(u) PROVE TurnInv'
  <2>1. UNCHANGED <<reg, db, sw, fenced, slip>> /\ user[u].pc \notin Dispatched
    BY <1>1 DEF RequestRuntime, AtUser, Dispatched
  <2>2. Others(u) /\ user'[u].pc \notin Dispatched
    BY <1>0, <1>1, DoesRequest DEF Leaves, Dispatched
  <2> QED BY <1>0, <1>s, <1>u, <2>1, <2>2, TurnUser
<1>2. ASSUME NEW u \in Users, EnterGate(u) PROVE TurnInv'
  <2>1. UNCHANGED <<reg, db, sw, fenced, slip>> /\ user[u].pc \notin Dispatched
    BY <1>2 DEF EnterGate, AtUser, Dispatched
  <2>2. Others(u) /\ user'[u].pc \notin Dispatched
    BY <1>0, <1>2, DoesEnterGate DEF Leaves, Dispatched
  <2> QED BY <1>0, <1>s, <1>u, <2>1, <2>2, TurnUser
<1>3. ASSUME NEW u \in Users, Look(u) PROVE TurnInv'
  <2>1. UNCHANGED <<reg, db, sw, fenced, slip>> /\ user[u].pc \notin Dispatched
    BY <1>3 DEF Look, AtUser, Dispatched
  <2>2. Others(u) /\ user'[u].pc \notin Dispatched
    BY <1>0, <1>3, DoesLook DEF Leaves, Dispatched
  <2> QED BY <1>0, <1>s, <1>u, <2>1, <2>2, TurnUser
<1>4. ASSUME NEW u \in Users, ReadDurable(u) PROVE TurnInv'
  <2>1. UNCHANGED <<reg, db, sw, fenced, slip>> /\ user[u].pc \notin Dispatched
    BY <1>4 DEF ReadDurable, AtUser, Dispatched
  <2>2. Others(u) /\ user'[u].pc \notin Dispatched
    BY <1>0, <1>4, DoesReadDurable DEF Leaves, Dispatched
  <2> QED BY <1>0, <1>s, <1>u, <2>1, <2>2, TurnUser
<1>5. ASSUME NEW u \in Users, TakeExisting(u) PROVE TurnInv'
  <2>1. UNCHANGED <<db, sw, fenced, slip>> /\ user[u].pc = "existing"
    BY <1>5 DEF TakeExisting, AtUser
  <2>2. Others(u) /\ user'[u].pc \notin Dispatched /\ user[u].pc \notin Dispatched
    BY <1>0, <1>5, <2>1, DoesTakeExisting DEF Leaves, Dispatched
  <2>3. TurnsOnlyEnd /\ reg'.cur \in {reg.cur, NoBinding}
    BY <1>0, <1>5, DoesTakeExisting, FadesTurns
  <2> QED BY <1>0, <1>u, <2>1, <2>2, <2>3, TurnUser
<1>6. ASSUME NEW u \in Users, CheckRevision(u) PROVE TurnInv'
  <2>1. UNCHANGED <<reg, db, sw, fenced, slip>> /\ user[u].pc \notin Dispatched
    BY <1>6 DEF CheckRevision, AtUser, Dispatched
  <2>2. Others(u) /\ user'[u].pc \notin Dispatched
    BY <1>0, <1>6, DoesCheckRevision DEF Leaves, Dispatched
  <2> QED BY <1>0, <1>s, <1>u, <2>1, <2>2, TurnUser
<1>7. ASSUME NEW u \in Users, Spawn(u) PROVE TurnInv'
  <2>1. UNCHANGED <<db, sw, fenced, slip>> /\ user[u].pc = "spawn"
    BY <1>7 DEF Spawn, AtUser
  <2>2. Others(u) /\ user'[u].pc \notin Dispatched /\ user[u].pc \notin Dispatched
    BY <1>0, <1>7, <2>1, DoesSpawn DEF Leaves, Dispatched
  <2>3. TurnsOnlyEnd /\ reg'.cur \in {reg.cur, NoBinding}
    BY <1>s, <1>p, <1>7 DEF Spawn
  <2> QED BY <1>0, <1>u, <2>1, <2>2, <2>3, TurnUser
<1>8. ASSUME NEW u \in Users, OpenSession(u) PROVE TurnInv'
  <2>1. UNCHANGED <<db, sw, fenced, slip>> /\ user[u].pc = "open"
    BY <1>8 DEF OpenSession, AtUser
  <2>2. Others(u) /\ user'[u].pc \notin Dispatched /\ user[u].pc \notin Dispatched
    BY <1>0, <1>8, <2>1, DoesOpenSession DEF Leaves, Dispatched
  <2>3. user[u].b \in Bindings /\ user[u].gen + 1 \in Nat /\ user[u].p \in SomeProcess
    BY <1>0, <1>8, DoesOpenSession, QuietNumbers
  <2>4. TurnsOnlyEnd /\ reg'.cur \in {reg.cur, NoBinding}
    <3>1. CASE reg' = Released(reg, user[u].p)
      BY <1>0, <2>3, <3>1, FadesReleased, FadesTurns
    <3>2. CASE \/ reg' = Registered(reg, user[u].b, user[u].gen + 1, user[u].p)
               \/ reg' = Released(Registered(reg, user[u].b, user[u].gen + 1, user[u].p), user[u].p)
      BY <1>0, <2>3, <3>2, RegisteredTurns
    <3> QED BY <1>8, <3>1, <3>2 DEF OpenSession
  <2> QED BY <1>0, <1>u, <2>1, <2>2, <2>4, TurnUser
<1>9. ASSUME NEW u \in Users, AdvanceGeneration(u) PROVE TurnInv'
  BY <1>9, TurnAdvances
<1>10. ASSUME NEW u \in Users, ReadPromptGate(u) PROVE TurnInv'
  <2>1. UNCHANGED <<reg, db, sw, fenced, slip>> /\ user[u].pc \notin Dispatched
    BY <1>10 DEF ReadPromptGate, AtUser, Dispatched
  <2>2. Others(u) /\ user'[u].pc \notin Dispatched
    BY <1>0, <1>10, DoesReadPromptGate DEF Leaves, Dispatched
  <2> QED BY <1>0, <1>s, <1>u, <2>1, <2>2, TurnUser
<1>11. ASSUME NEW u \in Users, Activate(u) PROVE TurnInv'
  <2>1. UNCHANGED <<db, sw, fenced, slip>> /\ user[u].pc = "activate"
    BY <1>11 DEF Activate, AtUser
  <2>2. Others(u) /\ user'[u].pc \notin Dispatched /\ user[u].pc \notin Dispatched
    BY <1>0, <1>11, <2>1, DoesActivate DEF Leaves, Dispatched
  <2>3. CASE /\ Activatable(reg, user[u].b, user[u].p)
             /\ reg' = Activated(reg, user[u].b, user[u].shut)
    BY <2>1, <2>2, <2>3, TurnActivates
  <2>4. CASE Fades(reg, reg')
    BY <1>0, <1>u, <2>1, <2>2, <2>4, FadesTurns, TurnUser
  <2> QED BY <1>0, <1>11, <2>3, <2>4, DoesActivate
<1>12. ASSUME NEW u \in Users, Touch(u) PROVE TurnInv'
  <2>1. UNCHANGED <<reg, db, sw, fenced, slip>> /\ user[u].pc \notin Dispatched
    BY <1>12 DEF Touch, AtUser, Dispatched
  <2>2. Others(u) /\ user'[u].pc \notin Dispatched
    BY <1>0, <1>12, DoesTouch DEF Leaves, Dispatched
  <2> QED BY <1>0, <1>s, <1>u, <2>1, <2>2, TurnUser
<1>13. ASSUME NEW u \in Users, TakeLease(u) PROVE TurnInv'
  <2>1. UNCHANGED <<reg, db, sw, fenced, slip>> /\ user[u].pc \notin Dispatched
    BY <1>13 DEF TakeLease, AtUser, Dispatched
  <2>2. Others(u) /\ user'[u].pc \notin Dispatched
    BY <1>0, <1>13, DoesTakeLease DEF Leaves, Dispatched
  <2> QED BY <1>0, <1>s, <1>u, <2>1, <2>2, TurnUser
<1>14. ASSUME NEW u \in Users, Refresh(u) PROVE TurnInv'
  <2>1. UNCHANGED <<reg, fenced, slip>> /\ user[u].pc \notin Dispatched
    BY <1>14 DEF Refresh, AtUser, Dispatched
  <2>2. /\ Others(u) /\ user'[u].pc \notin Dispatched
        /\ db'.cur = db.cur /\ db'.gen = db.gen /\ db'.running = db.running
    BY <1>0, <1>14, DoesRefresh DEF Starts, Dispatched
  <2>3. SwitchSettles
    BY <1>0, <1>u, <1>14, <2>1, DoesRefresh DEF Starts, SwitchSettles, Settling
  <2> QED BY <1>0, <1>s, <2>1, <2>2, <2>3, TurnUser
<1>15. CASE DetachClient
  <2>1. UNCHANGED <<reg, db, user, sw, fenced, slip>>
    BY <1>15 DEF DetachClient
  <2> QED BY <1>0, <1>s, <1>u, <2>1, TurnElsewhere
<1>16. CASE UserSwitches
  <2>1. UNCHANGED <<reg, user>> /\ Starts(NoOne)
    BY <1>0, <1>16, DoesUserSwitch DEF UserSwitches
  <2>2. SwitchSettles
    BY <2>1 DEF Starts, SwitchSettles, Settling
  <2> QED BY <1>0, <1>s, <2>1, <2>2, TurnElsewhere DEF Starts
<1>17. CASE WaitIdle("probe", "close")
  <2>1. "probe" \in PreCommit /\ "close" \in PreCommit
    BY SwitchPlacesNamed
  <2>2. UNCHANGED <<db, user>> /\ sw.pc = "probe"
    BY <1>17 DEF WaitIdle, AtSwitch
  <2>3. CASE Busy
    <3>1. SetPromptGate(TRUE) /\ sw' = sw
      BY <1>17, <2>3 DEF WaitIdle
    <3> QED BY <1>0, <2>2, <3>1, DoesSetGate, TurnSets
  <2>4. CASE ~Busy
    <3>1. UNCHANGED <<reg, slip, fenced>> /\ GotoSwitch("close")
      BY <1>17, <2>4 DEF WaitIdle
    <3>2. sw'.pc = "close" /\ sw'.src = sw.src
      BY <1>0, <2>1, <2>2, <3>1, GotoSwitchStep, SwitchPlaces DEF TypeInv, SwitchCarries
    <3>3. SwitchSettles
      BY <3>2 DEF SwitchSettles, Settling
    <3> QED BY <1>0, <1>s, <2>2, <3>1, <3>3, TurnElsewhere
  <2> QED BY <2>3, <2>4
<1>18. CASE ClosePrompts("close", "reprobe")
  <2>1. "close" \in PreCommit /\ "reprobe" \in PreCommit
    BY SwitchPlacesNamed
  <2>2. UNCHANGED <<db, user>> /\ SetsGate(TRUE) /\ sw'.pc = "reprobe"
    BY <1>0, <1>18, <2>1, DoesClosePrompts DEF ClosePrompts, SwitchGoes
  <2> QED BY <1>0, <2>2, TurnSets
<1>19. CASE Reprobe
  <2>1. UNCHANGED <<reg, db, user>>
    BY <1>19 DEF Reprobe
  <2>2. sw'.pc \notin Settling
    BY <1>0, <1>19, DoesReprobe DEF Settling, SwitchGoes
  <2>3. db'.cur = db.cur /\ db'.gen = db.gen /\ db'.running = db.running
    BY <1>0, <1>19, <2>1, DoesReprobe
  <2> QED BY <1>0, <1>s, <2>1, <2>2, <2>3, TurnElsewhere DEF SwitchSettles
<1>20. CASE ClosePrompts("closeToPrepare", "prepareIdle")
  <2>1. "closeToPrepare" \in PreCommit /\ "prepareIdle" \in PreCommit
    BY SwitchPlacesNamed
  <2>2. UNCHANGED <<db, user>> /\ SetsGate(TRUE) /\ sw'.pc = "prepareIdle"
    BY <1>0, <1>20, <2>1, DoesClosePrompts DEF ClosePrompts, SwitchGoes
  <2> QED BY <1>0, <2>2, TurnSets
<1>21. CASE WaitIdle("prepareIdle", "spawn")
  <2>1. "prepareIdle" \in PreCommit /\ "spawn" \in PreCommit
    BY SwitchPlacesNamed
  <2>2. UNCHANGED <<db, user>> /\ sw.pc = "prepareIdle"
    BY <1>21 DEF WaitIdle, AtSwitch
  <2>3. CASE Busy
    <3>1. SetPromptGate(TRUE) /\ sw' = sw
      BY <1>21, <2>3 DEF WaitIdle
    <3> QED BY <1>0, <2>2, <3>1, DoesSetGate, TurnSets
  <2>4. CASE ~Busy
    <3>1. UNCHANGED <<reg, slip, fenced>> /\ GotoSwitch("spawn")
      BY <1>21, <2>4 DEF WaitIdle
    <3>2. sw'.pc = "spawn" /\ sw'.src = sw.src
      BY <1>0, <2>1, <2>2, <3>1, GotoSwitchStep, SwitchPlaces DEF TypeInv, SwitchCarries
    <3>3. SwitchSettles
      BY <3>2 DEF SwitchSettles, Settling
    <3> QED BY <1>0, <1>s, <2>2, <3>1, <3>3, TurnElsewhere
  <2> QED BY <2>3, <2>4
<1>22. CASE SpawnTarget
  <2>1. UNCHANGED <<db, user>>
    BY <1>22 DEF SpawnTarget
  <2>2. SwitchSettles
    BY <1>0, <1>22, DoesSpawnTarget DEF SwitchSettles, Settling
  <2>3. TurnsOnlyEnd /\ reg'.cur \in {reg.cur, NoBinding}
    BY <1>0, <1>s, <1>p, <1>22, DoesSpawnTarget
  <2> QED BY <1>0, <2>1, <2>2, <2>3, TurnElsewhere
<1>23. CASE Protect("protectProcess", "placeProcess")
  <2>1. UNCHANGED <<reg, db, user>>
    BY <1>23 DEF Protect
  <2>2. sw'.pc \notin Settling
    BY <1>0, <1>23, SwitchPlacesNamed, DoesProtect DEF Settling, SwitchGoes
  <2>3. db'.cur = db.cur /\ db'.gen = db.gen /\ db'.running = db.running
    BY <1>0, <1>23, <2>1, DoesProtect
  <2> QED BY <1>0, <1>s, <2>1, <2>2, <2>3, TurnElsewhere DEF SwitchSettles
<1>24. CASE PlaceLease("placeProcess", "switchProcess", "generation")
  <2>1. UNCHANGED <<reg, db, user>>
    BY <1>24 DEF PlaceLease
  <2>2. sw'.pc \notin Settling
    BY <1>0, <1>24, SwitchPlacesNamed, DoesPlaceLease DEF Settling, SwitchGoes
  <2>3. db'.cur = db.cur /\ db'.gen = db.gen /\ db'.running = db.running
    BY <1>0, <1>24, <2>1, DoesPlaceLease
  <2> QED BY <1>0, <1>s, <2>1, <2>2, <2>3, TurnElsewhere DEF SwitchSettles
<1>25. CASE ReadGeneration
  <2>1. UNCHANGED <<reg, db, user>>
    BY <1>25 DEF ReadGeneration
  <2>2. sw'.pc \notin Settling
    BY <1>0, <1>25, DoesReadGeneration DEF Settling, SwitchGoes
  <2>3. db'.cur = db.cur /\ db'.gen = db.gen /\ db'.running = db.running
    BY <1>0, <1>25, <2>1, DoesReadGeneration
  <2> QED BY <1>0, <1>s, <2>1, <2>2, <2>3, TurnElsewhere DEF SwitchSettles
<1>26. CASE CreateSession
  <2>1. UNCHANGED <<db, user>> /\ sw.pc = "create"
    BY <1>26 DEF CreateSession, AtSwitch
  <2>2. SwitchSettles
    BY <1>0, <1>26, DoesCreateSession DEF SwitchSettles, Settling
  <2>3. sw.b \in Bindings /\ sw.p \in SomeProcess /\ sw.gen \in Nat
    BY <1>0, <2>1, SwitchNames DEF TypeInv
  <2>4. TurnsOnlyEnd /\ reg'.cur \in {reg.cur, NoBinding}
    <3>1. CASE reg' = Registered(reg, sw.b, sw.gen, sw.p)
      BY <1>0, <2>3, <3>1, RegisteredTurns
    <3>2. CASE reg' = Released(reg, sw.p)
      BY <1>0, <2>3, <3>2, FadesReleased, FadesTurns
    <3> QED BY <1>0, <1>26, <3>1, <3>2, DoesCreateSession
  <2> QED BY <1>0, <2>1, <2>2, <2>4, TurnElsewhere
<1>27. CASE Protect("protectTarget", "placeTarget")
  <2>1. UNCHANGED <<reg, db, user>>
    BY <1>27 DEF Protect
  <2>2. sw'.pc \notin Settling
    BY <1>0, <1>27, SwitchPlacesNamed, DoesProtect DEF Settling, SwitchGoes
  <2>3. db'.cur = db.cur /\ db'.gen = db.gen /\ db'.running = db.running
    BY <1>0, <1>27, <2>1, DoesProtect
  <2> QED BY <1>0, <1>s, <2>1, <2>2, <2>3, TurnElsewhere DEF SwitchSettles
<1>28. CASE PlaceLease("placeTarget", "switchTarget", "insert")
  <2>1. UNCHANGED <<reg, db, user>>
    BY <1>28 DEF PlaceLease
  <2>2. sw'.pc \notin Settling
    BY <1>0, <1>28, SwitchPlacesNamed, DoesPlaceLease DEF Settling, SwitchGoes
  <2>3. db'.cur = db.cur /\ db'.gen = db.gen /\ db'.running = db.running
    BY <1>0, <1>28, <2>1, DoesPlaceLease
  <2> QED BY <1>0, <1>s, <2>1, <2>2, <2>3, TurnElsewhere DEF SwitchSettles
<1>29. CASE InsertBinding
  <2>1. UNCHANGED <<reg, user>>
    BY <1>29 DEF InsertBinding
  <2>2. sw'.pc \notin Settling
    BY <1>0, <1>29, DoesInsertBinding DEF Settling, SwitchGoes
  <2>3. db'.cur = db.cur /\ db'.gen = db.gen /\ db'.running = db.running
    BY <1>0, <1>29, <2>1, DoesInsertBinding
  <2> QED BY <1>0, <1>s, <2>1, <2>2, <2>3, TurnElsewhere DEF SwitchSettles
<1>30. CASE ClosePrompts("closeToCommit", "commitIdle")
  <2>1. "closeToCommit" \in PreCommit /\ "commitIdle" \in PreCommit
    BY SwitchPlacesNamed
  <2>2. UNCHANGED <<db, user>> /\ SetsGate(TRUE) /\ sw'.pc = "commitIdle"
    BY <1>0, <1>30, <2>1, DoesClosePrompts DEF ClosePrompts, SwitchGoes
  <2> QED BY <1>0, <2>2, TurnSets
<1>31. CASE WaitIdle("commitIdle", "revalidate")
  <2>1. "commitIdle" \in PreCommit /\ "revalidate" \in PreCommit
    BY SwitchPlacesNamed
  <2>2. UNCHANGED <<db, user>> /\ sw.pc = "commitIdle"
    BY <1>31 DEF WaitIdle, AtSwitch
  <2>3. CASE Busy
    <3>1. SetPromptGate(TRUE) /\ sw' = sw
      BY <1>31, <2>3 DEF WaitIdle
    <3> QED BY <1>0, <2>2, <3>1, DoesSetGate, TurnSets
  <2>4. CASE ~Busy
    <3>1. UNCHANGED <<reg, slip, fenced>> /\ GotoSwitch("revalidate")
      BY <1>31, <2>4 DEF WaitIdle
    <3>2. sw'.pc = "revalidate" /\ sw'.src = sw.src
      BY <1>0, <2>1, <2>2, <3>1, GotoSwitchStep, SwitchPlaces DEF TypeInv, SwitchCarries
    <3>3. \A c \in Bindings \cap {sw.src, reg.cur} : ~reg.att[c].turn
      BY <1>0, <2>1, <2>2, <2>4, SeenIdle DEF TargetIsNew
    <3>4. Settled'
      BY <2>2, <3>1, <3>2, <3>3 DEF TurnInv, Settled, Settling
    <3> QED BY <2>2, <3>1, <3>4 DEF TurnInv, TurnIsDispatched, RunningMarked, DurableTurn
  <2> QED BY <2>3, <2>4
<1>32. CASE Revalidate
  <2>1. UNCHANGED <<reg, db, user, fenced, slip>> /\ sw.pc = "revalidate"
    BY <1>32 DEF Revalidate, AtSwitch
  <2>2. SwitchSettles
    BY <1>0, <1>32, <2>1, DoesRevalidate DEF SwitchSettles, Settling, SwitchCarries
  <2> QED BY <1>0, <1>s, <2>1, <2>2, TurnElsewhere
<1>33. CASE Commit
  BY <1>33, TurnCommits
<1>34. CASE ActivationFails
  <2>1. UNCHANGED <<reg, db>> /\ Finishes
    BY <1>0, <1>34, DoesActivationFail DEF ActivationFails
  <2> QED BY <1>0, <2>1, FadesStays, TurnEnds
<1>35. CASE ReadGateForTarget
  <2>1. UNCHANGED <<reg, db, user>>
    BY <1>35 DEF ReadGateForTarget
  <2>2. sw'.pc \notin Settling
    BY <1>0, <1>35, DoesReadGate DEF Settling, SwitchGoes
  <2>3. db'.cur = db.cur /\ db'.gen = db.gen /\ db'.running = db.running
    BY <1>0, <1>35, <2>1, DoesReadGate
  <2> QED BY <1>0, <1>s, <2>1, <2>2, <2>3, TurnElsewhere DEF SwitchSettles
<1>36. CASE ActivateTarget
  BY <1>36, TurnActivatesTarget
<1>37. CASE OpenPrompts
  <2>1. db' = db /\ Finishes /\ Fades(reg, reg')
    BY <1>0, <1>37, DoesReopen DEF Reopens, SetsGate
  <2> QED BY <2>1, TurnEnds
<1>38. CASE FailSwitch
  <2>1. UNCHANGED <<reg, user>>
    BY <1>38 DEF FailSwitch
  <2>2. sw'.pc \notin Settling
    BY <1>0, <1>38, DoesFailSwitch DEF Settling, SwitchGoes
  <2>3. db'.cur = db.cur /\ db'.gen = db.gen /\ db'.running = db.running
    BY <1>0, <1>38, <2>1, DoesFailSwitch
  <2> QED BY <1>0, <1>s, <2>1, <2>2, <2>3, TurnElsewhere DEF SwitchSettles
<1>39. CASE CleanupTarget
  <2>1. UNCHANGED <<db, user>>
    BY <1>39 DEF CleanupTarget
  <2>2. SwitchSettles /\ Fades(reg, reg')
    BY <1>0, <1>39, DoesCleanup DEF SwitchSettles, Settling
  <2> QED BY <1>0, <2>1, <2>2, FadesTurns, TurnElsewhere
<1>40. CASE ReopenPrompts
  <2>1. db' = db /\ Finishes /\ Fades(reg, reg')
    BY <1>0, <1>40, DoesReopen DEF Reopens, SetsGate
  <2> QED BY <2>1, TurnEnds
<1>41. CASE AdmitTurn
  <2>1. UNCHANGED <<sw, fenced, slip>> /\ user["dispatch"].pc = "admit"
    BY <1>41 DEF AdmitTurn, AtUser
  <2>2. /\ user'["dispatch"].pc \in Dispatched => db'.running
        /\ user'["dispatch"].pc # "begin"
    BY <1>0, <1>41, DoesAdmitTurn DEF Stops, Dispatched
  <2>3. reg' = reg
    BY <1>41 DEF AdmitTurn
  <2> QED BY <1>0, <1>s, <2>1, <2>2, <2>3, NoTurns, TurnDispatch
<1>42. CASE SendTurn
  <2>1. UNCHANGED <<sw, fenced, slip>> /\ user["dispatch"].pc = "send"
    BY <1>42 DEF SendTurn, AtUser
  <2>2. /\ user'["dispatch"].pc \in Dispatched => db'.running
        /\ user'["dispatch"].pc # "begin" /\ TurnsOnlyEnd
    BY <1>0, <1>42, <2>1, DoesSendTurn, FadesTurns
       DEF Stops, Dispatched, TurnInv, RunningMarked
  <2> QED BY <1>0, <2>1, <2>2, NoTurns, TurnDispatch
<1>43. CASE AcquirePrompt
  <2>1. UNCHANGED <<sw, fenced, slip>> /\ user["dispatch"].pc = "prompt"
    BY <1>43 DEF AcquirePrompt, AtUser
  <2>2. /\ user'["dispatch"].pc \in Dispatched => db'.running
        /\ TurnsOnlyEnd
        /\ user'["dispatch"].pc = "begin" => PromptAdmitted(user["dispatch"].b, user["dispatch"].p)
    BY <1>0, <1>43, <2>1, DoesAcquirePrompt, FadesTurns
       DEF Stops, Dispatched, TurnInv, RunningMarked
  <2>3. user["dispatch"].b \in Bindings
    BY <1>0, <2>1, UserPlaces, UserNames, SwitchPlacesNamed DEF TypeInv
  <2>4. ASSUME user'["dispatch"].pc = "begin", ~slip.prompt, ~slip.gate, sw.pc \in Settling
        PROVE  FALSE
    <3>1. reg.cur # NoBinding /\ ~reg.att[reg.cur].closed
      BY <2>2, <2>3, <2>4, Numbers DEF PromptAdmitted, IsCurrentFence
    <3> QED BY <2>4, <3>1 DEF FenceInv, TurnInv, Settled
  <2> QED BY <1>0, <2>1, <2>2, <2>4, NoTurns, TurnDispatch
<1>44. CASE BeginTurn
  <2>1. UNCHANGED <<sw, fenced, slip>> /\ user["dispatch"].pc = "begin"
    BY <1>44 DEF BeginTurn, AtUser
  <2>2. CASE Stops(FALSE) /\ Fades(reg, reg')
    <3>1. user'["dispatch"].pc = "idle" /\ TurnsOnlyEnd
      BY <2>2, FadesTurns DEF Stops
    <3> QED BY <1>0, <2>1, <3>1, NoTurns, TurnDispatch DEF Dispatched
  <2>3. CASE /\ user'["dispatch"].pc = "turn" /\ Carries("dispatch") /\ db' = db
             /\ IsCurrentFence(user["dispatch"].b, user["dispatch"].p)
             /\ reg'.cur = reg.cur
             /\ \A c \in Bindings :
                  /\ c # user["dispatch"].b => reg'.att[c] = reg.att[c]
                  /\ reg'.att[c].p = reg.att[c].p /\ reg'.att[c].gen = reg.att[c].gen
    <3>1. ASSUME NEW c \in Bindings, reg'.att[c].turn PROVE c = user["dispatch"].b
      BY <2>1, <2>3, <3>1 DEF TurnInv, TurnIsDispatched
    <3>2. TurnIsDispatched'
      BY <2>3, <3>1 DEF TurnIsDispatched, Carries, IsCurrentFence
    <3>3. RunningMarked'
      BY <2>1, <2>3 DEF TurnInv, RunningMarked, Dispatched
    <3>4. DurableTurn'
      BY <1>0, <2>3, <3>1, QuietNumbers DEF DurableTurn, CurInv, IsCurrentFence
    <3>5. Settled'
      BY <2>1, <2>3 DEF TurnInv, Settled, Settling
    <3> QED BY <3>2, <3>3, <3>4, <3>5 DEF TurnInv
  <2> QED BY <1>0, <1>44, <2>2, <2>3, DoesBeginTurn
<1>45. CASE EndTurn
  <2>1. UNCHANGED <<sw, fenced, slip>> /\ user["dispatch"].pc = "turn"
    BY <1>45 DEF EndTurn, AtUser
  <2>2. /\ user'["dispatch"].pc = "idle" /\ TurnsOnlyEnd /\ user["dispatch"].b \in Bindings
        /\ reg'.att[user["dispatch"].b].turn =>
             reg.att[user["dispatch"].b].p # user["dispatch"].p
    BY <1>0, <1>45, DoesEndTurn, FadesTurns DEF Stops
  <2>3. ASSUME NEW c \in Bindings, reg'.att[c].turn PROVE FALSE
    BY <2>2, <2>3 DEF TurnInv, TurnIsDispatched, TurnsOnlyEnd
  <2> QED BY <1>0, <2>1, <2>2, <2>3, TurnDispatch DEF Dispatched
<1>46. CASE Tick
  <2>1. UNCHANGED <<reg, db, user, sw, fenced, slip>>
    BY <1>46 DEF Tick
  <2> QED BY <1>0, <1>s, <1>u, <2>1, TurnElsewhere
<1>47. CASE StartSweep
  <2>1. UNCHANGED <<reg, db, user, sw, fenced, slip>>
    BY <1>47 DEF StartSweep
  <2> QED BY <1>0, <1>s, <1>u, <2>1, TurnElsewhere
<1>48. CASE DetachSwept
  <2>1. UNCHANGED <<db, user, sw, fenced, slip>> /\ Fades(reg, reg')
    BY <1>0, <1>48, DoesDetachSwept DEF DetachSwept, Fault
  <2> QED BY <1>0, <1>u, <2>1, FadesTurns, TurnElsewhere
<1>49. CASE EndSweep
  <2>1. UNCHANGED <<reg, db, user, sw, fenced, slip>>
    BY <1>49 DEF EndSweep
  <2> QED BY <1>0, <1>s, <1>u, <2>1, TurnElsewhere
<1>50. CASE ShutdownAuthSource
  <2>1. UNCHANGED <<db, user, sw, fenced, slip>> /\ Fades(reg, reg')
    BY <1>0, <1>50, DoesShutdown DEF ShutdownAuthSource, Fault
  <2> QED BY <1>0, <1>u, <2>1, FadesTurns, TurnElsewhere
<1>51. CASE RaiseRevision
  <2>1. UNCHANGED <<reg, db, user, sw, fenced, slip>>
    BY <1>51 DEF RaiseRevision
  <2> QED BY <1>0, <1>s, <1>u, <2>1, TurnElsewhere
<1>52. ASSUME NEW b \in Bindings, ClaimClose(b) PROVE TurnInv'
  <2>1. UNCHANGED <<db, user, sw, fenced, slip>> /\ Fades(reg, reg')
    BY <1>0, <1>52, DoesClaimClose DEF ClaimClose, Fault
  <2> QED BY <1>0, <1>u, <2>1, FadesTurns, TurnElsewhere
<1>53. ASSUME NEW p \in Processes, ExitProcess(p) PROVE TurnInv'
  <2>1. UNCHANGED <<db, user, sw, fenced, slip>> /\ Fades(reg, reg')
    BY <1>0, <1>53, DoesExit DEF ExitProcess, Fault
  <2> QED BY <1>0, <1>u, <2>1, FadesTurns, TurnElsewhere
<1>54. ASSUME NEW b \in Bindings, NoticeCrash(b) PROVE TurnInv'
  <2>1. UNCHANGED <<db, user, sw, fenced, slip>> /\ Fades(reg, reg')
    BY <1>0, <1>54, DoesNotice DEF NoticeCrash, Fault
  <2> QED BY <1>0, <1>u, <2>1, FadesTurns, TurnElsewhere
<1> QED BY <1>1, <1>2, <1>3, <1>4, <1>5, <1>6, <1>7, <1>8, <1>9, <1>10, <1>11, <1>12, <1>13, <1>14, <1>15, <1>16, <1>17, <1>18, <1>19, <1>20, <1>21, <1>22, <1>23, <1>24, <1>25, <1>26, <1>27, <1>28, <1>29, <1>30, <1>31, <1>32, <1>33, <1>34, <1>35, <1>36, <1>37, <1>38, <1>39, <1>40, <1>41, <1>42, <1>43, <1>44, <1>45, <1>46, <1>47, <1>48, <1>49, <1>50, <1>51, <1>52, <1>53, <1>54
       DEF Next, Materialise, DriveSwitch, Turn, Sweep

LEMMA TurnAlways == Spec => []TurnInv
<1>1. Init => TurnInv
  <2> SUFFICES ASSUME Init PROVE TurnInv
    OBVIOUS
  <2>1. \A b \in Bindings : reg.att[b].turn = FALSE
    BY DEF Init, NoAttachment
  <2>2. db.cur = 1 /\ 1 \in Bindings
    BY Numbers DEF Init
  <2>3. sw.pc = "idle" /\ user["dispatch"].pc = "idle"
    BY NoSwitchType, RestingType, SwitchPlacesNamed DEF Init
  <2> QED BY <2>1, <2>2, <2>3
          DEF TurnInv, TurnIsDispatched, RunningMarked, DurableTurn, Settled, Dispatched, Settling
<1>2. BaseInv /\ QuietInv /\ FenceInv /\ TurnInv /\ [Next]_vars => TurnInv'
  <2> SUFFICES ASSUME BaseInv, QuietInv, FenceInv, TurnInv, [Next]_vars PROVE TurnInv'
    OBVIOUS
  <2>1. CASE UNCHANGED vars
    BY <2>1 DEF vars, TurnInv, TurnIsDispatched, RunningMarked, DurableTurn, Settled
  <2> QED BY <2>1, TurnStep
<1> QED BY <1>1, <1>2, BaseAlways, QuietAlways, FenceAlways, PTL DEF Spec

\* A switch commits while no turn runs on its source or on the current attachment, unless
\* the last closing of prompts came too late for a prompt already acquired or for an
\* activation that had read the set: prompts are closed before the session is probed for
\* the last time, and what is activated after that is closed too (ensure_commit_idle,
\* set_session_prompt_gate, activate_attachment).
THEOREM CommitsMeetNoTurn == Spec => CommitMeetsNoTurn
<1>1. TurnInv /\ [Next]_vars =>
        [AtSwitch("commit") /\ sw'.pc = "fit" /\ ~slip.prompt /\ ~slip.gate
           => \A b \in Bindings \cap {sw.src, reg.cur} : ~reg.att[b].turn]_vars
  BY DEF TurnInv, Settled, AtSwitch
<1> QED BY <1>1, TurnAlways, PTL DEF Spec, CommitMeetsNoTurn

=============================================================================
