----------------------- MODULE RuntimeSwitchTypeProofs -----------------------
(***************************************************************************)
(* The types of the switch saga: what every step writes to the rows, to the *)
(* record of its driver and to the other tasks.                            *)
(***************************************************************************)
EXTENDS RuntimeSwitch, FiniteSetTheorems, TLAPS

-----------------------------------------------------------------------------
(* The inductive invariant. *)

OpPcs == {"begin", "answer", "send", "sent", "mark"}

UsedTypeOK == used \in [crashes : Nat, stalls : Nat, turns : Nat, cancels : Nat]

\* A cancellation under way names a switch and a process.
CancelNames == can.pc # "idle" => can.s \in Switches /\ can.w \in Workers

\* A driver that interrupts its course knows where to go on.
Resumable(d) ==
    /\ d.pc = "work" => d.then \in {"prepare", "revalidate"}
    /\ d.pc = "recheck" \/ (d.pc \in OpPcs /\ d.op = "cancel")
         => d.then \in {"fence", "prepare", "revalidate"}
    /\ d.pc = "revert" => d.then \in {"loop", "error"}

Resumes == \A w \in Workers : Resumable(drv[w])

TypeInv == SwitchTypeOK /\ UsedTypeOK /\ CancelNames /\ Resumes

-----------------------------------------------------------------------------
(* Types.  The rows, the drivers and what the steps write to them. *)

RowRec ==
    [stage : Stage, runtime : Runtimes, created : Nat, source : Bindings,
     sourceRevision : Nat, selRevision : Nat, target : Bindings,
     policy : {"wait", "cancel", "reject"}, owner : Owners, activated : BOOLEAN]

SesRec ==
    [revision : Nat, selRevision : Nat, current : Bindings,
     pending : Switches \cup {NoSwitch}, desired : Runtimes, effective : Runtimes,
     status : {"ready", "waiting", "preparing", "failed"}]

JournalRec == [n : Nat, st : {"none", "about", "done", "failed", "ambiguous"}]

DrvRec ==
    [pc : Pcs, s : Switches \cup {NoSwitch}, op : OpKinds, n : Nat, ok : BOOLEAN,
     seen : Stage, then : Pcs]

StoreTypeOK ==
    /\ ses \in SesRec
    /\ row \in [Switches -> RowRec]
    /\ jr \in [Switches -> [OpKinds -> JournalRec]]
    /\ bind \in [Bindings -> {"none", "preparing", "current", "inactive", "failed"}]

DrvTypeOK ==
    /\ drv \in [Workers -> DrvRec]
    /\ \A w \in Workers : drv[w].s = NoSwitch <=> drv[w].pc = "idle"

TaskTypeOK ==
    /\ made \in [Switches -> Nat]
    /\ busy \in BOOLEAN
    /\ gate \in SUBSET Workers
    /\ can \in [pc : {"idle", "direct", "lease", "locked", "release"},
                s : Switches \cup {NoSwitch}, w : Workers \cup {NoOwner}, seen : Stage]
    /\ watch \in [Workers -> [Switches -> {"none", "once", "watch"}]]
    /\ boot \in [Workers -> [on : BOOLEAN, pending : SUBSET Switches, left : SUBSET Switches]]

LEMMA TypeParts ==
    /\ SwitchTypeOK <=> StoreTypeOK /\ DrvTypeOK /\ TaskTypeOK
    /\ SwitchTypeOK' <=> StoreTypeOK' /\ DrvTypeOK' /\ TaskTypeOK'
  BY DEF SwitchTypeOK, StoreTypeOK, DrvTypeOK, TaskTypeOK, SesRec, RowRec, JournalRec, DrvRec

LEMMA IdNames ==
    /\ NoSwitch \notin Switches /\ SourceBinding \notin Switches
    /\ Switches \subseteq Bindings /\ SourceBinding \in Bindings
    /\ Workers \subseteq Owners /\ {NoOwner, Orphan, Canceller} \subseteq Owners
    /\ {NoOwner, Orphan, Canceller} \cap Workers = {}
  BY SwitchAssumption DEF Bindings, Owners

LEMMA StageNames ==
    /\ Held \subseteq Stage /\ Terminal \subseteq Stage /\ Held \cap Terminal = {}
  BY DEF Stage, Held, Terminal

\* A driver on its way drives a switch.
LEMMA Driving ==
    ASSUME DrvTypeOK, NEW w \in Workers, drv[w].pc # "idle"
    PROVE  drv[w] \in DrvRec /\ drv[w].s \in Switches
  BY DEF DrvTypeOK, DrvRec

DriversOK == DrvTypeOK /\ Resumes

\* A step that replaces the record of one driver.
LEMMA StepKeeps ==
    ASSUME DriversOK, NEW w \in Workers, NEW d \in DrvRec, d.s \in Switches, d.pc # "idle",
           Resumable(d), drv' = [drv EXCEPT ![w] = d]
    PROVE  DriversOK'
<1>1. drv' \in [Workers -> DrvRec]
  BY DEF DriversOK, DrvTypeOK
<1>2. \A v \in Workers : drv'[v] = IF v = w THEN d ELSE drv[v]
  BY DEF DriversOK, DrvTypeOK
<1>3. DrvTypeOK'
  BY <1>1, <1>2, IdNames DEF DriversOK, DrvTypeOK
<1>4. Resumes'
  BY <1>2 DEF DriversOK, Resumes
<1> QED BY <1>3, <1>4 DEF DriversOK

\* The fields of a driver's record that the steps write.
LEMMA DrvWrites ==
    ASSUME NEW d \in DrvRec, NEW pc \in Pcs
    PROVE  /\ [d EXCEPT !.pc = pc] \in DrvRec
           /\ \A then \in Pcs : [d EXCEPT !.pc = pc, !.then = then] \in DrvRec
           /\ \A x \in Stage : [d EXCEPT !.pc = pc, !.seen = x] \in DrvRec
           /\ \A ok \in BOOLEAN : [d EXCEPT !.pc = pc, !.ok = ok] \in DrvRec
           /\ \A n \in Nat : [d EXCEPT !.pc = pc, !.n = n] \in DrvRec
<1>1. [d EXCEPT !.pc = pc] \in DrvRec
  BY DEF DrvRec
<1>2. ASSUME NEW then \in Pcs PROVE [d EXCEPT !.pc = pc, !.then = then] \in DrvRec
  BY DEF DrvRec
<1>3. ASSUME NEW x \in Stage PROVE [d EXCEPT !.pc = pc, !.seen = x] \in DrvRec
  BY DEF DrvRec
<1>4. ASSUME NEW ok \in BOOLEAN PROVE [d EXCEPT !.pc = pc, !.ok = ok] \in DrvRec
  BY DEF DrvRec
<1>5. ASSUME NEW n \in Nat PROVE [d EXCEPT !.pc = pc, !.n = n] \in DrvRec
  BY DEF DrvRec
<1> QED BY <1>1, <1>2, <1>3, <1>4, <1>5

LEMMA DrvOpWrites ==
    ASSUME NEW d \in DrvRec, NEW pc \in Pcs, NEW op \in OpKinds
    PROVE  /\ \A then \in Pcs : [d EXCEPT !.pc = pc, !.op = op, !.then = then] \in DrvRec
           /\ \A n \in Nat : [d EXCEPT !.pc = pc, !.op = op, !.n = n] \in DrvRec
           /\ [d EXCEPT !.pc = pc, !.op = op, !.n = 0, !.ok = FALSE] \in DrvRec
<1>1. ASSUME NEW then \in Pcs PROVE [d EXCEPT !.pc = pc, !.op = op, !.then = then] \in DrvRec
  BY DEF DrvRec
<1>2. ASSUME NEW n \in Nat PROVE [d EXCEPT !.pc = pc, !.op = op, !.n = n] \in DrvRec
  BY DEF DrvRec
<1>3. [d EXCEPT !.pc = pc, !.op = op, !.n = 0, !.ok = FALSE] \in DrvRec
  BY DEF DrvRec
<1> QED BY <1>1, <1>2, <1>3

\* A driver that goes on with a fresh record to a step that resumes nothing.
FreshPcs == Pcs \ {"idle", "work", "recheck", "revert"}

LEMMA FreshRecord ==
    ASSUME NEW s \in Switches, NEW pc \in FreshPcs, NEW op \in OpKinds
    PROVE  /\ [Idle EXCEPT !.pc = pc, !.s = s] \in DrvRec
           /\ [Idle EXCEPT !.pc = pc, !.s = s, !.op = op] \in DrvRec
<1>1. "spawn" \in OpKinds /\ "absent" \in Stage /\ "idle" \in Pcs /\ pc \in Pcs
  BY DEF OpKinds, Stage, Pcs, FreshPcs
<1> QED BY <1>1 DEF DrvRec, Idle

LEMMA GotoKeeps ==
    ASSUME DriversOK, NEW w \in Workers, NEW pc \in FreshPcs, drv[w].pc # "idle",
           Goto(w, pc)
    PROVE  DriversOK'
<1> DEFINE d == [Idle EXCEPT !.pc = pc, !.s = drv[w].s]
<1>1. drv[w].s \in Switches /\ "spawn" \in OpKinds
  BY Driving DEF DriversOK, OpKinds
<1>2. d \in DrvRec
  BY <1>1, FreshRecord
<1>3. d.pc = pc /\ d.s = drv[w].s /\ d.op = "spawn"
  BY DEF Idle
<1>4. Resumable(d)
  BY <1>3 DEF Resumable, FreshPcs
<1>5. drv' = [drv EXCEPT ![w] = d] /\ pc # "idle"
  BY DEF Goto, FreshPcs
<1> HIDE DEF d
<1> QED BY <1>1, <1>2, <1>3, <1>4, <1>5, StepKeeps

LEMMA BeginKeeps ==
    ASSUME DriversOK, NEW w \in Workers, NEW op \in OpKinds \ {"cancel"}, drv[w].pc # "idle",
           Begin(w, op)
    PROVE  DriversOK'
<1> DEFINE d == [Idle EXCEPT !.pc = "begin", !.s = drv[w].s, !.op = op]
<1>1. drv[w].s \in Switches /\ "begin" \in FreshPcs
  BY Driving DEF DriversOK, FreshPcs, Pcs
<1>2. d \in DrvRec
  BY <1>1, FreshRecord
<1>3. d.pc = "begin" /\ d.s = drv[w].s /\ d.op = op
  BY DEF Idle
<1>4. Resumable(d)
  BY <1>3 DEF Resumable
<1>5. drv' = [drv EXCEPT ![w] = d]
  BY DEF Begin
<1> HIDE DEF d
<1> QED BY <1>1, <1>2, <1>3, <1>4, <1>5, StepKeeps

LEMMA StopKeeps ==
    ASSUME DriversOK, NEW w \in Workers, Stop(w)
    PROVE  DriversOK'
<1>1. "spawn" \in OpKinds /\ "absent" \in Stage /\ "idle" \in Pcs
  BY DEF OpKinds, Stage, Pcs
<1>2. DrvTypeOK'
  BY <1>1, IdNames DEF DriversOK, DrvTypeOK, DrvRec, Stop, Idle
<1>3. \A v \in Workers : drv'[v] = IF v = w THEN Idle ELSE drv[v]
  BY DEF DriversOK, DrvTypeOK, Stop
<1>4. Resumable(Idle)
  BY DEF Resumable, Idle, OpPcs
<1>5. Resumes'
  BY <1>3, <1>4 DEF DriversOK, Resumes
<1> QED BY <1>2, <1>5 DEF DriversOK

\* finish_without_commit touches one row and the session.
LEMMA FinishKeeps ==
    ASSUME StoreTypeOK, NEW s \in Switches, NEW outcome \in Terminal,
           FinishWithoutCommit(s, outcome)
    PROVE  /\ ses' \in SesRec /\ row' \in [Switches -> RowRec]
           /\ row' = [row EXCEPT ![s].stage = outcome]
           /\ ses'.pending = IF ses.pending = s THEN NoSwitch ELSE ses.pending
           /\ ses'.current = ses.current /\ ses'.revision = ses.revision
           /\ ses'.selRevision = ses.selRevision /\ ses'.effective = ses.effective
<1>1. outcome \in Stage
  BY StageNames
<1>2. row' = [row EXCEPT ![s].stage = outcome]
  BY DEF FinishWithoutCommit
<1>3. row' \in [Switches -> RowRec]
  BY <1>1, <1>2, ZenonT(60) DEF StoreTypeOK, RowRec
<1>4. ses' \in SesRec
  BY DEF FinishWithoutCommit, StoreTypeOK, SesRec
<1> QED BY <1>2, <1>3, <1>4 DEF FinishWithoutCommit, StoreTypeOK, SesRec

RowTypeOK == row \in [Switches -> RowRec]

\* The columns the steps write.
LEMMA RowWrites ==
    ASSUME RowTypeOK, NEW s \in Switches
    PROVE  /\ \A x \in Stage : [row EXCEPT ![s].stage = x] \in [Switches -> RowRec]
           /\ \A o \in Owners : [row EXCEPT ![s].owner = o] \in [Switches -> RowRec]
           /\ \A b \in Bindings : [row EXCEPT ![s].target = b] \in [Switches -> RowRec]
           /\ [row EXCEPT ![s].activated = TRUE] \in [Switches -> RowRec]
<1>1. \A x \in Stage : [row[s] EXCEPT !.stage = x] \in RowRec
  BY DEF RowTypeOK, RowRec
<1>2. \A o \in Owners : [row[s] EXCEPT !.owner = o] \in RowRec
  BY DEF RowTypeOK, RowRec
<1>3. \A b \in Bindings : [row[s] EXCEPT !.target = b] \in RowRec
  BY DEF RowTypeOK, RowRec
<1>4. [row[s] EXCEPT !.activated = TRUE] \in RowRec
  BY DEF RowTypeOK, RowRec
<1> QED BY <1>1, <1>2, <1>3, <1>4 DEF RowTypeOK

\* The session columns the steps write.
LEMMA SesWrites ==
    ASSUME ses \in SesRec
    PROVE  /\ \A s \in Switches \cup {NoSwitch} : [ses EXCEPT !.pending = s] \in SesRec
           /\ \A s, x : x \in {"waiting", "preparing"} => Projected(s, x) \in SesRec
  BY DEF SesRec, Projected

LEMMA SesCommits ==
    ASSUME ses \in SesRec, NEW b \in Bindings, NEW r \in Runtimes
    PROVE  [ses EXCEPT !.revision = @ + 1, !.current = b, !.effective = r,
                       !.status = "ready", !.pending = NoSwitch] \in SesRec
<1> DEFINE n == ses.revision + 1
<1>1. n \in Nat /\ NoSwitch \in Switches \cup {NoSwitch}
         /\ "ready" \in {"ready", "waiting", "preparing", "failed"}
  BY DEF SesRec
<1> HIDE DEF n
<1>2. [ses EXCEPT !.revision = n, !.current = b, !.effective = r,
                  !.status = "ready", !.pending = NoSwitch] \in SesRec
  BY <1>1 DEF SesRec
<1> QED BY <1>2 DEF n

LEMMA SesSelects ==
    ASSUME ses \in SesRec, NEW r \in Runtimes
    PROVE  [ses EXCEPT !.desired = r, !.status = "preparing", !.selRevision = @ + 1] \in SesRec
<1> DEFINE n == ses.selRevision + 1
<1>1. n \in Nat /\ "preparing" \in {"ready", "waiting", "preparing", "failed"}
  BY DEF SesRec
<1> HIDE DEF n
<1>2. [ses EXCEPT !.desired = r, !.status = "preparing", !.selRevision = n] \in SesRec
  BY <1>1 DEF SesRec
<1> QED BY <1>2 DEF n

LEMMA JournalWrites ==
    ASSUME StoreTypeOK, NEW s \in Switches, NEW op \in OpKinds
    PROVE  /\ \A st \in {"about", "done", "failed", "ambiguous"} :
                [jr EXCEPT ![s][op].st = st] \in [Switches -> [OpKinds -> JournalRec]]
           /\ Journaled(s, op) \in [Switches -> [OpKinds -> JournalRec]]
  BY DEF StoreTypeOK, JournalRec, Journaled

LEMMA BindWrites ==
    ASSUME StoreTypeOK
    PROVE  \A b \in Bindings : \A x \in {"preparing", "current", "inactive", "failed"} :
             [bind EXCEPT ![b] = x]
               \in [Bindings -> {"none", "preparing", "current", "inactive", "failed"}]
  BY DEF StoreTypeOK

LEMMA AmbiguousKeeps ==
    ASSUME StoreTypeOK, NEW w, drv[w].s \in Switches, NEW op \in OpKinds, Ambiguous(w, op)
    PROVE  /\ ses' \in SesRec /\ row' \in [Switches -> RowRec]
           /\ jr' \in [Switches -> [OpKinds -> JournalRec]]
<1>1. jr' \in [Switches -> [OpKinds -> JournalRec]]
  BY JournalWrites DEF Ambiguous
<1>2. CASE Live(drv[w].s)
  <2>1. "ambiguous" \in Terminal /\ FinishWithoutCommit(drv[w].s, "ambiguous")
    BY <1>2 DEF Terminal, Ambiguous
  <2> QED BY <1>1, <2>1, FinishKeeps
<1>3. CASE ~Live(drv[w].s)
  BY <1>1, <1>3 DEF Ambiguous, StoreTypeOK
<1> QED BY <1>2, <1>3

\* Every step of a driver keeps the types of the rows.
LEMMA DriverStores ==
    ASSUME TypeInv, NEW w \in Workers, DriverStep(w)
    PROVE  StoreTypeOK'
<1>0. StoreTypeOK /\ DrvTypeOK /\ RowTypeOK /\ ses \in SesRec
  BY TypeParts DEF TypeInv, StoreTypeOK, RowTypeOK
<1> DEFINE s == drv[w].s
<1>1. drv[w].pc # "idle" => s \in Switches /\ s \in Bindings /\ drv[w].op \in OpKinds
  BY <1>0, Driving, IdNames DEF DrvRec
<1>2. {"failed", "superseded"} \subseteq Terminal /\ Held \subseteq Stage /\ Terminal \subseteq Stage
  BY StageNames DEF Terminal
<1>3. CASE storeVars' = storeVars
  BY <1>0, <1>3 DEF StoreTypeOK, storeVars
<1>4. CASE ClaimRequested(w)
  <2>1. s \in Switches /\ "superseded" \in Stage /\ "reserved" \in Stage
    BY <1>1, <1>4 DEF ClaimRequested, At, Stage, Held, Terminal
  <2>2. /\ [row EXCEPT ![s].stage = "superseded"] \in [Switches -> RowRec]
        /\ [row EXCEPT ![s].stage = "reserved"] \in [Switches -> RowRec]
        /\ [ses EXCEPT !.pending = s] \in SesRec
    BY <1>0, <2>1, RowWrites, SesWrites
  <2>3. ses' \in SesRec /\ row' \in [Switches -> RowRec]
    BY <1>0, <1>4, <2>2 DEF ClaimRequested, RowTypeOK
  <2> QED BY <1>0, <1>4, <2>3 DEF StoreTypeOK, ClaimRequested
<1>5. CASE Disown(w) /\ FinishWithoutCommit(s, "superseded")
  <2>1. s \in Switches
    BY <1>1, <1>5 DEF Disown, At
  <2> QED BY <1>0, <1>2, <1>5, <2>1, FinishKeeps DEF StoreTypeOK, Disown, Supersede, SourceConflict, storeVars
<1>6. CASE StabilizeTarget(w)
  <2>1. s \in Switches /\ s \in Bindings /\ row[s].source \in Bindings
    BY <1>0, <1>1, <1>6 DEF StabilizeTarget, At, RowTypeOK, RowRec
  <2>2. \A b \in {s, row[s].source} : [row EXCEPT ![s].target = b] \in [Switches -> RowRec]
    BY <1>0, <2>1, RowWrites
  <2>3. row' = row \/ \E b \in {s, row[s].source} : row' = [row EXCEPT ![s].target = b]
    BY <1>6 DEF StabilizeTarget
  <2>4. row' \in [Switches -> RowRec]
    BY <1>0, <2>2, <2>3 DEF RowTypeOK
  <2> QED BY <1>0, <1>6, <2>4 DEF StoreTypeOK, StabilizeTarget
<1>7. CASE BeginWaiting(w)
  <2>1. s \in Switches /\ "waiting" \in Stage
    BY <1>1, <1>7 DEF BeginWaiting, At, Stage, Held
  <2>2. /\ [row EXCEPT ![s].stage = "waiting"] \in [Switches -> RowRec]
        /\ Projected(s, "waiting") \in SesRec
    BY <1>0, <2>1, RowWrites, SesWrites
  <2>3. ses' \in SesRec /\ row' \in [Switches -> RowRec]
    BY <1>0, <1>7, <2>2 DEF BeginWaiting, RowTypeOK
  <2> QED BY <1>0, <1>7, <2>3 DEF StoreTypeOK, BeginWaiting
<1>8. CASE AdvanceToPreparing(w)
  <2>1. s \in Switches /\ "preparing" \in Stage
    BY <1>1, <1>8 DEF AdvanceToPreparing, At, Stage, Held
  <2>2. /\ [row EXCEPT ![s].stage = "preparing"] \in [Switches -> RowRec]
        /\ Projected(s, "preparing") \in SesRec
    BY <1>0, <2>1, RowWrites, SesWrites
  <2>3. ses' \in SesRec /\ row' \in [Switches -> RowRec]
    BY <1>0, <1>8, <2>2 DEF AdvanceToPreparing, RowTypeOK
  <2> QED BY <1>0, <1>8, <2>3 DEF StoreTypeOK, AdvanceToPreparing
<1>9. CASE BeginOperation(w)
  <2>1. s \in Switches /\ drv[w].op \in OpKinds
    BY <1>1, <1>9 DEF BeginOperation, At
  <2>2. /\ [jr EXCEPT ![s][drv[w].op].st = "done"] \in [Switches -> [OpKinds -> JournalRec]]
        /\ Journaled(s, drv[w].op) \in [Switches -> [OpKinds -> JournalRec]]
    BY <1>0, <2>1, JournalWrites
  <2>3. CASE Ambiguous(w, drv[w].op)
    BY <1>0, <1>9, <2>1, <2>3, AmbiguousKeeps DEF StoreTypeOK, BeginOperation
  <2>4. CASE UNCHANGED <<ses, row>> /\ jr' \in {jr, [jr EXCEPT ![s][drv[w].op].st = "done"], Journaled(s, drv[w].op)}
    BY <1>0, <1>9, <2>2, <2>4 DEF StoreTypeOK, BeginOperation
  <2> QED BY <1>9, <2>3, <2>4 DEF BeginOperation
<1>10. CASE ReconcileOperation(w)
  <2>1. s \in Switches /\ drv[w].op \in OpKinds
    BY <1>1, <1>10 DEF ReconcileOperation, At
  <2>2. /\ [jr EXCEPT ![s][drv[w].op].st = "done"] \in [Switches -> [OpKinds -> JournalRec]]
        /\ Journaled(s, drv[w].op) \in [Switches -> [OpKinds -> JournalRec]]
    BY <1>0, <2>1, JournalWrites
  <2>3. CASE Ambiguous(w, drv[w].op)
    BY <1>0, <1>10, <2>1, <2>3, AmbiguousKeeps DEF StoreTypeOK, ReconcileOperation
  <2>4. CASE UNCHANGED <<ses, row>> /\ jr' \in {jr, [jr EXCEPT ![s][drv[w].op].st = "done"], Journaled(s, drv[w].op)}
    BY <1>0, <1>10, <2>2, <2>4 DEF StoreTypeOK, ReconcileOperation
  <2> QED BY <1>10, <2>3, <2>4 DEF ReconcileOperation
<1>11. CASE Answer(w)
  <2>1. s \in Switches /\ drv[w].op \in OpKinds /\ row[s].target \in Bindings
    BY <1>0, <1>1, <1>11 DEF Answer, At, RowTypeOK, RowRec
  <2>2. jr' \in [Switches -> [OpKinds -> JournalRec]]
    <3>1. [jr EXCEPT ![s][drv[w].op].st = "failed"] \in [Switches -> [OpKinds -> JournalRec]]
      BY <1>0, <2>1, JournalWrites
    <3> QED BY <1>0, <1>11, <3>1 DEF Answer, StoreTypeOK
  <2>3. bind' \in [Bindings -> {"none", "preparing", "current", "inactive", "failed"}]
    BY <1>0, <1>11, <2>1, BindWrites DEF Answer, StoreTypeOK
  <2> QED BY <1>0, <1>11, <2>2, <2>3 DEF StoreTypeOK, Answer
<1>12. CASE MarkSucceeded(w)
  <2>1. s \in Switches /\ drv[w].op \in OpKinds
    BY <1>1, <1>12 DEF MarkSucceeded, At
  <2>2. jr' \in [Switches -> [OpKinds -> JournalRec]]
    <3>1. [jr EXCEPT ![s][drv[w].op].st = "done"] \in [Switches -> [OpKinds -> JournalRec]]
      BY <1>0, <2>1, JournalWrites
    <3> QED BY <1>0, <1>12, <3>1 DEF MarkSucceeded, StoreTypeOK
  <2> QED BY <1>0, <1>12, <2>2 DEF StoreTypeOK, MarkSucceeded
<1>13. CASE AdvanceToPrepared(w) \/ AdvanceToCommitting(w)
  <2>1. s \in Switches /\ "prepared" \in Stage /\ "committing" \in Stage
    BY <1>1, <1>13 DEF AdvanceToPrepared, AdvanceToCommitting, At, Stage, Held
  <2>2. row' \in [Switches -> RowRec]
    <3>1. /\ [row EXCEPT ![s].stage = "prepared"] \in [Switches -> RowRec]
          /\ [row EXCEPT ![s].stage = "committing"] \in [Switches -> RowRec]
      BY <1>0, <2>1, RowWrites
    <3> QED BY <1>0, <1>13, <3>1 DEF AdvanceToPrepared, AdvanceToCommitting, RowTypeOK
  <2> QED BY <1>0, <1>13, <2>2 DEF StoreTypeOK, AdvanceToPrepared, AdvanceToCommitting
<1>14. CASE Commit(w)
  <2>1. /\ s \in Switches /\ "committed" \in Stage /\ "superseded" \in Stage
        /\ row[s].target \in Bindings /\ row[s].source \in Bindings /\ row[s].runtime \in Runtimes
    BY <1>0, <1>1, <1>14 DEF Commit, At, Stage, Terminal, RowTypeOK, RowRec
  <2>2. row' \in [Switches -> RowRec]
    <3>1. /\ [row EXCEPT ![s].stage = "committed"] \in [Switches -> RowRec]
          /\ [row EXCEPT ![s].stage = "superseded"] \in [Switches -> RowRec]
      BY <1>0, <2>1, RowWrites
    <3> QED BY <1>0, <1>14, <3>1 DEF Commit, RowTypeOK
  <2>3. bind' \in [Bindings -> {"none", "preparing", "current", "inactive", "failed"}]
    BY <1>0, <1>14, <2>1 DEF Commit, StoreTypeOK
  <2>4. ses' \in SesRec
    <3>1. [ses EXCEPT !.revision = @ + 1, !.current = row[s].target, !.effective = row[s].runtime,
                      !.status = "ready", !.pending = NoSwitch] \in SesRec
      BY <1>0, <2>1, SesCommits
    <3>2. [ses EXCEPT !.pending = IF @ = s THEN NoSwitch ELSE @] \in SesRec
      BY <1>0 DEF SesRec
    <3> QED BY <1>0, <1>14, <3>1, <3>2 DEF Commit
  <2> QED BY <1>0, <1>14, <2>2, <2>3, <2>4 DEF StoreTypeOK, Commit
<1>15. CASE Revert(w) \/ ConfirmCommitted(w)
  <2>1. s \in Switches /\ "prepared" \in Stage /\ "committed" \in Stage
    BY <1>1, <1>15 DEF Revert, ConfirmCommitted, At, Stage, Held, Terminal
  <2>2. row' \in [Switches -> RowRec]
    <3>1. /\ [row EXCEPT ![s].stage = "committed"] \in [Switches -> RowRec]
          /\ [row EXCEPT ![s].stage = "prepared"] \in [Switches -> RowRec]
      BY <1>0, <2>1, RowWrites
    <3> QED BY <1>0, <1>15, <3>1 DEF Revert, ConfirmCommitted, RowTypeOK
  <2>3. ses' \in SesRec
    BY <1>0, <1>15, SesWrites DEF Revert, ConfirmCommitted
  <2> QED BY <1>0, <1>15, <2>2, <2>3 DEF StoreTypeOK, Revert, ConfirmCommitted
<1>16. CASE Activate(w)
  <2>1. s \in Switches
    BY <1>1, <1>16 DEF Activate, At
  <2>2. row' \in [Switches -> RowRec]
    BY <1>0, <1>16, <2>1, RowWrites DEF Activate, RowTypeOK
  <2> QED BY <1>0, <1>16, <2>2 DEF StoreTypeOK, Activate
<1>17. CASE FailSwitch(w)
  <2>1. s \in Switches
    BY <1>1, <1>17 DEF FailSwitch, At
  <2>2. ses' \in SesRec /\ row' \in [Switches -> RowRec]
    BY <1>0, <1>2, <1>17, <2>1, FinishKeeps DEF FailSwitch, RowTypeOK
  <2> QED BY <1>0, <1>17, <2>2 DEF StoreTypeOK, FailSwitch
<1>18. CASE CleanUp(w)
  <2>1. s \in Switches /\ row[s].target \in Bindings
    BY <1>0, <1>1, <1>18 DEF CleanUp, At, RowTypeOK, RowRec
  <2>2. bind' \in [Bindings -> {"none", "preparing", "current", "inactive", "failed"}]
    BY <1>0, <1>18, <2>1, BindWrites DEF CleanUp, TargetFailed, StoreTypeOK
  <2> QED BY <1>0, <1>18, <2>2 DEF StoreTypeOK, CleanUp
<1>19. CASE Release(w)
  <2>1. s \in Switches /\ NoOwner \in Owners /\ row[s].owner \in Owners
    BY <1>0, <1>1, <1>19, IdNames DEF Release, At, RowTypeOK, RowRec
  <2>2. row' \in [Switches -> RowRec]
    BY <1>0, <1>19, <2>1, RowWrites DEF Release, Released, RowTypeOK
  <2> QED BY <1>0, <1>19, <2>2 DEF StoreTypeOK, Release
<1>20. CASE Disown(w) /\ ~FinishWithoutCommit(s, "superseded")
  BY <1>3, <1>20 DEF Disown, Supersede, SourceConflict, storeVars
<1>21. CASE \/ LeaseLost(w) \/ Dispatch(w) \/ SettleActiveWork(w) \/ Park(w)
             \/ Fence(w) \/ ProbeFenced(w) \/ EnsureCommitIdle(w) \/ Recheck(w)
             \/ ChooseStrategy(w) \/ Send(w) \/ Revalidate(w) \/ ReadFailed(w)
  BY <1>3, <1>21 DEF LeaseLost, Dispatch, SettleActiveWork, Park, Fence, ProbeFenced,
     EnsureCommitIdle, Recheck, ChooseStrategy, Send, Revalidate, ReadFailed, storeVars
<1> QED BY <1>4, <1>5, <1>6, <1>7, <1>8, <1>9, <1>10, <1>11, <1>12, <1>13, <1>14, <1>15,
     <1>16, <1>17, <1>18, <1>19, <1>20, <1>21 DEF DriverStep

\* A driver that turns to the cancellation of active work.
LEMMA CancelWorkKeeps ==
    ASSUME DriversOK, NEW w \in Workers, drv[w].pc # "idle",
           NEW then \in {"fence", "prepare", "revalidate"}, CancelWork(w, then)
    PROVE  DriversOK'
<1> DEFINE d == [drv[w] EXCEPT !.pc = "begin", !.op = "cancel", !.then = then]
<1>1. drv[w].s \in Switches /\ drv[w] \in DrvRec
  BY Driving DEF DriversOK
<1>2. "begin" \in Pcs /\ "cancel" \in OpKinds /\ then \in Pcs
  BY DEF Pcs, OpKinds
<1>3. d \in DrvRec
  BY <1>1, <1>2, DrvOpWrites
<1>4. d.pc = "begin" /\ d.s = drv[w].s /\ d.then = then
  BY <1>1 DEF DrvRec
<1>5. drv' = [drv EXCEPT ![w] = d]
  BY <1>1 DEF CancelWork, DriversOK, DrvTypeOK
<1>6. Resumable(d)
  BY <1>4 DEF Resumable
<1> HIDE DEF d
<1> QED BY <1>1, <1>3, <1>4, <1>5, <1>6, StepKeeps

\* What follows an operation that is done.
LEMMA ProceedKeeps ==
    ASSUME DriversOK, NEW w \in Workers, drv[w].pc \in OpPcs,
           Proceed(w, drv[w].op)
    PROVE  DriversOK'
<1>1. drv[w].pc # "idle" /\ drv[w].op \in OpKinds /\ drv[w].s \in Switches /\ drv[w] \in DrvRec
  BY Driving DEF DriversOK, OpPcs, DrvRec
<1> DEFINE pc == After(drv[w].s, drv[w].op)
<1>2. PICK next \in NextOp(drv[w].s, drv[w].op) :
         drv' = [drv EXCEPT ![w].pc = pc, ![w].op = next, ![w].n = 0, ![w].ok = FALSE]
  BY DEF Proceed
<1>3. /\ pc \in {"recheck", "prepared", "begin"}
      /\ pc = "recheck" <=> drv[w].op = "cancel"
      /\ next \in OpKinds /\ (next = "cancel" <=> drv[w].op = "cancel")
  BY <1>1, <1>2 DEF After, NextOp, OpKinds
<1>4. pc \in Pcs /\ pc # "idle"
  BY <1>3 DEF Pcs
<1> HIDE DEF pc
<1> DEFINE d == [drv[w] EXCEPT !.pc = pc, !.op = next, !.n = 0, !.ok = FALSE]
<1>5. d \in DrvRec
  BY <1>1, <1>3, <1>4, DrvOpWrites
<1>6. d.pc = pc /\ d.op = next /\ d.s = drv[w].s /\ d.then = drv[w].then
  BY <1>1 DEF DrvRec
<1>7. drv' = [drv EXCEPT ![w] = d]
  BY <1>1, <1>2 DEF DriversOK, DrvTypeOK
<1>8. drv[w].op = "cancel" => drv[w].then \in {"fence", "prepare", "revalidate"}
  BY DEF DriversOK, Resumes, Resumable
<1>9. Resumable(d)
  BY <1>3, <1>6, <1>8 DEF Resumable
<1> HIDE DEF d
<1> QED BY <1>1, <1>4, <1>5, <1>6, <1>7, <1>9, StepKeeps

\* The attempt at an operation goes on to its next point.
LEMMA AttemptKeeps ==
    ASSUME DriversOK, NEW w \in Workers, drv[w].pc \in OpPcs, NEW d \in DrvRec,
           d.pc \in OpPcs, d.op = drv[w].op, d.s = drv[w].s, d.then = drv[w].then,
           drv' = [drv EXCEPT ![w] = d]
    PROVE  DriversOK'
<1>1. drv[w].pc # "idle" /\ d.pc # "idle"
  BY DEF OpPcs
<1>2. drv[w].s \in Switches
  BY <1>1, Driving DEF DriversOK
<1>3. Resumable(drv[w])
  BY DEF DriversOK, Resumes
<1>4. Resumable(d)
  BY <1>3 DEF Resumable, OpPcs
<1> QED BY <1>1, <1>2, <1>4, StepKeeps

LEMMA ExecuteKeeps ==
    ASSUME DriversOK, NEW w \in Workers, drv[w].pc \in OpPcs, NEW n \in Nat,
           Execute(w, drv[w].op, n)
    PROVE  DriversOK'
<1>1. drv[w].pc # "idle" /\ "send" \in OpPcs /\ "send" \in Pcs
  BY DEF OpPcs, Pcs
<1>2. drv[w] \in DrvRec /\ drv[w].op \in OpKinds
  BY <1>1, Driving DEF DriversOK, DrvRec
<1> DEFINE d == [drv[w] EXCEPT !.pc = "send", !.op = drv[w].op, !.n = n]
<1>3. d \in DrvRec
  BY <1>1, <1>2, DrvOpWrites
<1>4. d.pc = "send" /\ d.op = drv[w].op /\ d.s = drv[w].s /\ d.then = drv[w].then
  BY <1>2 DEF DrvRec
<1>5. drv' = [drv EXCEPT ![w] = d]
  BY <1>2 DEF Execute, DriversOK, DrvTypeOK
<1> HIDE DEF d
<1> QED BY <1>1, <1>3, <1>4, <1>5, AttemptKeeps

\* Every step of a driver leaves its record in order.
LEMMA DriverMoves ==
    ASSUME TypeInv, NEW w \in Workers, DriverStep(w)
    PROVE  DriversOK'
<1>0. DriversOK /\ StoreTypeOK
  BY TypeParts DEF TypeInv, DriversOK
<1>1. drv[w].pc # "idle" => drv[w] \in DrvRec /\ drv[w].s \in Switches
  BY <1>0, Driving DEF DriversOK
<1>2. FreshPcs = {"loop", "target", "settle", "wait", "park", "fence", "advance", "fenced",
                  "prepare", "begin", "answer", "send", "sent", "mark", "prepared",
                  "revalidate", "committing", "commit", "reconcile", "activate", "error",
                  "fail", "clean", "release"}
  BY DEF FreshPcs, Pcs
<1>3. Resumable(drv[w])
  BY <1>0 DEF DriversOK, Resumes
<1>4. CASE UNCHANGED drv
  BY <1>0, <1>4 DEF DriversOK, DrvTypeOK, Resumes
<1>5. CASE LeaseLost(w) \/ Release(w)
  BY <1>0, <1>5, StopKeeps DEF LeaseLost, Release
<1>6. CASE ClaimRequested(w)
  BY <1>0, <1>2, <1>4, <1>6, GotoKeeps DEF ClaimRequested, At
<1>7. CASE Dispatch(w)
  <2>1. drv[w].pc # "idle"
    BY <1>7 DEF Dispatch, At
  <2> DEFINE then == IF row[drv[w].s].stage = "preparing" THEN "prepare" ELSE "revalidate"
             d == [drv[w] EXCEPT !.pc = "work", !.then = then]
  <2>2. CASE drv' = [drv EXCEPT ![w].pc = "work", ![w].then = then]
    <3>1. "work" \in Pcs /\ then \in Pcs /\ then \in {"prepare", "revalidate"}
      BY DEF Pcs
    <3> HIDE DEF then
    <3>2. d \in DrvRec
      BY <1>1, <2>1, <3>1, DrvWrites
    <3>3. d.pc = "work" /\ d.s = drv[w].s /\ d.then = then
      BY <1>1, <2>1 DEF DrvRec
    <3>4. drv' = [drv EXCEPT ![w] = d]
      BY <1>0, <2>2 DEF DriversOK, DrvTypeOK
    <3>5. Resumable(d)
      BY <3>1, <3>3 DEF Resumable, OpPcs
    <3> HIDE DEF d
    <3> QED BY <1>0, <1>1, <2>1, <3>2, <3>3, <3>4, <3>5, StepKeeps
  <2>3. CASE Goto(w, "release") \/ Goto(w, "reconcile") \/ Goto(w, "target") \/ Goto(w, "settle")
    BY <1>0, <1>2, <2>1, <2>3, GotoKeeps
  <2> QED BY <1>7, <2>2, <2>3 DEF Dispatch
<1>8. CASE Disown(w)
  <2>1. drv[w].pc # "idle" /\ Goto(w, "error")
    BY <1>8 DEF Disown, At, Supersede, SourceConflict
  <2> QED BY <1>0, <1>2, <2>1, GotoKeeps
<1>9. CASE StabilizeTarget(w) \/ BeginWaiting(w) \/ Park(w) \/ AdvanceToPreparing(w)
             \/ ProbeFenced(w) \/ AdvanceToPrepared(w) \/ Revalidate(w)
             \/ AdvanceToCommitting(w) \/ Activate(w) \/ CleanUp(w)
  <2>1. drv[w].pc # "idle"
    BY <1>9 DEF StabilizeTarget, BeginWaiting, Park, AdvanceToPreparing, ProbeFenced,
       AdvanceToPrepared, Revalidate, AdvanceToCommitting, Activate, CleanUp, At
  <2>2. \E pc \in FreshPcs : Goto(w, pc)
    <3>1. \E pc \in {"settle", "error", "park", "fenced", "loop", "committing", "commit",
                     "release"} : Goto(w, pc)
      BY <1>9 DEF StabilizeTarget, BeginWaiting, Park, AdvanceToPreparing, ProbeFenced,
         AdvanceToPrepared, Revalidate, AdvanceToCommitting, Activate, CleanUp
    <3> QED BY <1>2, <3>1
  <2> QED BY <1>0, <2>1, <2>2, GotoKeeps
<1>10. CASE SettleActiveWork(w)
  <2>1. drv[w].pc # "idle"
    BY <1>10 DEF SettleActiveWork, At
  <2>2. \/ CancelWork(w, "fence")
        \/ \E pc \in {"error", "wait", "fence"} : Goto(w, pc)
    BY <1>10 DEF SettleActiveWork, Reject
  <2> QED BY <1>0, <1>2, <2>1, <2>2, GotoKeeps, CancelWorkKeeps
<1>11. CASE EnsureCommitIdle(w)
  <2>1. drv[w].pc # "idle" /\ drv[w].then \in {"prepare", "revalidate"}
    BY <1>3, <1>11 DEF EnsureCommitIdle, At, Resumable
  <2>2. \/ CancelWork(w, drv[w].then) \/ UNCHANGED drv
        \/ \E pc \in {"error", drv[w].then} : Goto(w, pc)
    BY <1>11 DEF EnsureCommitIdle, Reject
  <2> QED BY <1>0, <1>2, <1>4, <2>1, <2>2, GotoKeeps, CancelWorkKeeps
<1>12. CASE Recheck(w)
  <2>1. drv[w].pc # "idle" /\ drv[w].then \in {"fence", "prepare", "revalidate"}
    BY <1>3, <1>12 DEF Recheck, At, Resumable
  <2>2. \E pc \in {"error", drv[w].then} : Goto(w, pc)
    BY <1>12 DEF Recheck
  <2> QED BY <1>0, <1>2, <2>1, <2>2, GotoKeeps
<1>13. CASE ChooseStrategy(w)
  <2>1. drv[w].pc # "idle" /\ {"mutate", "spawn"} \subseteq OpKinds \ {"cancel"}
    BY <1>13 DEF ChooseStrategy, At, OpKinds
  <2>2. Goto(w, "error") \/ \E op \in {"mutate", "spawn"} : Begin(w, op)
    BY <1>13 DEF ChooseStrategy
  <2> QED BY <1>0, <1>2, <2>1, <2>2, GotoKeeps, BeginKeeps
<1>14. CASE Fence(w)
  <2> DEFINE x == row[drv[w].s].stage
             d == [drv[w] EXCEPT !.pc = "advance", !.seen = x]
  <2>1. drv[w].pc # "idle" /\ "advance" \in Pcs
    BY <1>14 DEF Fence, At, Pcs
  <2>2. x \in Stage
    BY <1>0, <1>1, <2>1 DEF StoreTypeOK, RowRec
  <2> HIDE DEF x
  <2>3. d \in DrvRec
    BY <1>1, <2>1, <2>2, DrvWrites
  <2>4. d.pc = "advance" /\ d.s = drv[w].s
    BY <1>1, <2>1 DEF DrvRec
  <2>5. drv' = [drv EXCEPT ![w] = d]
    BY <1>0, <1>14 DEF Fence, DriversOK, DrvTypeOK, x
  <2>6. Resumable(d)
    BY <2>4 DEF Resumable, OpPcs
  <2> HIDE DEF d
  <2> QED BY <1>0, <1>1, <2>1, <2>3, <2>4, <2>5, <2>6, StepKeeps
<1>15. CASE BeginOperation(w) \/ ReconcileOperation(w)
  <2>1. drv[w].pc \in OpPcs /\ drv[w].pc # "idle"
    BY <1>15 DEF BeginOperation, ReconcileOperation, At, OpPcs
  <2>2. drv[w].op \in OpKinds /\ drv[w].n \in Nat /\ drv[w].s \in Switches
    BY <1>1, <2>1 DEF DrvRec
  <2>3. jr[drv[w].s][drv[w].op] \in JournalRec
    BY <1>0, <2>2 DEF StoreTypeOK
  <2> DEFINE n == jr[drv[w].s][drv[w].op].n
             d == [drv[w] EXCEPT !.pc = "answer", !.n = n]
  <2>4. n \in Nat /\ n + 1 \in Nat /\ drv[w].n + 1 \in Nat
    BY <2>2, <2>3 DEF JournalRec
  <2>5. \/ Goto(w, "error") \/ Proceed(w, drv[w].op)
        \/ Execute(w, drv[w].op, n + 1) \/ Execute(w, drv[w].op, drv[w].n + 1)
        \/ drv' = [drv EXCEPT ![w].pc = "answer", ![w].n = n]
    BY <1>15 DEF BeginOperation, ReconcileOperation, Skip, Ambiguous
  <2> HIDE DEF n
  <2>6. CASE drv' = [drv EXCEPT ![w].pc = "answer", ![w].n = n]
    <3>1. "answer" \in Pcs /\ "answer" \in OpPcs
      BY DEF Pcs, OpPcs
    <3>2. d \in DrvRec
      BY <1>1, <2>1, <2>4, <3>1, DrvWrites
    <3>3. d.pc = "answer" /\ d.op = drv[w].op /\ d.s = drv[w].s /\ d.then = drv[w].then
      BY <1>1, <2>1 DEF DrvRec
    <3>4. drv' = [drv EXCEPT ![w] = d]
      BY <1>0, <2>6 DEF DriversOK, DrvTypeOK
    <3> HIDE DEF d
    <3> QED BY <1>0, <2>1, <3>1, <3>2, <3>3, <3>4, AttemptKeeps
  <2> HIDE DEF d
  <2> QED BY <1>0, <1>2, <2>1, <2>4, <2>5, <2>6, GotoKeeps, ProceedKeeps, ExecuteKeeps
<1>16. CASE Send(w)
  <2>1. drv[w].pc \in OpPcs /\ drv[w].pc # "idle" /\ "sent" \in Pcs /\ "sent" \in OpPcs
    BY <1>16 DEF Send, At, OpPcs, Pcs
  <2>2. PICK ok \in BOOLEAN : drv' = [drv EXCEPT ![w].pc = "sent", ![w].ok = ok]
    BY <1>16 DEF Send
  <2> DEFINE d == [drv[w] EXCEPT !.pc = "sent", !.ok = ok]
  <2>3. d \in DrvRec
    BY <1>1, <2>1, DrvWrites
  <2>4. d.pc = "sent" /\ d.op = drv[w].op /\ d.s = drv[w].s /\ d.then = drv[w].then
    BY <1>1, <2>1 DEF DrvRec
  <2>5. drv' = [drv EXCEPT ![w] = d]
    BY <1>0, <2>2 DEF DriversOK, DrvTypeOK
  <2> HIDE DEF d
  <2> QED BY <1>0, <2>1, <2>3, <2>4, <2>5, AttemptKeeps
<1>17. CASE Answer(w)
  <2>1. drv[w].pc \in OpPcs /\ drv[w].pc # "idle" /\ "mark" \in Pcs /\ "mark" \in OpPcs
    BY <1>17 DEF Answer, At, OpPcs, Pcs
  <2>2. "create" \in OpKinds \ {"cancel"}
    BY DEF OpKinds
  <2>3. \/ Goto(w, "error") \/ Begin(w, "create")
        \/ drv' = [drv EXCEPT ![w].pc = "mark"]
    BY <1>17 DEF Answer
  <2> DEFINE d == [drv[w] EXCEPT !.pc = "mark"]
  <2>4. CASE drv' = [drv EXCEPT ![w].pc = "mark"]
    <3>1. d \in DrvRec
      BY <1>1, <2>1, DrvWrites
    <3>2. d.pc = "mark" /\ d.op = drv[w].op /\ d.s = drv[w].s /\ d.then = drv[w].then
      BY <1>1, <2>1 DEF DrvRec
    <3>3. drv' = [drv EXCEPT ![w] = d]
      BY <1>0, <2>4 DEF DriversOK, DrvTypeOK
    <3> HIDE DEF d
    <3> QED BY <1>0, <2>1, <3>1, <3>2, <3>3, AttemptKeeps
  <2> QED BY <1>0, <1>2, <2>1, <2>2, <2>3, <2>4, GotoKeeps, BeginKeeps
<1>18. CASE MarkSucceeded(w)
  <2>1. drv[w].pc \in OpPcs /\ drv[w].pc # "idle"
    BY <1>18 DEF MarkSucceeded, At, OpPcs
  <2>2. Goto(w, "error") \/ Proceed(w, drv[w].op)
    BY <1>18 DEF MarkSucceeded
  <2> QED BY <1>0, <1>2, <2>1, <2>2, GotoKeeps, ProceedKeeps
<1>19. CASE Commit(w) \/ ConfirmCommitted(w)
  <2>1. drv[w].pc # "idle"
    BY <1>19 DEF Commit, ConfirmCommitted, At
  <2>2. \/ Goto(w, "activate") \/ Goto(w, "error")
        \/ \E then \in {"loop", "error"}, pc \in {"activate", "revert"} :
             drv' = [drv EXCEPT ![w].pc = pc, ![w].then = then]
    BY <1>19 DEF Commit, ConfirmCommitted
  <2>3. ASSUME NEW then \in {"loop", "error"}, NEW pc \in {"activate", "revert"},
               drv' = [drv EXCEPT ![w].pc = pc, ![w].then = then]
        PROVE  DriversOK'
    <3> DEFINE d == [drv[w] EXCEPT !.pc = pc, !.then = then]
    <3>1. pc \in Pcs /\ then \in Pcs /\ pc # "idle"
      BY DEF Pcs
    <3>2. d \in DrvRec
      BY <1>1, <2>1, <3>1, DrvWrites
    <3>3. d.pc = pc /\ d.s = drv[w].s /\ d.then = then
      BY <1>1, <2>1 DEF DrvRec
    <3>4. drv' = [drv EXCEPT ![w] = d]
      BY <1>0, <2>3 DEF DriversOK, DrvTypeOK
    <3>5. Resumable(d)
      BY <3>3 DEF Resumable, OpPcs
    <3> HIDE DEF d
    <3> QED BY <1>0, <1>1, <2>1, <3>1, <3>2, <3>3, <3>4, <3>5, StepKeeps
  <2> QED BY <1>0, <1>2, <2>1, <2>2, <2>3, GotoKeeps
<1>20. CASE Revert(w)
  <2>1. drv[w].pc # "idle" /\ drv[w].then \in {"loop", "error"}
    BY <1>3, <1>20 DEF Revert, At, Resumable
  <2>2. \E pc \in {"error", drv[w].then} : Goto(w, pc)
    BY <1>20 DEF Revert
  <2> QED BY <1>0, <1>2, <2>1, <2>2, GotoKeeps
<1>21. CASE ReadFailed(w)
  <2> DEFINE x == row[drv[w].s].stage
             pc == IF Live(drv[w].s) THEN "fail" ELSE "clean"
             d == [drv[w] EXCEPT !.pc = pc, !.seen = x]
  <2>1. drv[w].pc # "idle" /\ pc \in {"fail", "clean"} /\ pc \in Pcs
    BY <1>21 DEF ReadFailed, At, Pcs
  <2>2. x \in Stage
    BY <1>0, <1>1, <2>1 DEF StoreTypeOK, RowRec
  <2>3. drv' = [drv EXCEPT ![w].seen = x, ![w].pc = pc]
    BY <1>21 DEF ReadFailed
  <2> HIDE DEF x, pc
  <2>4. d \in DrvRec
    BY <1>1, <2>1, <2>2, DrvWrites
  <2>5. d.pc = pc /\ d.s = drv[w].s
    BY <1>1, <2>1 DEF DrvRec
  <2>6. drv' = [drv EXCEPT ![w] = d]
    BY <1>0, <1>1, <2>1, <2>3 DEF DriversOK, DrvTypeOK, DrvRec
  <2>7. Resumable(d)
    BY <2>1, <2>5 DEF Resumable, OpPcs
  <2> HIDE DEF d
  <2> QED BY <1>0, <1>1, <2>1, <2>4, <2>5, <2>6, <2>7, StepKeeps
<1>22. CASE FailSwitch(w)
  <2> DEFINE d == [drv[w] EXCEPT !.pc = "clean"]
  <2>1. drv[w].pc # "idle" /\ "clean" \in Pcs
    BY <1>22 DEF FailSwitch, At, Pcs
  <2>2. Goto(w, "release") \/ drv' = [drv EXCEPT ![w].pc = "clean"]
    BY <1>22 DEF FailSwitch
  <2>3. CASE drv' = [drv EXCEPT ![w].pc = "clean"]
    <3>1. d \in DrvRec
      BY <1>1, <2>1, DrvWrites
    <3>2. d.pc = "clean" /\ d.s = drv[w].s
      BY <1>1, <2>1 DEF DrvRec
    <3>3. drv' = [drv EXCEPT ![w] = d]
      BY <1>0, <2>3 DEF DriversOK, DrvTypeOK
    <3>4. Resumable(d)
      BY <3>2 DEF Resumable, OpPcs
    <3> HIDE DEF d
    <3> QED BY <1>0, <1>1, <2>1, <3>1, <3>2, <3>3, <3>4, StepKeeps
  <2> QED BY <1>0, <1>2, <2>1, <2>2, <2>3, GotoKeeps
<1> QED BY <1>5, <1>6, <1>7, <1>8, <1>9, <1>10, <1>11, <1>12, <1>13, <1>14, <1>15, <1>16,
     <1>17, <1>18, <1>19, <1>20, <1>21, <1>22 DEF DriverStep

\* A driver touches nothing of the other tasks.
LEMMA DriverFrame ==
    ASSUME NEW w \in Workers, DriverStep(w)
    PROVE  UNCHANGED <<can, watch, boot, used>>
<1>1. CASE \/ LeaseLost(w) \/ ClaimRequested(w) \/ Dispatch(w) \/ Disown(w)
            \/ StabilizeTarget(w) \/ SettleActiveWork(w) \/ BeginWaiting(w) \/ Park(w)
            \/ Fence(w) \/ AdvanceToPreparing(w) \/ ProbeFenced(w) \/ EnsureCommitIdle(w)
  BY <1>1 DEF LeaseLost, ClaimRequested, Dispatch, Disown, Supersede, SourceConflict,
     StabilizeTarget, SettleActiveWork, BeginWaiting, Park, Fence, AdvanceToPreparing,
     ProbeFenced, EnsureCommitIdle
<1>2. CASE \/ Recheck(w) \/ ChooseStrategy(w) \/ BeginOperation(w) \/ ReconcileOperation(w)
            \/ Send(w) \/ Answer(w) \/ MarkSucceeded(w) \/ AdvanceToPrepared(w)
  BY <1>2 DEF Recheck, ChooseStrategy, BeginOperation, ReconcileOperation, Send, Answer,
     MarkSucceeded, AdvanceToPrepared
<1>3. CASE \/ Revalidate(w) \/ AdvanceToCommitting(w) \/ Commit(w) \/ Revert(w)
            \/ ConfirmCommitted(w) \/ Activate(w) \/ ReadFailed(w) \/ FailSwitch(w)
            \/ CleanUp(w) \/ Release(w)
  BY <1>3 DEF Revalidate, AdvanceToCommitting, Commit, Revert, ConfirmCommitted, Activate,
     ReadFailed, FailSwitch, CleanUp, Release
<1> QED BY <1>1, <1>2, <1>3 DEF DriverStep

\* Only the sending of an operation changes what is outside the store.
LEMMA DriverWorld ==
    ASSUME TypeInv, NEW w \in Workers, DriverStep(w)
    PROVE  /\ gate' \in SUBSET Workers
           /\ ~Send(w) => UNCHANGED <<made, busy>>
           /\ Send(w) => made' \in [Switches -> Nat] /\ busy' \in BOOLEAN
<1>0. gate \in SUBSET Workers /\ made \in [Switches -> Nat] /\ busy \in BOOLEAN
  BY DEF TypeInv, SwitchTypeOK
<1>1. CASE \/ LeaseLost(w) \/ ClaimRequested(w) \/ Dispatch(w) \/ Disown(w)
            \/ StabilizeTarget(w) \/ SettleActiveWork(w) \/ BeginWaiting(w) \/ Park(w)
            \/ Fence(w) \/ AdvanceToPreparing(w) \/ ProbeFenced(w) \/ EnsureCommitIdle(w)
  <2>1. UNCHANGED <<made, busy>> /\ gate' \in {gate, gate \cup {w}}
    BY <1>1 DEF LeaseLost, ClaimRequested, Dispatch, Disown, Supersede, SourceConflict,
       StabilizeTarget, SettleActiveWork, BeginWaiting, Park, Fence, AdvanceToPreparing,
       ProbeFenced, EnsureCommitIdle, worldVars
  <2>2. drv[w].pc # "send" \/ LeaseLost(w)
    BY <1>1 DEF ClaimRequested, Dispatch, Disown, StabilizeTarget, SettleActiveWork,
       BeginWaiting, Park, Fence, AdvanceToPreparing, ProbeFenced, EnsureCommitIdle, At
  <2>3. ~Send(w)
    BY <2>2 DEF Send, At, LeaseLost
  <2> QED BY <1>0, <2>1, <2>3
<1>2. CASE \/ Recheck(w) \/ ChooseStrategy(w) \/ BeginOperation(w) \/ ReconcileOperation(w)
            \/ Answer(w) \/ MarkSucceeded(w) \/ AdvanceToPrepared(w)
            \/ Revalidate(w) \/ AdvanceToCommitting(w) \/ Commit(w) \/ Revert(w)
            \/ ConfirmCommitted(w) \/ Activate(w) \/ ReadFailed(w) \/ FailSwitch(w)
            \/ CleanUp(w) \/ Release(w)
  <2>1. UNCHANGED <<made, busy>> /\ gate' \in {gate, gate \ {w}}
    BY <1>2 DEF Recheck, ChooseStrategy, BeginOperation, ReconcileOperation, Answer,
       MarkSucceeded, AdvanceToPrepared, Revalidate, AdvanceToCommitting, Commit, Revert,
       ConfirmCommitted, Activate, ReadFailed, FailSwitch, CleanUp, Release, worldVars
  <2>2. drv[w].pc # "send"
    BY <1>2 DEF Recheck, ChooseStrategy, BeginOperation, ReconcileOperation, Answer,
       MarkSucceeded, AdvanceToPrepared, Revalidate, AdvanceToCommitting, Commit, Revert,
       ConfirmCommitted, Activate, ReadFailed, FailSwitch, CleanUp, Release, At
  <2> QED BY <1>0, <2>1, <2>2 DEF Send, At
<1>3. CASE Send(w)
  <2>1. drv[w].s \in Switches
    BY <1>3, TypeParts, Driving DEF TypeInv, Send, At
  <2>2. PICK ok \in BOOLEAN :
          made' = [made EXCEPT ![drv[w].s] = IF drv[w].op = "create" /\ ok THEN @ + 1 ELSE @]
    BY <1>3 DEF Send
  <2>3. made' \in [Switches -> Nat]
    BY <1>0, <2>1, <2>2
  <2>4. busy' \in BOOLEAN /\ gate' = gate
    BY <1>0, <1>3 DEF Send
  <2> QED BY <1>0, <1>3, <2>3, <2>4
<1> QED BY <1>1, <1>2, <1>3 DEF DriverStep

LEMMA DriverTypes ==
    ASSUME TypeInv, NEW w \in Workers, DriverStep(w)
    PROVE  TypeInv'
<1>1. StoreTypeOK' /\ DriversOK'
  BY DriverStores, DriverMoves
<1>2. TaskTypeOK'
  BY DriverFrame, DriverWorld, TypeParts DEF TypeInv, TaskTypeOK
<1>3. UsedTypeOK' /\ CancelNames'
  BY DriverFrame DEF TypeInv, UsedTypeOK, CancelNames
<1> QED BY <1>1, <1>2, <1>3, TypeParts DEF TypeInv, DriversOK

\* A new row is well-formed, and its number is one.
LEMMA NewRowKeeps ==
    ASSUME StoreTypeOK, NEW s \in Switches, NEW r \in Runtimes, NEW n \in Nat,
           NEW stage \in Stage, NEW policy \in {"wait", "cancel", "reject"},
           NewRow(s, r, n, stage, policy)
    PROVE  row' \in [Switches -> RowRec]
<1> DEFINE c == Cardinality(Used) + 1
           d == [stage |-> stage, runtime |-> r, created |-> c,
                 source |-> ses.current, sourceRevision |-> ses.revision,
                 selRevision |-> n, target |-> s, policy |-> policy,
                 owner |-> NoOwner, activated |-> FALSE]
<1>1. c \in Nat
  <2>1. IsFiniteSet(Used)
    BY SwitchAssumption, FS_Subset DEF Used
  <2>2. Cardinality(Used) \in Nat
    BY <2>1, FS_CardinalityType
  <2> QED BY <2>2
<1>2. row' = [row EXCEPT ![s] = d]
  BY DEF NewRow
<1> HIDE DEF c
<1>3. s \in Bindings /\ NoOwner \in Owners /\ ses.current \in Bindings /\ ses.revision \in Nat
  BY IdNames DEF StoreTypeOK, SesRec
<1>4. d \in RowRec
  BY <1>1, <1>3 DEF RowRec
<1> HIDE DEF d
<1> QED BY <1>2, <1>4 DEF StoreTypeOK

LEMMA LeaseKeeps ==
    ASSUME StoreTypeOK, UsedTypeOK, NEW s \in Switches, NEW o \in Owners, TakeLease(s, o)
    PROVE  row' \in [Switches -> RowRec] /\ UsedTypeOK'
<1>1. [row EXCEPT ![s].owner = o] \in [Switches -> RowRec]
  BY RowWrites DEF StoreTypeOK, RowTypeOK
<1>2. UsedTypeOK'
  BY DEF TakeLease, UsedTypeOK
<1> QED BY <1>1, <1>2 DEF TakeLease

LEMMA WatchKeeps ==
    ASSUME TaskTypeOK, NEW w \in Workers, NEW s \in Switches
    PROVE  \A x \in {"none", "once", "watch"} :
             [watch EXCEPT ![w][s] = x] \in [Workers -> [Switches -> {"none", "once", "watch"}]]
  BY DEF TaskTypeOK

LEMMA RequestTypes ==
    ASSUME TypeInv, NEW r \in Runtimes,
           \/ MaterializeCurrent(r)
           \/ \E w \in Workers : SelectRuntime(w, r) \/ RequestSwitch(w, r)
    PROVE  TypeInv'
<1>0. /\ StoreTypeOK /\ TaskTypeOK /\ DriversOK /\ UsedTypeOK /\ CancelNames
      /\ ses \in SesRec /\ ses.selRevision \in Nat
  BY TypeParts DEF TypeInv, DriversOK, StoreTypeOK, SesRec
<1>1. "requested" \in Stage /\ "reserved" \in Stage
  BY DEF Stage, Held
<1>2. /\ row' \in [Switches -> RowRec] /\ ses' \in SesRec
      /\ watch' \in [Workers -> [Switches -> {"none", "once", "watch"}]]
  <2>1. ASSUME NEW w \in Workers, SelectRuntime(w, r)
        PROVE  /\ row' \in [Switches -> RowRec] /\ ses' \in SesRec
               /\ watch' \in [Workers -> [Switches -> {"none", "once", "watch"}]]
    <3>1. PICK s \in Switches : /\ NewRow(s, r, ses.selRevision + 1, "requested", "wait")
                                /\ watch' = [watch EXCEPT ![w][s] = "watch"]
      BY <2>1 DEF SelectRuntime
    <3>2. row' \in [Switches -> RowRec]
      <4>1. ses.selRevision + 1 \in Nat
        BY <1>0
      <4> QED BY <1>0, <1>1, <3>1, <4>1, NewRowKeeps
    <3>3. watch' \in [Workers -> [Switches -> {"none", "once", "watch"}]]
      BY <1>0, <3>1, WatchKeeps
    <3>4. ses' \in SesRec
      BY <1>0, <2>1, SesSelects DEF SelectRuntime
    <3> QED BY <3>2, <3>3, <3>4
  <2>2. ASSUME NEW w \in Workers, RequestSwitch(w, r)
        PROVE  /\ row' \in [Switches -> RowRec] /\ ses' \in SesRec
               /\ watch' \in [Workers -> [Switches -> {"none", "once", "watch"}]]
    <3>1. PICK s \in Switches, n \in 0 .. ses.selRevision, policy \in Policies :
            /\ NewRow(s, r, n, "reserved", policy)
            /\ ses' = [ses EXCEPT !.pending = s]
            /\ watch' = [watch EXCEPT ![w][s] = "once"]
      BY <2>2 DEF RequestSwitch
    <3>2. row' \in [Switches -> RowRec]
      <4>1. n \in Nat /\ policy \in {"wait", "cancel", "reject"}
        BY <1>0, SwitchAssumption
      <4> QED BY <1>0, <1>1, <3>1, <4>1, NewRowKeeps
    <3>3. watch' \in [Workers -> [Switches -> {"none", "once", "watch"}]]
      BY <1>0, <3>1, WatchKeeps
    <3>4. ses' \in SesRec
      BY <1>0, <3>1, SesWrites
    <3> QED BY <3>2, <3>3, <3>4
  <2>3. CASE MaterializeCurrent(r)
    <3>1. ses' \in SesRec
      BY <1>0, <2>3 DEF MaterializeCurrent, SesRec
    <3> QED BY <1>0, <2>3, <3>1 DEF MaterializeCurrent, StoreTypeOK, TaskTypeOK, taskVars
  <2> QED BY <2>1, <2>2, <2>3
<1>3. UNCHANGED <<jr, bind, made, busy, gate, drv, can, boot, used>>
  BY DEF SelectRuntime, RequestSwitch, MaterializeCurrent, worldVars, taskVars
<1>4. StoreTypeOK' /\ TaskTypeOK'
  BY <1>0, <1>2, <1>3 DEF StoreTypeOK, TaskTypeOK
<1>5. DriversOK' /\ UsedTypeOK' /\ CancelNames'
  BY <1>0, <1>3 DEF DriversOK, DrvTypeOK, Resumes, UsedTypeOK, CancelNames
<1> QED BY <1>4, <1>5, TypeParts DEF TypeInv, DriversOK

\* A driver that starts.
LEMMA StartKeeps ==
    ASSUME DriversOK, NEW w \in Workers, NEW s \in Switches,
           drv' = [drv EXCEPT ![w] = [Idle EXCEPT !.pc = "loop", !.s = s]]
    PROVE  DriversOK'
<1> DEFINE d == [Idle EXCEPT !.pc = "loop", !.s = s]
<1>1. "loop" \in FreshPcs /\ "spawn" \in OpKinds
  BY DEF FreshPcs, Pcs, OpKinds
<1>2. d \in DrvRec
  BY <1>1, FreshRecord
<1>3. d.pc = "loop" /\ d.s = s
  BY DEF Idle
<1>4. Resumable(d)
  BY <1>3 DEF Resumable, OpPcs
<1> HIDE DEF d
<1> QED BY <1>2, <1>3, <1>4, StepKeeps DEF d

LEMMA StartTypes ==
    ASSUME TypeInv, NEW w \in Workers,
           DriveNext(w) \/ \E s \in Switches : DriveSwitch(w, s) \/ Unwatch(w, s)
    PROVE  TypeInv'
<1>0. /\ StoreTypeOK /\ TaskTypeOK /\ DriversOK /\ UsedTypeOK /\ CancelNames /\ w \in Owners
  BY TypeParts, IdNames DEF TypeInv, DriversOK
<1>1. UNCHANGED <<ses, jr, bind, made, busy, gate, can>>
  BY DEF DriveNext, DriveSwitch, Unwatch, worldVars, storeVars
<1>2. row' \in [Switches -> RowRec] /\ UsedTypeOK' /\ DriversOK'
  <2>1. CASE \E s \in Switches : DriveSwitch(w, s)
    BY <1>0, <2>1, LeaseKeeps, StartKeeps DEF DriveSwitch
  <2>2. CASE \E s \in Switches : Unwatch(w, s)
    BY <1>0, <2>2 DEF Unwatch, storeVars, StoreTypeOK, UsedTypeOK, DriversOK, DrvTypeOK, Resumes
  <2>3. CASE DriveNext(w)
    <3>1. PICK s \in boot[w].left :
            \/ /\ TakeLease(s, w)
               /\ drv' = [drv EXCEPT ![w] = [Idle EXCEPT !.pc = "loop", !.s = s]]
            \/ UNCHANGED <<row, drv, used>>
      BY <2>3 DEF DriveNext
    <3>2. s \in Switches
      BY <1>0 DEF TaskTypeOK
    <3>3. CASE UNCHANGED <<row, drv, used>>
      BY <1>0, <3>3 DEF StoreTypeOK, UsedTypeOK, DriversOK, DrvTypeOK, Resumes
    <3> QED BY <1>0, <3>1, <3>2, <3>3, LeaseKeeps, StartKeeps
  <2> QED BY <2>1, <2>2, <2>3
<1>3. watch' \in [Workers -> [Switches -> {"none", "once", "watch"}]]
  <2>1. CASE DriveNext(w)
    BY <1>0, <2>1 DEF DriveNext, TaskTypeOK
  <2>2. ASSUME NEW s \in Switches, DriveSwitch(w, s) \/ Unwatch(w, s)
        PROVE  watch' \in [Workers -> [Switches -> {"none", "once", "watch"}]]
    <3>1. \E x \in {"none", watch[w][s]} : watch' = [watch EXCEPT ![w][s] = x]
      BY <2>2 DEF DriveSwitch, Unwatch
    <3>2. watch[w][s] \in {"none", "once", "watch"}
      BY <1>0 DEF TaskTypeOK
    <3> QED BY <1>0, <3>1, <3>2, WatchKeeps
  <2> QED BY <2>1, <2>2
<1>4. boot' \in [Workers -> [on : BOOLEAN, pending : SUBSET Switches, left : SUBSET Switches]]
  <2>1. CASE DriveNext(w)
    <3>1. PICK s \in boot[w].left : boot' = [boot EXCEPT ![w].left = @ \ {s}]
      BY <2>1 DEF DriveNext
    <3> QED BY <1>0, <3>1, SMTT(30) DEF TaskTypeOK
  <2>2. CASE ~DriveNext(w)
    BY <1>0, <2>2 DEF DriveSwitch, Unwatch, TaskTypeOK
  <2> QED BY <2>1, <2>2
<1>5. StoreTypeOK' /\ TaskTypeOK'
  BY <1>0, <1>1, <1>2, <1>3, <1>4 DEF StoreTypeOK, TaskTypeOK
<1>6. CancelNames'
  BY <1>0, <1>1 DEF CancelNames
<1> QED BY <1>2, <1>5, <1>6, TypeParts DEF TypeInv, DriversOK

CanRec ==
    [pc : {"idle", "direct", "lease", "locked", "release"}, s : Switches \cup {NoSwitch},
     w : Workers \cup {NoOwner}, seen : Stage]

LEMMA CancelTypes ==
    ASSUME TypeInv, CancelStep \/ \E w \in Workers, s \in Switches : BeginCancel(w, s)
    PROVE  TypeInv'
<1>0. /\ StoreTypeOK /\ TaskTypeOK /\ DriversOK /\ UsedTypeOK /\ CancelNames
      /\ can \in CanRec /\ Canceller \in Owners /\ NoOwner \in Owners
  BY TypeParts, IdNames DEF TypeInv, DriversOK, TaskTypeOK, CanRec
<1>1. UNCHANGED <<jr, made, busy, drv, watch, boot>>
  BY DEF CancelStep, CancelDirect, CancelLease, CancelLocked, CancelRelease, BeginCancel,
     worldVars, storeVars
<1>2. NoCancel \in CanRec /\ NoCancel.pc = "idle"
  BY DEF NoCancel, CanRec, Stage
<1>3. CASE \E w \in Workers, s \in Switches : BeginCancel(w, s)
  <2>1. PICK w \in Workers, s \in Switches : BeginCancel(w, s)
    BY <1>3
  <2>2. row[s].stage \in Stage
    BY <1>0 DEF StoreTypeOK, RowRec
  <2>3. can' \in CanRec /\ CancelNames'
    BY <2>1, <2>2 DEF BeginCancel, CanRec, CancelNames
  <2>4. UsedTypeOK'
    BY <1>0, <2>1 DEF BeginCancel, UsedTypeOK
  <2>5. StoreTypeOK'
    BY <1>0, <2>1 DEF BeginCancel, StoreTypeOK, storeVars
  <2>6. TaskTypeOK'
    BY <1>0, <1>1, <2>1, <2>3 DEF BeginCancel, TaskTypeOK, worldVars, CanRec
  <2>7. DriversOK'
    BY <1>0, <1>1 DEF DriversOK, DrvTypeOK, Resumes
  <2> QED BY <2>3, <2>4, <2>5, <2>6, <2>7, TypeParts DEF TypeInv, DriversOK
<1>4. CASE CancelStep
  <2>1. can.s \in Switches /\ can.w \in Workers
    BY <1>0, <1>4 DEF CancelNames, CancelStep, CancelDirect, CancelLease, CancelLocked, CancelRelease
  <2>2. row[can.s].target \in Bindings /\ row[can.s].owner \in Owners /\ "cancelled" \in Terminal
    BY <1>0, <2>1 DEF StoreTypeOK, RowRec, Terminal
  <2>3. row' \in [Switches -> RowRec] /\ ses' \in SesRec /\ UsedTypeOK'
    <3>1. CASE CancelDirect \/ CancelLocked
      <4>1. UsedTypeOK'
        BY <1>0, <3>1 DEF CancelDirect, CancelLocked, UsedTypeOK
      <4>2. FinishWithoutCommit(can.s, "cancelled") \/ UNCHANGED <<ses, row>>
        BY <3>1 DEF CancelDirect, CancelLocked
      <4> QED BY <1>0, <2>1, <2>2, <4>1, <4>2, FinishKeeps DEF StoreTypeOK
    <3>2. CASE CancelLease
      <4>1. ses' = ses /\ (TakeLease(can.s, Canceller) \/ UNCHANGED <<row, used>>)
        BY <3>2 DEF CancelLease
      <4> QED BY <1>0, <2>1, <4>1, LeaseKeeps DEF StoreTypeOK, UsedTypeOK
    <3>3. CASE CancelRelease
      <4>1. \E o \in {NoOwner, row[can.s].owner} : row' = [row EXCEPT ![can.s].owner = o]
        BY <3>3 DEF CancelRelease, Released
      <4>2. row' \in [Switches -> RowRec]
        <5>1. \A o \in {NoOwner, row[can.s].owner} :
                [row EXCEPT ![can.s].owner = o] \in [Switches -> RowRec]
          BY <1>0, <2>1, <2>2, RowWrites DEF StoreTypeOK, RowTypeOK
        <5> QED BY <4>1, <5>1
      <4> QED BY <1>0, <3>3, <4>2 DEF CancelRelease, StoreTypeOK, UsedTypeOK
    <3> QED BY <1>4, <3>1, <3>2, <3>3 DEF CancelStep
  <2>4. bind' \in [Bindings -> {"none", "preparing", "current", "inactive", "failed"}]
    <3>1. bind' = bind \/ bind' = [bind EXCEPT ![row[can.s].target] = "failed"]
      BY <1>4 DEF CancelStep, CancelDirect, CancelLease, CancelLocked, CancelRelease, TargetFailed
    <3> QED BY <1>0, <2>2, <3>1, BindWrites DEF StoreTypeOK
  <2>5. can' \in CanRec /\ CancelNames'
    <3>1. \/ can' = NoCancel
          \/ can' = [can EXCEPT !.pc = "locked"] \/ can' = [can EXCEPT !.pc = "release"]
      BY <1>4 DEF CancelStep, CancelDirect, CancelLease, CancelLocked, CancelRelease
    <3> QED BY <1>0, <1>2, <2>1, <3>1 DEF CanRec, CancelNames
  <2>6. gate' \in SUBSET Workers
    BY <1>0, <1>4 DEF CancelStep, CancelDirect, CancelLease, CancelLocked, CancelRelease,
       worldVars, TaskTypeOK
  <2>7. StoreTypeOK'
    BY <1>0, <1>1, <2>3, <2>4 DEF StoreTypeOK
  <2>8. TaskTypeOK'
    BY <1>0, <1>1, <2>5, <2>6 DEF TaskTypeOK, CanRec
  <2>9. DriversOK'
    BY <1>0, <1>1 DEF DriversOK, DrvTypeOK, Resumes
  <2> QED BY <2>3, <2>5, <2>7, <2>8, <2>9, TypeParts DEF TypeInv, DriversOK
<1> QED BY <1>3, <1>4

LEMMA TurnTypes ==
    ASSUME TypeInv, EndTurn \/ \E w \in Workers : BeginTurn(w)
    PROVE  TypeInv'
<1>1. StoreTypeOK /\ TaskTypeOK /\ DriversOK /\ UsedTypeOK /\ CancelNames
  BY TypeParts DEF TypeInv, DriversOK
<1>2. StoreTypeOK' /\ DriversOK' /\ CancelNames'
  BY <1>1 DEF EndTurn, BeginTurn, StoreTypeOK, DriversOK, DrvTypeOK, Resumes, CancelNames,
     storeVars, taskVars
<1>3. TaskTypeOK'
  BY <1>1 DEF EndTurn, BeginTurn, TaskTypeOK, taskVars
<1>4. UsedTypeOK'
  BY <1>1 DEF EndTurn, BeginTurn, UsedTypeOK
<1> QED BY <1>2, <1>3, <1>4, TypeParts DEF TypeInv, DriversOK

BootRec == [on : BOOLEAN, pending : SUBSET Switches, left : SUBSET Switches]

LEMMA RestartTypes ==
    ASSUME TypeInv, NEW w \in Workers, Crash(w) \/ FinishBoot(w)
    PROVE  TypeInv'
<1>0. StoreTypeOK /\ TaskTypeOK /\ DriversOK /\ UsedTypeOK /\ CancelNames
  BY TypeParts DEF TypeInv, DriversOK
<1>1. CASE Crash(w)
  <2>1. row' \in [Switches -> RowRec]
    <3>1. \A s \in Switches : \E o \in {Orphan, row[s].owner} :
            row'[s] = [row[s] EXCEPT !.owner = o]
      BY <1>1 DEF Crash
    <3>2. \A s \in Switches : row[s] \in RowRec /\ {Orphan, row[s].owner} \subseteq Owners
      BY <1>0, IdNames DEF StoreTypeOK, RowRec
    <3>3. \A s \in Switches : row'[s] \in RowRec
      <4>1. ASSUME NEW d \in RowRec, NEW o \in Owners PROVE [d EXCEPT !.owner = o] \in RowRec
        BY DEF RowRec
      <4> TAKE s \in Switches
      <4>2. PICK o \in {Orphan, row[s].owner} : row'[s] = [row[s] EXCEPT !.owner = o]
        BY <3>1
      <4>3. o \in Owners /\ row[s] \in RowRec
        BY <3>2
      <4> QED BY <4>1, <4>2, <4>3
    <3>4. row' = [s \in Switches |-> row'[s]]
      BY <1>1 DEF Crash
    <3> QED BY <3>3, <3>4
  <2>2. DriversOK'
    BY <1>0, <1>1, StopKeeps DEF Crash, Stop
  <2>3. UsedTypeOK'
    BY <1>0, <1>1 DEF Crash, UsedTypeOK
  <2>4. CancelNames' /\ can' \in CanRec
    BY <1>0, <1>1 DEF Crash, CancelNames, NoCancel, CanRec, TaskTypeOK, Stage
  <2>5. boot' \in [Workers -> BootRec]
    <3> DEFINE b == [on |-> TRUE, pending |-> PendingActivation, left |-> {s \in Used : Live(s)}]
    <3>1. b \in BootRec
      BY DEF BootRec, PendingActivation, Used
    <3>2. boot' = [boot EXCEPT ![w] = b]
      BY <1>1 DEF Crash
    <3> HIDE DEF b
    <3> QED BY <1>0, <3>1, <3>2 DEF TaskTypeOK, BootRec
  <2>6. watch' \in [Workers -> [Switches -> {"none", "once", "watch"}]]
    BY <1>0, <1>1 DEF Crash, TaskTypeOK
  <2>7. made' \in [Switches -> Nat] /\ busy' \in BOOLEAN /\ gate' \in SUBSET Workers
    BY <1>0, <1>1 DEF Crash, TaskTypeOK
  <2>8. TaskTypeOK'
    BY <2>4, <2>5, <2>6, <2>7 DEF TaskTypeOK, CanRec, BootRec
  <2>9. StoreTypeOK'
    BY <1>0, <1>1, <2>1 DEF Crash, StoreTypeOK
  <2> QED BY <2>2, <2>3, <2>4, <2>8, <2>9, TypeParts DEF TypeInv, DriversOK
<1>2. CASE FinishBoot(w)
  <2>1. row' \in [Switches -> RowRec]
    <3>1. PICK done \in SUBSET {s \in boot[w].pending : row[s].stage = "committed"} :
            row' = [s \in Switches |->
                      IF s \in done THEN [row[s] EXCEPT !.activated = TRUE] ELSE row[s]]
      BY <1>2 DEF FinishBoot
    <3>2. \A s \in Switches : row[s] \in RowRec /\ [row[s] EXCEPT !.activated = TRUE] \in RowRec
      BY <1>0 DEF StoreTypeOK, RowRec
    <3> QED BY <3>1, <3>2
  <2>2. boot' \in [Workers -> BootRec]
    <3> DEFINE b == [on |-> FALSE, pending |-> {}, left |-> {}]
    <3>1. b \in BootRec
      BY DEF BootRec
    <3>2. boot' = [boot EXCEPT ![w] = b]
      BY <1>2 DEF FinishBoot
    <3> HIDE DEF b
    <3> QED BY <1>0, <3>1, <3>2 DEF TaskTypeOK, BootRec
  <2>3. watch' \in [Workers -> [Switches -> {"none", "once", "watch"}]]
    BY <1>0, <1>2 DEF FinishBoot, TaskTypeOK
  <2>4. made' \in [Switches -> Nat] /\ busy' \in BOOLEAN /\ gate' \in SUBSET Workers
    BY <1>0, <1>2 DEF FinishBoot, TaskTypeOK
  <2>5. TaskTypeOK' /\ StoreTypeOK'
    BY <1>0, <1>2, <2>1, <2>2, <2>3, <2>4 DEF FinishBoot, TaskTypeOK, StoreTypeOK, BootRec
  <2>6. DriversOK' /\ UsedTypeOK' /\ CancelNames'
    BY <1>0, <1>2 DEF FinishBoot, DriversOK, DrvTypeOK, Resumes, UsedTypeOK, CancelNames
  <2> QED BY <2>5, <2>6, TypeParts DEF TypeInv, DriversOK
<1> QED BY <1>1, <1>2

LEMMA InitTypes == Init => TypeInv
<1> SUFFICES ASSUME Init PROVE TypeInv
  OBVIOUS
<1>1. "spawn" \in OpKinds /\ "absent" \in Stage /\ "idle" \in Pcs
  BY DEF OpKinds, Stage, Pcs
<1>2. ses \in SesRec
  BY SwitchAssumption, IdNames DEF Init, SesRec
<1>3. row \in [Switches -> RowRec]
  BY <1>1, SwitchAssumption, IdNames DEF Init, RowRec
<1>4. jr \in [Switches -> [OpKinds -> JournalRec]]
  BY DEF Init, NoOp, JournalRec
<1>5. StoreTypeOK
  BY <1>2, <1>3, <1>4 DEF Init, StoreTypeOK
<1>6. DrvTypeOK /\ Resumes
  <2>1. Idle \in DrvRec /\ Idle.pc = "idle" /\ Idle.s = NoSwitch
    BY <1>1 DEF Idle, DrvRec
  <2>2. Resumable(Idle)
    BY <2>1 DEF Resumable, OpPcs
  <2> HIDE DEF Resumable
  <2>3. drv = [w \in Workers |-> Idle]
    BY DEF Init
  <2> QED BY <2>1, <2>2, <2>3 DEF DrvTypeOK, Resumes
<1>7. TaskTypeOK /\ CancelNames
  BY <1>1 DEF Init, TaskTypeOK, CancelNames, NoCancel
<1>8. UsedTypeOK
  BY DEF Init, UsedTypeOK
<1> QED BY <1>5, <1>6, <1>7, <1>8, TypeParts DEF TypeInv

LEMMA TypeStep == TypeInv /\ [Next]_switchVars => TypeInv'
<1> SUFFICES ASSUME TypeInv, [Next]_switchVars PROVE TypeInv'
  OBVIOUS
<1>1. CASE UNCHANGED switchVars
  <2>1. UNCHANGED <<ses, row, jr, bind, made, busy, gate, drv, can, watch, boot, used>>
    BY <1>1 DEF switchVars, storeVars, worldVars, taskVars
  <2> QED BY <2>1 DEF TypeInv, SwitchTypeOK, UsedTypeOK, CancelNames, Resumes, At
<1>2. CASE EndTurn \/ CancelStep \/ \E r \in Runtimes : MaterializeCurrent(r)
  BY <1>2, RequestTypes, CancelTypes, TurnTypes
<1>3. ASSUME NEW w \in Workers,
             \/ DriverStep(w) \/ DriveNext(w) \/ FinishBoot(w) \/ BeginTurn(w) \/ Crash(w)
             \/ \E r \in Runtimes : SelectRuntime(w, r)
             \/ \E r \in ForcedRuntimes : RequestSwitch(w, r)
             \/ \E s \in Switches : DriveSwitch(w, s) \/ Unwatch(w, s) \/ BeginCancel(w, s)
      PROVE  TypeInv'
  <2>1. CASE DriverStep(w) \/ BeginTurn(w) \/ Crash(w) \/ FinishBoot(w)
    BY <2>1, DriverTypes, TurnTypes, RestartTypes
  <2>2. CASE DriveNext(w) \/ \E s \in Switches : DriveSwitch(w, s) \/ Unwatch(w, s)
    BY <2>2, StartTypes
  <2>3. CASE \E s \in Switches : BeginCancel(w, s)
    BY <2>3, CancelTypes
  <2>4. CASE \/ \E r \in Runtimes : SelectRuntime(w, r)
             \/ \E r \in ForcedRuntimes : RequestSwitch(w, r)
    BY <2>4, RequestTypes, SwitchAssumption
  <2> QED BY <1>3, <2>1, <2>2, <2>3, <2>4
<1> QED BY <1>1, <1>2, <1>3 DEF Next

\* The rows of the store and the tasks keep their shape, whatever processes do, and a
\* driver that ended drives nothing.
THEOREM SwitchTypes == Spec => []SwitchTypeOK
<1>1. TypeInv => SwitchTypeOK
  BY DEF TypeInv
<1> QED BY <1>1, InitTypes, TypeStep, PTL DEF Spec

=============================================================================
