------------------------- MODULE RuntimeSwitchProofs -------------------------
(***************************************************************************)
(* Proofs about the switch saga.  What holds however processes crash, stall *)
(* and take over from each other comes first; what needs that a switch has  *)
(* one driver at a time follows from it, up to the refinement of the        *)
(* selection the message queue is checked against.                         *)
(***************************************************************************)
EXTENDS RuntimeSwitchTypeProofs, WellFoundedInduction

-----------------------------------------------------------------------------
(* The slot and the rows. *)

Early == {"absent", "requested", "reserved"}
Late(s) == row[s].stage \notin Early

\* The pending slot is held exactly by the switch a driver works on.
SlotHeld == \A s \in Switches : row[s].stage \in Held <=> ses.pending = s

\* A switch prepares its own binding or the one it started from, which is another.
TargetOK ==
    /\ \A s \in Switches : row[s].source # s /\ row[s].target \in {s, row[s].source}
    /\ ses.current \in Switches => row[ses.current].stage # "absent"

RowInv == TypeInv /\ SlotHeld /\ TargetOK

\* What no step undoes: a switch that left Reserved keeps its target.
Settles(s) ==
    /\ row[s].stage # "absent" => row'[s].stage # "absent" /\ row'[s].source = row[s].source
    /\ Late(s) => row'[s].stage \notin Early /\ row'[s].target = row[s].target

\* A step that leaves the columns of a row alone that the saga is decided by.
SameRow(s) ==
    /\ row'[s].stage = row[s].stage /\ row'[s].runtime = row[s].runtime
    /\ row'[s].created = row[s].created /\ row'[s].source = row[s].source
    /\ row'[s].sourceRevision = row[s].sourceRevision
    /\ row'[s].selRevision = row[s].selRevision /\ row'[s].target = row[s].target

SameRows == \A s \in Switches : SameRow(s)

\* A step that moves one switch to another stage.
MovesTo(s, x) ==
    /\ row'[s].stage = x /\ row'[s].runtime = row[s].runtime
    /\ row'[s].created = row[s].created /\ row'[s].source = row[s].source
    /\ row'[s].sourceRevision = row[s].sourceRevision
    /\ row'[s].selRevision = row[s].selRevision /\ row'[s].target = row[s].target
    /\ \A t \in Switches : t # s => row'[t] = row[t]

LEMMA StageWrite ==
    ASSUME RowTypeOK, NEW s \in Switches, NEW x, row' = [row EXCEPT ![s].stage = x]
    PROVE  MovesTo(s, x)
  BY DEF RowTypeOK, RowRec, MovesTo

LEMMA OwnerWrite ==
    ASSUME RowTypeOK, NEW s \in Switches, NEW o, row' = [row EXCEPT ![s].owner = o]
    PROVE  SameRows
  BY DEF RowTypeOK, RowRec, SameRows, SameRow

LEMMA ActivatedWrite ==
    ASSUME RowTypeOK, NEW s \in Switches, row' = [row EXCEPT ![s].activated = TRUE]
    PROVE  SameRows
  BY DEF RowTypeOK, RowRec, SameRows, SameRow

LEMMA NoRowWrite == UNCHANGED row => SameRows
  BY DEF SameRows, SameRow

\* What a driver writes to the rows, whatever else it does.
LEMMA DriverRows ==
    ASSUME TypeInv, NEW w \in Workers, DriverStep(w)
    PROVE  \/ SameRows /\ UNCHANGED ses
           \/ ClaimRequested(w) \/ StabilizeTarget(w) \/ BeginWaiting(w)
           \/ AdvanceToPreparing(w) \/ AdvanceToPrepared(w) \/ AdvanceToCommitting(w)
           \/ Commit(w) \/ Revert(w) \/ ConfirmCommitted(w)
           \/ Disown(w) /\ ~OwnsIntent(drv[w].s) /\ FinishWithoutCommit(drv[w].s, "superseded")
           \/ FailSwitch(w) /\ FinishWithoutCommit(drv[w].s, "failed")
           \/ Live(drv[w].s) /\ FinishWithoutCommit(drv[w].s, "ambiguous")
<1>0. RowTypeOK /\ DrvTypeOK
  BY TypeParts DEF TypeInv, StoreTypeOK, RowTypeOK
<1>1. drv[w].pc # "idle" => drv[w].s \in Switches
  BY <1>0, Driving
<1>2. CASE UNCHANGED <<ses, row>>
  BY <1>2, NoRowWrite
<1>3. CASE \/ LeaseLost(w) \/ Dispatch(w) \/ SettleActiveWork(w) \/ Park(w)
             \/ Fence(w) \/ ProbeFenced(w) \/ EnsureCommitIdle(w) \/ Recheck(w)
             \/ ChooseStrategy(w) \/ Send(w) \/ Revalidate(w) \/ ReadFailed(w)
             \/ Answer(w) \/ MarkSucceeded(w) \/ CleanUp(w)
  BY <1>2, <1>3 DEF LeaseLost, Dispatch, SettleActiveWork, Park, Fence, ProbeFenced,
     EnsureCommitIdle, Recheck, ChooseStrategy, Send, Revalidate, ReadFailed, storeVars,
     Answer, MarkSucceeded, CleanUp
<1>4. CASE Disown(w)
  <2>1. \/ UNCHANGED <<ses, row>>
        \/ ~OwnsIntent(drv[w].s) /\ FinishWithoutCommit(drv[w].s, "superseded")
    BY <1>4 DEF Disown, Supersede, SourceConflict, storeVars
  <2> QED BY <1>2, <1>4, <2>1
<1>5. CASE BeginOperation(w) \/ ReconcileOperation(w)
  <2>1. UNCHANGED <<ses, row>> \/ Ambiguous(w, drv[w].op)
    BY <1>5 DEF BeginOperation, ReconcileOperation
  <2>2. Ambiguous(w, drv[w].op) =>
          \/ UNCHANGED <<ses, row>>
          \/ Live(drv[w].s) /\ FinishWithoutCommit(drv[w].s, "ambiguous")
    BY DEF Ambiguous
  <2> QED BY <1>2, <2>1, <2>2
<1>6. CASE FailSwitch(w)
  <2>1. FinishWithoutCommit(drv[w].s, "failed") \/ UNCHANGED <<ses, row>>
    BY <1>6 DEF FailSwitch
  <2> QED BY <1>2, <1>6, <2>1
<1>7. CASE Activate(w)
  <2>1. drv[w].s \in Switches /\ UNCHANGED ses
    BY <1>1, <1>7 DEF Activate, At
  <2>2. row' = [row EXCEPT ![drv[w].s].activated = TRUE] \/ UNCHANGED row
    BY <1>7 DEF Activate
  <2> QED BY <1>0, <1>2, <2>1, <2>2, ActivatedWrite
<1>8. CASE Release(w)
  <2>1. drv[w].s \in Switches /\ UNCHANGED ses
    BY <1>1, <1>8 DEF Release, At
  <2>2. \E o : row' = [row EXCEPT ![drv[w].s].owner = o]
    BY <1>8 DEF Release, Released
  <2> QED BY <1>0, <2>1, <2>2, OwnerWrite
<1> QED BY <1>3, <1>4, <1>5, <1>6, <1>7, <1>8 DEF DriverStep

\* What the other steps write to the rows.
LEMMA OtherRows ==
    ASSUME TypeInv, [Next]_switchVars
    PROVE  \/ SameRows /\ UNCHANGED ses
           \/ \E w \in Workers : DriverStep(w)
           \/ \E r \in Runtimes : MaterializeCurrent(r)
           \/ \E w \in Workers, r \in Runtimes : SelectRuntime(w, r)
           \/ \E w \in Workers, r \in ForcedRuntimes : RequestSwitch(w, r)
           \/ (CancelDirect \/ CancelLocked) /\ FinishWithoutCommit(can.s, "cancelled")
<1>0. RowTypeOK /\ CancelNames /\ TaskTypeOK
  BY TypeParts DEF TypeInv, StoreTypeOK, RowTypeOK
<1>1. CASE UNCHANGED <<ses, row>>
  BY <1>1, NoRowWrite
<1>2. CASE UNCHANGED switchVars \/ EndTurn
  BY <1>1, <1>2 DEF switchVars, storeVars, EndTurn
<1>3. CASE CancelStep
  <2>1. CASE CancelDirect \/ CancelLocked
    BY <1>1, <2>1 DEF CancelDirect, CancelLocked
  <2>2. CASE CancelLease \/ CancelRelease
    <3>1. can.s \in Switches /\ UNCHANGED ses
      BY <1>0, <2>2 DEF CancelLease, CancelRelease, CancelNames
    <3>2. UNCHANGED row \/ \E o : row' = [row EXCEPT ![can.s].owner = o]
      BY <2>2 DEF CancelLease, CancelRelease, TakeLease, Released
    <3> QED BY <1>0, <1>1, <3>1, <3>2, OwnerWrite
  <2> QED BY <1>3, <2>1, <2>2 DEF CancelStep
<1>4. ASSUME NEW w \in Workers,
             \/ DriveNext(w) \/ FinishBoot(w) \/ BeginTurn(w) \/ Crash(w)
             \/ \E s \in Switches : DriveSwitch(w, s) \/ Unwatch(w, s) \/ BeginCancel(w, s)
      PROVE  SameRows /\ UNCHANGED ses
  <2>1. CASE BeginTurn(w) \/ \E s \in Switches : Unwatch(w, s) \/ BeginCancel(w, s)
    BY <2>1, NoRowWrite DEF BeginTurn, Unwatch, BeginCancel, storeVars
  <2>2. CASE \E s \in Switches : DriveSwitch(w, s)
    BY <1>0, <2>2, OwnerWrite DEF DriveSwitch, TakeLease
  <2>3. CASE DriveNext(w)
    <3>1. PICK s \in boot[w].left : TakeLease(s, w) \/ UNCHANGED row
      BY <2>3 DEF DriveNext
    <3>2. s \in Switches
      BY <1>0 DEF TaskTypeOK
    <3> QED BY <1>0, <2>3, <3>1, <3>2, OwnerWrite, NoRowWrite DEF DriveNext, TakeLease
  <2>4. CASE Crash(w)
    BY <1>0, <2>4 DEF Crash, RowTypeOK, RowRec, SameRows, SameRow
  <2>5. CASE FinishBoot(w)
    <3>1. UNCHANGED ses
      BY <2>5 DEF FinishBoot
    <3>2. PICK done \in SUBSET {s \in boot[w].pending : row[s].stage = "committed"} :
            row' = [s \in Switches |->
                      IF s \in done THEN [row[s] EXCEPT !.activated = TRUE] ELSE row[s]]
      BY <2>5 DEF FinishBoot
    <3> QED BY <1>0, <3>1, <3>2 DEF RowTypeOK, RowRec, SameRows, SameRow
  <2> QED BY <1>4, <2>1, <2>2, <2>3, <2>4, <2>5
<1> QED BY <1>2, <1>3, <1>4 DEF Next

-----------------------------------------------------------------------------
(* The slot and the targets are kept by every step. *)

RowGoal == SlotHeld' /\ TargetOK' /\ \A s \in Switches : Settles(s)

LEMMA SameGoal ==
    ASSUME RowInv, SameRows, ses'.pending = ses.pending, ses'.current = ses.current
    PROVE  RowGoal
  BY TypeParts DEF RowInv, SlotHeld, TargetOK, SameRows, SameRow, RowGoal, Settles, Late

\* A move to another stage, with what it does to the slot.
LEMMA MoveGoal ==
    ASSUME RowInv, NEW s \in Switches, NEW x \in Stage \ {"absent"}, MovesTo(s, x),
           row[s].stage # "absent", Late(s) => x \notin Early,
           \/ ses'.current = ses.current
           \/ ses'.current = row[s].target /\ row[s].source = ses.current,
           IF x \in Held THEN ses'.pending = s /\ ses.pending \in {NoSwitch, s}
           ELSE ses'.pending = IF ses.pending = s THEN NoSwitch ELSE ses.pending
    PROVE  RowGoal
<1>1. \A t \in Switches : t # s => row'[t] = row[t]
  BY DEF MovesTo
<1>2. /\ row'[s].stage = x /\ row'[s].source = row[s].source /\ row'[s].target = row[s].target
  BY DEF MovesTo
<1>3. SlotHeld'
  BY <1>1, <1>2, IdNames DEF RowInv, SlotHeld
<1>4. \A t \in Switches : row[t].stage # "absent" => row'[t].stage # "absent"
  BY <1>1, <1>2
<1>5. \A t \in Switches : row'[t].source = row[t].source /\ row'[t].target = row[t].target
  BY <1>1, <1>2
<1>6. ses'.current \in Switches => row'[ses'.current].stage # "absent"
  <2>1. ses'.current \in {ses.current, s}
    BY DEF RowInv, TargetOK
  <2> QED BY <1>4, <2>1 DEF RowInv, TargetOK
<1>7. TargetOK'
  BY <1>5, <1>6 DEF RowInv, TargetOK
<1>8. \A t \in Switches : Settles(t)
  BY <1>1, <1>2, <1>4, <1>5 DEF Settles, Late
<1> QED BY <1>3, <1>7, <1>8 DEF RowGoal

\* finish_without_commit, by whomever.
LEMMA FinishGoal ==
    ASSUME RowInv, NEW s \in Switches, NEW x \in Terminal, FinishWithoutCommit(s, x)
    PROVE  RowGoal /\ MovesTo(s, x)
<1>0. StoreTypeOK /\ RowTypeOK
  BY TypeParts DEF RowInv, TypeInv, StoreTypeOK, RowTypeOK
<1>1. /\ row' = [row EXCEPT ![s].stage = x] /\ ses'.current = ses.current
      /\ ses'.pending = IF ses.pending = s THEN NoSwitch ELSE ses.pending
  BY <1>0, FinishKeeps
<1>2. MovesTo(s, x)
  BY <1>0, <1>1, StageWrite
<1>3. x \in Stage \ {"absent"} /\ x \notin Held /\ x \notin Early
  BY DEF Stage, Held, Terminal, Early
<1>4. row[s].stage # "absent"
  BY <1>3 DEF FinishWithoutCommit, CanTransition, Held
<1>5. RowGoal
  BY <1>1, <1>2, <1>3, <1>4, MoveGoal
<1> QED BY <1>2, <1>5

\* A driver is on its way, and changes its own record only: it ends, or stays with its
\* switch.
LEMMA DriverRecord ==
    ASSUME TypeInv, NEW w \in Workers, DriverStep(w)
    PROVE  /\ drv[w].pc # "idle"
           /\ \A v \in Workers : v # w => drv'[v] = drv[v]
           /\ drv'[w].pc = "idle" \/ drv'[w].s = drv[w].s
<1>0. drv \in [Workers -> DrvRec]
  BY TypeParts DEF TypeInv, DrvTypeOK
<1> DEFINE Goal == /\ \A v \in Workers : v # w => drv'[v] = drv[v]
                   /\ drv'[w].pc = "idle" \/ drv'[w].s = drv[w].s
<1>1. ASSUME NEW pc, Goto(w, pc) PROVE Goal
  BY <1>0, <1>1 DEF Goto, Idle
<1>2. ASSUME NEW op, Begin(w, op) PROVE Goal
  BY <1>0, <1>2 DEF Begin, Idle
<1>3. ASSUME Stop(w) PROVE Goal
  BY <1>0, <1>3 DEF Stop, Idle
<1>4. ASSUME UNCHANGED drv PROVE Goal
  BY <1>4
<1>5. ASSUME NEW op, NEW n, Execute(w, op, n) PROVE Goal
  BY <1>0, <1>5 DEF Execute, DrvRec
<1>6. ASSUME NEW op, Proceed(w, op) PROVE Goal
  BY <1>0, <1>6 DEF Proceed, DrvRec
<1>7. ASSUME NEW then, CancelWork(w, then) PROVE Goal
  BY <1>0, <1>7 DEF CancelWork, DrvRec
<1> HIDE DEF Goal
<1>8. CASE \/ LeaseLost(w) \/ ClaimRequested(w) \/ Disown(w)
            \/ StabilizeTarget(w) \/ SettleActiveWork(w) \/ BeginWaiting(w) \/ Park(w)
            \/ AdvanceToPreparing(w) \/ ProbeFenced(w) \/ EnsureCommitIdle(w)
  <2>1. drv[w].pc # "idle"
    BY <1>8 DEF LeaseLost, ClaimRequested, Disown, At, StabilizeTarget, SettleActiveWork,
       BeginWaiting, Park, AdvanceToPreparing, ProbeFenced, EnsureCommitIdle
  <2>2. \/ Stop(w) \/ UNCHANGED drv \/ \E pc : Goto(w, pc) \/ CancelWork(w, pc)
    BY <1>8 DEF LeaseLost, ClaimRequested, Disown, Supersede,
       SourceConflict, StabilizeTarget, SettleActiveWork, Reject, BeginWaiting, Park,
       AdvanceToPreparing, ProbeFenced, EnsureCommitIdle
  <2> QED BY <1>1, <1>3, <1>4, <1>7, <2>1, <2>2 DEF Goal
<1>9. CASE \/ Recheck(w) \/ ChooseStrategy(w) \/ MarkSucceeded(w) \/ AdvanceToPrepared(w)
            \/ Revalidate(w) \/ AdvanceToCommitting(w) \/ Revert(w) \/ Activate(w)
            \/ CleanUp(w) \/ Release(w)
  <2>1. drv[w].pc # "idle"
    BY <1>9 DEF Recheck, ChooseStrategy, MarkSucceeded, AdvanceToPrepared, Revalidate,
       AdvanceToCommitting, Revert, Activate, CleanUp, Release, At
  <2>2. Stop(w) \/ \E x : Goto(w, x) \/ Begin(w, x) \/ Proceed(w, x)
    BY <1>9 DEF Recheck, ChooseStrategy, MarkSucceeded,
       AdvanceToPrepared, Revalidate, AdvanceToCommitting, Revert, Activate, CleanUp, Release
  <2> QED BY <1>1, <1>2, <1>3, <1>6, <2>1, <2>2 DEF Goal
<1>10. CASE Dispatch(w) \/ Fence(w) \/ Send(w) \/ ReadFailed(w) \/ FailSwitch(w)
  <2>1. drv[w].pc # "idle"
    BY <1>10 DEF Dispatch, Fence, Send, ReadFailed, FailSwitch, At
  <2>2. CASE \E pc : Goto(w, pc)
    BY <1>1, <2>1, <2>2 DEF Goal
  <2>3. CASE \/ \E then : drv' = [drv EXCEPT ![w].pc = "work", ![w].then = then]
             \/ \E x : drv' = [drv EXCEPT ![w].pc = "advance", ![w].seen = x]
             \/ \E x : drv' = [drv EXCEPT ![w].pc = "sent", ![w].ok = x]
             \/ \E x, pc : drv' = [drv EXCEPT ![w].seen = x, ![w].pc = pc]
             \/ drv' = [drv EXCEPT ![w].pc = "clean"]
    BY <1>0, <2>1, <2>3 DEF DrvRec
  <2> QED BY <1>10, <2>2, <2>3 DEF Dispatch, Fence, Send, ReadFailed, FailSwitch
<1>11. CASE BeginOperation(w) \/ ReconcileOperation(w) \/ Answer(w)
  <2>1. drv[w].pc # "idle"
    BY <1>11 DEF BeginOperation, ReconcileOperation, Answer, At
  <2>2. CASE drv' = [drv EXCEPT ![w].pc = "mark"]
             \/ \E n : drv' = [drv EXCEPT ![w].pc = "answer", ![w].n = n]
    BY <1>0, <2>1, <2>2 DEF DrvRec
  <2>3. CASE \/ \E pc : Goto(w, pc)
             \/ \E op : Begin(w, op) \/ Proceed(w, op)
             \/ \E op, n : Execute(w, op, n)
    BY <1>1, <1>2, <1>5, <1>6, <2>1, <2>3 DEF Goal
  <2> QED BY <1>11, <2>2, <2>3 DEF BeginOperation, ReconcileOperation, Answer, Skip, Ambiguous
<1>12. CASE Commit(w) \/ ConfirmCommitted(w)
  <2>1. drv[w].pc # "idle"
    BY <1>12 DEF Commit, ConfirmCommitted, At
  <2>2. CASE \E pc : Goto(w, pc)
    BY <1>1, <2>1, <2>2 DEF Goal
  <2>3. CASE \E pc, then : drv' = [drv EXCEPT ![w].pc = pc, ![w].then = then]
    BY <1>0, <2>1, <2>3 DEF DrvRec
  <2> QED BY <1>12, <2>2, <2>3 DEF Commit, ConfirmCommitted
<1> QED BY <1>8, <1>9, <1>10, <1>11, <1>12 DEF DriverStep

\* A driver's row has been written.
Driven == \A w \in Workers : drv[w].pc # "idle" => row[drv[w].s].stage # "absent"

LEMMA DriverRowGoal ==
    ASSUME RowInv, Driven, NEW w \in Workers, DriverStep(w)
    PROVE  RowGoal
<1> DEFINE s == drv[w].s
<1>0. /\ TypeInv /\ RowTypeOK /\ DrvTypeOK /\ StoreTypeOK /\ ses \in SesRec
  BY TypeParts DEF RowInv, TypeInv, StoreTypeOK, RowTypeOK
<1>1. drv[w].pc # "idle" => s \in Switches /\ row[s].stage # "absent"
  BY <1>0, Driving DEF Driven
<1>2. {"failed", "superseded", "ambiguous"} \subseteq Terminal
  BY DEF Terminal
<1>3. CASE SameRows /\ UNCHANGED ses
  BY <1>3, SameGoal
<1>4. CASE ClaimRequested(w)
  <2>1. s \in Switches /\ row[s].stage = "requested"
    BY <1>1, <1>4 DEF ClaimRequested, At
  <2>2. CASE row' = [row EXCEPT ![s].stage = "superseded"] /\ UNCHANGED ses
    <3>1. MovesTo(s, "superseded")
      BY <1>0, <2>1, <2>2, StageWrite
    <3>2. "superseded" \in Stage \ {"absent"} /\ "superseded" \notin Early /\ "superseded" \notin Held
      BY DEF Stage, Held, Terminal, Early
    <3>3. ses.pending # s
      BY <2>1 DEF RowInv, SlotHeld, Held
    <3> QED BY <2>1, <2>2, <3>1, <3>2, <3>3, MoveGoal
  <2>3. CASE /\ row' = [row EXCEPT ![s].stage = "reserved"]
             /\ ses' = [ses EXCEPT !.pending = s] /\ ses.pending \in {NoSwitch, s}
    <3>1. MovesTo(s, "reserved")
      BY <1>0, <2>1, <2>3, StageWrite
    <3>2. "reserved" \in Stage \ {"absent"} /\ "reserved" \in Held
      BY DEF Stage, Held
    <3>3. ~Late(s)
      BY <2>1 DEF Late, Early
    <3>4. ses'.pending = s /\ ses'.current = ses.current
      BY <1>0, <2>3 DEF SesRec
    <3> QED BY <2>1, <2>3, <3>1, <3>2, <3>3, <3>4, MoveGoal
  <2> QED BY <1>3, <1>4, <2>2, <2>3, NoRowWrite DEF ClaimRequested, Owning
<1>5. CASE StabilizeTarget(w)
  <2>1. s \in Switches /\ UNCHANGED ses
    BY <1>1, <1>5 DEF StabilizeTarget, At
  <2>2. CASE UNCHANGED row
    BY <1>3, <2>1, <2>2, NoRowWrite
  <2>3. CASE ~UNCHANGED row
    <3>1. PICK b \in {s, row[s].source} : row' = [row EXCEPT ![s].target = b]
      BY <1>5, <2>3 DEF StabilizeTarget
    <3>2. row[s].stage = "reserved"
      BY <1>5, <2>3 DEF StabilizeTarget
    <3>3. /\ \A t \in Switches : t # s => row'[t] = row[t]
          /\ row'[s].stage = row[s].stage /\ row'[s].source = row[s].source /\ row'[s].target = b
      BY <1>0, <2>1, <3>1 DEF RowTypeOK, RowRec
    <3>4. SlotHeld'
      BY <2>1, <3>3 DEF RowInv, SlotHeld
    <3>5. TargetOK'
      BY <2>1, <3>3 DEF RowInv, TargetOK
    <3>6. \A t \in Switches : Settles(t)
      BY <3>2, <3>3 DEF Settles, Late, Early
    <3> QED BY <3>4, <3>5, <3>6 DEF RowGoal
  <2> QED BY <2>2, <2>3
<1>6. CASE BeginWaiting(w) \/ AdvanceToPreparing(w)
  <2>1. s \in Switches /\ row[s].stage # "absent"
    BY <1>1, <1>6 DEF BeginWaiting, AdvanceToPreparing, At
  <2>2. \/ UNCHANGED <<ses, row>>
        \/ \E x \in {"waiting", "preparing"} : /\ row[s].stage \in {"reserved", "waiting"}
                                               /\ row' = [row EXCEPT ![s].stage = x]
                                               /\ ses' = Projected(s, x)
    BY <1>6 DEF BeginWaiting, AdvanceToPreparing
  <2>3. ASSUME NEW x \in {"waiting", "preparing"}, row[s].stage \in {"reserved", "waiting"},
               row' = [row EXCEPT ![s].stage = x], ses' = Projected(s, x)
        PROVE  RowGoal
    <3>1. MovesTo(s, x)
      BY <1>0, <2>1, <2>3, StageWrite
    <3>2. x \in Stage \ {"absent"} /\ x \in Held /\ x \notin Early /\ row[s].stage \in Held
      BY <2>3 DEF Stage, Held, Early
    <3>3. ses'.pending = ses.pending /\ ses'.current = ses.current /\ ses.pending = s
      BY <1>0, <2>1, <2>3, <3>2 DEF SesRec, Projected, RowInv, SlotHeld
    <3> QED BY <2>1, <3>1, <3>2, <3>3, MoveGoal
  <2> QED BY <1>3, <2>2, <2>3, NoRowWrite
<1>7. CASE AdvanceToPrepared(w) \/ AdvanceToCommitting(w) \/ Revert(w)
  <2>1. s \in Switches /\ row[s].stage # "absent" /\ UNCHANGED ses
    BY <1>1, <1>7 DEF AdvanceToPrepared, AdvanceToCommitting, Revert, At
  <2>2. \/ UNCHANGED row
        \/ \E x \in {"prepared", "committing"} :
             /\ row[s].stage \in {"preparing", "prepared", "committing"}
             /\ row' = [row EXCEPT ![s].stage = x]
    BY <1>7 DEF AdvanceToPrepared, AdvanceToCommitting, Revert
  <2>3. ASSUME NEW x \in {"prepared", "committing"}, row' = [row EXCEPT ![s].stage = x],
               row[s].stage \in {"preparing", "prepared", "committing"}
        PROVE  RowGoal
    <3>1. MovesTo(s, x)
      BY <1>0, <2>1, <2>3, StageWrite
    <3>2. x \in Stage \ {"absent"} /\ x \in Held /\ x \notin Early /\ row[s].stage \in Held
      BY <2>3 DEF Stage, Held, Early
    <3>3. ses.pending = s
      BY <2>1, <3>2 DEF RowInv, SlotHeld
    <3> QED BY <2>1, <3>1, <3>2, <3>3, MoveGoal
  <2> QED BY <1>3, <2>1, <2>2, <2>3, NoRowWrite
<1>8. CASE Commit(w)
  <2>1. s \in Switches /\ row[s].stage # "absent"
    BY <1>1, <1>8 DEF Commit, At
  <2>2. /\ {"committed", "superseded"} \subseteq Stage \ {"absent"}
        /\ \A x \in {"committed", "superseded"} : x \notin Held /\ x \notin Early
    BY DEF Stage, Held, Terminal, Early
  <2>3. CASE /\ Owning(w) /\ row' = [row EXCEPT ![s].stage = "committed"]
             /\ ses' = [ses EXCEPT !.revision = @ + 1, !.current = row[s].target,
                          !.effective = row[s].runtime, !.status = "ready",
                          !.pending = NoSwitch]
    <3>1. MovesTo(s, "committed")
      BY <1>0, <2>1, <2>3, StageWrite
    <3>2. /\ ses'.pending = NoSwitch /\ ses'.current = row[s].target
          /\ ses.pending = s /\ row[s].source = ses.current
      BY <1>0, <2>3 DEF SesRec, Owning, OwnsSource
    <3> QED BY <2>1, <2>2, <3>1, <3>2, MoveGoal
  <2>4. CASE /\ row' = [row EXCEPT ![s].stage = "superseded"]
             /\ ses' = [ses EXCEPT !.pending = IF @ = s THEN NoSwitch ELSE @]
    <3>1. MovesTo(s, "superseded")
      BY <1>0, <2>1, <2>4, StageWrite
    <3>2. /\ ses'.pending = IF ses.pending = s THEN NoSwitch ELSE ses.pending
          /\ ses'.current = ses.current
      BY <1>0, <2>4 DEF SesRec
    <3> QED BY <2>1, <2>2, <3>1, <3>2, MoveGoal
  <2> QED BY <1>3, <1>8, <2>3, <2>4, NoRowWrite DEF Commit
<1>9. CASE ConfirmCommitted(w)
  <2>1. s \in Switches
    BY <1>1, <1>9 DEF ConfirmCommitted, At
  <2>2. CASE row[s].stage = "committing" /\ ses.current = row[s].target
    <3>1. /\ row' = [row EXCEPT ![s].stage = "committed"]
          /\ ses' = IF ses.pending = s THEN [ses EXCEPT !.pending = NoSwitch] ELSE ses
      BY <1>9, <2>2 DEF ConfirmCommitted
    <3>2. MovesTo(s, "committed")
      BY <1>0, <2>1, <3>1, StageWrite
    <3>3. /\ "committed" \in Stage \ {"absent"} /\ "committed" \notin Held
          /\ "committed" \notin Early
      BY DEF Stage, Held, Terminal, Early
    <3>4. /\ ses'.pending = IF ses.pending = s THEN NoSwitch ELSE ses.pending
          /\ ses'.current = ses.current
      BY <1>0, <3>1 DEF SesRec
    <3> QED BY <2>1, <2>2, <3>2, <3>3, <3>4, MoveGoal
  <2>3. CASE ~(row[s].stage = "committing" /\ ses.current = row[s].target)
    BY <1>3, <1>9, <2>3, NoRowWrite DEF ConfirmCommitted
  <2> QED BY <2>2, <2>3
<1>10. CASE \E x \in {"failed", "superseded", "ambiguous"} : FinishWithoutCommit(s, x)
  <2>1. drv[w].pc # "idle"
    BY <1>0, DriverRecord
  <2> QED BY <1>1, <1>2, <1>10, <2>1, FinishGoal
<1> QED BY <1>0, <1>3, <1>4, <1>5, <1>6, <1>7, <1>8, <1>9, <1>10, DriverRows

\* A new row takes the slot or waits for it.
LEMMA NewRowGoal ==
    ASSUME RowInv, NEW s \in Switches, row[s].stage = "absent", NEW r, NEW n, NEW policy,
           NEW x \in {"requested", "reserved"}, NewRow(s, r, n, x, policy),
           ses'.current = ses.current,
           IF x = "reserved" THEN ses.pending = NoSwitch /\ ses'.pending = s
           ELSE ses'.pending = ses.pending
    PROVE  RowGoal
<1>0. RowTypeOK
  BY TypeParts DEF RowInv, TypeInv, StoreTypeOK, RowTypeOK
<1>1. /\ \A t \in Switches : t # s => row'[t] = row[t]
      /\ row'[s].stage = x /\ row'[s].source = ses.current /\ row'[s].target = s
  BY <1>0 DEF NewRow, RowTypeOK
<1>2. ses.current # s
  BY DEF RowInv, TargetOK
<1>3. SlotHeld'
  BY <1>1, IdNames DEF RowInv, SlotHeld, Held
<1>4. TargetOK'
  BY <1>1, <1>2 DEF RowInv, TargetOK
<1>5. \A t \in Switches : Settles(t)
  BY <1>1 DEF Settles, Late, Early
<1> QED BY <1>3, <1>4, <1>5 DEF RowGoal

LEMMA RowGoals ==
    ASSUME RowInv, Driven, [Next]_switchVars
    PROVE  RowGoal
<1>0. TypeInv /\ ses \in SesRec
  BY TypeParts DEF RowInv, TypeInv, StoreTypeOK
<1>1. CASE SameRows /\ UNCHANGED ses
  BY <1>1, SameGoal
<1>2. CASE \E w \in Workers : DriverStep(w)
  BY <1>2, DriverRowGoal
<1>3. CASE \E r \in Runtimes : MaterializeCurrent(r)
  <2>1. UNCHANGED row /\ ses'.pending = ses.pending /\ ses'.current = ses.current
    BY <1>0, <1>3 DEF MaterializeCurrent, SesRec
  <2> QED BY <2>1, SameGoal, NoRowWrite
<1>4. CASE \E w \in Workers, r \in Runtimes : SelectRuntime(w, r)
  <2>1. PICK r \in Runtimes, s \in Switches :
          row[s].stage = "absent" /\ NewRow(s, r, ses.selRevision + 1, "requested", "wait")
    BY <1>4 DEF SelectRuntime
  <2>2. ses'.pending = ses.pending /\ ses'.current = ses.current
    BY <1>0, <1>4 DEF SelectRuntime, SesRec
  <2> QED BY <2>1, <2>2, NewRowGoal
<1>5. CASE \E w \in Workers, r \in ForcedRuntimes : RequestSwitch(w, r)
  <2>1. PICK r \in ForcedRuntimes, s \in Switches, n \in 0 .. ses.selRevision, policy \in Policies :
          /\ row[s].stage = "absent" /\ NewRow(s, r, n, "reserved", policy)
          /\ ses' = [ses EXCEPT !.pending = s]
    BY <1>5 DEF RequestSwitch
  <2>2. ses'.pending = s /\ ses'.current = ses.current /\ ses.pending = NoSwitch
    BY <1>0, <1>5, <2>1 DEF RequestSwitch, SesRec
  <2> QED BY <2>1, <2>2, NewRowGoal
<1>6. CASE (CancelDirect \/ CancelLocked) /\ FinishWithoutCommit(can.s, "cancelled")
  <2>1. can.s \in Switches /\ "cancelled" \in Terminal
    BY <1>0, <1>6 DEF CancelDirect, CancelLocked, TypeInv, CancelNames, Terminal
  <2> QED BY <1>6, <2>1, FinishGoal
<1> QED BY <1>0, <1>1, <1>2, <1>3, <1>4, <1>5, <1>6, OtherRows

\* How the other steps change the record of a driver: one starts on a live switch, or
\* ends with its process.
LEMMA OtherRecords ==
    ASSUME TypeInv, [Next]_switchVars, NEW v \in Workers,
           \A w \in Workers : ~DriverStep(w)
    PROVE  \/ drv'[v] = drv[v]
           \/ drv'[v] = Idle
           \/ /\ drv[v].pc = "idle"
              /\ \E s \in Switches : /\ drv'[v] = [Idle EXCEPT !.pc = "loop", !.s = s]
                                     /\ Live(s) /\ Takeable(s)
                                     /\ row' = [row EXCEPT ![s].owner = v]
                                     /\ \A w \in Workers : w # v => drv'[w] = drv[w]
<1>0. drv \in [Workers -> DrvRec] /\ TaskTypeOK
  BY TypeParts DEF TypeInv, DrvTypeOK
<1>1. CASE UNCHANGED drv
  BY <1>1
<1>2. CASE \/ UNCHANGED switchVars \/ EndTurn \/ CancelStep
           \/ \E r \in Runtimes : MaterializeCurrent(r)
  BY <1>1, <1>2 DEF switchVars, taskVars, EndTurn, CancelStep, CancelDirect, CancelLease,
     CancelLocked, CancelRelease, MaterializeCurrent
<1>3. ASSUME NEW w \in Workers,
             \/ FinishBoot(w) \/ BeginTurn(w)
             \/ \E r \in Runtimes : SelectRuntime(w, r)
             \/ \E r \in ForcedRuntimes : RequestSwitch(w, r)
             \/ \E s \in Switches : Unwatch(w, s) \/ BeginCancel(w, s)
      PROVE  UNCHANGED drv
  BY <1>3 DEF FinishBoot, BeginTurn, SelectRuntime, RequestSwitch, Unwatch, BeginCancel, taskVars
<1>4. ASSUME NEW w \in Workers, Crash(w)
      PROVE  drv'[v] = drv[v] \/ drv'[v] = Idle
  BY <1>0, <1>4 DEF Crash
<1>5. ASSUME NEW w \in Workers, NEW s \in Switches, drv[w].pc = "idle", TakeLease(s, w),
             drv' = [drv EXCEPT ![w] = [Idle EXCEPT !.pc = "loop", !.s = s]]
      PROVE  \/ drv'[v] = drv[v]
             \/ /\ drv[v].pc = "idle"
                /\ \E t \in Switches : /\ drv'[v] = [Idle EXCEPT !.pc = "loop", !.s = t]
                                       /\ Live(t) /\ Takeable(t)
                                       /\ row' = [row EXCEPT ![t].owner = v]
                                       /\ \A u \in Workers : u # v => drv'[u] = drv[u]
  <2>1. \A u \in Workers : u # w => drv'[u] = drv[u]
    BY <1>0, <1>5
  <2>2. drv'[w] = [Idle EXCEPT !.pc = "loop", !.s = s]
    BY <1>0, <1>5
  <2>3. Live(s) /\ Takeable(s) /\ row' = [row EXCEPT ![s].owner = w]
    BY <1>5 DEF TakeLease
  <2>4. CASE v # w
    BY <2>1, <2>4
  <2>5. CASE v = w
    <3>1. drv[v].pc = "idle" /\ drv'[v] = [Idle EXCEPT !.pc = "loop", !.s = s]
      BY <1>5, <2>2, <2>5
    <3>2. row' = [row EXCEPT ![s].owner = v] /\ \A u \in Workers : u # v => drv'[u] = drv[u]
      BY <2>1, <2>3, <2>5
    <3> QED BY <2>3, <3>1, <3>2
  <2> QED BY <2>4, <2>5
<1>6. CASE \E w \in Workers : DriveNext(w)
  <2>1. PICK w \in Workers : DriveNext(w)
    BY <1>6
  <2>2. PICK s \in boot[w].left :
          \/ UNCHANGED drv
          \/ /\ TakeLease(s, w)
             /\ drv' = [drv EXCEPT ![w] = [Idle EXCEPT !.pc = "loop", !.s = s]]
    BY <2>1 DEF DriveNext
  <2>3. s \in Switches /\ drv[w].pc = "idle"
    BY <1>0, <2>1 DEF DriveNext, At, TaskTypeOK
  <2> QED BY <1>1, <1>5, <2>2, <2>3
<1>7. CASE \E w \in Workers, s \in Switches : DriveSwitch(w, s)
  BY <1>5, <1>7 DEF DriveSwitch, At
<1> QED BY <1>1, <1>2, <1>3, <1>4, <1>6, <1>7 DEF Next

RowsInv == RowInv /\ Driven

LEMMA RowsInit == Init => RowsInv
<1> SUFFICES ASSUME Init PROVE RowsInv
  OBVIOUS
<1>1. SlotHeld
  BY IdNames DEF Init, SlotHeld, Held
<1>2. TargetOK
  BY IdNames DEF Init, TargetOK
<1>3. Driven
  BY DEF Init, Driven, Idle
<1> QED BY <1>1, <1>2, <1>3, InitTypes DEF RowsInv, RowInv

LEMMA RowsStep == RowsInv /\ [Next]_switchVars => RowsInv' /\ \A s \in Switches : Settles(s)
<1> SUFFICES ASSUME RowsInv, [Next]_switchVars
             PROVE  RowsInv' /\ \A s \in Switches : Settles(s)
  OBVIOUS
<1>0. TypeInv /\ RowInv /\ Driven
  BY DEF RowsInv, RowInv
<1>1. TypeInv' /\ RowGoal
  BY <1>0, TypeStep, RowGoals
<1>2. Driven'
  <2> SUFFICES ASSUME NEW v \in Workers, drv'[v].pc # "idle"
               PROVE  row'[drv'[v].s].stage # "absent"
    BY DEF Driven
  <2>0. DrvTypeOK /\ RowTypeOK
    BY <1>0, TypeParts DEF TypeInv, StoreTypeOK, RowTypeOK
  <2>1. CASE drv'[v].s = drv[v].s /\ drv[v].pc # "idle"
    <3>1. drv[v].s \in Switches /\ row[drv[v].s].stage # "absent"
      BY <1>0, <2>0, <2>1, Driving DEF Driven
    <3> QED BY <1>1, <2>1, <3>1 DEF RowGoal, Settles
  <2>2. CASE \E w \in Workers : DriverStep(w)
    BY <1>0, <2>1, <2>2, DriverRecord
  <2>3. CASE \A w \in Workers : ~DriverStep(w)
    <3>1. CASE \E s \in Switches : drv'[v] = [Idle EXCEPT !.pc = "loop", !.s = s] /\ Live(s)
      <4>1. PICK s \in Switches : drv'[v].s = s /\ Live(s)
        BY <3>1 DEF Idle
      <4>2. row[s].stage # "absent"
        BY <4>1 DEF Live, Held
      <4> QED BY <1>1, <4>1, <4>2 DEF RowGoal, Settles
    <3>2. drv'[v] # Idle
      BY DEF Idle
    <3> QED BY <1>0, <2>1, <2>3, <3>1, <3>2, OtherRecords
  <2> QED BY <2>2, <2>3
<1> QED BY <1>1, <1>2 DEF RowsInv, RowInv, RowGoal

-----------------------------------------------------------------------------
(* The journal. *)

\* The other tasks leave the journal and the agent alone.
LEMMA OtherJournal ==
    ASSUME [Next]_switchVars, \A w \in Workers : ~DriverStep(w)
    PROVE  UNCHANGED <<jr, made>>
<1>1. CASE \/ UNCHANGED switchVars \/ EndTurn \/ CancelStep
           \/ \E r \in Runtimes : MaterializeCurrent(r)
  BY <1>1 DEF switchVars, storeVars, worldVars, EndTurn, CancelStep, CancelDirect,
     CancelLease, CancelLocked, CancelRelease, MaterializeCurrent
<1>2. ASSUME NEW w \in Workers,
             \/ DriveNext(w) \/ FinishBoot(w) \/ BeginTurn(w) \/ Crash(w)
             \/ \E r \in Runtimes : SelectRuntime(w, r)
             \/ \E r \in ForcedRuntimes : RequestSwitch(w, r)
             \/ \E s \in Switches : DriveSwitch(w, s) \/ Unwatch(w, s) \/ BeginCancel(w, s)
      PROVE  UNCHANGED <<jr, made>>
  BY <1>2 DEF DriveNext, FinishBoot, BeginTurn, Crash, SelectRuntime, RequestSwitch,
     DriveSwitch, Unwatch, BeginCancel, storeVars, worldVars
<1> QED BY <1>1, <1>2 DEF Next

\* An entry of the journal is written by the driver that is at that operation.
LEMMA DriverJournal ==
    ASSUME TypeInv, NEW w \in Workers, DriverStep(w)
    PROVE  \/ UNCHANGED jr
           \/ BeginOperation(w) \/ ReconcileOperation(w) \/ Answer(w) \/ MarkSucceeded(w)
<1>1. CASE \/ LeaseLost(w) \/ ClaimRequested(w) \/ Dispatch(w) \/ Disown(w)
            \/ StabilizeTarget(w) \/ SettleActiveWork(w) \/ BeginWaiting(w) \/ Park(w)
            \/ Fence(w) \/ AdvanceToPreparing(w) \/ ProbeFenced(w) \/ EnsureCommitIdle(w)
            \/ Recheck(w) \/ ChooseStrategy(w) \/ Send(w)
  BY <1>1 DEF LeaseLost, ClaimRequested, Dispatch, Disown, Supersede, SourceConflict,
     StabilizeTarget, SettleActiveWork, BeginWaiting, Park, Fence, AdvanceToPreparing,
     ProbeFenced, EnsureCommitIdle, Recheck, ChooseStrategy, Send, storeVars
<1>2. CASE \/ AdvanceToPrepared(w)
            \/ Revalidate(w) \/ AdvanceToCommitting(w) \/ Commit(w) \/ Revert(w)
            \/ ConfirmCommitted(w) \/ Activate(w) \/ ReadFailed(w) \/ FailSwitch(w)
            \/ CleanUp(w) \/ Release(w)
  BY <1>2 DEF AdvanceToPrepared, Revalidate, AdvanceToCommitting, Commit, Revert,
     ConfirmCommitted, Activate, ReadFailed, FailSwitch, CleanUp, Release, storeVars
<1> QED BY <1>1, <1>2 DEF DriverStep

\* The entry a driver writes, and what it may have held.
Entry(w) == jr[drv[w].s][drv[w].op]

LEMMA JournalWrite ==
    ASSUME TypeInv, NEW w \in Workers,
           BeginOperation(w) \/ ReconcileOperation(w) \/ Answer(w) \/ MarkSucceeded(w)
    PROVE  /\ drv[w].s \in Switches /\ drv[w].op \in OpKinds /\ drv[w].pc \in OpPcs
           /\ \A s \in Switches, op \in OpKinds :
                s # drv[w].s \/ op # drv[w].op => jr'[s][op] = jr[s][op]
           /\ \/ jr'[drv[w].s][drv[w].op] = Entry(w)
              \/ /\ Entry(w).st \in {"about", "done"}
                 /\ jr'[drv[w].s][drv[w].op] = [Entry(w) EXCEPT !.st = "done"]
              \/ /\ Entry(w).st \in {"none", "about", "failed"}
                 /\ jr'[drv[w].s][drv[w].op] = [n |-> Entry(w).n + 1, st |-> "about"]
              \/ /\ Entry(w).st \in {"about", "ambiguous"}
                 /\ \E x \in {"ambiguous", "failed"} :
                      jr'[drv[w].s][drv[w].op] = [Entry(w) EXCEPT !.st = x]
<1>0. jr \in [Switches -> [OpKinds -> JournalRec]] /\ DrvTypeOK
  BY TypeParts DEF TypeInv, StoreTypeOK
<1>1. drv[w].pc \in OpPcs /\ drv[w].pc # "idle"
  BY DEF BeginOperation, ReconcileOperation, Answer, MarkSucceeded, At, OpPcs
<1>2. drv[w].s \in Switches /\ drv[w].op \in OpKinds
  BY <1>0, <1>1, Driving DEF DrvRec
<1> DEFINE s == drv[w].s
           op == drv[w].op
<1>3. \/ jr' = jr
      \/ Entry(w).st \in {"about", "done"} /\ jr' = [jr EXCEPT ![s][op].st = "done"]
      \/ Entry(w).st \in {"none", "about", "failed"} /\ jr' = Journaled(s, op)
      \/ /\ Entry(w).st \in {"about", "ambiguous"}
         /\ \E x \in {"ambiguous", "failed"} : jr' = [jr EXCEPT ![s][op].st = x]
  <2>0. \A n : Open(s, op, n) => Entry(w).st = "about"
    BY DEF Open, Entry
  <2>1. CASE BeginOperation(w)
    BY <2>1 DEF BeginOperation, Ambiguous, Entry
  <2>2. CASE ReconcileOperation(w)
    BY <2>0, <2>2 DEF ReconcileOperation, Ambiguous
  <2>3. CASE Answer(w)
    BY <2>0, <2>3 DEF Answer
  <2>4. CASE MarkSucceeded(w)
    BY <2>0, <2>4 DEF MarkSucceeded
  <2> QED BY <2>1, <2>2, <2>3, <2>4
<1>4. \A x : jr' = [jr EXCEPT ![s][op].st = x] =>
        /\ \A t \in Switches, o \in OpKinds : t # s \/ o # op => jr'[t][o] = jr[t][o]
        /\ jr'[s][op] = [Entry(w) EXCEPT !.st = x]
  BY <1>0, <1>2 DEF Entry
<1>5. jr' = Journaled(s, op) =>
        /\ \A t \in Switches, o \in OpKinds : t # s \/ o # op => jr'[t][o] = jr[t][o]
        /\ jr'[s][op] = [n |-> Entry(w).n + 1, st |-> "about"]
  BY <1>0, <1>2 DEF Entry, Journaled
<1>6. jr' = jr => /\ \A t \in Switches, o \in OpKinds : t # s \/ o # op => jr'[t][o] = jr[t][o]
                  /\ jr'[s][op] = Entry(w)
  BY DEF Entry
<1> QED BY <1>1, <1>2, <1>3, <1>4, <1>5, <1>6

\* An operation that is done stays done.
DoneStays(s) == \A op \in OpKinds : jr[s][op].st = "done" => jr'[s][op].st = "done"

LEMMA JournalStays ==
    ASSUME TypeInv, [Next]_switchVars, NEW s \in Switches
    PROVE  DoneStays(s)
<1>1. CASE UNCHANGED jr
  BY <1>1 DEF DoneStays
<1>2. ASSUME NEW w \in Workers,
             BeginOperation(w) \/ ReconcileOperation(w) \/ Answer(w) \/ MarkSucceeded(w)
      PROVE  DoneStays(s)
  <2>0. Entry(w) \in JournalRec
    <3>1. drv[w].s \in Switches /\ drv[w].op \in OpKinds
      BY <1>2, JournalWrite
    <3> QED BY <3>1, TypeParts DEF TypeInv, StoreTypeOK, Entry
  <2>1. Entry(w).st = "done" => jr'[drv[w].s][drv[w].op].st = "done"
    <3> SUFFICES ASSUME Entry(w).st = "done" PROVE jr'[drv[w].s][drv[w].op].st = "done"
      OBVIOUS
    <3>1. \/ jr'[drv[w].s][drv[w].op] = Entry(w)
          \/ jr'[drv[w].s][drv[w].op] = [Entry(w) EXCEPT !.st = "done"]
      BY <1>2, JournalWrite
    <3> QED BY <2>0, <3>1 DEF JournalRec
  <2>2. \A t \in Switches, op \in OpKinds :
                t # drv[w].s \/ op # drv[w].op => jr'[t][op] = jr[t][op]
    BY <1>2, JournalWrite
  <2> QED BY <2>1, <2>2 DEF DoneStays, Entry
<1>3. CASE \E w \in Workers : DriverStep(w)
  BY <1>1, <1>2, <1>3, DriverJournal
<1>4. CASE \A w \in Workers : ~DriverStep(w)
  BY <1>1, <1>4, OtherJournal
<1> QED BY <1>3, <1>4

-----------------------------------------------------------------------------
(* A committed switch was prepared. *)

\* The operations of a switch are done.
Opened(s) == jr[s]["restore"].st = "done" \/ jr[s]["create"].st = "done"
Done(s) ==
    IF LiveMutation(s) THEN jr[s]["mutate"].st = "done"
    ELSE jr[s]["config"].st = "done" /\ Opened(s)

Prepared == {"prepared", "committing", "committed"}

StagesDone == \A s \in Switches : row[s].stage \in Prepared => Done(s)

\* What a driver on its way through the operations has behind it.
Course(d) ==
    /\ (d.pc # "idle" /\ d.then = "prepare") \/ d.pc \in {"prepare", "prepared", "commit"}
         => Late(d.s)
    /\ d.pc \in OpPcs /\ d.op # "cancel" =>
         /\ Late(d.s)
         /\ LiveMutation(d.s) <=> d.op = "mutate"
         /\ d.op = "config" => Opened(d.s)
    /\ d.pc \in {"prepared", "commit"} => Done(d.s)

PreparedInv == StagesDone /\ \A w \in Workers : Course(drv[w])

\* What was behind a switch stays behind it.
LEMMA DoneKept ==
    ASSUME NEW s \in Switches, Settles(s), DoneStays(s)
    PROVE  /\ Opened(s) => Opened(s)'
           /\ Late(s) => Late(s)' /\ (LiveMutation(s)' <=> LiveMutation(s))
           /\ Late(s) /\ Done(s) => Done(s)'
<1>1. "restore" \in OpKinds /\ "create" \in OpKinds /\ "mutate" \in OpKinds /\ "config" \in OpKinds
  BY DEF OpKinds
<1>2. Opened(s) => Opened(s)'
  BY <1>1 DEF Opened, DoneStays
<1>3. Late(s) => Late(s)' /\ (LiveMutation(s)' <=> LiveMutation(s))
  BY DEF Settles, Late, LiveMutation, Early
<1>4. Late(s) /\ Done(s) => Done(s)'
  BY <1>1, <1>2, <1>3 DEF Done, DoneStays
<1> QED BY <1>2, <1>3, <1>4

LEMMA CourseKept ==
    ASSUME NEW w \in Workers, drv[w].s \in Switches, Course(drv[w]), drv'[w] = drv[w],
           Settles(drv[w].s), DoneStays(drv[w].s)
    PROVE  Course(drv[w])'
<1>1. PICK s \in Switches : s = drv[w].s
  OBVIOUS
<1>2. /\ Opened(s) => Opened(s)'
      /\ Late(s) => Late(s)' /\ (LiveMutation(s)' <=> LiveMutation(s))
      /\ Late(s) /\ Done(s) => Done(s)'
  BY <1>1, DoneKept
<1>3. drv'[w].s = s
  BY <1>1
<1> QED BY <1>1, <1>2, <1>3 DEF Course, Opened, Late, LiveMutation, Done

\* A driver whose new record has nothing behind it.
PlainPcs == Pcs \ ({"prepare", "prepared", "commit"} \cup OpPcs)

LEMMA PlainCourse ==
    ASSUME NEW w \in Workers, drv'[w].then # "prepare", drv'[w].pc \in PlainPcs
    PROVE  Course(drv[w])'
  BY DEF Course, PlainPcs

LEMMA GotoPlain ==
    ASSUME TypeInv, NEW w \in Workers, NEW pc \in PlainPcs, Goto(w, pc)
    PROVE  Course(drv[w])'
<1>1. drv'[w] = [Idle EXCEPT !.pc = pc, !.s = drv[w].s]
  BY TypeParts DEF TypeInv, DrvTypeOK, Goto
<1>2. drv'[w].pc = pc /\ drv'[w].then = "idle"
  BY <1>1 DEF Idle
<1> QED BY <1>2, PlainCourse

\* A driver that keeps what it has to resume.
LEMMA ResumeCourse ==
    ASSUME TypeInv, NEW w \in Workers, drv[w].s \in Switches, Course(drv[w]),
           drv[w].pc # "idle", Settles(drv[w].s), DoneStays(drv[w].s),
           drv'[w].then \in {drv[w].then, "idle"}, drv'[w].pc \in PlainPcs, drv'[w].s = drv[w].s
    PROVE  Course(drv[w])'
  BY DoneKept DEF Course, Late, PlainPcs

\* An operation that is done brings the driver to the next, or to the end.
LEMMA ProceedCourse ==
    ASSUME TypeInv, NEW w \in Workers, drv[w].pc \in OpPcs, Course(drv[w]),
           Settles(drv[w].s), DoneStays(drv[w].s), Proceed(w, drv[w].op),
           jr'[drv[w].s][drv[w].op].st = "done"
    PROVE  Course(drv[w])'
<1>0. drv \in [Workers -> DrvRec] /\ drv[w].s \in Switches /\ drv[w].op \in OpKinds
  BY TypeParts, Driving DEF TypeInv, DrvTypeOK, OpPcs, DrvRec
<1>1. PICK s \in Switches, op \in OpKinds : s = drv[w].s /\ op = drv[w].op
  BY <1>0
<1>2. /\ Opened(s) => Opened(s)'
      /\ Late(s) => Late(s)' /\ (LiveMutation(s)' <=> LiveMutation(s))
  BY <1>1, DoneKept
<1>3. PICK next \in NextOp(s, op) :
         drv' = [drv EXCEPT ![w].pc = After(s, op), ![w].op = next, ![w].n = 0, ![w].ok = FALSE]
  BY <1>1 DEF Proceed
<1>4. /\ drv'[w].pc = After(s, op) /\ drv'[w].op = next /\ drv'[w].s = s
      /\ drv'[w].then = drv[w].then
  BY <1>0, <1>1, <1>3 DEF DrvRec
<1>5. /\ drv[w].then = "prepare" => Late(s)
      /\ op # "cancel" => /\ Late(s) /\ (LiveMutation(s) <=> op = "mutate")
                          /\ op = "config" => Opened(s)
  BY <1>1 DEF Course, OpPcs
<1>6. jr'[s][op].st = "done"
  BY <1>1
<1>7. CASE op = "cancel"
  BY <1>2, <1>4, <1>5, <1>7 DEF Course, After, OpPcs, Late
<1>8. CASE op = "mutate"
  <2>1. Done(s)'
    BY <1>2, <1>5, <1>6, <1>8 DEF Done
  <2> QED BY <1>2, <1>4, <1>5, <1>8, <2>1 DEF Course, After, OpPcs, Late, Done, LiveMutation, Opened
<1>9. CASE op = "config"
  <2>1. Done(s)'
    BY <1>2, <1>5, <1>6, <1>9 DEF Done
  <2> QED BY <1>2, <1>4, <1>5, <1>9, <2>1 DEF Course, After, OpPcs, Late, Done, LiveMutation, Opened
<1>10. CASE op = "spawn"
  <2>1. next \in {"restore", "create"} /\ After(s, op) = "begin"
    BY <1>3, <1>10 DEF NextOp, After
  <2> QED BY <1>2, <1>4, <1>5, <1>10, <2>1 DEF Course, Late, LiveMutation
<1>11. CASE op \in {"restore", "create"}
  <2>1. next = "config" /\ After(s, op) = "begin"
    BY <1>3, <1>11 DEF NextOp, After
  <2>2. Opened(s)'
    BY <1>6, <1>11 DEF Opened
  <2> QED BY <1>2, <1>4, <1>5, <1>11, <2>1, <2>2 DEF Course, Late, LiveMutation, Opened
<1> QED BY <1>7, <1>8, <1>9, <1>10, <1>11 DEF OpKinds

\* An attempt at an operation keeps what is behind it.
LEMMA AttemptCourse ==
    ASSUME TypeInv, NEW w \in Workers, drv[w].s \in Switches, drv[w].pc \in OpPcs,
           Course(drv[w]), Settles(drv[w].s), DoneStays(drv[w].s),
           drv'[w].pc \in OpPcs, drv'[w].op = drv[w].op, drv'[w].s = drv[w].s,
           drv'[w].then = drv[w].then
    PROVE  Course(drv[w])'
<1>1. PICK s \in Switches : s = drv[w].s
  OBVIOUS
<1>2. /\ Opened(s) => Opened(s)'
      /\ Late(s) => Late(s)' /\ (LiveMutation(s)' <=> LiveMutation(s))
  BY <1>1, DoneKept
<1>3. drv'[w].pc \notin {"prepare", "prepared", "commit"} /\ drv[w].pc # "idle"
  BY DEF OpPcs
<1> QED BY <1>1, <1>2, <1>3 DEF Course, Opened, Late, LiveMutation

LEMMA DriverCourse ==
    ASSUME TypeInv, PreparedInv, NEW w \in Workers, DriverStep(w),
           \A s \in Switches : Settles(s) /\ DoneStays(s)
    PROVE  Course(drv[w])'
<1>0. /\ drv \in [Workers -> DrvRec] /\ drv[w].s \in Switches /\ drv[w].op \in OpKinds
      /\ Course(drv[w]) /\ Settles(drv[w].s) /\ DoneStays(drv[w].s) /\ drv[w].pc # "idle"
  BY TypeParts, Driving, DriverRecord DEF TypeInv, DrvTypeOK, DrvRec, PreparedInv
<1>1. PlainPcs = {"idle", "loop", "target", "settle", "wait", "park", "fence", "advance",
                  "fenced", "work", "recheck", "revalidate", "committing", "revert",
                  "reconcile", "activate", "error", "fail", "clean", "release"}
  BY DEF PlainPcs, Pcs, OpPcs
<1> DEFINE s == drv[w].s
<1>c. PICK c \in Switches : c = s
  BY <1>0
<1>k. /\ Late(c) => Late(c)' /\ (LiveMutation(c)' <=> LiveMutation(c))
      /\ Late(c) /\ Done(c) => Done(c)'
  BY DoneKept
<1>2. CASE UNCHANGED drv
  BY <1>0, <1>2, CourseKept
<1>3. CASE \E pc \in PlainPcs : Goto(w, pc)
  BY <1>3, GotoPlain
<1>4. CASE Stop(w)
  <2>1. drv'[w].pc = "idle" /\ drv'[w].then = "idle"
    BY <1>0, <1>4 DEF Stop, Idle
  <2> QED BY <1>1, <2>1, PlainCourse
<1>5. CASE \/ LeaseLost(w) \/ ClaimRequested(w) \/ Disown(w) \/ StabilizeTarget(w)
            \/ BeginWaiting(w) \/ Park(w) \/ AdvanceToPreparing(w) \/ ProbeFenced(w)
  <2>1. Stop(w) \/ UNCHANGED drv
        \/ \E pc \in {"release", "error", "settle", "park", "fenced", "loop"} : Goto(w, pc)
    BY <1>5 DEF LeaseLost, ClaimRequested, Disown, Supersede, SourceConflict,
       StabilizeTarget, BeginWaiting, Park, AdvanceToPreparing, ProbeFenced
  <2> QED BY <1>1, <1>2, <1>3, <1>4, <2>1
<1>6. CASE \/ AdvanceToPrepared(w) \/ Revalidate(w) \/ Activate(w) \/ CleanUp(w) \/ Release(w)
  <2>1. Stop(w) \/ \E pc \in {"loop", "error", "committing", "release"} : Goto(w, pc)
    BY <1>6 DEF AdvanceToPrepared, Revalidate, Activate, CleanUp, Release
  <2> QED BY <1>1, <1>3, <1>4, <2>1
<1>7. CASE Dispatch(w)
  <2>1. CASE \E pc \in {"release", "reconcile", "target", "settle"} : Goto(w, pc)
    BY <1>1, <1>3, <2>1
  <2>2. CASE /\ row[s].stage \in {"preparing", "prepared"}
             /\ drv' = [drv EXCEPT ![w].pc = "work",
                          ![w].then = IF row[s].stage = "preparing" THEN "prepare"
                                      ELSE "revalidate"]
    <3>1. drv'[w].pc = "work" /\ drv'[w].s = s
      BY <1>0, <2>2 DEF DrvRec
    <3>2. Late(s)
      BY <2>2 DEF Late, Early
    <3>3. Late(c)'
      BY <1>c, <1>k, <3>2
    <3> QED BY <1>c, <3>1, <3>3 DEF Course, Late, OpPcs
  <2> QED BY <1>7, <2>1, <2>2 DEF Dispatch
<1>8. CASE \E then \in {"fence", drv[w].then} : CancelWork(w, then)
  <2>1. PICK then \in {"fence", drv[w].then} :
          drv' = [drv EXCEPT ![w].pc = "begin", ![w].op = "cancel", ![w].then = then]
    BY <1>8 DEF CancelWork
  <2>2. drv'[w].pc = "begin" /\ drv'[w].op = "cancel" /\ drv'[w].s = s /\ drv'[w].then = then
    BY <1>0, <2>1 DEF DrvRec
  <2>3. then = "prepare" => Late(c)'
    BY <1>0, <1>c, <1>k DEF Course
  <2> QED BY <1>c, <2>2, <2>3 DEF Course, Late
<1>9. CASE SettleActiveWork(w)
  <2>1. CancelWork(w, "fence") \/ \E pc \in {"error", "wait", "fence"} : Goto(w, pc)
    BY <1>9 DEF SettleActiveWork, Reject
  <2> QED BY <1>1, <1>3, <1>8, <2>1
<1>10. CASE Goto(w, drv[w].then) /\ drv[w].then \in {"fence", "prepare", "revalidate"}
  <2>1. CASE drv[w].then = "prepare"
    <3>1. Late(c)'
      BY <1>0, <1>c, <1>k, <2>1 DEF Course
    <3>2. drv'[w].pc = "prepare" /\ drv'[w].s = s /\ drv'[w].then = "idle"
      BY <1>0, <1>10, <2>1 DEF Goto, Idle
    <3> QED BY <1>c, <3>1, <3>2 DEF Course, Late, OpPcs
  <2>2. CASE drv[w].then \in {"fence", "revalidate"}
    BY <1>1, <1>3, <1>10, <2>2
  <2> QED BY <1>10, <2>1, <2>2
<1>11. CASE EnsureCommitIdle(w) \/ Recheck(w)
  <2>1. drv[w].then \in {"fence", "prepare", "revalidate"}
    BY <1>11 DEF EnsureCommitIdle, Recheck, At, TypeInv, Resumes, Resumable
  <2>2. \/ CancelWork(w, drv[w].then) \/ UNCHANGED drv \/ Goto(w, drv[w].then) \/ Goto(w, "error")
    BY <1>11 DEF EnsureCommitIdle, Recheck, Reject
  <2> QED BY <1>1, <1>2, <1>3, <1>8, <1>10, <2>1, <2>2
<1>12. CASE Fence(w)
  <2>1. /\ drv'[w].pc = "advance" /\ drv'[w].s = s
        /\ drv'[w].then = drv[w].then
    BY <1>0, <1>12 DEF Fence, DrvRec
  <2> QED BY <1>0, <1>1, <2>1, ResumeCourse
<1>13. CASE ChooseStrategy(w)
  <2>1. CASE Goto(w, "error")
    BY <1>1, <1>3, <2>1
  <2>2. CASE \E op : Begin(w, op) /\ op = IF LiveMutation(s) THEN "mutate" ELSE "spawn"
    <3>1. PICK op : Begin(w, op) /\ op = IF LiveMutation(s) THEN "mutate" ELSE "spawn"
      BY <2>2
    <3>2. Late(s)
      BY <1>0, <1>13 DEF Course, ChooseStrategy, At
    <3>3. Late(c)' /\ (LiveMutation(c)' <=> LiveMutation(s))
      BY <1>c, <1>k, <3>2
    <3>4. drv'[w].pc = "begin" /\ drv'[w].op = op /\ drv'[w].s = s /\ drv'[w].then = "idle"
      BY <1>0, <3>1 DEF Begin, Idle
    <3> QED BY <1>c, <3>1, <3>3, <3>4 DEF Course, Late, LiveMutation
  <2> QED BY <1>13, <2>1, <2>2 DEF ChooseStrategy
<1>14. CASE drv[w].pc \in OpPcs /\ \E n : Execute(w, drv[w].op, n)
  <2>1. PICK n : Execute(w, drv[w].op, n)
    BY <1>14
  <2>2. drv'[w].pc = "send" /\ drv'[w].op = drv[w].op /\ drv'[w].s = s
          /\ drv'[w].then = drv[w].then
    BY <1>0, <2>1 DEF Execute, DrvRec
  <2>3. "send" \in OpPcs
    BY DEF OpPcs
  <2> QED BY <1>0, <1>14, <2>2, <2>3, AttemptCourse
<1>15. CASE BeginOperation(w) \/ ReconcileOperation(w)
  <2>0. /\ drv[w].pc \in OpPcs
        /\ jr \in [Switches -> [OpKinds -> JournalRec]]
    BY <1>15, TypeParts DEF BeginOperation, ReconcileOperation, At, OpPcs, TypeInv, StoreTypeOK
  <2>1. CASE Proceed(w, drv[w].op) /\ jr' = [jr EXCEPT ![s][drv[w].op].st = "done"]
    <3>1. jr'[s][drv[w].op].st = "done"
      BY <1>0, <2>0, <2>1 DEF JournalRec
    <3> QED BY <1>0, <2>0, <2>1, <3>1, ProceedCourse
  <2>2. CASE \E n : drv' = [drv EXCEPT ![w].pc = "answer", ![w].n = n]
    <3>1. drv'[w].pc = "answer" /\ drv'[w].op = drv[w].op /\ drv'[w].s = s
            /\ drv'[w].then = drv[w].then
      BY <1>0, <2>2 DEF DrvRec
    <3>2. "answer" \in OpPcs
      BY DEF OpPcs
    <3> QED BY <1>0, <2>0, <3>1, <3>2, AttemptCourse
  <2>3. CASE \E n : Execute(w, drv[w].op, n)
    BY <1>14, <2>0, <2>3
  <2>4. CASE Goto(w, "error")
    BY <1>1, <1>3, <2>4
  <2>5. \/ Goto(w, "error")
        \/ Proceed(w, drv[w].op) /\ jr' = [jr EXCEPT ![s][drv[w].op].st = "done"]
        \/ \E n : Execute(w, drv[w].op, n) \/ drv' = [drv EXCEPT ![w].pc = "answer", ![w].n = n]
    BY <1>15 DEF BeginOperation, ReconcileOperation, Skip, Ambiguous
  <2> QED BY <2>1, <2>2, <2>3, <2>4, <2>5
<1>16. CASE Send(w)
  <2>1. drv'[w].pc = "sent" /\ drv'[w].op = drv[w].op /\ drv'[w].s = s
            /\ drv'[w].then = drv[w].then
    BY <1>0, <1>16 DEF Send, DrvRec
  <2>2. "sent" \in OpPcs /\ drv[w].pc \in OpPcs
    BY <1>16 DEF OpPcs, Send, At
  <2> QED BY <1>0, <2>1, <2>2, AttemptCourse
<1>17. CASE Answer(w)
  <2>0. "mark" \in OpPcs /\ drv[w].pc \in OpPcs
    BY <1>17 DEF OpPcs, Answer, At
  <2>1. CASE drv' = [drv EXCEPT ![w].pc = "mark"]
    <3>1. drv'[w].pc = "mark" /\ drv'[w].op = drv[w].op /\ drv'[w].s = s
            /\ drv'[w].then = drv[w].then
      BY <1>0, <2>1 DEF DrvRec
    <3> QED BY <1>0, <2>0, <3>1, AttemptCourse
  <2>2. CASE drv[w].op = "restore" /\ Begin(w, "create")
    <3>1. Late(s) /\ ~LiveMutation(s)
      BY <1>0, <2>0, <2>2 DEF Course
    <3>2. Late(c)' /\ ~LiveMutation(c)'
      BY <1>c, <1>k, <3>1
    <3>3. drv'[w].pc = "begin" /\ drv'[w].op = "create" /\ drv'[w].s = s /\ drv'[w].then = "idle"
      BY <1>0, <2>2 DEF Begin, Idle
    <3> QED BY <1>c, <3>2, <3>3 DEF Course, Late, LiveMutation
  <2>3. CASE Goto(w, "error")
    BY <1>1, <1>3, <2>3
  <2> QED BY <1>17, <2>1, <2>2, <2>3 DEF Answer
<1>18. CASE MarkSucceeded(w)
  <2>0. drv[w].pc \in OpPcs /\ jr \in [Switches -> [OpKinds -> JournalRec]]
    BY <1>18, TypeParts DEF OpPcs, MarkSucceeded, At, TypeInv, StoreTypeOK
  <2>1. CASE Proceed(w, drv[w].op) /\ jr' = [jr EXCEPT ![s][drv[w].op].st = "done"]
    <3>1. jr'[s][drv[w].op].st = "done"
      BY <1>0, <2>0, <2>1 DEF JournalRec
    <3> QED BY <1>0, <2>0, <2>1, <3>1, ProceedCourse
  <2>2. CASE Goto(w, "error")
    BY <1>1, <1>3, <2>2
  <2> QED BY <1>18, <2>1, <2>2 DEF MarkSucceeded
<1>19. CASE AdvanceToCommitting(w)
  <2>1. CASE row[s].stage = "prepared" /\ Goto(w, "commit")
    <3>1. Late(s) /\ Done(s)
      BY <1>0, <2>1 DEF PreparedInv, StagesDone, Prepared, Late, Early
    <3>2. Late(c)' /\ Done(c)'
      BY <1>c, <1>k, <3>1
    <3>3. drv'[w].pc = "commit" /\ drv'[w].s = s /\ drv'[w].then = "idle"
      BY <1>0, <2>1 DEF Goto, Idle
    <3> QED BY <1>c, <3>2, <3>3 DEF Course, Late, Done, LiveMutation, Opened, OpPcs
  <2>2. CASE Goto(w, "error")
    BY <1>1, <1>3, <2>2
  <2> QED BY <1>19, <2>1, <2>2 DEF AdvanceToCommitting
<1>20. CASE Commit(w) \/ ConfirmCommitted(w)
  <2>1. CASE \E pc \in {"activate", "error"} : Goto(w, pc)
    BY <1>1, <1>3, <2>1
  <2>2. CASE \E pc \in {"activate", "revert"}, then \in {"loop", "error"} :
               drv' = [drv EXCEPT ![w].pc = pc, ![w].then = then]
    <3>1. PICK pc \in {"activate", "revert"}, then \in {"loop", "error"} :
               drv' = [drv EXCEPT ![w].pc = pc, ![w].then = then]
      BY <2>2
    <3>2. drv'[w].pc = pc /\ drv'[w].then = then
      BY <1>0, <3>1 DEF DrvRec
    <3> QED BY <1>1, <3>2, PlainCourse
  <2> QED BY <1>20, <2>1, <2>2 DEF Commit, ConfirmCommitted
<1>21. CASE Revert(w)
  <2>1. drv[w].then \in {"loop", "error"}
    BY <1>21 DEF Revert, At, TypeInv, Resumes, Resumable
  <2>2. \E pc \in {"error", drv[w].then} : Goto(w, pc)
    BY <1>21 DEF Revert
  <2> QED BY <1>1, <1>3, <2>1, <2>2
<1>22. CASE ReadFailed(w) \/ FailSwitch(w)
  <2>1. CASE Goto(w, "release")
    BY <1>1, <1>3, <2>1
  <2>2. CASE \E x : \E pc \in {"fail", "clean"} : drv' = [drv EXCEPT ![w].seen = x, ![w].pc = pc]
    <3>1. drv'[w].pc \in {"fail", "clean"} /\ drv'[w].then = drv[w].then /\ drv'[w].s = s
      BY <1>0, <2>2 DEF DrvRec
    <3> QED BY <1>0, <1>1, <3>1, ResumeCourse
  <2>3. CASE drv' = [drv EXCEPT ![w].pc = "clean"]
    <3>1. drv'[w].pc = "clean" /\ drv'[w].then = drv[w].then /\ drv'[w].s = s
      BY <1>0, <2>3 DEF DrvRec
    <3> QED BY <1>0, <1>1, <3>1, ResumeCourse
  <2> QED BY <1>22, <2>1, <2>2, <2>3 DEF ReadFailed, FailSwitch
<1> QED BY <1>5, <1>6, <1>7, <1>9, <1>11, <1>12, <1>13, <1>15, <1>16, <1>17, <1>18, <1>19,
     <1>20, <1>21, <1>22 DEF DriverStep

\* A switch gets to Prepared, Committing or Committed from there, or by a driver that
\* has its operations behind it.
LEMMA IntoPrepared ==
    ASSUME RowInv, [Next]_switchVars, NEW s \in Switches, row'[s].stage \in Prepared
    PROVE  \/ row[s].stage \in Prepared
           \/ \E w \in Workers : drv[w].s = s /\ drv[w].pc \in {"prepared", "commit"}
<1>0. TypeInv /\ RowTypeOK /\ DrvTypeOK
  BY TypeParts DEF RowInv, TypeInv, StoreTypeOK, RowTypeOK
<1>1. CASE row'[s].stage = row[s].stage
  BY <1>1
<1>2. CASE SameRows \/ UNCHANGED row
  BY <1>1, <1>2 DEF SameRows, SameRow
<1>3. ASSUME NEW t \in Switches, NEW x, MovesTo(t, x),
             t = s /\ x \in Prepared => row[s].stage \in Prepared
      PROVE  row[s].stage \in Prepared
  BY <1>3 DEF MovesTo
<1>4. ASSUME NEW w \in Workers, DriverStep(w)
      PROVE  \/ row[s].stage \in Prepared
             \/ drv[w].s = s /\ drv[w].pc \in {"prepared", "commit"}
  <2>0. drv[w].s \in Switches
    BY <1>0, <1>4, DriverRecord, Driving
  <2>1. \A x : row' = [row EXCEPT ![drv[w].s].stage = x] => MovesTo(drv[w].s, x)
    BY <1>0, <2>0, StageWrite
  <2>2. CASE ClaimRequested(w) \/ BeginWaiting(w) \/ AdvanceToPreparing(w)
    <3>1. UNCHANGED row \/ \E x \in {"superseded", "reserved", "waiting", "preparing"} :
            row' = [row EXCEPT ![drv[w].s].stage = x]
      BY <2>2 DEF ClaimRequested, BeginWaiting, AdvanceToPreparing
    <3> QED BY <2>0, <2>1, <3>1 DEF Prepared, MovesTo
  <2>3. CASE StabilizeTarget(w)
    <3>1. PICK b : UNCHANGED row \/ row' = [row EXCEPT ![drv[w].s].target = b]
      BY <2>3 DEF StabilizeTarget
    <3>2. row'[s].stage = row[s].stage
      BY <1>0, <2>0, <3>1 DEF RowTypeOK, RowRec
    <3> QED BY <3>2
  <2>4. CASE AdvanceToPrepared(w) \/ Commit(w)
    <3>1. drv[w].pc \in {"prepared", "commit"}
      BY <2>4 DEF AdvanceToPrepared, Commit, At
    <3>2. UNCHANGED row \/ \E x : row' = [row EXCEPT ![drv[w].s].stage = x]
      BY <2>4 DEF AdvanceToPrepared, Commit
    <3> QED BY <2>0, <2>1, <3>1, <3>2 DEF MovesTo
  <2>5. CASE AdvanceToCommitting(w) \/ Revert(w) \/ ConfirmCommitted(w)
    <3>1. \/ UNCHANGED row
          \/ /\ row[drv[w].s].stage \in Prepared
             /\ \E x : row' = [row EXCEPT ![drv[w].s].stage = x]
      BY <2>5 DEF AdvanceToCommitting, Revert, ConfirmCommitted, Prepared
    <3> QED BY <2>0, <2>1, <3>1 DEF MovesTo
  <2>6. CASE \E x \in {"superseded", "failed", "ambiguous"} : FinishWithoutCommit(drv[w].s, x)
    <3>1. \E x \in {"superseded", "failed", "ambiguous"} :
            row' = [row EXCEPT ![drv[w].s].stage = x]
      BY <2>6 DEF FinishWithoutCommit
    <3> QED BY <2>0, <2>1, <3>1 DEF Prepared, MovesTo
  <2> QED BY <1>0, <1>2, <1>4, <2>2, <2>3, <2>4, <2>5, <2>6, DriverRows DEF SameRows, SameRow
<1>5. CASE \E r \in Runtimes : MaterializeCurrent(r)
  BY <1>2, <1>5 DEF MaterializeCurrent
<1>6. CASE \/ \E w \in Workers, r \in Runtimes : SelectRuntime(w, r)
           \/ \E w \in Workers, r \in ForcedRuntimes : RequestSwitch(w, r)
  <2>1. PICK t \in Switches : \E r, n, policy : \E x \in {"requested", "reserved"} :
          NewRow(t, r, n, x, policy)
    BY <1>6 DEF SelectRuntime, RequestSwitch
  <2>2. row'[t].stage \in {"requested", "reserved"} /\ \A u \in Switches : u # t => row'[u] = row[u]
    BY <1>0, <2>1 DEF NewRow, RowTypeOK
  <2> QED BY <2>2 DEF Prepared
<1>7. CASE (CancelDirect \/ CancelLocked) /\ FinishWithoutCommit(can.s, "cancelled")
  <2>1. can.s \in Switches
    BY <1>0, <1>7 DEF CancelDirect, CancelLocked, TypeInv, CancelNames
  <2>2. MovesTo(can.s, "cancelled")
    BY <1>0, <1>7, <2>1, StageWrite DEF FinishWithoutCommit
  <2> QED BY <2>1, <2>2 DEF Prepared, MovesTo
<1> QED BY <1>0, <1>2, <1>4, <1>5, <1>6, <1>7, OtherRows

PrepareInv == RowsInv /\ PreparedInv

LEMMA PrepareInit == Init => PrepareInv
<1> SUFFICES ASSUME Init PROVE PrepareInv
  OBVIOUS
<1>1. StagesDone
  BY DEF Init, StagesDone, Prepared
<1>2. \A w \in Workers : Course(drv[w])
  BY DEF Init, Course, Idle, OpPcs
<1> QED BY <1>1, <1>2, RowsInit DEF PrepareInv, PreparedInv

LEMMA PrepareStep == PrepareInv /\ [Next]_switchVars => PrepareInv'
<1> SUFFICES ASSUME PrepareInv, [Next]_switchVars PROVE PrepareInv'
  OBVIOUS
<1>0. RowsInv /\ RowInv /\ TypeInv /\ PreparedInv /\ DrvTypeOK
  BY TypeParts DEF PrepareInv, RowsInv, RowInv, TypeInv
<1>1. RowsInv' /\ \A s \in Switches : Settles(s) /\ DoneStays(s)
  BY <1>0, RowsStep, JournalStays
<1>2. StagesDone'
  <2> SUFFICES ASSUME NEW s \in Switches, row'[s].stage \in Prepared PROVE Done(s)'
    BY DEF StagesDone
  <2>1. CASE row[s].stage \in Prepared
    <3>1. Late(s) /\ Done(s)
      BY <1>0, <2>1 DEF PreparedInv, StagesDone, Prepared, Late, Early
    <3> QED BY <1>1, <3>1, DoneKept
  <2>2. CASE \E w \in Workers : drv[w].s = s /\ drv[w].pc \in {"prepared", "commit"}
    <3>1. Late(s) /\ Done(s)
      BY <1>0, <2>2 DEF PreparedInv, Course
    <3> QED BY <1>1, <3>1, DoneKept
  <2> QED BY <1>0, <2>1, <2>2, IntoPrepared
<1>3. ASSUME NEW v \in Workers PROVE Course(drv[v])'
  <2>1. CASE drv'[v] = drv[v]
    <3>1. CASE drv[v].pc = "idle"
      BY <2>1, <3>1 DEF Course, OpPcs
    <3>2. CASE drv[v].s \in Switches
      BY <1>0, <1>1, <2>1, <3>2, CourseKept DEF PreparedInv
    <3> QED BY <1>0, <3>1, <3>2, Driving
  <2>2. CASE \E w \in Workers : DriverStep(w)
    BY <1>0, <1>1, <2>1, <2>2, DriverCourse, DriverRecord
  <2>3. CASE \A w \in Workers : ~DriverStep(w)
    <3>1. \/ drv'[v] = drv[v] \/ drv'[v] = Idle
          \/ \E s \in Switches : drv'[v] = [Idle EXCEPT !.pc = "loop", !.s = s]
      BY <1>0, <2>3, OtherRecords
    <3>2. drv'[v] # drv[v] => drv'[v].pc \in {"idle", "loop"} /\ drv'[v].then = "idle"
      <4>1. \A s : [Idle EXCEPT !.pc = "loop", !.s = s].pc = "loop"
                     /\ [Idle EXCEPT !.pc = "loop", !.s = s].then = "idle"
        BY DEF Idle
      <4>2. Idle.pc = "idle" /\ Idle.then = "idle"
        BY DEF Idle
      <4> QED BY <3>1, <4>1, <4>2
    <3> QED BY <2>1, <3>2 DEF Course, OpPcs
  <2> QED BY <2>2, <2>3
<1> QED BY <1>1, <1>2, <1>3 DEF PrepareInv, PreparedInv

\* Whatever part of its operations ran before a crash, in whichever process, a committed
\* switch has mutated its live binding, or has a native session and its configuration.
THEOREM CommittedPrepared == Spec => []CommittedWasPrepared
<1>1. PrepareInv => CommittedWasPrepared
  BY DEF PrepareInv, PreparedInv, StagesDone, Prepared, Done, Opened, CommittedWasPrepared
<1> QED BY <1>1, PrepareInit, PrepareStep, PTL DEF Spec

-----------------------------------------------------------------------------
(* One native session for a switch. *)

\* The attempt at the creation of a native session that a driver is in.
Creating(w, s) ==
    drv[w].s = s /\ drv[w].op = "create" /\ drv[w].pc \in {"send", "sent", "mark"}

\* The attempts are numbered apart, the one that is about to be sent is the one the
\* journal knows of, and until it is answered with success there is no native session.
CreateAt(s) ==
    /\ made[s] <= 1
    /\ jr[s]["create"].st \in {"none", "failed"} => made[s] = 0
    /\ \A w \in Workers : Creating(w, s) =>
         /\ drv[w].n <= jr[s]["create"].n
         /\ At(w, "send") /\ row[s].owner = w => Open(s, "create", drv[w].n)
         /\ Open(s, "create", drv[w].n) /\ (At(w, "send") \/ (At(w, "sent") /\ ~drv[w].ok))
              => made[s] = 0
         /\ \A v \in Workers : Creating(v, s) /\ drv[v].n = drv[w].n => v = w

\* A creation is never reconciled.
NeverAnswered == \A w \in Workers : At(w, "answer") => drv[w].op # "create"

OnceInv == TypeInv /\ (\A s \in Switches : CreateAt(s)) /\ NeverAnswered

\* A step that starts no attempt at this creation and answers none.
LEMMA CreateQuiet ==
    ASSUME NEW s \in Switches, CreateAt(s), made'[s] = made[s],
           jr'[s]["create"] = jr[s]["create"],
           \A v \in Workers : Creating(v, s)' =>
             drv'[v] = drv[v] /\ (row'[s].owner = v => row[s].owner = v)
    PROVE  CreateAt(s)'
<1>1. \A v \in Workers : Creating(v, s)' =>
        Creating(v, s) /\ drv'[v] = drv[v] /\ (row'[s].owner = v => row[s].owner = v)
  BY DEF Creating
<1> QED BY <1>1 DEF CreateAt, At, Open

\* A driver's steps leave leases alone, but for the release of its own.
LEMMA DriverLeases ==
    ASSUME TypeInv, NEW w \in Workers, DriverStep(w)
    PROVE  /\ \A s \in Switches : row'[s].owner \in {row[s].owner, NoOwner}
           /\ ~Release(w) => \A s \in Switches : row'[s].owner = row[s].owner
           /\ \A s \in Switches : s # drv[w].s => row'[s].owner = row[s].owner
<1>0. RowTypeOK /\ DrvTypeOK
  BY TypeParts DEF TypeInv, StoreTypeOK, RowTypeOK
<1>1. drv[w].s \in Switches
  BY <1>0, DriverRecord, Driving
<1> DEFINE s == drv[w].s
<1>2. ASSUME \/ row' = row
             \/ \E x : \/ row' = [row EXCEPT ![s].stage = x]
                       \/ row' = [row EXCEPT ![s].target = x]
                       \/ row' = [row EXCEPT ![s].activated = x]
      PROVE  \A t \in Switches : row'[t].owner = row[t].owner
  <2>1. CASE \E x : row' = [row EXCEPT ![s].stage = x]
    BY <1>0, <1>1, <2>1 DEF RowTypeOK, RowRec
  <2>2. CASE \E x : row' = [row EXCEPT ![s].target = x]
    BY <1>0, <1>1, <2>2 DEF RowTypeOK, RowRec
  <2>3. CASE \E x : row' = [row EXCEPT ![s].activated = x]
    BY <1>0, <1>1, <2>3 DEF RowTypeOK, RowRec
  <2> QED BY <1>2, <2>1, <2>2, <2>3
<1>3. CASE \/ LeaseLost(w) \/ ClaimRequested(w) \/ Dispatch(w) \/ Disown(w)
            \/ StabilizeTarget(w) \/ SettleActiveWork(w) \/ BeginWaiting(w) \/ Park(w)
            \/ Fence(w) \/ AdvanceToPreparing(w) \/ ProbeFenced(w) \/ EnsureCommitIdle(w)
            \/ Recheck(w) \/ ChooseStrategy(w)
  <2>1. \/ row' = row
        \/ \E x : row' = [row EXCEPT ![s].stage = x] \/ row' = [row EXCEPT ![s].target = x]
    BY <1>3 DEF LeaseLost, ClaimRequested, Dispatch, Disown, Supersede, SourceConflict,
       StabilizeTarget, SettleActiveWork, BeginWaiting, Park, Fence, AdvanceToPreparing,
       ProbeFenced, EnsureCommitIdle, Recheck, ChooseStrategy, storeVars, FinishWithoutCommit
  <2> QED BY <1>2, <2>1
<1>4. CASE \/ BeginOperation(w) \/ ReconcileOperation(w) \/ Send(w) \/ Answer(w)
            \/ MarkSucceeded(w) \/ AdvanceToPrepared(w)
            \/ Revalidate(w) \/ AdvanceToCommitting(w) \/ Commit(w) \/ Revert(w)
            \/ ConfirmCommitted(w) \/ Activate(w) \/ ReadFailed(w) \/ FailSwitch(w)
            \/ CleanUp(w)
  <2>1. \/ row' = row
        \/ \E x : row' = [row EXCEPT ![s].stage = x] \/ row' = [row EXCEPT ![s].activated = x]
    BY <1>4 DEF BeginOperation, ReconcileOperation, Ambiguous, Send, Answer, MarkSucceeded,
       AdvanceToPrepared, Revalidate, AdvanceToCommitting, Commit, Revert, ConfirmCommitted,
       Activate, ReadFailed, FailSwitch, CleanUp, storeVars, FinishWithoutCommit
  <2> QED BY <1>2, <2>1
<1>5. CASE Release(w)
  <2>1. row' = [row EXCEPT ![s].owner = IF row[s].owner = w THEN NoOwner ELSE row[s].owner]
    BY <1>5 DEF Release, Released
  <2> QED BY <1>0, <1>1, <1>5, <2>1 DEF RowTypeOK, RowRec
<1> QED BY <1>3, <1>4, <1>5 DEF DriverStep

\* A lease becomes a driver's only when the driver starts.
LEMMA LeaseSteps ==
    ASSUME TypeInv, [Next]_switchVars, NEW v \in Workers, NEW s \in Switches,
           row'[s].owner = v
    PROVE  row[s].owner = v \/ drv'[v].pc = "loop"
<1>0. /\ RowTypeOK /\ DrvTypeOK /\ TaskTypeOK /\ CancelNames
  BY TypeParts DEF TypeInv, StoreTypeOK, RowTypeOK
<1>1. {NoOwner, Orphan, Canceller} \cap Workers = {}
  BY IdNames
<1>2. CASE \E w \in Workers : DriverStep(w)
  BY <1>1, <1>2, DriverLeases
<1>3. CASE \/ UNCHANGED switchVars \/ EndTurn \/ \E r \in Runtimes : MaterializeCurrent(r)
  BY <1>3 DEF switchVars, storeVars, EndTurn, MaterializeCurrent
<1>4. ASSUME NEW t \in Switches, NEW o,
             row' = [row EXCEPT ![t].owner = o] PROVE o = v \/ row[s].owner = v
  BY <1>0, <1>4 DEF RowTypeOK, RowRec
<1>5. CASE CancelStep
  <2>1. can.s \in Switches
    BY <1>0, <1>5 DEF CancelStep, CancelDirect, CancelLease, CancelLocked, CancelRelease, CancelNames
  <2>2. \/ row' = row
        \/ row' = [row EXCEPT ![can.s].stage = "cancelled"]
        \/ row' = [row EXCEPT ![can.s].owner = Canceller]
        \/ row' = [row EXCEPT ![can.s].owner =
                     IF row[can.s].owner = Canceller THEN NoOwner ELSE row[can.s].owner]
    BY <1>5 DEF CancelStep, CancelDirect, CancelLease, CancelLocked, CancelRelease,
       FinishWithoutCommit, TakeLease, Released
  <2>3. row' = [row EXCEPT ![can.s].stage = "cancelled"] => row[s].owner = v
    BY <1>0, <2>1 DEF RowTypeOK, RowRec
  <2>4. row' = [row EXCEPT ![can.s].owner =
                     IF row[can.s].owner = Canceller THEN NoOwner ELSE row[can.s].owner]
          => row[s].owner = v
    BY <1>0, <1>1, <2>1 DEF RowTypeOK, RowRec
  <2> QED BY <1>1, <1>4, <2>1, <2>2, <2>3, <2>4
<1>6. ASSUME NEW w \in Workers,
             \/ FinishBoot(w) \/ BeginTurn(w) \/ Crash(w)
             \/ \E t \in Switches : Unwatch(w, t) \/ BeginCancel(w, t)
      PROVE  row[s].owner = v
  <2>1. CASE BeginTurn(w) \/ \E t \in Switches : Unwatch(w, t) \/ BeginCancel(w, t)
    BY <2>1 DEF BeginTurn, Unwatch, BeginCancel, storeVars
  <2>2. CASE FinishBoot(w)
    <3>1. row'[s].owner = row[s].owner
      BY <1>0, <2>2 DEF FinishBoot, RowTypeOK, RowRec
    <3> QED BY <3>1
  <2>3. CASE Crash(w)
    <3>1. row'[s].owner \in {row[s].owner, Orphan}
      BY <1>0, <2>3 DEF Crash, RowTypeOK, RowRec
    <3> QED BY <1>1, <3>1
  <2> QED BY <1>6, <2>1, <2>2, <2>3
<1>7. ASSUME NEW w \in Workers,
             \/ \E r \in Runtimes : SelectRuntime(w, r)
             \/ \E r \in ForcedRuntimes : RequestSwitch(w, r)
      PROVE  row[s].owner = v
  <2>1. PICK t \in Switches : \E r, n, x, policy : NewRow(t, r, n, x, policy)
    BY <1>7 DEF SelectRuntime, RequestSwitch
  <2>2. row'[t].owner = NoOwner /\ \A u \in Switches : u # t => row'[u] = row[u]
    BY <1>0, <2>1 DEF NewRow, RowTypeOK
  <2> QED BY <1>1, <2>2
<1>8. ASSUME NEW w \in Workers, NEW t \in Switches, TakeLease(t, w),
             drv' = [drv EXCEPT ![w] = [Idle EXCEPT !.pc = "loop", !.s = t]]
      PROVE  row[s].owner = v \/ drv'[v].pc = "loop"
  <2>1. drv'[w].pc = "loop"
    BY <1>0, <1>8 DEF DrvTypeOK, Idle
  <2>2. row' = [row EXCEPT ![t].owner = w]
    BY <1>8 DEF TakeLease
  <2> QED BY <1>4, <2>1, <2>2
<1>9. ASSUME NEW w \in Workers, DriveNext(w) \/ \E t \in Switches : DriveSwitch(w, t)
      PROVE  row[s].owner = v \/ drv'[v].pc = "loop"
  <2>1. CASE DriveNext(w)
    <3>1. PICK t \in boot[w].left :
            \/ UNCHANGED row
            \/ /\ TakeLease(t, w)
               /\ drv' = [drv EXCEPT ![w] = [Idle EXCEPT !.pc = "loop", !.s = t]]
      BY <2>1 DEF DriveNext
    <3>2. t \in Switches
      BY <1>0 DEF TaskTypeOK
    <3> QED BY <1>8, <3>1, <3>2
  <2>2. CASE \E t \in Switches : DriveSwitch(w, t)
    BY <1>8, <2>2 DEF DriveSwitch
  <2> QED BY <1>9, <2>1, <2>2
<1> QED BY <1>2, <1>3, <1>5, <1>6, <1>7, <1>9 DEF Next

\* Where a driver can be after its step: in an attempt only by way of the journal.
LEMMA DriverAttempt ==
    ASSUME TypeInv, NEW w \in Workers, DriverStep(w),
           ~BeginOperation(w), ~ReconcileOperation(w), ~Send(w), ~Answer(w)
    PROVE  drv'[w].pc \notin {"answer", "send", "sent", "mark"}
<1>0. drv \in [Workers -> DrvRec] /\ Resumable(drv[w])
  BY TypeParts DEF TypeInv, DrvTypeOK, Resumes
<1>1. ASSUME NEW pc, Goto(w, pc), pc \notin {"answer", "send", "sent", "mark"}
      PROVE  drv'[w].pc \notin {"answer", "send", "sent", "mark"}
  BY <1>0, <1>1 DEF Goto, Idle
<1>2. CASE Stop(w)
  BY <1>0, <1>2 DEF Stop, Idle
<1>3. CASE \E then : CancelWork(w, then)
  BY <1>0, <1>3 DEF CancelWork, DrvRec
<1>4. CASE UNCHANGED drv /\ drv[w].pc \in {"loop", "work"}
  BY <1>4
<1>5. CASE \/ LeaseLost(w) \/ ClaimRequested(w) \/ Disown(w)
            \/ StabilizeTarget(w) \/ SettleActiveWork(w) \/ BeginWaiting(w) \/ Park(w)
            \/ AdvanceToPreparing(w) \/ ProbeFenced(w) \/ AdvanceToPrepared(w)
            \/ Revalidate(w) \/ AdvanceToCommitting(w) \/ Activate(w) \/ CleanUp(w) \/ Release(w)
  <2>1. \/ Stop(w) \/ CancelWork(w, "fence")
        \/ UNCHANGED drv /\ drv[w].pc = "loop"
        \/ \E pc \in {"release", "error", "settle", "wait", "fence", "park", "fenced", "loop",
                      "committing", "commit"} : Goto(w, pc)
    <3>1. CASE LeaseLost(w) \/ Disown(w) \/ StabilizeTarget(w) \/ BeginWaiting(w) \/ Park(w)
      BY <3>1 DEF LeaseLost, Disown, Supersede, SourceConflict, StabilizeTarget, BeginWaiting,
         Park
    <3>2. CASE ClaimRequested(w) \/ SettleActiveWork(w)
      BY <3>2 DEF ClaimRequested, At, SettleActiveWork, Reject
    <3>3. CASE AdvanceToPreparing(w) \/ ProbeFenced(w) \/ AdvanceToPrepared(w) \/ Revalidate(w)
      BY <3>3 DEF AdvanceToPreparing, ProbeFenced, AdvanceToPrepared, Revalidate
    <3>4. CASE AdvanceToCommitting(w) \/ Activate(w) \/ CleanUp(w) \/ Release(w)
      BY <3>4 DEF AdvanceToCommitting, Activate, CleanUp, Release
    <3> QED BY <1>5, <3>1, <3>2, <3>3, <3>4
  <2> QED BY <1>1, <1>2, <1>3, <1>4, <2>1
<1>6. CASE EnsureCommitIdle(w) \/ Recheck(w) \/ Revert(w)
  <2>1. drv[w].then \in {"fence", "prepare", "revalidate", "loop", "error"}
    BY <1>0, <1>6 DEF EnsureCommitIdle, Recheck, Revert, At, Resumable
  <2>2. \/ \E then : CancelWork(w, then)
        \/ UNCHANGED drv /\ drv[w].pc = "work"
        \/ \E pc \in {"error", drv[w].then} : Goto(w, pc)
    BY <1>6 DEF EnsureCommitIdle, Recheck, Revert, Reject, At
  <2> QED BY <1>1, <1>3, <1>4, <2>1, <2>2
<1>7. CASE ChooseStrategy(w)
  <2>1. Goto(w, "error") \/ \E op : Begin(w, op)
    BY <1>7 DEF ChooseStrategy
  <2> QED BY <1>0, <1>1, <2>1 DEF Begin, Idle
<1>8. CASE MarkSucceeded(w)
  <2>1. Goto(w, "error") \/ Proceed(w, drv[w].op)
    BY <1>8 DEF MarkSucceeded
  <2>2. Proceed(w, drv[w].op) => drv'[w].pc = After(drv[w].s, drv[w].op)
    BY <1>0 DEF Proceed, DrvRec
  <2> QED BY <1>1, <2>1, <2>2 DEF After
<1>9. CASE Dispatch(w) \/ Commit(w) \/ ConfirmCommitted(w)
  <2>1. \/ \E pc \in {"release", "reconcile", "target", "settle", "activate", "error"} : Goto(w, pc)
        \/ \E pc \in {"work", "revert", "activate"} : \E then :
             drv' = [drv EXCEPT ![w].pc = pc, ![w].then = then]
    BY <1>9 DEF Dispatch, Commit, ConfirmCommitted
  <2>2. ASSUME NEW pc \in {"work", "revert", "activate"}, NEW then,
               drv' = [drv EXCEPT ![w].pc = pc, ![w].then = then]
        PROVE  drv'[w].pc = pc
    BY <1>0, <2>2 DEF DrvRec
  <2> QED BY <1>1, <2>1, <2>2
<1>10. CASE Fence(w) \/ ReadFailed(w) \/ FailSwitch(w)
  <2>1. CASE Goto(w, "release")
    BY <1>1, <2>1
  <2>2. CASE Fence(w)
    BY <1>0, <2>2 DEF Fence, DrvRec
  <2>3. CASE ReadFailed(w)
    BY <1>0, <2>3 DEF ReadFailed, DrvRec
  <2>4. CASE drv' = [drv EXCEPT ![w].pc = "clean"]
    BY <1>0, <2>4 DEF DrvRec
  <2> QED BY <1>10, <2>1, <2>2, <2>3, <2>4 DEF FailSwitch
<1> QED BY <1>5, <1>6, <1>7, <1>8, <1>9, <1>10 DEF DriverStep

\* An attempt goes on with its own operation.
LEMMA AttemptOp ==
    ASSUME TypeInv, NEW w \in Workers, DriverStep(w),
           drv'[w].pc \in {"answer", "send", "sent", "mark"}
    PROVE  drv'[w].op = drv[w].op /\ drv'[w].s = drv[w].s
<1>0. drv \in [Workers -> DrvRec]
  BY TypeParts DEF TypeInv, DrvTypeOK
<1>1. drv'[w].s = drv[w].s
  BY DriverRecord
<1>2. BeginOperation(w) \/ ReconcileOperation(w) \/ Send(w) \/ Answer(w)
  BY DriverAttempt
<1>3. CASE \E pc : drv' = [drv EXCEPT ![w].pc = pc]
             \/ \E n : drv' = [drv EXCEPT ![w].pc = pc, ![w].n = n]
                        \/ drv' = [drv EXCEPT ![w].pc = pc, ![w].ok = n]
                        \/ drv' = [drv EXCEPT ![w].pc = pc, ![w].op = drv[w].op, ![w].n = n]
  <2>1. PICK pc, n : \/ drv' = [drv EXCEPT ![w].pc = pc]
                     \/ drv' = [drv EXCEPT ![w].pc = pc, ![w].n = n]
                     \/ drv' = [drv EXCEPT ![w].pc = pc, ![w].ok = n]
                     \/ drv' = [drv EXCEPT ![w].pc = pc, ![w].op = drv[w].op, ![w].n = n]
    BY <1>3
  <2> QED BY <1>0, <1>1, <2>1 DEF DrvRec
<1>4. CASE Goto(w, "error")
  BY <1>0, <1>4 DEF Goto, Idle
<1>5. CASE Begin(w, "create")
  BY <1>0, <1>5 DEF Begin, Idle
<1>6. CASE Proceed(w, drv[w].op)
  <2>1. drv'[w].pc = After(drv[w].s, drv[w].op)
    BY <1>0, <1>6 DEF Proceed, DrvRec
  <2> QED BY <2>1 DEF After
<1>7. CASE BeginOperation(w) \/ ReconcileOperation(w)
  <2>1. \/ Goto(w, "error") \/ Proceed(w, drv[w].op)
        \/ \E n : Execute(w, drv[w].op, n) \/ drv' = [drv EXCEPT ![w].pc = "answer", ![w].n = n]
    BY <1>7 DEF BeginOperation, ReconcileOperation, Skip, Ambiguous
  <2> QED BY <1>3, <1>4, <1>6, <2>1 DEF Execute
<1>8. CASE Send(w)
  BY <1>3, <1>8 DEF Send
<1>9. CASE Answer(w)
  <2>1. \/ Goto(w, "error") \/ Begin(w, "create") \/ drv' = [drv EXCEPT ![w].pc = "mark"]
    BY <1>9 DEF Answer
  <2> QED BY <1>3, <1>4, <1>5, <2>1
<1> QED BY <1>2, <1>7, <1>8, <1>9

\* The creations of the other switches, and all of them while the operation is another.
LEMMA OtherCreations ==
    ASSUME OnceInv, NEW w \in Workers, DriverStep(w), NEW s \in Switches,
           s # drv[w].s \/ drv[w].op # "create"
                \/ ~(BeginOperation(w) \/ ReconcileOperation(w) \/ Send(w) \/ Answer(w)
                       \/ MarkSucceeded(w))
    PROVE  CreateAt(s)'
<1>0. TypeInv /\ CreateAt(s) /\ "create" \in OpKinds
  BY DEF OnceInv, OpKinds
<1>1. jr'[s]["create"] = jr[s]["create"]
  <2>1. CASE UNCHANGED jr
    BY <2>1
  <2>2. CASE BeginOperation(w) \/ ReconcileOperation(w) \/ Answer(w) \/ MarkSucceeded(w)
    BY <1>0, <2>2, JournalWrite, ZenonT(60)
  <2> QED BY <1>0, <2>1, <2>2, DriverJournal
<1>2. made'[s] = made[s]
  <2>1. CASE Send(w)
    <3>1. made \in [Switches -> Nat] /\ drv[w].s \in Switches
      BY <1>0, DriverRecord, Driving, TypeParts DEF TypeInv, TaskTypeOK
    <3> QED BY <2>1, <3>1 DEF Send
  <2> QED BY <1>0, <2>1, DriverWorld
<1>3. ASSUME NEW v \in Workers, Creating(v, s)'
      PROVE  drv'[v] = drv[v] /\ (row'[s].owner = v => row[s].owner = v)
  <2>1. v # w
    <3> SUFFICES ASSUME v = w PROVE FALSE
      OBVIOUS
    <3>1. drv'[w].s = s /\ drv'[w].op = "create" /\ drv'[w].pc \in {"send", "sent", "mark"}
      BY <1>3 DEF Creating
    <3>2. drv[w].op = "create" /\ drv[w].s = s
      BY <1>0, <3>1, AttemptOp
    <3> QED BY <1>0, <3>1, <3>2, DriverAttempt
  <2>2. row'[s].owner = v => row[s].owner = v
    BY <1>0, IdNames, DriverLeases
  <2> QED BY <1>0, <2>1, <2>2, DriverRecord
<1> QED BY <1>0, <1>1, <1>2, <1>3, CreateQuiet

\* An attempt that ends settles its entry of the journal.
LEMMA CreateSettled ==
    ASSUME NEW s \in Switches, CreateAt(s), made'[s] = made[s],
           jr'[s]["create"].n = jr[s]["create"].n,
           jr'[s]["create"].st \in {"done", "ambiguous", "failed"},
           jr'[s]["create"].st = "failed" => made[s] = 0,
           \A v \in Workers : Creating(v, s)' =>
             drv'[v] = drv[v] /\ ~(At(v, "send") /\ row'[s].owner = v)
    PROVE  CreateAt(s)'
<1>1. \A v \in Workers : Creating(v, s)' =>
        Creating(v, s) /\ drv'[v] = drv[v] /\ ~(At(v, "send") /\ row'[s].owner = v)
  BY DEF Creating
<1>2. \A n : ~Open(s, "create", n)'
  BY DEF Open
<1> QED BY <1>1, <1>2 DEF CreateAt, At

\* The creation a driver is at, step by step.
LEMMA OwnCreation ==
    ASSUME OnceInv, NEW w \in Workers, NEW s \in Switches, drv[w].s = s, drv[w].op = "create",
           \/ BeginOperation(w) \/ ReconcileOperation(w) \/ Send(w) \/ Answer(w)
           \/ MarkSucceeded(w)
    PROVE  CreateAt(s)'
<1> DEFINE last == jr[s]["create"]
<1>0. TypeInv /\ CreateAt(s) /\ NeverAnswered /\ "create" \in OpKinds /\ DriverStep(w)
  BY DEF OnceInv, OpKinds, DriverStep
<1>1. /\ drv \in [Workers -> DrvRec] /\ last \in JournalRec /\ made \in [Switches -> Nat]
      /\ jr \in [Switches -> [OpKinds -> JournalRec]]
  BY <1>0, TypeParts DEF TypeInv, DrvTypeOK, StoreTypeOK, TaskTypeOK
<1>2. \A n : Open(s, "create", n) <=> last.n = n /\ last.st = "about"
  BY <1>1 DEF Open, JournalRec
<1>3. \A v \in Workers : v # w => drv'[v] = drv[v]
  BY <1>0, DriverRecord
<1>4. \A t \in Switches : row'[t].owner = row[t].owner
  <2>1. ~Release(w)
    BY DEF BeginOperation, ReconcileOperation, Send, Answer, MarkSucceeded, Release, At
  <2> QED BY <1>0, <2>1, DriverLeases
<1>5. ~Send(w) => made' = made
  BY <1>0, DriverWorld
<1>6. \A x : jr' = [jr EXCEPT ![s]["create"].st = x] =>
        jr'[s]["create"].n = last.n /\ jr'[s]["create"].st = x
  BY <1>0, <1>1 DEF JournalRec
<1>7. Goto(w, "error") \/ Skip(w, "create") \/ Proceed(w, "create") => ~Creating(w, s)'
  <2>1. Goto(w, "error") => drv'[w].pc = "error"
    BY <1>1 DEF Goto, Idle
  <2>2. Proceed(w, "create") => drv'[w].pc = "begin"
    BY <1>1 DEF Proceed, After, DrvRec
  <2> QED BY <2>1, <2>2 DEF Skip, Creating
<1>8. ASSUME jr'[s]["create"] = last, made' = made, ~Creating(w, s)' PROVE CreateAt(s)'
  BY <1>0, <1>3, <1>4, <1>8, CreateQuiet
<1>9. CASE BeginOperation(w)
  <2>0. row[s].owner = w /\ made' = made
    BY <1>5, <1>9 DEF BeginOperation, Holds, Send, At
  <2>1. CASE /\ last.st \in {"done", "about", "ambiguous"} /\ ~Creating(w, s)'
             /\ \E x \in {"done", "ambiguous"} : jr' = [jr EXCEPT ![s]["create"].st = x]
    <3>1. jr'[s]["create"].n = last.n /\ jr'[s]["create"].st \in {"done", "ambiguous"}
      BY <1>6, <2>1
    <3> QED BY <1>0, <1>3, <1>4, <2>0, <2>1, <3>1, CreateSettled
  <2>2. CASE /\ last.st \in {"none", "failed"} /\ jr' = Journaled(s, "create")
             /\ Execute(w, "create", last.n + 1)
    <3>1. jr'[s]["create"] = [n |-> last.n + 1, st |-> "about"]
      BY <1>0, <1>1, <2>2 DEF Journaled
    <3>2. drv'[w].pc = "send" /\ drv'[w].n = last.n + 1
      BY <1>1, <2>2 DEF Execute, DrvRec
    <3>3. made'[s] = 0
      BY <1>0, <2>0, <2>2 DEF CreateAt
    <3>4. \A v \in Workers : v # w /\ Creating(v, s)' =>
            Creating(v, s) /\ drv'[v] = drv[v] /\ row[s].owner # v /\ drv[v].n <= last.n
      BY <1>0, <1>3, <2>0 DEF Creating, CreateAt
    <3>5. \A n : Open(s, "create", n)' <=> n = last.n + 1
      BY <3>1 DEF Open
    <3>6. last.n \in Nat /\ \A v \in Workers : drv[v].n \in Nat
      BY <1>1 DEF JournalRec, DrvRec
    <3>7. \A v \in Workers : Creating(v, s)' =>
            IF v = w THEN drv'[v].n = last.n + 1
            ELSE /\ Creating(v, s) /\ drv'[v] = drv[v] /\ row'[s].owner # v
                 /\ drv'[v].n \in Nat /\ drv'[v].n <= last.n
      BY <1>4, <3>2, <3>4, <3>6
    <3>8. jr'[s]["create"].n = last.n + 1 /\ jr'[s]["create"].st = "about"
      BY <3>1
    <3> HIDE DEF last
    <3>9. \A v \in Workers : Creating(v, s)' =>
            /\ drv'[v].n <= jr'[s]["create"].n
            /\ At(v, "send")' /\ row'[s].owner = v => Open(s, "create", drv[v].n)'
            /\ \A u \in Workers : Creating(u, s)' /\ drv'[u].n = drv'[v].n => u = v
      <4> TAKE v \in Workers
      <4> HAVE Creating(v, s)'
      <4>1. drv'[v].n <= last.n + 1
        BY <3>6, <3>7
      <4>2. row'[s].owner = v => drv'[v].n = last.n + 1
        BY <3>7
      <4>3. ASSUME NEW u \in Workers, Creating(u, s)', drv'[u].n = drv'[v].n PROVE u = v
        <5>1. last.n + 1 \in Nat /\ ~(last.n + 1 <= last.n)
          BY <3>6
        <5>2. CASE v # w /\ u # w
          <6>1. Creating(u, s) /\ Creating(v, s) /\ drv[u].n = drv[v].n
            BY <3>7, <4>3, <5>2
          <6> QED BY <1>0, <6>1 DEF CreateAt
        <5> QED BY <3>7, <4>3, <5>1, <5>2
      <4> QED BY <3>5, <3>8, <4>1, <4>2, <4>3
    <3> QED BY <3>3, <3>8, <3>9 DEF CreateAt
  <2>3. Retry("create") = "never"
    BY DEF Retry
  <2>4. \/ /\ last.st \in {"done", "about"} /\ Skip(w, "create")
           /\ jr' = [jr EXCEPT ![s]["create"].st = "done"]
        \/ /\ last.st \in {"none", "failed"} /\ jr' = Journaled(s, "create")
           /\ Execute(w, "create", last.n + 1)
        \/ last.st \in {"about", "ambiguous"} /\ Ambiguous(w, "create")
    BY <1>9, <2>3 DEF BeginOperation
  <2>5. Ambiguous(w, "create") =>
          jr' = [jr EXCEPT ![s]["create"].st = "ambiguous"] /\ Goto(w, "error")
    BY DEF Ambiguous
  <2> QED BY <1>7, <2>1, <2>2, <2>4, <2>5
<1>10. CASE ReconcileOperation(w)
  BY <1>0, <1>10 DEF NeverAnswered, ReconcileOperation
<1>11. CASE Send(w)
  <2>1. PICK ok \in BOOLEAN :
          /\ drv' = [drv EXCEPT ![w].pc = "sent", ![w].ok = ok]
          /\ made' = [made EXCEPT ![s] = IF ok THEN made[s] + 1 ELSE made[s]]
    BY <1>11 DEF Send
  <2>2. drv[w].pc = "send" /\ row[s].owner = w /\ Creating(w, s) /\ UNCHANGED jr
    BY <1>11 DEF Send, At, Holds, Creating, storeVars
  <2>3. drv'[w].pc = "sent" /\ drv'[w].ok = ok /\ drv'[w].n = drv[w].n
    BY <1>1, <2>1 DEF DrvRec
  <2>4. Open(s, "create", drv[w].n) /\ made[s] = 0
    BY <1>0, <2>2 DEF CreateAt, At
  <2>5. made'[s] = IF ok THEN 1 ELSE 0
    BY <1>1, <2>1, <2>4
  <2>6. \A v \in Workers : Creating(v, s)' =>
          Creating(v, s) /\ drv'[v].n = drv[v].n /\ (v # w => drv'[v] = drv[v])
    BY <1>3, <2>2, <2>3 DEF Creating
  <2>7. \A v \in Workers : Creating(v, s)' /\ Open(s, "create", drv'[v].n) => v = w
    BY <1>0, <1>2, <2>2, <2>4, <2>6 DEF CreateAt
  <2>8. last.st = "about"
    BY <1>2, <2>4
  <2>9. \A n : Open(s, "create", n)' <=> Open(s, "create", n)
    BY <2>2 DEF Open
  <2>10. \A v \in Workers : Creating(v, s)' => /\ drv'[v].n <= jr'[s]["create"].n
                                  /\ \A u \in Workers : Creating(u, s)' /\ drv'[u].n = drv'[v].n => u = v
    BY <1>0, <2>2, <2>6 DEF CreateAt
  <2>11. \A v \in Workers : Creating(v, s)' /\ drv'[v].pc = "send" =>
           v # w /\ row'[s].owner # v
    BY <1>4, <2>2, <2>3
  <2>12. \A v \in Workers : Creating(v, s)' /\ Open(s, "create", drv[v].n)' /\ ~drv'[v].ok
           => made'[s] = 0
    BY <2>3, <2>5, <2>7, <2>9
  <2>13. \A v \in Workers : Creating(v, s)' /\ Open(s, "create", drv[v].n)' => drv'[v].pc # "send"
    BY <2>3, <2>7, <2>9
  <2>14. made'[s] <= 1 /\ jr'[s]["create"].st = "about"
    BY <2>2, <2>5, <2>8
  <2> QED BY <2>10, <2>11, <2>12, <2>13, <2>14 DEF CreateAt, At
<1>12. CASE Answer(w)
  <2>0. row[s].owner = w /\ made' = made /\ Creating(w, s) /\ drv[w].pc = "sent"
    BY <1>5, <1>12 DEF Answer, Holds, Send, At, Creating
  <2>1. CASE drv[w].ok /\ drv' = [drv EXCEPT ![w].pc = "mark"] /\ UNCHANGED jr
    <3>1. drv'[w].pc = "mark" /\ drv'[w].n = drv[w].n
      BY <1>1, <2>1 DEF DrvRec
    <3>2. \A v \in Workers : Creating(v, s)' =>
            Creating(v, s) /\ drv'[v].n = drv[v].n /\ (v # w => drv'[v] = drv[v])
      BY <1>3, <2>0, <3>1 DEF Creating
    <3>3. \A n : Open(s, "create", n)' <=> Open(s, "create", n)
      BY <2>1 DEF Open
    <3> QED BY <1>0, <1>4, <2>0, <2>1, <3>1, <3>2, <3>3 DEF CreateAt, At
  <2>2. CASE Goto(w, "error") /\ UNCHANGED jr
    BY <1>7, <1>8, <2>0, <2>2
  <2>3. CASE /\ ~drv[w].ok /\ Open(s, "create", drv[w].n) /\ Goto(w, "error")
             /\ jr' = [jr EXCEPT ![s]["create"].st = "failed"]
    <3>1. made[s] = 0
      BY <1>0, <2>0, <2>3 DEF CreateAt, At
    <3>2. \A v \in Workers : Creating(v, s)' =>
             drv'[v] = drv[v] /\ ~(At(v, "send") /\ row'[s].owner = v)
      BY <1>3, <1>4, <1>7, <2>0, <2>3 DEF At
    <3>3. jr'[s]["create"].n = last.n /\ jr'[s]["create"].st = "failed"
      BY <1>6, <2>3
    <3> QED BY <1>0, <2>0, <3>1, <3>2, <3>3, CreateSettled
  <2> QED BY <1>12, <2>1, <2>2, <2>3 DEF Answer
<1>13. CASE MarkSucceeded(w)
  <2>0. made' = made /\ Creating(w, s) /\ drv[w].pc = "mark"
    BY <1>5, <1>13 DEF MarkSucceeded, Send, At, Creating
  <2>1. CASE Goto(w, "error") /\ UNCHANGED jr
    BY <1>7, <1>8, <2>0, <2>1
  <2>2. CASE /\ Open(s, "create", drv[w].n) /\ Proceed(w, "create")
             /\ jr' = [jr EXCEPT ![s]["create"].st = "done"]
    <3>1. \A v \in Workers : Creating(v, s) /\ At(v, "send") /\ row[s].owner = v => v = w
      BY <1>0, <1>2, <2>0, <2>2 DEF CreateAt
    <3>2. \A v \in Workers : Creating(v, s)' =>
             drv'[v] = drv[v] /\ ~(At(v, "send") /\ row'[s].owner = v)
      BY <1>3, <1>4, <1>7, <2>2, <3>1 DEF Creating
    <3> QED BY <1>0, <1>6, <2>0, <2>2, <3>2, CreateSettled
  <2> QED BY <1>13, <2>1, <2>2 DEF MarkSucceeded
<1> QED BY <1>9, <1>10, <1>11, <1>12, <1>13

LEMMA OnceStep == OnceInv /\ [Next]_switchVars => OnceInv'
<1> SUFFICES ASSUME OnceInv, [Next]_switchVars PROVE OnceInv'
  OBVIOUS
<1>0. TypeInv /\ TypeInv' /\ NeverAnswered /\ DrvTypeOK
  BY TypeStep, TypeParts DEF OnceInv, TypeInv
<1>1. ASSUME NEW s \in Switches PROVE CreateAt(s)'
  <2>1. ASSUME NEW w \in Workers, DriverStep(w) PROVE CreateAt(s)'
    <3>1. CASE /\ s = drv[w].s /\ drv[w].op = "create"
               /\ \/ BeginOperation(w) \/ ReconcileOperation(w) \/ Send(w) \/ Answer(w)
                  \/ MarkSucceeded(w)
      BY <3>1, OwnCreation
    <3> QED BY <2>1, <3>1, OtherCreations
  <2>2. CASE \A w \in Workers : ~DriverStep(w)
    <3>1. UNCHANGED <<jr, made>> /\ CreateAt(s)
      BY <2>2, OtherJournal DEF OnceInv
    <3>2. ASSUME NEW v \in Workers, Creating(v, s)'
          PROVE  drv'[v] = drv[v] /\ (row'[s].owner = v => row[s].owner = v)
      <4>1. \/ drv'[v] = drv[v] \/ drv'[v] = Idle
            \/ \E t \in Switches : drv'[v] = [Idle EXCEPT !.pc = "loop", !.s = t]
        BY <1>0, <2>2, OtherRecords
      <4>2. drv'[v].pc \notin {"idle", "loop"}
        BY <3>2 DEF Creating
      <4>3. Idle.pc = "idle" /\ \A t : [Idle EXCEPT !.pc = "loop", !.s = t].pc = "loop"
        BY DEF Idle
      <4>4. drv'[v] = drv[v]
        BY <4>1, <4>2, <4>3
      <4> QED BY <1>0, <4>2, <4>4, LeaseSteps
    <3> QED BY <3>1, <3>2, CreateQuiet
  <2> QED BY <2>1, <2>2
<1>2. NeverAnswered'
  <2> SUFFICES ASSUME NEW v \in Workers, drv'[v].pc = "answer" PROVE drv'[v].op # "create"
    BY DEF NeverAnswered, At
  <2>1. CASE drv'[v] = drv[v]
    BY <1>0, <2>1 DEF NeverAnswered, At
  <2>2. CASE DriverStep(v)
    <3>0. drv \in [Workers -> DrvRec]
      BY <1>0 DEF DrvTypeOK
    <3>1. drv'[v].op = drv[v].op /\ drv'[v].s = drv[v].s
      BY <1>0, <2>2, AttemptOp
    <3>2. BeginOperation(v) \/ ReconcileOperation(v) \/ Send(v) \/ Answer(v)
      BY <1>0, <2>2, DriverAttempt
    <3>3. CASE BeginOperation(v)
      <4>1. \/ Goto(v, "error") \/ Proceed(v, drv[v].op) \/ Retry(drv[v].op) = "reconcile"
            \/ \E n : Execute(v, drv[v].op, n)
        BY <3>3 DEF BeginOperation, Skip, Ambiguous
      <4>2. \A n : Execute(v, drv[v].op, n) => drv'[v].pc = "send"
        BY <3>0 DEF Execute, DrvRec
      <4>3. Goto(v, "error") => drv'[v].pc = "error"
        BY <3>0 DEF Goto, Idle
      <4>4. Proceed(v, drv[v].op) => drv'[v].pc = After(drv[v].s, drv[v].op)
        BY <3>0 DEF Proceed, DrvRec
      <4>5. Retry("create") = "never" /\ \A s, op : After(s, op) # "answer"
        BY DEF Retry, After
      <4> QED BY <3>1, <4>1, <4>2, <4>3, <4>4, <4>5
    <3>4. CASE ReconcileOperation(v)
      BY <1>0, <3>1, <3>4 DEF NeverAnswered, ReconcileOperation
    <3>5. CASE Send(v)
      BY <3>0, <3>5 DEF Send, DrvRec
    <3>6. CASE Answer(v)
      <4>1. \/ Goto(v, "error") \/ Begin(v, "create") \/ drv' = [drv EXCEPT ![v].pc = "mark"]
        BY <3>6 DEF Answer
      <4>2. drv'[v].pc \in {"error", "begin", "mark"}
        BY <3>0, <4>1 DEF Goto, Begin, Idle, DrvRec
      <4> QED BY <4>2
    <3> QED BY <3>2, <3>3, <3>4, <3>5, <3>6
  <2>3. CASE \E w \in Workers : w # v /\ DriverStep(w)
    BY <1>0, <2>1, <2>3, DriverRecord
  <2>4. CASE \A w \in Workers : ~DriverStep(w)
    <3>1. \/ drv'[v] = drv[v] \/ drv'[v] = Idle
          \/ \E t \in Switches : drv'[v] = [Idle EXCEPT !.pc = "loop", !.s = t]
      BY <1>0, <2>4, OtherRecords
    <3>2. Idle.pc = "idle" /\ \A t : [Idle EXCEPT !.pc = "loop", !.s = t].pc = "loop"
      BY DEF Idle
    <3> QED BY <2>1, <3>1, <3>2
  <2> QED BY <2>2, <2>3, <2>4
<1> QED BY <1>0, <1>1, <1>2 DEF OnceInv

\* Whichever processes journal the creation of a native session, crash or stall in it and
\* take it up again, the agent is made to create at most one for a switch.
THEOREM NativeSessionOnce == Spec => []CreatedOnce
<1>1. Init => OnceInv
  <2> SUFFICES ASSUME Init PROVE OnceInv
    OBVIOUS
  <2>1. ASSUME NEW s \in Switches PROVE CreateAt(s)
    BY DEF Init, CreateAt, Creating, Idle, NoOp
  <2>2. NeverAnswered
    BY DEF Init, NeverAnswered, At, Idle
  <2> QED BY <2>1, <2>2, InitTypes DEF OnceInv
<1>2. OnceInv => CreatedOnce
  BY DEF OnceInv, CreateAt, CreatedOnce
<1> QED BY <1>1, <1>2, OnceStep, PTL DEF Spec

-----------------------------------------------------------------------------
(* Terminal statuses. *)

\* Who moves a switch to another stage, and how.
LEMMA StageSteps ==
    ASSUME TypeInv, [Next]_switchVars, NEW s \in Switches, row'[s].stage # row[s].stage
    PROVE  \/ row[s].stage = "absent"
           \/ (CancelDirect \/ CancelLocked) /\ CanTransition(row[s].stage, "cancelled")
           \/ \E w \in Workers : /\ DriverStep(w) /\ drv[w].s = s /\ row'[s].stage # "cancelled"
                                 /\ Commit(w) \/ CanTransition(row[s].stage, row'[s].stage)
<1>0. RowTypeOK /\ DrvTypeOK
  BY TypeParts DEF TypeInv, StoreTypeOK, RowTypeOK
<1>1. ~SameRows /\ row' # row
  BY DEF SameRows, SameRow
<1>2. \A t \in Switches : \A x :
        row' = [row EXCEPT ![t].stage = x] => t = s /\ row'[s].stage = x
  BY <1>0, StageWrite DEF MovesTo
<1>3. ASSUME NEW w \in Workers, DriverStep(w)
      PROVE  /\ drv[w].s = s /\ row'[s].stage # "cancelled"
             /\ Commit(w) \/ CanTransition(row[s].stage, row'[s].stage)
  <2>0. drv[w].s \in Switches
    BY <1>0, <1>3, DriverRecord, Driving
  <2>1. ASSUME NEW x, x # "cancelled", row' = [row EXCEPT ![drv[w].s].stage = x],
               Commit(w) \/ row[drv[w].s].stage = x \/ CanTransition(row[drv[w].s].stage, x)
        PROVE  /\ drv[w].s = s /\ row'[s].stage # "cancelled"
               /\ Commit(w) \/ CanTransition(row[s].stage, row'[s].stage)
    BY <1>2, <2>0, <2>1
  <2>2. CASE ClaimRequested(w) \/ BeginWaiting(w) \/ AdvanceToPreparing(w)
    <3>1. \E x \in {"superseded", "reserved", "waiting", "preparing"} :
            row' = [row EXCEPT ![drv[w].s].stage = x] /\ CanTransition(row[drv[w].s].stage, x)
      BY <1>1, <2>2 DEF ClaimRequested, BeginWaiting, AdvanceToPreparing, CanTransition
    <3> QED BY <2>1, <3>1
  <2>3. CASE StabilizeTarget(w)
    <3>1. PICK b : UNCHANGED row \/ row' = [row EXCEPT ![drv[w].s].target = b]
      BY <2>3 DEF StabilizeTarget
    <3>2. row'[s].stage = row[s].stage
      BY <1>0, <2>0, <3>1 DEF RowTypeOK, RowRec
    <3> QED BY <3>2
  <2>4. CASE Commit(w)
    <3>1. \E x \in {"committed", "superseded"} : row' = [row EXCEPT ![drv[w].s].stage = x]
      BY <1>1, <2>4 DEF Commit
    <3> QED BY <2>1, <2>4, <3>1
  <2>5. CASE AdvanceToPrepared(w) \/ AdvanceToCommitting(w) \/ Revert(w) \/ ConfirmCommitted(w)
    <3>1. \E x \in {"prepared", "committing", "committed"} :
            row' = [row EXCEPT ![drv[w].s].stage = x] /\ CanTransition(row[drv[w].s].stage, x)
      BY <1>1, <2>5 DEF AdvanceToPrepared, AdvanceToCommitting, Revert, ConfirmCommitted,
         CanTransition
    <3> QED BY <2>1, <3>1
  <2>6. CASE \E x \in {"superseded", "failed", "ambiguous"} : FinishWithoutCommit(drv[w].s, x)
    <3>1. \E x \in {"superseded", "failed", "ambiguous"} :
                 /\ row' = [row EXCEPT ![drv[w].s].stage = x]
                 /\ row[drv[w].s].stage = x \/ CanTransition(row[drv[w].s].stage, x)
      BY <2>6 DEF FinishWithoutCommit
    <3> QED BY <2>1, <3>1
  <2> QED BY <1>1, <1>3, <2>2, <2>3, <2>4, <2>5, <2>6, DriverRows
<1>4. CASE \E r \in Runtimes : MaterializeCurrent(r)
  BY <1>1, <1>4 DEF MaterializeCurrent
<1>5. CASE \/ \E w \in Workers, r \in Runtimes : SelectRuntime(w, r)
           \/ \E w \in Workers, r \in ForcedRuntimes : RequestSwitch(w, r)
  <2>1. PICK t \in Switches :
          row[t].stage = "absent" /\ \E r, n, x, policy : NewRow(t, r, n, x, policy)
    BY <1>5 DEF SelectRuntime, RequestSwitch
  <2>2. \A u \in Switches : u # t => row'[u] = row[u]
    BY <1>0, <2>1 DEF NewRow, RowTypeOK
  <2> QED BY <2>1, <2>2
<1>6. CASE (CancelDirect \/ CancelLocked) /\ FinishWithoutCommit(can.s, "cancelled")
  <2>1. can.s \in Switches
    BY <1>6 DEF CancelDirect, CancelLocked, TypeInv, CancelNames
  <2>2. /\ row' = [row EXCEPT ![can.s].stage = "cancelled"]
        /\ row[can.s].stage = "cancelled" \/ CanTransition(row[can.s].stage, "cancelled")
    BY <1>6 DEF FinishWithoutCommit
  <2>3. can.s = s /\ row'[s].stage = "cancelled"
    BY <1>2, <2>1, <2>2
  <2> QED BY <1>6, <2>2, <2>3
<1> QED BY <1>1, <1>3, <1>4, <1>5, <1>6, OtherRows

\* The commit is the one write that does not look at the status it replaces.
AtCommit == \A w \in Workers : At(w, "commit") => row[drv[w].s].stage = "committing"

LEMMA EndStays ==
    ASSUME TypeInv, AtCommit, [Next]_switchVars, NEW s \in Switches, row[s].stage \in Terminal
    PROVE  row'[s].stage = row[s].stage
<1> SUFFICES ASSUME row'[s].stage # row[s].stage PROVE FALSE
  OBVIOUS
<1>1. \A x : ~CanTransition(row[s].stage, x)
  BY DEF CanTransition, Terminal, Held
<1>2. PICK w \in Workers : drv[w].s = s /\ Commit(w)
  BY <1>1, StageSteps DEF Terminal
<1>3. row[s].stage = "committing"
  BY <1>2 DEF AtCommit, Commit
<1> QED BY <1>3 DEF Terminal

-----------------------------------------------------------------------------
(* One driver at a time: no lease is taken over from an owner that lives, or there is  *)
(* one process only.                                                                  *)

OneAtATime == MaxStalls = 0 \/ \A v, w \in Workers : v = w

\* A switch has at most one driver.
Sole == \A v, w \in Workers : drv[v].pc # "idle" /\ drv[w].s = drv[v].s => v = w

LeaseHeld == \A w \in Workers : drv[w].pc # "idle" => row[drv[w].s].owner = w

\* The lease of a live owner is left alone by the others.
LEMMA OtherLeases ==
    ASSUME TypeInv, MaxStalls = 0, [Next]_switchVars, \A w \in Workers : ~DriverStep(w),
           NEW v \in Workers, NEW s \in Switches, row[s].owner = v, row[s].stage # "absent"
    PROVE  row'[s].owner = v \/ drv'[v] = Idle
<1>0. RowTypeOK /\ DrvTypeOK /\ TaskTypeOK /\ CancelNames
  BY TypeParts DEF TypeInv, StoreTypeOK, RowTypeOK
<1>1. {NoOwner, Orphan, Canceller} \cap Workers = {}
  BY IdNames
<1>2. ~Takeable(s)
  <2>1. used.stalls \in Nat
    BY DEF TypeInv, UsedTypeOK
  <2> QED BY <1>1, <2>1 DEF Takeable
<1>3. ASSUME NEW t \in Switches, NEW o, row' = [row EXCEPT ![t].owner = o],
             t = s => o = v
      PROVE  row'[s].owner = v
  BY <1>0, <1>3 DEF RowTypeOK, RowRec
<1>4. CASE \/ UNCHANGED switchVars \/ EndTurn \/ \E r \in Runtimes : MaterializeCurrent(r)
  BY <1>4 DEF switchVars, storeVars, EndTurn, MaterializeCurrent
<1>5. CASE CancelStep
  <2>1. can.s \in Switches
    BY <1>0, <1>5 DEF CancelStep, CancelDirect, CancelLease, CancelLocked, CancelRelease, CancelNames
  <2>2. \/ row' = row
        \/ row' = [row EXCEPT ![can.s].stage = "cancelled"]
        \/ Takeable(can.s) /\ row' = [row EXCEPT ![can.s].owner = Canceller]
        \/ row' = [row EXCEPT ![can.s].owner =
                     IF row[can.s].owner = Canceller THEN NoOwner ELSE row[can.s].owner]
    BY <1>5 DEF CancelStep, CancelDirect, CancelLease, CancelLocked, CancelRelease,
       FinishWithoutCommit, TakeLease, Released
  <2>3. row' = [row EXCEPT ![can.s].stage = "cancelled"] => row'[s].owner = v
    BY <1>0, <2>1 DEF RowTypeOK, RowRec
  <2>4. Takeable(can.s) => can.s # s
    BY <1>2
  <2>5. can.s = s => (IF row[can.s].owner = Canceller THEN NoOwner ELSE row[can.s].owner) = v
    BY <1>1
  <2> QED BY <1>3, <2>1, <2>2, <2>3, <2>4, <2>5
<1>6. ASSUME NEW w \in Workers,
             \/ FinishBoot(w) \/ BeginTurn(w)
             \/ \E t \in Switches : Unwatch(w, t) \/ BeginCancel(w, t)
      PROVE  row'[s].owner = v
  <2>1. CASE BeginTurn(w) \/ \E t \in Switches : Unwatch(w, t) \/ BeginCancel(w, t)
    BY <2>1 DEF BeginTurn, Unwatch, BeginCancel, storeVars
  <2>2. CASE FinishBoot(w)
    BY <1>0, <2>2 DEF FinishBoot, RowTypeOK, RowRec
  <2> QED BY <1>6, <2>1, <2>2
<1>7. ASSUME NEW w \in Workers, Crash(w) PROVE row'[s].owner = v \/ drv'[v] = Idle
  <2>1. CASE w = v
    BY <1>0, <1>7, <2>1 DEF Crash, DrvTypeOK
  <2>2. CASE w # v
    <3>1. row'[s] = [row[s] EXCEPT !.owner =
                       IF @ = w \/ (@ = Canceller /\ can.w = w) THEN Orphan ELSE @]
      BY <1>7 DEF Crash
    <3> QED BY <1>0, <1>1, <2>2, <3>1 DEF RowTypeOK, RowRec
  <2> QED BY <2>1, <2>2
<1>8. ASSUME NEW w \in Workers,
             \/ \E r \in Runtimes : SelectRuntime(w, r)
             \/ \E r \in ForcedRuntimes : RequestSwitch(w, r)
      PROVE  row'[s].owner = v
  <2>1. PICK t \in Switches :
          row[t].stage = "absent" /\ \E r, n, x, policy : NewRow(t, r, n, x, policy)
    BY <1>8 DEF SelectRuntime, RequestSwitch
  <2>2. \A u \in Switches : u # t => row'[u] = row[u]
    BY <1>0, <2>1 DEF NewRow, RowTypeOK
  <2> QED BY <2>1, <2>2
<1>9. ASSUME NEW w \in Workers, NEW t \in Switches, TakeLease(t, w) PROVE row'[s].owner = v
  <2>1. t # s
    BY <1>2, <1>9 DEF TakeLease
  <2>2. row' = [row EXCEPT ![t].owner = w]
    BY <1>9 DEF TakeLease
  <2> QED BY <1>3, <2>1, <2>2
<1>10. ASSUME NEW w \in Workers, DriveNext(w) \/ \E t \in Switches : DriveSwitch(w, t)
      PROVE  row'[s].owner = v
  <2>1. CASE DriveNext(w)
    <3>1. PICK t \in boot[w].left : UNCHANGED row \/ TakeLease(t, w)
      BY <2>1 DEF DriveNext
    <3>2. t \in Switches
      BY <1>0 DEF TaskTypeOK
    <3> QED BY <1>9, <3>1, <3>2
  <2>2. CASE \E t \in Switches : DriveSwitch(w, t)
    BY <1>9, <2>2 DEF DriveSwitch
  <2> QED BY <1>10, <2>1, <2>2
<1> QED BY <1>4, <1>5, <1>6, <1>7, <1>8, <1>10 DEF Next

LEMMA LeaseHeldStep ==
    ASSUME RowsInv, LeaseHeld, MaxStalls = 0, [Next]_switchVars
    PROVE  LeaseHeld'
<1> SUFFICES ASSUME NEW v \in Workers, drv'[v].pc # "idle" PROVE row'[drv'[v].s].owner = v
  BY DEF LeaseHeld
<1>0. TypeInv /\ DrvTypeOK /\ RowTypeOK
  BY TypeParts DEF RowsInv, RowInv, TypeInv, StoreTypeOK, RowTypeOK
<1>1. drv[v].pc # "idle" =>
        drv[v].s \in Switches /\ row[drv[v].s].stage # "absent" /\ row[drv[v].s].owner = v
  BY <1>0, Driving DEF RowsInv, Driven, LeaseHeld
<1>2. ASSUME NEW w \in Workers, DriverStep(w) PROVE row'[drv'[v].s].owner = v
  <2>1. CASE v = w
    <3>1. drv[w].pc # "idle" /\ drv'[w].s = drv[w].s
      BY <1>0, <1>2, <2>1, DriverRecord
    <3>2. ~Release(w)
      BY <1>0, <2>1 DEF Release, Stop, Idle, DrvTypeOK
    <3> QED BY <1>0, <1>1, <1>2, <2>1, <3>1, <3>2, DriverLeases
  <2>2. CASE v # w
    <3>1. drv'[v] = drv[v] /\ drv[w].pc # "idle"
      BY <1>0, <1>2, <2>2, DriverRecord
    <3>2. drv[v].s # drv[w].s
      BY <1>1, <2>2, <3>1 DEF LeaseHeld
    <3> QED BY <1>0, <1>1, <1>2, <3>1, <3>2, DriverLeases
  <2> QED BY <2>1, <2>2
<1>3. CASE \A w \in Workers : ~DriverStep(w)
  <2>1. drv'[v] # Idle
    BY DEF Idle
  <2>2. CASE drv'[v] = drv[v]
    BY <1>0, <1>1, <1>3, <2>1, <2>2, OtherLeases
  <2>3. CASE \E s \in Switches : /\ drv'[v] = [Idle EXCEPT !.pc = "loop", !.s = s]
                                 /\ row' = [row EXCEPT ![s].owner = v]
    <3>1. PICK s \in Switches : drv'[v].s = s /\ row' = [row EXCEPT ![s].owner = v]
      BY <2>3 DEF Idle
    <3> QED BY <1>0, <3>1 DEF RowTypeOK, RowRec
  <2> QED BY <1>0, <1>3, <2>1, <2>2, <2>3, OtherRecords
<1> QED BY <1>2, <1>3

LEMMA SoleDriver ==
    ASSUME TypeInv, OneAtATime, MaxStalls = 0 => LeaseHeld
    PROVE  Sole
<1>1. CASE MaxStalls = 0
  BY <1>1, TypeParts DEF Sole, LeaseHeld, TypeInv, DrvTypeOK
<1> QED BY <1>1 DEF OneAtATime, Sole

\* A switch found Committing is committed or sent back by its own driver only.
EndInv == RowsInv /\ (MaxStalls = 0 => LeaseHeld) /\ AtCommit

\* Where a driver comes to the commit and to the end of its error path from.
LEMMA DriverArrives ==
    ASSUME TypeInv, NEW w \in Workers, DriverStep(w), drv'[w].pc \in {"commit", "fail", "clean"}
    PROVE  \/ AdvanceToCommitting(w) /\ drv'[w].pc = "commit"
           \/ (ReadFailed(w) \/ FailSwitch(w)) /\ drv'[w].pc # "commit"
<1>0. drv \in [Workers -> DrvRec] /\ Resumable(drv[w]) /\ RowTypeOK
  BY TypeParts DEF TypeInv, DrvTypeOK, Resumes, StoreTypeOK, RowTypeOK
<1>1. \A pc : Goto(w, pc) => drv'[w].pc = pc
  BY <1>0 DEF Goto, Idle
<1>2. \A op : ~Begin(w, op)
  BY <1>0 DEF Begin, Idle
<1>3. ~Stop(w) /\ \A then : ~CancelWork(w, then)
  BY <1>0 DEF Stop, Idle, CancelWork, DrvRec
<1>4. CASE AdvanceToCommitting(w)
  BY <1>1, <1>4 DEF AdvanceToCommitting
<1>5. CASE \/ LeaseLost(w) \/ ClaimRequested(w) \/ Disown(w)
            \/ StabilizeTarget(w) \/ SettleActiveWork(w) \/ BeginWaiting(w) \/ Park(w)
            \/ AdvanceToPreparing(w) \/ ProbeFenced(w) \/ AdvanceToPrepared(w)
            \/ Revalidate(w) \/ Activate(w) \/ CleanUp(w) \/ Release(w) \/ ChooseStrategy(w)
  <2>1. \/ Stop(w) \/ CancelWork(w, "fence") \/ (\E op : Begin(w, op))
        \/ UNCHANGED drv /\ drv[w].pc = "loop"
        \/ \E pc \in {"release", "error", "settle", "wait", "fence", "park", "fenced", "loop",
                      "committing"} : Goto(w, pc)
    <3>1. CASE LeaseLost(w) \/ Disown(w) \/ StabilizeTarget(w) \/ BeginWaiting(w) \/ Park(w)
      BY <3>1 DEF LeaseLost, Disown, Supersede, SourceConflict, StabilizeTarget, BeginWaiting,
         Park
    <3>2. CASE ClaimRequested(w) \/ SettleActiveWork(w) \/ ChooseStrategy(w)
      BY <3>2 DEF ClaimRequested, At, SettleActiveWork, Reject, ChooseStrategy
    <3>3. CASE AdvanceToPreparing(w) \/ ProbeFenced(w) \/ AdvanceToPrepared(w) \/ Revalidate(w)
      BY <3>3 DEF AdvanceToPreparing, ProbeFenced, AdvanceToPrepared, Revalidate
    <3>4. CASE Activate(w) \/ CleanUp(w) \/ Release(w)
      BY <3>4 DEF Activate, CleanUp, Release
    <3> QED BY <1>5, <3>1, <3>2, <3>3, <3>4
  <2> QED BY <1>1, <1>2, <1>3, <2>1
<1>6. CASE EnsureCommitIdle(w) \/ Recheck(w) \/ Revert(w)
  <2>1. drv[w].then \in {"fence", "prepare", "revalidate", "loop", "error"}
    BY <1>0, <1>6 DEF EnsureCommitIdle, Recheck, Revert, At, Resumable
  <2>2. \/ \E then : CancelWork(w, then)
        \/ UNCHANGED drv /\ drv[w].pc = "work"
        \/ \E pc \in {"error", drv[w].then} : Goto(w, pc)
    BY <1>6 DEF EnsureCommitIdle, Recheck, Revert, Reject, At
  <2> QED BY <1>1, <1>3, <2>1, <2>2
<1>7. CASE BeginOperation(w) \/ ReconcileOperation(w) \/ Answer(w) \/ MarkSucceeded(w)
  <2>1. \/ Goto(w, "error") \/ Begin(w, "create") \/ Proceed(w, drv[w].op)
        \/ drv' = [drv EXCEPT ![w].pc = "mark"]
        \/ \E n : Execute(w, drv[w].op, n) \/ drv' = [drv EXCEPT ![w].pc = "answer", ![w].n = n]
    BY <1>7 DEF BeginOperation, ReconcileOperation, Answer, MarkSucceeded, Skip, Ambiguous
  <2>2. Proceed(w, drv[w].op) => drv'[w].pc = After(drv[w].s, drv[w].op)
    BY <1>0 DEF Proceed, DrvRec
  <2>3. \A n : Execute(w, drv[w].op, n) => drv'[w].pc = "send"
    BY <1>0 DEF Execute, DrvRec
  <2>4. \A n : drv' = [drv EXCEPT ![w].pc = "answer", ![w].n = n] => drv'[w].pc = "answer"
    BY <1>0 DEF DrvRec
  <2>5. drv' = [drv EXCEPT ![w].pc = "mark"] => drv'[w].pc = "mark"
    BY <1>0 DEF DrvRec
  <2>6. \A s, op : After(s, op) \notin {"commit", "fail", "clean"}
    BY DEF After
  <2> QED BY <1>1, <1>2, <2>1, <2>2, <2>3, <2>4, <2>5, <2>6
<1>8. CASE Dispatch(w) \/ Commit(w) \/ ConfirmCommitted(w)
  <2>1. \/ \E pc \in {"release", "reconcile", "target", "settle", "activate", "error"} : Goto(w, pc)
        \/ \E pc \in {"work", "revert", "activate"} : \E then :
             drv' = [drv EXCEPT ![w].pc = pc, ![w].then = then]
    BY <1>8 DEF Dispatch, Commit, ConfirmCommitted
  <2>2. ASSUME NEW pc \in {"work", "revert", "activate"}, NEW then,
               drv' = [drv EXCEPT ![w].pc = pc, ![w].then = then]
        PROVE  drv'[w].pc = pc
    BY <1>0, <2>2 DEF DrvRec
  <2> QED BY <1>1, <2>1, <2>2
<1>9. CASE Fence(w) \/ ReadFailed(w) \/ FailSwitch(w) \/ Send(w)
  <2>1. CASE Goto(w, "release")
    BY <1>1, <2>1
  <2>2. CASE Fence(w)
    BY <1>0, <2>2 DEF Fence, DrvRec
  <2>3. CASE ReadFailed(w)
    BY <1>0, <2>3 DEF ReadFailed, DrvRec
  <2>4. CASE FailSwitch(w) /\ drv' = [drv EXCEPT ![w].pc = "clean"]
    BY <1>0, <2>4 DEF DrvRec
  <2>5. CASE Send(w)
    BY <1>0, <2>5 DEF Send, DrvRec
  <2> QED BY <1>9, <2>1, <2>2, <2>3, <2>4, <2>5 DEF FailSwitch
<1> QED BY <1>4, <1>5, <1>6, <1>7, <1>8, <1>9 DEF DriverStep

LEMMA IntoCommit ==
    ASSUME TypeInv, NEW w \in Workers, DriverStep(w), drv'[w].pc = "commit"
    PROVE  row'[drv[w].s].stage = "committing"
<1>0. RowTypeOK /\ drv \in [Workers -> DrvRec]
  BY TypeParts DEF TypeInv, DrvTypeOK, StoreTypeOK, RowTypeOK
<1>1. AdvanceToCommitting(w)
  BY DriverArrives
<1>2. drv[w].s \in Switches
  BY <1>1, TypeParts, Driving DEF AdvanceToCommitting, At, TypeInv
<1>3. ~Goto(w, "error")
  BY <1>0 DEF Goto, Idle
<1>4. row' = [row EXCEPT ![drv[w].s].stage = "committing"]
  BY <1>1, <1>3 DEF AdvanceToCommitting
<1> QED BY <1>0, <1>2, <1>4, StageWrite DEF MovesTo

LEMMA EndStep == OneAtATime /\ EndInv /\ [Next]_switchVars => EndInv'
<1> SUFFICES ASSUME OneAtATime, EndInv, [Next]_switchVars PROVE EndInv'
  OBVIOUS
<1>0. TypeInv /\ RowsInv /\ AtCommit /\ Sole /\ DrvTypeOK
  BY SoleDriver, TypeParts DEF EndInv, RowsInv, RowInv, TypeInv
<1>1. RowsInv' /\ (MaxStalls = 0 => LeaseHeld')
  BY <1>0, RowsStep, LeaseHeldStep DEF EndInv
<1>2. AtCommit'
  <2> SUFFICES ASSUME NEW v \in Workers, drv'[v].pc = "commit"
               PROVE  row'[drv'[v].s].stage = "committing"
    BY DEF AtCommit, At
  <2>1. CASE DriverStep(v)
    <3>1. drv'[v].s = drv[v].s
      BY <1>0, <2>1, DriverRecord
    <3> QED BY <1>0, <2>1, <3>1, IntoCommit
  <2>2. CASE ~DriverStep(v)
    <3>1. drv'[v] = drv[v]
      <4>1. CASE \E w \in Workers : DriverStep(w)
        BY <1>0, <2>2, <4>1, DriverRecord
      <4>2. CASE \A w \in Workers : ~DriverStep(w)
        <5>1. \/ drv'[v] = drv[v] \/ drv'[v] = Idle
              \/ \E t \in Switches : drv'[v] = [Idle EXCEPT !.pc = "loop", !.s = t]
          BY <1>0, <4>2, OtherRecords
        <5>2. Idle.pc = "idle" /\ \A t : [Idle EXCEPT !.pc = "loop", !.s = t].pc = "loop"
          BY DEF Idle
        <5> QED BY <5>1, <5>2
      <4> QED BY <4>1, <4>2
    <3>2. PICK s \in Switches : s = drv[v].s /\ row[s].stage = "committing"
      BY <1>0, <3>1, Driving DEF AtCommit, At
    <3>3. ~CanTransition("committing", "cancelled")
      BY DEF CanTransition
    <3>4. \A w \in Workers : drv[w].s = s => w = v
      BY <1>0, <3>1, <3>2 DEF Sole
    <3>5. row'[s].stage = row[s].stage
      BY <1>0, <2>2, <3>2, <3>3, <3>4, StageSteps
    <3> QED BY <3>1, <3>2, <3>5
  <2> QED BY <2>1, <2>2
<1> QED BY <1>1, <1>2 DEF EndInv

LEMMA EndInit == Init => EndInv
<1> SUFFICES ASSUME Init PROVE EndInv
  OBVIOUS
<1>1. LeaseHeld /\ AtCommit
  BY DEF Init, LeaseHeld, AtCommit, At, Idle
<1> QED BY <1>1, RowsInit DEF EndInv

\* While a switch has one driver at a time, a switch that ended keeps the status it
\* ended with, whatever crashes, cancels and requests come after.
THEOREM EndedStaysEnded == OneAtATime => (Spec => TerminalIsFinal)
<1> SUFFICES ASSUME OneAtATime PROVE Spec => TerminalIsFinal
  OBVIOUS
<1>1. EndInv /\ [Next]_switchVars => EndInv'
  BY EndStep
<1>2. EndInv /\ [Next]_switchVars =>
        [\A s \in Switches : row[s].stage \in Terminal => row'[s].stage = row[s].stage]_switchVars
  BY EndStays DEF EndInv, RowsInv, RowInv
<1> QED BY <1>1, <1>2, EndInit, PTL DEF Spec, TerminalIsFinal

-----------------------------------------------------------------------------
(* The current binding. *)

\* The commit that takes effect.
Commits(w) ==
    /\ Commit(w) /\ Owning(w) /\ drv[w].s \in Switches
    /\ row' = [row EXCEPT ![drv[w].s].stage = "committed"]
    /\ ses' = [ses EXCEPT !.revision = @ + 1, !.current = row[drv[w].s].target,
                          !.effective = row[drv[w].s].runtime, !.status = "ready",
                          !.pending = NoSwitch]
    /\ bind' = [bind EXCEPT ![row[drv[w].s].source] = "inactive",
                            ![row[drv[w].s].target] = "current"]

\* The current binding moves with a commit only.
LEMMA CurrentSteps ==
    ASSUME TypeInv, [Next]_switchVars
    PROVE  ses'.current = ses.current \/ \E w \in Workers : Commits(w)
<1>0. ses \in SesRec /\ StoreTypeOK /\ DrvTypeOK /\ CancelNames
  BY TypeParts DEF TypeInv, StoreTypeOK
<1>1. ASSUME NEW w \in Workers, DriverStep(w)
      PROVE  ses'.current = ses.current \/ Commits(w)
  <2>0. drv[w].s \in Switches
    BY <1>0, <1>1, DriverRecord, Driving
  <2>1. CASE \E x \in {"superseded", "failed", "ambiguous"} : FinishWithoutCommit(drv[w].s, x)
    BY <1>0, <2>0, <2>1, FinishKeeps DEF Terminal
  <2>2. CASE ClaimRequested(w) \/ StabilizeTarget(w) \/ BeginWaiting(w) \/ AdvanceToPreparing(w)
    BY <1>0, <2>2 DEF ClaimRequested, StabilizeTarget, BeginWaiting, AdvanceToPreparing,
       Projected, SesRec
  <2>3. CASE AdvanceToPrepared(w) \/ AdvanceToCommitting(w) \/ Revert(w) \/ ConfirmCommitted(w)
    BY <1>0, <2>3 DEF AdvanceToPrepared, AdvanceToCommitting, Revert, ConfirmCommitted, SesRec
  <2>4. CASE Commit(w)
    BY <1>0, <2>0, <2>4 DEF Commit, Commits, SesRec
  <2> QED BY <1>1, <2>1, <2>2, <2>3, <2>4, DriverRows
<1>2. CASE \/ \E r \in Runtimes : MaterializeCurrent(r)
           \/ \E w \in Workers, r \in Runtimes : SelectRuntime(w, r)
           \/ \E w \in Workers, r \in ForcedRuntimes : RequestSwitch(w, r)
  BY <1>0, <1>2 DEF MaterializeCurrent, SelectRuntime, RequestSwitch, SesRec
<1>3. CASE (CancelDirect \/ CancelLocked) /\ FinishWithoutCommit(can.s, "cancelled")
  <2>1. can.s \in Switches /\ "cancelled" \in Terminal
    BY <1>0, <1>3 DEF CancelDirect, CancelLocked, CancelNames, Terminal
  <2> QED BY <1>0, <1>3, <2>1, FinishKeeps
<1> QED BY <1>1, <1>2, <1>3, OtherRows

\* Who writes the state of a binding.
LEMMA BindSteps ==
    ASSUME TypeInv, [Next]_switchVars
    PROVE  \/ UNCHANGED bind
           \/ \E w \in Workers : Commits(w)
           \/ \E b \in Bindings : bind[b] = "none" /\ bind' = [bind EXCEPT ![b] = "preparing"]
           \/ \E s \in Switches :
                /\ ~LiveMutation(s) /\ bind' = [bind EXCEPT ![row[s].target] = "failed"]
                /\ \/ Live(s)
                   \/ \E w \in Workers : At(w, "clean") /\ drv[w].s = s /\ drv[w].seen \in CleansTarget
<1>0. StoreTypeOK /\ DrvTypeOK /\ RowTypeOK /\ CancelNames
  BY TypeParts DEF TypeInv, StoreTypeOK, RowTypeOK
<1>1. \A s : TargetFailed(s) =>
        UNCHANGED bind \/ (~LiveMutation(s) /\ bind' = [bind EXCEPT ![row[s].target] = "failed"])
  BY DEF TargetFailed
<1>2. ASSUME NEW w \in Workers, DriverStep(w)
      PROVE  \/ UNCHANGED bind
             \/ Commits(w)
             \/ \E b \in Bindings : bind[b] = "none" /\ bind' = [bind EXCEPT ![b] = "preparing"]
             \/ /\ TargetFailed(drv[w].s) /\ At(w, "clean") /\ drv[w].seen \in CleansTarget
  <2>0. drv[w].s \in Switches
    BY <1>0, <1>2, DriverRecord, Driving
  <2>1. CASE \/ LeaseLost(w) \/ ClaimRequested(w) \/ Dispatch(w) \/ Disown(w)
              \/ StabilizeTarget(w) \/ SettleActiveWork(w) \/ BeginWaiting(w) \/ Park(w)
              \/ Fence(w) \/ AdvanceToPreparing(w) \/ ProbeFenced(w) \/ EnsureCommitIdle(w)
              \/ Recheck(w) \/ ChooseStrategy(w) \/ Send(w)
    BY <2>1 DEF LeaseLost, ClaimRequested, Dispatch, Disown, Supersede, SourceConflict,
       StabilizeTarget, SettleActiveWork, BeginWaiting, Park, Fence, AdvanceToPreparing,
       ProbeFenced, EnsureCommitIdle, Recheck, ChooseStrategy, Send, storeVars
  <2>2. CASE \/ AdvanceToPrepared(w) \/ BeginOperation(w) \/ ReconcileOperation(w)
              \/ MarkSucceeded(w) \/ Revalidate(w) \/ AdvanceToCommitting(w) \/ Revert(w)
              \/ ConfirmCommitted(w) \/ Activate(w) \/ ReadFailed(w) \/ FailSwitch(w)
              \/ Release(w)
    BY <2>2 DEF AdvanceToPrepared, BeginOperation, ReconcileOperation, MarkSucceeded,
       Revalidate, AdvanceToCommitting, Revert, ConfirmCommitted, Activate, ReadFailed,
       FailSwitch, Release, storeVars
  <2>3. CASE Answer(w)
    <3>1. row[drv[w].s].target \in Bindings
      BY <1>0, <2>0 DEF RowTypeOK, RowRec
    <3>2. \/ UNCHANGED bind
          \/ /\ bind[row[drv[w].s].target] = "none"
             /\ bind' = [bind EXCEPT ![row[drv[w].s].target] = "preparing"]
      BY <2>3 DEF Answer
    <3> QED BY <3>1, <3>2
  <2>4. CASE Commit(w)
    BY <2>0, <2>4 DEF Commit, Commits
  <2>5. CASE CleanUp(w)
    BY <2>5 DEF CleanUp
  <2> QED BY <1>2, <2>1, <2>2, <2>3, <2>4, <2>5 DEF DriverStep
<1>3. CASE \E w \in Workers : DriverStep(w)
  <2>1. PICK w \in Workers : DriverStep(w)
    BY <1>3
  <2>2. drv[w].s \in Switches
    BY <1>0, <2>1, DriverRecord, Driving
  <2> QED BY <1>1, <1>2, <2>1, <2>2
<1>4. CASE CancelStep
  <2>1. CASE CancelLocked
    <3>1. UNCHANGED bind \/ (Live(can.s) /\ TargetFailed(can.s))
      BY <2>1 DEF CancelLocked
    <3>2. can.s \in Switches
      BY <1>0, <2>1 DEF CancelLocked, CancelNames
    <3> QED BY <1>1, <3>1, <3>2
  <2> QED BY <1>4, <2>1 DEF CancelStep, CancelDirect, CancelLease, CancelRelease
<1>5. CASE \/ UNCHANGED switchVars \/ EndTurn
           \/ \E r \in Runtimes : MaterializeCurrent(r)
  BY <1>5 DEF switchVars, storeVars, EndTurn, MaterializeCurrent
<1>6. ASSUME NEW w \in Workers,
             \/ DriveNext(w) \/ FinishBoot(w) \/ BeginTurn(w) \/ Crash(w)
             \/ \E r \in Runtimes : SelectRuntime(w, r)
             \/ \E r \in ForcedRuntimes : RequestSwitch(w, r)
             \/ \E s \in Switches : DriveSwitch(w, s) \/ Unwatch(w, s) \/ BeginCancel(w, s)
      PROVE  UNCHANGED bind
  BY <1>6 DEF DriveNext, FinishBoot, BeginTurn, Crash, SelectRuntime, RequestSwitch,
     DriveSwitch, Unwatch, BeginCancel, storeVars
<1> QED BY <1>3, <1>4, <1>5, <1>6 DEF Next

\* A switch the session is on was committed, and a driver that cleans up after an error
\* has an ended switch, a committed one only if it found it so.
CurrentCommitted == ses.current \in Switches => row[ses.current].stage = "committed"

AtClean ==
    \A w \in Workers : At(w, "clean") =>
      /\ row[drv[w].s].stage \in Terminal
      /\ row[drv[w].s].stage = "committed" => drv[w].seen = "committed"

UsableInv == EndInv /\ CurrentCommitted /\ AtClean /\ CurrentIsUsable

LEMMA CleanStep ==
    ASSUME EndInv, AtClean, [Next]_switchVars
    PROVE  AtClean'
<1> SUFFICES ASSUME NEW v \in Workers, drv'[v].pc = "clean"
             PROVE  /\ row'[drv'[v].s].stage \in Terminal
                    /\ row'[drv'[v].s].stage = "committed" => drv'[v].seen = "committed"
  BY DEF AtClean, At
<1>0. /\ TypeInv /\ AtCommit /\ Driven /\ DrvTypeOK /\ RowTypeOK
      /\ drv \in [Workers -> DrvRec]
  BY TypeParts DEF EndInv, RowsInv, RowInv, TypeInv, DrvTypeOK, StoreTypeOK, RowTypeOK
<1>1. CASE drv'[v] = drv[v]
  <2>1. PICK s \in Switches : s = drv[v].s /\ row[s].stage \in Terminal
    BY <1>0, <1>1, Driving DEF AtClean, At
  <2>2. row'[s].stage = row[s].stage
    BY <1>0, <2>1, EndStays
  <2> QED BY <1>1, <2>1, <2>2 DEF AtClean, At
<1>2. CASE DriverStep(v)
  <2>0. drv'[v].s = drv[v].s /\ drv[v].s \in Switches
    BY <1>0, <1>2, DriverRecord, Driving
  <2>1. CASE ReadFailed(v)
    <3>1. drv'[v].seen = row[drv[v].s].stage /\ UNCHANGED row /\ ~Live(drv[v].s)
      BY <1>0, <2>1 DEF ReadFailed, DrvRec, storeVars
    <3>2. row[drv[v].s].stage # "absent" /\ row[drv[v].s].stage \in Stage
      BY <1>0, <2>0, <2>1 DEF ReadFailed, At, Driven, RowTypeOK, RowRec
    <3>3. row[drv[v].s].stage \in Terminal
      BY <3>1, <3>2 DEF Live, Stage
    <3> QED BY <2>0, <3>1, <3>3
  <2>2. CASE FailSwitch(v)
    <3>1. ~Goto(v, "release")
      BY <1>0 DEF Goto, Idle
    <3>2. row' = [row EXCEPT ![drv[v].s].stage = "failed"]
      BY <2>2, <3>1 DEF FailSwitch, FinishWithoutCommit
    <3>3. row'[drv[v].s].stage = "failed"
      BY <1>0, <2>0, <3>2, StageWrite DEF MovesTo
    <3> QED BY <2>0, <3>3 DEF Terminal
  <2> QED BY <1>0, <1>2, <2>1, <2>2, DriverArrives
<1>3. CASE \E w \in Workers : w # v /\ DriverStep(w)
  BY <1>0, <1>1, <1>3, DriverRecord
<1>4. CASE \A w \in Workers : ~DriverStep(w)
  <2>1. \/ drv'[v] = drv[v] \/ drv'[v] = Idle
        \/ \E t \in Switches : drv'[v] = [Idle EXCEPT !.pc = "loop", !.s = t]
    BY <1>0, <1>4, OtherRecords
  <2>2. Idle.pc = "idle" /\ \A t : [Idle EXCEPT !.pc = "loop", !.s = t].pc = "loop"
    BY DEF Idle
  <2> QED BY <1>1, <2>1, <2>2
<1> QED BY <1>2, <1>3, <1>4

LEMMA UsableStep == OneAtATime /\ UsableInv /\ [Next]_switchVars => UsableInv'
<1> SUFFICES ASSUME OneAtATime, UsableInv, [Next]_switchVars PROVE UsableInv'
  OBVIOUS
<1>0. /\ TypeInv /\ EndInv /\ AtCommit /\ TargetOK /\ RowTypeOK /\ DrvTypeOK /\ ses \in SesRec
      /\ bind \in [Bindings -> {"none", "preparing", "current", "inactive", "failed"}]
  BY TypeParts DEF UsableInv, EndInv, RowsInv, RowInv, TypeInv, StoreTypeOK, RowTypeOK
<1>1. EndInv' /\ AtClean'
  BY EndStep, CleanStep DEF UsableInv
<1>2. CASE \E w \in Workers : Commits(w)
  <2>1. PICK w \in Workers : Commits(w)
    BY <1>2
  <2>2. PICK s \in Switches : s = drv[w].s
    BY <2>1 DEF Commits
  <2>3. /\ ses'.current = row[s].target /\ row[s].source = ses.current
        /\ bind' = [bind EXCEPT ![ses.current] = "inactive", ![row[s].target] = "current"]
    BY <1>0, <2>1, <2>2 DEF Commits, Owning, OwnsSource, SesRec
  <2>4. ses.current \in Bindings /\ row[s].target \in Bindings
    BY <1>0 DEF SesRec, RowTypeOK, RowRec
  <2>5. \A b \in Bindings : bind'[b] = IF b = row[s].target THEN "current"
                                      ELSE IF b = ses.current THEN "inactive" ELSE bind[b]
    BY <1>0, <2>3, <2>4
  <2>6. CurrentIsUsable'
    <3>1. \A b \in Bindings : bind[b] = "current" <=> ses.current = b
      BY DEF UsableInv, CurrentIsUsable
    <3>2. \A b \in Bindings : bind'[b] = "current" <=> ses'.current = b
      <4> TAKE b \in Bindings
      <4>1. CASE b = row[s].target
        BY <2>3, <2>5, <4>1
      <4>2. CASE b # row[s].target
        <5>1. bind'[b] = IF b = ses.current THEN "inactive" ELSE bind[b]
          BY <2>5, <4>2
        <5>2. ses'.current # b
          BY <2>3, <4>2
        <5> QED BY <3>1, <5>1, <5>2
      <4> QED BY <4>1, <4>2
    <3> QED BY <3>2 DEF CurrentIsUsable
  <2>7. row'[s].stage = "committed"
    BY <1>0, <2>1, <2>2, StageWrite, ZenonT(60) DEF Commits, MovesTo
  <2>8. CurrentCommitted'
    <3>1. CASE row[s].target = s
      BY <2>3, <2>7, <3>1 DEF CurrentCommitted
    <3>2. CASE row[s].target = ses.current
      BY <1>0, <2>3, <3>2, EndStays DEF UsableInv, CurrentCommitted, Terminal
    <3> QED BY <1>0, <2>3, <3>1, <3>2 DEF TargetOK
  <2> QED BY <1>1, <2>6, <2>8 DEF UsableInv
<1>3. CASE \A w \in Workers : ~Commits(w)
  <2>1. ses'.current = ses.current
    BY <1>0, <1>3, CurrentSteps
  <2>2. CurrentCommitted'
    BY <1>0, <2>1, EndStays DEF UsableInv, CurrentCommitted, Terminal
  <2>3. CurrentIsUsable'
    <3>1. CASE UNCHANGED bind
      BY <2>1, <3>1 DEF UsableInv, CurrentIsUsable
    <3>2. CASE \E b \in Bindings : bind[b] = "none" /\ bind' = [bind EXCEPT ![b] = "preparing"]
      <4>1. PICK b \in Bindings : bind[b] = "none" /\ bind' = [bind EXCEPT ![b] = "preparing"]
        BY <3>2
      <4>2. \A c \in Bindings : bind'[c] = IF c = b THEN "preparing" ELSE bind[c]
        BY <1>0, <4>1
      <4> QED BY <2>1, <4>1, <4>2 DEF UsableInv, CurrentIsUsable
    <3>3. CASE \E s \in Switches :
                 /\ ~LiveMutation(s) /\ bind' = [bind EXCEPT ![row[s].target] = "failed"]
                 /\ \/ Live(s)
                    \/ \E w \in Workers : At(w, "clean") /\ drv[w].s = s /\ drv[w].seen \in CleansTarget
      <4>1. PICK s \in Switches :
                 /\ ~LiveMutation(s) /\ bind' = [bind EXCEPT ![row[s].target] = "failed"]
                 /\ \/ Live(s)
                    \/ \E w \in Workers : At(w, "clean") /\ drv[w].s = s /\ drv[w].seen \in CleansTarget
        BY <3>3
      <4>2. row[s].target = s
        BY <1>0, <4>1 DEF LiveMutation, TargetOK
      <4>3. row[s].stage # "committed"
        <5>1. Live(s) => row[s].stage # "committed"
          BY DEF Live, Held
        <5>2. \A w \in Workers : At(w, "clean") /\ drv[w].s = s /\ drv[w].seen \in CleansTarget
                => row[s].stage # "committed"
          BY DEF UsableInv, AtClean, CleansTarget
        <5> QED BY <4>1, <5>1, <5>2
      <4>4. ses.current # s
        BY <4>3 DEF UsableInv, CurrentCommitted
      <4>5. \A c \in Bindings : bind'[c] = IF c = s THEN "failed" ELSE bind[c]
        BY <1>0, <4>1, <4>2, IdNames
      <4> QED BY <2>1, <4>4, <4>5 DEF UsableInv, CurrentIsUsable
    <3> QED BY <1>0, <1>3, <3>1, <3>2, <3>3, BindSteps
  <2> QED BY <1>1, <2>2, <2>3 DEF UsableInv
<1> QED BY <1>2, <1>3

LEMMA UsableInit == Init => UsableInv
<1> SUFFICES ASSUME Init PROVE UsableInv
  OBVIOUS
<1>1. CurrentCommitted /\ CurrentIsUsable
  BY IdNames DEF Init, CurrentCommitted, CurrentIsUsable
<1>2. AtClean
  BY DEF Init, AtClean, At, Idle
<1> QED BY <1>1, <1>2, EndInit DEF UsableInv

\* While a switch has one driver at a time, the binding the session points at is the one
\* that is marked current: no commit, cleanup, cancellation or replay takes the mark away.
THEOREM CurrentStaysUsable == OneAtATime => (Spec => []CurrentIsUsable)
<1> SUFFICES ASSUME OneAtATime PROVE Spec => []CurrentIsUsable
  OBVIOUS
<1>1. UsableInv /\ [Next]_switchVars => UsableInv'
  BY UsableStep
<1>2. UsableInv => CurrentIsUsable
  BY DEF UsableInv
<1> QED BY <1>1, <1>2, UsableInit, PTL DEF Spec

-----------------------------------------------------------------------------
(* The saga implements the selection: while a switch has one driver at a time, and no    *)
(* runtime is reached by a live mutation.                                              *)

\* A switch prepares its own binding.
OwnTarget == \A s \in Switches : row[s].target = s

\* A driver that is about to fail its switch found it live, and a cancellation without
\* the lease found it uncancelled.
AtFail == \A w \in Workers : At(w, "fail") => row[drv[w].s].stage # "failed"
AtDirect == can.pc = "direct" => row[can.s].stage \notin {"absent", "cancelled"}

\* The creation numbers have a bound, so there is a newest switch.
CreatedBounded == \E n \in Nat : \A s \in Switches : row[s].created <= n

RefineInv == UsableInv /\ OwnTarget /\ AtFail /\ AtDirect /\ CreatedBounded

LEMMA OwnTargetStep ==
    ASSUME TypeInv, LiveRuntimes = {}, OwnTarget, [Next]_switchVars
    PROVE  OwnTarget'
<1> SUFFICES ASSUME NEW s \in Switches PROVE row'[s].target = s
  BY DEF OwnTarget
<1>0. RowTypeOK /\ DrvTypeOK /\ row[s].target = s
  BY TypeParts DEF TypeInv, StoreTypeOK, RowTypeOK, OwnTarget
<1>1. CASE SameRows
  BY <1>0, <1>1 DEF SameRows, SameRow
<1>2. ASSUME NEW t \in Switches, NEW x, row' = [row EXCEPT ![t].stage = x] PROVE row'[s].target = s
  BY <1>0, <1>2, StageWrite DEF MovesTo
<1>3. ASSUME NEW w \in Workers, DriverStep(w) PROVE row'[s].target = s
  <2>0. drv[w].s \in Switches
    BY <1>0, <1>3, DriverRecord, Driving
  <2>1. CASE StabilizeTarget(w)
    <3>1. UNCHANGED row \/ row' = [row EXCEPT ![drv[w].s].target = drv[w].s]
      BY <2>1 DEF StabilizeTarget
    <3> QED BY <1>0, <2>0, <3>1 DEF RowTypeOK, RowRec
  <2>2. CASE \E x : row' = [row EXCEPT ![drv[w].s].stage = x]
    BY <1>2, <2>0, <2>2
  <2>3. CASE UNCHANGED row
    BY <1>0, <2>3
  <2>4. CASE ClaimRequested(w) \/ BeginWaiting(w) \/ AdvanceToPreparing(w) \/ Commit(w)
    BY <2>2, <2>3, <2>4 DEF ClaimRequested, BeginWaiting, AdvanceToPreparing, Commit
  <2>5. CASE AdvanceToPrepared(w) \/ AdvanceToCommitting(w) \/ Revert(w) \/ ConfirmCommitted(w)
    BY <2>2, <2>3, <2>5 DEF AdvanceToPrepared, AdvanceToCommitting, Revert, ConfirmCommitted
  <2>6. CASE \E x : FinishWithoutCommit(drv[w].s, x)
    BY <2>2, <2>6 DEF FinishWithoutCommit
  <2> QED BY <1>1, <1>3, <2>1, <2>4, <2>5, <2>6, DriverRows
<1>4. CASE \E r \in Runtimes : MaterializeCurrent(r)
  BY <1>0, <1>4 DEF MaterializeCurrent
<1>5. CASE \/ \E w \in Workers, r \in Runtimes : SelectRuntime(w, r)
           \/ \E w \in Workers, r \in ForcedRuntimes : RequestSwitch(w, r)
  <2>1. PICK t \in Switches : \E r, n, x, policy : NewRow(t, r, n, x, policy)
    BY <1>5 DEF SelectRuntime, RequestSwitch
  <2>2. row'[t].target = t /\ \A u \in Switches : u # t => row'[u] = row[u]
    BY <1>0, <2>1 DEF NewRow, RowTypeOK
  <2> QED BY <1>0, <2>2
<1>6. CASE (CancelDirect \/ CancelLocked) /\ FinishWithoutCommit(can.s, "cancelled")
  <2>1. can.s \in Switches
    BY <1>6 DEF CancelDirect, CancelLocked, TypeInv, CancelNames
  <2> QED BY <1>2, <1>6, <2>1 DEF FinishWithoutCommit
<1> QED BY <1>1, <1>3, <1>4, <1>5, <1>6, OtherRows

LEMMA FailStep ==
    ASSUME RowsInv, Sole, AtFail, [Next]_switchVars
    PROVE  AtFail'
<1> SUFFICES ASSUME NEW v \in Workers, drv'[v].pc = "fail"
             PROVE  row'[drv'[v].s].stage # "failed"
  BY DEF AtFail, At
<1>0. /\ TypeInv /\ Driven /\ DrvTypeOK /\ drv \in [Workers -> DrvRec]
  BY TypeParts DEF RowsInv, RowInv, TypeInv, DrvTypeOK
<1>1. CASE DriverStep(v)
  <2>1. CASE ReadFailed(v)
    <3>1. UNCHANGED row /\ Live(drv[v].s) /\ drv'[v].s = drv[v].s
      BY <1>0, <2>1 DEF ReadFailed, storeVars, DrvRec
    <3> QED BY <3>1 DEF Live, Held
  <2>2. CASE FailSwitch(v)
    <3>1. Goto(v, "release") \/ drv' = [drv EXCEPT ![v].pc = "clean"]
      BY <2>2 DEF FailSwitch
    <3>2. Goto(v, "release") => drv'[v].pc = "release"
      BY <1>0 DEF Goto, Idle
    <3>3. drv' = [drv EXCEPT ![v].pc = "clean"] => drv'[v].pc = "clean"
      BY <1>0 DEF DrvRec
    <3> QED BY <3>1, <3>2, <3>3
  <2> QED BY <1>0, <1>1, <2>1, <2>2, DriverArrives
<1>2. CASE ~DriverStep(v)
  <2>1. drv'[v] = drv[v]
    <3>1. CASE \E w \in Workers : DriverStep(w)
      BY <1>0, <1>2, <3>1, DriverRecord
    <3>2. CASE \A w \in Workers : ~DriverStep(w)
      <4>1. \/ drv'[v] = drv[v] \/ drv'[v] = Idle
            \/ \E t \in Switches : drv'[v] = [Idle EXCEPT !.pc = "loop", !.s = t]
        BY <1>0, <3>2, OtherRecords
      <4>2. Idle.pc = "idle" /\ \A t : [Idle EXCEPT !.pc = "loop", !.s = t].pc = "loop"
        BY DEF Idle
      <4> QED BY <4>1, <4>2
    <3> QED BY <3>1, <3>2
  <2>2. PICK s \in Switches : s = drv[v].s /\ row[s].stage \notin {"failed", "absent"}
    BY <1>0, <2>1, Driving DEF AtFail, At, Driven
  <2>3. \A w \in Workers : drv[w].s = s => w = v
    BY <2>1, <2>2 DEF Sole
  <2>4. CASE row'[s].stage = row[s].stage
    BY <2>1, <2>2, <2>4
  <2>5. CASE CancelDirect \/ CancelLocked
    <3>1. row' = row \/ FinishWithoutCommit(can.s, "cancelled")
      BY <2>5 DEF CancelDirect, CancelLocked
    <3>2. can.s \in Switches /\ RowTypeOK
      BY <1>0, <2>5, TypeParts DEF CancelDirect, CancelLocked, TypeInv, CancelNames, StoreTypeOK, RowTypeOK
    <3>3. row'[s].stage \in {row[s].stage, "cancelled"}
      BY <3>1, <3>2 DEF FinishWithoutCommit, RowTypeOK, RowRec
    <3> QED BY <2>1, <2>2, <3>3
  <2> QED BY <1>0, <1>2, <2>2, <2>3, <2>4, <2>5, StageSteps
<1> QED BY <1>1, <1>2

\* How the cancellation moves.
LEMMA CancelSteps ==
    ASSUME [Next]_switchVars, TypeInv, can'.pc = "direct"
    PROVE  \/ can' = can /\ ~CancelDirect /\ ~CancelLocked
           \/ \E w \in Workers, s \in Switches : BeginCancel(w, s)
<1>0. can \in CanRec
  BY TypeParts DEF TypeInv, TaskTypeOK, CanRec
<1>1. NoCancel.pc = "idle"
  BY DEF NoCancel
<1>2. ~CancelStep
  <2>1. can' # NoCancel /\ can' # [can EXCEPT !.pc = "locked"] /\ can' # [can EXCEPT !.pc = "release"]
    BY <1>0, <1>1 DEF CanRec
  <2> QED BY <2>1 DEF CancelStep, CancelDirect, CancelLease, CancelLocked, CancelRelease
<1>3. ~CancelDirect /\ ~CancelLocked
  BY <1>2 DEF CancelStep
<1>4. CASE \/ UNCHANGED switchVars \/ EndTurn \/ \E r \in Runtimes : MaterializeCurrent(r)
  BY <1>3, <1>4 DEF switchVars, taskVars, EndTurn, MaterializeCurrent
<1>5. ASSUME NEW w \in Workers,
             \/ DriverStep(w) \/ DriveNext(w) \/ FinishBoot(w) \/ BeginTurn(w)
             \/ \E r \in Runtimes : SelectRuntime(w, r)
             \/ \E r \in ForcedRuntimes : RequestSwitch(w, r)
             \/ \E s \in Switches : DriveSwitch(w, s) \/ Unwatch(w, s)
      PROVE  can' = can
  <2>1. CASE DriverStep(w)
    BY <2>1, DriverFrame
  <2> QED BY <1>5, <2>1 DEF DriveNext, FinishBoot, BeginTurn, SelectRuntime, RequestSwitch,
          DriveSwitch, Unwatch, taskVars
<1>6. ASSUME NEW w \in Workers, Crash(w) PROVE can' = can
  BY <1>1, <1>6 DEF Crash
<1> QED BY <1>2, <1>3, <1>4, <1>5, <1>6 DEF Next

LEMMA DirectStep ==
    ASSUME RowsInv, AtDirect, [Next]_switchVars
    PROVE  AtDirect'
<1> SUFFICES ASSUME can'.pc = "direct" PROVE row'[can'.s].stage \notin {"absent", "cancelled"}
  BY DEF AtDirect
<1>0. TypeInv /\ \A s \in Switches : Settles(s)
  BY RowsStep DEF RowsInv, RowInv
<1>1. CASE \E w \in Workers, s \in Switches : BeginCancel(w, s)
  <2>1. PICK w \in Workers, s \in Switches : BeginCancel(w, s)
    BY <1>1
  <2>2. can'.s = s /\ UNCHANGED row /\ Live(s)
    BY <2>1 DEF BeginCancel, storeVars
  <2> QED BY <2>2 DEF Live, Held
<1>2. CASE can' = can /\ ~CancelDirect /\ ~CancelLocked
  <2>1. PICK s \in Switches : s = can.s /\ row[s].stage \notin {"absent", "cancelled"}
    BY <1>0, <1>2 DEF AtDirect, TypeInv, CancelNames
  <2>2. row'[s].stage # "cancelled"
    BY <1>0, <1>2, <2>1, StageSteps
  <2>3. row'[s].stage # "absent"
    BY <1>0, <2>1 DEF Settles
  <2> QED BY <1>2, <2>1, <2>2, <2>3
<1> QED BY <1>0, <1>1, <1>2, CancelSteps

LEMMA BoundStep ==
    ASSUME TypeInv, CreatedBounded, [Next]_switchVars
    PROVE  CreatedBounded'
<1>0. RowTypeOK /\ DrvTypeOK /\ CancelNames /\ \A s \in Switches : row[s].created \in Nat
  BY TypeParts DEF TypeInv, StoreTypeOK, RowTypeOK, RowRec
<1>1. PICK n \in Nat : \A s \in Switches : row[s].created <= n
  BY DEF CreatedBounded
<1>2. CASE \A s \in Switches : row'[s].created = row[s].created
  BY <1>1, <1>2 DEF CreatedBounded
<1>3. CASE SameRows
  BY <1>2, <1>3 DEF SameRows, SameRow
<1>4. ASSUME NEW t \in Switches, NEW x, row' = [row EXCEPT ![t].stage = x] PROVE CreatedBounded'
  BY <1>0, <1>2, <1>4, StageWrite DEF MovesTo
<1>5. CASE UNCHANGED row
  BY <1>2, <1>5
<1>6. ASSUME NEW w \in Workers, DriverStep(w) PROVE CreatedBounded'
  <2>0. drv[w].s \in Switches
    BY <1>0, <1>6, DriverRecord, Driving
  <2>1. CASE StabilizeTarget(w)
    <3>1. PICK b : UNCHANGED row \/ row' = [row EXCEPT ![drv[w].s].target = b]
      BY <2>1 DEF StabilizeTarget
    <3>2. \A s \in Switches : row'[s].created = row[s].created
      BY <1>0, <2>0, <3>1 DEF RowTypeOK, RowRec
    <3> QED BY <1>2, <3>2
  <2>2. CASE \E x : row' = [row EXCEPT ![drv[w].s].stage = x]
    BY <1>4, <2>0, <2>2
  <2>3. CASE ClaimRequested(w) \/ BeginWaiting(w) \/ AdvanceToPreparing(w) \/ Commit(w)
    BY <1>5, <2>2, <2>3 DEF ClaimRequested, BeginWaiting, AdvanceToPreparing, Commit
  <2>4. CASE AdvanceToPrepared(w) \/ AdvanceToCommitting(w) \/ Revert(w) \/ ConfirmCommitted(w)
    BY <1>5, <2>2, <2>4 DEF AdvanceToPrepared, AdvanceToCommitting, Revert, ConfirmCommitted
  <2>5. CASE \E x : FinishWithoutCommit(drv[w].s, x)
    BY <2>2, <2>5 DEF FinishWithoutCommit
  <2> QED BY <1>3, <1>6, <2>1, <2>3, <2>4, <2>5, DriverRows
<1>7. CASE \E r \in Runtimes : MaterializeCurrent(r)
  BY <1>5, <1>7 DEF MaterializeCurrent
<1>8. CASE \/ \E w \in Workers, r \in Runtimes : SelectRuntime(w, r)
           \/ \E w \in Workers, r \in ForcedRuntimes : RequestSwitch(w, r)
  <2> DEFINE c == Cardinality(Used) + 1
  <2>1. c \in Nat
    <3>1. IsFiniteSet(Used)
      BY SwitchAssumption, FS_Subset DEF Used
    <3>2. Cardinality(Used) \in Nat
      BY <3>1, FS_CardinalityType
    <3> QED BY <3>2
  <2>2. PICK t \in Switches : \E r, k, x, policy : NewRow(t, r, k, x, policy)
    BY <1>8 DEF SelectRuntime, RequestSwitch
  <2>3. row'[t].created = c /\ \A u \in Switches : u # t => row'[u] = row[u]
    BY <1>0, <2>2 DEF NewRow, RowTypeOK
  <2> HIDE DEF c
  <2>4. \A s \in Switches : row'[s].created <= n + c
    BY <1>0, <1>1, <2>1, <2>3
  <2>5. n + c \in Nat
    BY <2>1
  <2> QED BY <2>4, <2>5 DEF CreatedBounded
<1>9. CASE (CancelDirect \/ CancelLocked) /\ FinishWithoutCommit(can.s, "cancelled")
  <2>1. can.s \in Switches
    BY <1>0, <1>9 DEF CancelDirect, CancelLocked, CancelNames
  <2> QED BY <1>4, <1>9, <2>1 DEF FinishWithoutCommit
<1> QED BY <1>3, <1>6, <1>7, <1>8, <1>9, OtherRows

LEMMA RefineInit == Init => RefineInv
<1> SUFFICES ASSUME Init PROVE RefineInv
  OBVIOUS
<1>1. OwnTarget /\ AtDirect
  BY DEF Init, OwnTarget, AtDirect, NoCancel
<1>2. AtFail
  BY DEF Init, AtFail, At, Idle
<1>3. CreatedBounded
  <2>1. \A s \in Switches : row[s].created <= 0
    BY DEF Init
  <2> QED BY <2>1 DEF CreatedBounded
<1> QED BY <1>1, <1>2, <1>3, UsableInit DEF RefineInv

LEMMA RefineStep == OneAtATime /\ LiveRuntimes = {} /\ RefineInv /\ [Next]_switchVars => RefineInv'
<1> SUFFICES ASSUME OneAtATime, LiveRuntimes = {}, RefineInv, [Next]_switchVars PROVE RefineInv'
  OBVIOUS
<1>1. TypeInv /\ RowsInv /\ UsableInv /\ Sole
  BY SoleDriver DEF RefineInv, UsableInv, EndInv, RowsInv, RowInv
<1>2. UsableInv'
  BY <1>1, UsableStep
<1> QED BY <1>1, <1>2, OwnTargetStep, FailStep, DirectStep, BoundStep DEF RefineInv

Below == {p \in Nat \X Nat : p[1] < p[2]}

\* The newest of the live intents is one of them.
LEMMA LiveIntentIsOne ==
    ASSUME TypeInv, CreatedBounded
    PROVE  LiveIntent \in Switches \cup {NoSwitch}
<1> DEFINE S == {s \in Used : Live(s) /\ OwnsIntent(s)}
<1>1. S \subseteq Switches /\ LiveIntent = IF S = {} THEN NoSwitch
                          ELSE CHOOSE s \in S : \A t \in S : row[t].created <= row[s].created
  BY DEF Used, LiveIntent
<1> HIDE DEF S
<1>2. PICK n \in Nat : \A s \in Switches : row[s].created <= n /\ row[s].created \in Nat
  BY TypeParts DEF CreatedBounded, TypeInv, StoreTypeOK, RowRec
<1>3. CASE S # {}
  <2> DEFINE T == {n - row[s].created : s \in S}
  <2>1. T \subseteq Nat /\ T # {}
    BY <1>1, <1>2, <1>3
  <2>2. IsWellFoundedOn(Below, Nat)
    BY NatLessThanWellFounded DEF OpToRel, Below
  <2>3. PICK m \in T : \A k \in T : ~ (<<k, m>> \in Below)
    <3> HIDE DEF T
    <3> QED BY <2>1, <2>2, WFMin
  <2>4. PICK s \in S : m = n - row[s].created
    OBVIOUS
  <2>5. ASSUME NEW t \in S PROVE row[t].created <= row[s].created
    <3>1. n - row[t].created \in T /\ m \in Nat /\ n - row[t].created \in Nat
      BY <2>1
    <3>2. ~(n - row[t].created < m)
      BY <2>3, <3>1 DEF Below
    <3> QED BY <1>1, <1>2, <2>4, <3>2
  <2> QED BY <1>1, <1>3, <2>5
<1> QED BY <1>1, <1>3

\* The selection a row stands for.
Abstract(d) ==
    [status |-> IF d.stage \in Held THEN "claimed" ELSE d.stage,
     target |-> d.runtime, sourceRevision |-> d.sourceRevision,
     selRevision |-> d.selRevision, created |-> d.created, by |-> NoOwner]

Phase(x) == IF x = "waiting" THEN "preparing" ELSE x

LEMMA AbstractRows ==
    /\ AbstractSwitches = [s \in Switches |-> Abstract(row[s])]
    /\ AbstractSwitches' = [s \in Switches |-> Abstract(row'[s])]
  BY DEF AbstractSwitches, Abstract

LEMMA AbstractForm ==
    /\ AbstractSelection =
         [desired |-> ses.desired, effective |-> ses.effective, status |-> Phase(ses.status),
          pending |-> ses.pending, revision |-> ses.revision, selRevision |-> ses.selRevision]
    /\ AbstractSelection' =
         [desired |-> ses'.desired, effective |-> ses'.effective, status |-> Phase(ses'.status),
          pending |-> ses'.pending, revision |-> ses'.revision, selRevision |-> ses'.selRevision]
  BY DEF AbstractSelection, Phase

\* The columns that the end of a switch writes.
LEMMA EndWrites ==
    ASSUME NEW p, NEW d, NEW x
    PROVE  [AbstractSelection EXCEPT !.pending = p, !.desired = d, !.status = x] =
             [desired |-> d, effective |-> ses.effective, status |-> x,
              pending |-> p, revision |-> ses.revision, selRevision |-> ses.selRevision]
<1> DEFINE b == [AbstractSelection EXCEPT !.pending = p]
           c == [b EXCEPT !.desired = d]
           f == [c EXCEPT !.status = x]
<1>1. [AbstractSelection EXCEPT !.pending = p, !.desired = d, !.status = x] = f
  OBVIOUS
<1>2. b = [desired |-> ses.desired, effective |-> ses.effective, status |-> Phase(ses.status),
           pending |-> p, revision |-> ses.revision, selRevision |-> ses.selRevision]
  BY AbstractForm
<1> HIDE DEF b
<1>3. c = [desired |-> d, effective |-> ses.effective, status |-> Phase(ses.status),
           pending |-> p, revision |-> ses.revision, selRevision |-> ses.selRevision]
  BY <1>2
<1> HIDE DEF c
<1>4. f = [desired |-> d, effective |-> ses.effective, status |-> x,
           pending |-> p, revision |-> ses.revision, selRevision |-> ses.selRevision]
  BY <1>3
<1> HIDE DEF f
<1> QED BY <1>1, <1>4

\* The rows of the selection are read as the rows of the saga are.
LEMMA AbstractReads ==
    /\ AbstractSelection.desired = ses.desired /\ AbstractSelection.effective = ses.effective
    /\ AbstractSelection.status = Phase(ses.status)
    /\ AbstractSelection.pending = ses.pending /\ AbstractSelection.revision = ses.revision
    /\ AbstractSelection.selRevision = ses.selRevision
    /\ \A s \in Switches : /\ AbstractSwitches[s] = Abstract(row[s])
                           /\ AbstractSwitches[s].status = IF row[s].stage \in Held THEN "claimed"
                                                           ELSE row[s].stage
                           /\ AbstractSwitches[s].target = row[s].runtime
                           /\ AbstractSwitches[s].sourceRevision = row[s].sourceRevision
                           /\ AbstractSwitches[s].selRevision = row[s].selRevision
                           /\ AbstractSwitches[s].created = row[s].created
  BY DEF AbstractSelection, AbstractSwitches, Abstract, Phase

LEMMA SelectedReads ==
    ASSUME TypeInv
    PROVE  /\ \A s \in Switches : /\ Selected!Live(s) <=> Live(s)
                                  /\ Selected!OwnsIntent(s) <=> OwnsIntent(s)
                                  /\ Selected!OwnsSource(s) <=> row[s].sourceRevision = ses.revision
           /\ Selected!Used = Used
           /\ Selected!LiveIntent = LiveIntent
<1>0. \A s \in Switches : row[s].stage \in Stage
  BY TypeParts DEF TypeInv, StoreTypeOK, RowRec
<1>1. ASSUME NEW s \in Switches
      PROVE  /\ Selected!Live(s) <=> Live(s)
             /\ Selected!OwnsIntent(s) <=> OwnsIntent(s)
             /\ Selected!OwnsSource(s) <=> row[s].sourceRevision = ses.revision
             /\ AbstractSwitches[s].status # "absent" <=> row[s].stage # "absent"
  <2>1. Selected!Live(s) <=> Live(s)
    BY <1>0, AbstractReads DEF Selected!Live, Selected!LiveSwitchStatus, Live, Held, Stage, Terminal
  <2>2. Selected!OwnsIntent(s) <=> OwnsIntent(s)
    BY AbstractReads DEF Selected!OwnsIntent, OwnsIntent
  <2>3. Selected!OwnsSource(s) <=> row[s].sourceRevision = ses.revision
    BY AbstractReads DEF Selected!OwnsSource
  <2>4. AbstractSwitches[s].status # "absent" <=> row[s].stage # "absent"
    BY AbstractReads DEF Held
  <2> QED BY <2>1, <2>2, <2>3, <2>4
<1>2. Selected!Used = Used
  BY <1>1 DEF Selected!Used, Used
<1>3. Selected!LiveIntent = LiveIntent
  <2> DEFINE S == {s \in Used : Live(s) /\ OwnsIntent(s)}
  <2>1. {s \in Selected!Used : AbstractSwitches[s].selRevision = AbstractSelection.selRevision
                                 /\ Selected!Live(s)} = S
    BY <1>1, <1>2, AbstractReads DEF Used, OwnsIntent
  <2>2. Selected!LiveIntent = Selected!Newest(S)
    BY <2>1 DEF Selected!LiveIntent
  <2>3. \A s, t \in S : AbstractSwitches[t].created <= AbstractSwitches[s].created
                          <=> row[t].created <= row[s].created
    BY AbstractReads DEF Used
  <2> DEFINE newest == CHOOSE s \in S : \A t \in S : row[t].created <= row[s].created
             read == CHOOSE s \in S :
                       \A t \in S : AbstractSwitches[t].created <= AbstractSwitches[s].created
  <2> HIDE DEF S
  <2>4. read = newest
    BY <2>3
  <2>5. Selected!Newest(S) = IF S = {} THEN NoSwitch ELSE read
    BY DEF Selected!Newest
  <2> HIDE DEF newest, read
  <2>6. Selected!LiveIntent = IF S = {} THEN NoSwitch ELSE newest
    BY <2>2, <2>4, <2>5
  <2> QED BY <2>6 DEF LiveIntent, S, newest
<1> QED BY <1>1, <1>2, <1>3

\* What a step writes to the rows, as the selection sees it.
LEMMA AbstractMove ==
    ASSUME NEW s \in Switches, NEW x, MovesTo(s, x)
    PROVE  AbstractSwitches' =
             [AbstractSwitches EXCEPT ![s].status = IF x \in Held THEN "claimed" ELSE x]
<1>1. \A t \in Switches : t # s => Abstract(row'[t]) = Abstract(row[t])
  BY DEF MovesTo
<1>2. Abstract(row'[s]) = [Abstract(row[s]) EXCEPT !.status = IF x \in Held THEN "claimed" ELSE x]
  BY DEF MovesTo, Abstract
<1> QED BY <1>1, <1>2, AbstractRows

LEMMA AbstractStays ==
    ASSUME \A s \in Switches : \/ SameRow(s)
                               \/ MovesTo(s, row'[s].stage) /\ {row[s].stage, row'[s].stage} \subseteq Held
    PROVE  AbstractSwitches' = AbstractSwitches
<1>1. \A s \in Switches : Abstract(row'[s]) = Abstract(row[s])
  BY DEF SameRow, MovesTo, Abstract
<1> QED BY <1>1, AbstractRows

\* A step of the selection, or none.
Maps == Selected!SelectionNext \/ UNCHANGED <<AbstractSelection, AbstractSwitches>>

LEMMA SameMaps == ASSUME SameRows, UNCHANGED ses PROVE Maps
<1>1. UNCHANGED AbstractSelection
  BY DEF AbstractSelection
<1> QED BY <1>1, AbstractStays DEF SameRows, Maps

\* A driver goes from one stage to another while it holds the slot.
LEMMA HeldMaps ==
    ASSUME NEW s \in Switches, NEW x \in Held, MovesTo(s, x), row[s].stage \in Held
    PROVE  UNCHANGED AbstractSwitches
<1>1. \A t \in Switches : t # s => SameRow(t)
  BY DEF MovesTo, SameRow
<1>2. row'[s].stage = x
  BY DEF MovesTo
<1> QED BY <1>1, <1>2, AbstractStays

\* finish_without_commit of a live switch is the same step of the selection.
LEMMA FinishMaps ==
    ASSUME RowInv, NEW s \in Switches, NEW x \in Terminal, FinishWithoutCommit(s, x), Live(s)
    PROVE  Selected!FinishWithoutCommit(s, x)
<1>0. TypeInv /\ ses \in SesRec
  BY TypeParts DEF RowInv, TypeInv, StoreTypeOK
<1>1. Selected!Live(s) /\ (Selected!OwnsIntent(s) <=> OwnsIntent(s))
  BY <1>0, SelectedReads
<1>2. AbstractSwitches' = [AbstractSwitches EXCEPT ![s].status = x]
  <2>1. MovesTo(s, x) /\ x \notin Held
    BY FinishGoal, StageNames
  <2> QED BY <2>1, AbstractMove
<1> DEFINE pending == IF ses.pending = s THEN NoSwitch ELSE ses.pending
           desired == IF OwnsIntent(s) /\ x # "superseded" THEN ses.effective ELSE ses.desired
           status == IF ~OwnsIntent(s) \/ x = "superseded" THEN Phase(ses.status)
                     ELSE IF x = "cancelled" THEN "ready" ELSE "failed"
<1>3. /\ Selected!SlotReleased(s) = pending /\ Selected!DesiredAfter(s, x) = desired
      /\ status = IF ~Selected!OwnsIntent(s) \/ x = "superseded" THEN AbstractSelection.status
                  ELSE IF x = "cancelled" THEN "ready" ELSE "failed"
  BY <1>1, AbstractReads DEF Selected!SlotReleased, Selected!DesiredAfter
<1>4. /\ ses'.revision = ses.revision /\ ses'.selRevision = ses.selRevision
      /\ ses'.effective = ses.effective /\ ses'.pending = pending /\ ses'.desired = desired
      /\ Phase(ses'.status) = status
  <2>1. ses'.status = IF ~OwnsIntent(s) \/ x = "superseded" THEN ses.status
                      ELSE IF x = "cancelled" THEN "ready" ELSE "failed"
    BY <1>0 DEF FinishWithoutCommit, SesRec
  <2> QED BY <1>0, <2>1 DEF FinishWithoutCommit, SesRec, Phase
<1>5. AbstractSelection' =
        [AbstractSelection EXCEPT !.pending = pending, !.desired = desired, !.status = status]
  <2> HIDE DEF pending, desired, status
  <2>1. AbstractSelection' =
          [desired |-> desired, effective |-> ses.effective, status |-> status,
           pending |-> pending, revision |-> ses.revision, selRevision |-> ses.selRevision]
    BY <1>4, AbstractForm
  <2>2. [AbstractSelection EXCEPT !.pending = pending, !.desired = desired, !.status = status] =
          [desired |-> desired, effective |-> ses.effective, status |-> status,
           pending |-> pending, revision |-> ses.revision, selRevision |-> ses.selRevision]
    BY EndWrites
  <2> QED BY <2>1, <2>2
<1> QED BY <1>1, <1>2, <1>3, <1>5 DEF Selected!FinishWithoutCommit

\* Superseding a switch once more changes nothing.
LEMMA SupersededMaps ==
    ASSUME RowInv, NEW s \in Switches, FinishWithoutCommit(s, "superseded"),
           row[s].stage = "superseded"
    PROVE  Maps
<1>0. ses \in SesRec /\ "superseded" \in Terminal /\ RowTypeOK
  BY TypeParts DEF RowInv, TypeInv, StoreTypeOK, Terminal, RowTypeOK
<1>1. ses.pending # s
  BY DEF RowInv, SlotHeld, Held
<1>2. ses' = ses
  BY <1>0, <1>1 DEF FinishWithoutCommit, SesRec
<1>3. MovesTo(s, "superseded")
  BY <1>0, FinishGoal
<1>4. SameRows
  BY <1>3 DEF MovesTo, SameRows, SameRow
<1> QED BY <1>2, <1>4, SameMaps

LEMMA DriveMaps ==
    ASSUME NEW s \in Switches, Selected!DriveSwitch(s) \/ Selected!CancelSwitch(s)
    PROVE  Maps
  BY DEF Maps, Selected!SelectionNext

\* The phase of the pending switch is projected into the session.
LEMMA PhaseMaps ==
    ASSUME RowInv, NEW s \in Switches, NEW x \in Held, MovesTo(s, x), row[s].stage \in Held,
           NEW y \in {"waiting", "preparing"}, ses' = Projected(s, y)
    PROVE  Maps
<1>0. ses \in SesRec /\ ses.pending = s
  BY TypeParts DEF RowInv, TypeInv, StoreTypeOK, SlotHeld
<1>1. AbstractSwitches' = AbstractSwitches
  BY HeldMaps
<1>2. ses' = [ses EXCEPT !.status = y]
  BY <1>0 DEF Projected
<1>3. /\ ses'.desired = ses.desired /\ ses'.effective = ses.effective
      /\ ses'.pending = ses.pending /\ ses'.revision = ses.revision
      /\ ses'.selRevision = ses.selRevision /\ Phase(ses'.status) = "preparing"
  BY <1>0, <1>2 DEF SesRec, Phase
<1>4. AbstractSelection' = [AbstractSelection EXCEPT !.status = "preparing"]
  BY <1>3, AbstractForm
<1>5. AbstractSwitches[s].status = "claimed" /\ AbstractSelection.pending = s
  BY <1>0, AbstractReads
<1>6. Selected!ProjectPhase(s)
  BY <1>1, <1>4, <1>5 DEF Selected!ProjectPhase
<1> QED BY <1>6, DriveMaps DEF Selected!DriveSwitch

\* claim_requested takes the slot, or supersedes a stale intent.
LEMMA ClaimMaps ==
    ASSUME RowInv, NEW w \in Workers, ClaimRequested(w)
    PROVE  Maps
<1>0. ses \in SesRec /\ RowTypeOK /\ DrvTypeOK /\ TypeInv
  BY TypeParts DEF RowInv, TypeInv, StoreTypeOK, RowTypeOK
<1>1. PICK s \in Switches : s = drv[w].s
  BY <1>0, Driving DEF ClaimRequested, At
<1>2. /\ AbstractSwitches[s].status = "requested" /\ AbstractSelection.pending = ses.pending
      /\ Selected!OwnsIntent(s) <=> OwnsIntent(s)
      /\ Selected!OwnsSource(s) <=> row[s].sourceRevision = ses.revision
  BY <1>0, <1>1, AbstractReads, SelectedReads DEF ClaimRequested, Held
<1>3. CASE ~OwnsIntent(s) /\ row' = [row EXCEPT ![s].stage = "superseded"] /\ UNCHANGED ses
  <2>1. AbstractSwitches' = [AbstractSwitches EXCEPT ![s].status = "superseded"]
    BY <1>0, <1>3, StageWrite, AbstractMove DEF Held
  <2>2. UNCHANGED AbstractSelection
    BY <1>3 DEF AbstractSelection
  <2>3. Selected!ClaimRequested(s)
    BY <1>2, <1>3, <2>1, <2>2 DEF Selected!ClaimRequested
  <2> QED BY <2>3, DriveMaps DEF Selected!DriveSwitch
<1>4. CASE UNCHANGED <<ses, row>>
  BY <1>4, SameMaps, NoRowWrite
<1>5. CASE /\ OwnsIntent(s) /\ OwnsSource(s) /\ ses.pending \in {NoSwitch, s}
           /\ row' = [row EXCEPT ![s].stage = "reserved"] /\ ses' = [ses EXCEPT !.pending = s]
  <2>1. AbstractSwitches' = [AbstractSwitches EXCEPT ![s].status = "claimed"]
    BY <1>0, <1>5, StageWrite, AbstractMove DEF Held
  <2>2. /\ ses'.desired = ses.desired /\ ses'.effective = ses.effective
        /\ ses'.pending = s /\ ses'.revision = ses.revision
        /\ ses'.selRevision = ses.selRevision /\ ses'.status = ses.status
    BY <1>0, <1>5 DEF SesRec
  <2>3. AbstractSelection' = [AbstractSelection EXCEPT !.pending = s]
    BY <2>2, AbstractForm
  <2>4. Selected!ClaimRequested(s)
    BY <1>2, <1>5, <2>1, <2>3 DEF Selected!ClaimRequested, OwnsSource
  <2> QED BY <2>4, DriveMaps DEF Selected!DriveSwitch
<1> QED BY <1>1, <1>3, <1>4, <1>5 DEF ClaimRequested, Owning

\* The commit of a switch that is found committing.
LEMMA CommitMaps ==
    ASSUME RowInv, AtCommit, NEW w \in Workers, Commit(w)
    PROVE  Maps
<1>0. ses \in SesRec /\ RowTypeOK /\ DrvTypeOK /\ TypeInv
  BY TypeParts DEF RowInv, TypeInv, StoreTypeOK, RowTypeOK
<1>1. PICK s \in Switches : s = drv[w].s
  BY <1>0, Driving DEF Commit, At
<1>2. /\ AbstractSwitches[s].status = "claimed" /\ AbstractSelection.pending = ses.pending
      /\ AbstractSwitches[s].target = row[s].runtime /\ AbstractSelection.revision = ses.revision
      /\ Selected!OwnsIntent(s) <=> OwnsIntent(s)
      /\ Selected!OwnsSource(s) <=> row[s].sourceRevision = ses.revision
  BY <1>0, <1>1, AbstractReads, SelectedReads DEF Commit, AtCommit, Held
<1>3. CASE UNCHANGED <<ses, row>>
  BY <1>3, SameMaps, NoRowWrite
<1>4. CASE /\ ~OwnsIntent(s) /\ row' = [row EXCEPT ![s].stage = "superseded"]
           /\ ses' = [ses EXCEPT !.pending = IF @ = s THEN NoSwitch ELSE @]
  <2>1. AbstractSwitches' = [AbstractSwitches EXCEPT ![s].status = "superseded"]
    BY <1>0, <1>4, StageWrite, AbstractMove DEF Held
  <2> DEFINE p == IF ses.pending = s THEN NoSwitch ELSE ses.pending
  <2>2. ses' = [ses EXCEPT !.pending = p]
    BY <1>0, <1>4 DEF SesRec
  <2>3. p = IF AbstractSelection.pending = s THEN NoSwitch ELSE AbstractSelection.pending
    BY <1>2
  <2> HIDE DEF p
  <2>4. /\ ses'.desired = ses.desired /\ ses'.effective = ses.effective
        /\ ses'.pending = p /\ ses'.revision = ses.revision
        /\ ses'.selRevision = ses.selRevision /\ ses'.status = ses.status
    BY <1>0, <2>2 DEF SesRec
  <2>5. AbstractSelection' = [AbstractSelection EXCEPT !.pending = p]
    BY <2>4, AbstractForm
  <2>6. Selected!Commit(s)
    BY <1>2, <1>4, <2>1, <2>3, <2>5 DEF Selected!Commit
  <2> QED BY <2>6, DriveMaps DEF Selected!DriveSwitch
<1>5. CASE /\ OwnsIntent(s) /\ OwnsSource(s) /\ ses.pending = s
           /\ row' = [row EXCEPT ![s].stage = "committed"]
           /\ ses' = [ses EXCEPT !.revision = @ + 1, !.current = row[s].target,
                                 !.effective = row[s].runtime, !.status = "ready",
                                 !.pending = NoSwitch]
  <2>1. AbstractSwitches' = [AbstractSwitches EXCEPT ![s].status = "committed"]
    BY <1>0, <1>5, StageWrite, AbstractMove DEF Held
  <2> DEFINE n == ses.revision + 1
             e == row[s].runtime
  <2>2. n = AbstractSelection.revision + 1 /\ e = AbstractSwitches[s].target
    BY <1>2
  <2>3. ses'.revision = n
    BY <1>0, <1>5 DEF SesRec
  <2>4. /\ ses'.desired = ses.desired /\ ses'.effective = e /\ ses'.pending = NoSwitch
        /\ ses'.selRevision = ses.selRevision /\ ses'.status = "ready"
    BY <1>0, <1>5 DEF SesRec
  <2> HIDE DEF n, e
  <2>5. AbstractSelection' =
          [desired |-> ses.desired, effective |-> e, status |-> "ready",
           pending |-> NoSwitch, revision |-> n, selRevision |-> ses.selRevision]
    BY <2>3, <2>4, AbstractForm DEF Phase
  <2>6. AbstractSelection' = [AbstractSelection EXCEPT !.effective = e, !.status = "ready",
                                                     !.revision = n, !.pending = NoSwitch]
    <3> DEFINE b == [AbstractSelection EXCEPT !.effective = e]
               c == [b EXCEPT !.status = "ready"]
               f == [c EXCEPT !.revision = n]
               g == [f EXCEPT !.pending = NoSwitch]
    <3>1. [AbstractSelection EXCEPT !.effective = e, !.status = "ready", !.revision = n,
                                    !.pending = NoSwitch] = g
      OBVIOUS
    <3>2. b = [desired |-> ses.desired, effective |-> e, status |-> Phase(ses.status),
               pending |-> ses.pending, revision |-> ses.revision, selRevision |-> ses.selRevision]
      BY AbstractForm
    <3> HIDE DEF b
    <3>3. c = [desired |-> ses.desired, effective |-> e, status |-> "ready",
               pending |-> ses.pending, revision |-> ses.revision, selRevision |-> ses.selRevision]
      BY <3>2
    <3> HIDE DEF c
    <3>4. f = [desired |-> ses.desired, effective |-> e, status |-> "ready",
               pending |-> ses.pending, revision |-> n, selRevision |-> ses.selRevision]
      BY <3>3
    <3> HIDE DEF f
    <3>5. g = [desired |-> ses.desired, effective |-> e, status |-> "ready",
               pending |-> NoSwitch, revision |-> n, selRevision |-> ses.selRevision]
      BY <3>4
    <3> HIDE DEF g
    <3> QED BY <2>5, <3>1, <3>5
  <2>7. Selected!Commit(s)
    BY <1>2, <1>5, <2>1, <2>2, <2>6 DEF Selected!Commit, OwnsSource
  <2> QED BY <2>7, DriveMaps DEF Selected!DriveSwitch
<1> QED BY <1>1, <1>3, <1>4, <1>5 DEF Commit, Owning

LEMMA DriverMaps ==
    ASSUME RefineInv, NEW w \in Workers, DriverStep(w)
    PROVE  Maps
<1>0. RowInv /\ TypeInv /\ RowTypeOK /\ DrvTypeOK /\ AtCommit
  BY TypeParts DEF RefineInv, UsableInv, EndInv, RowsInv, RowInv, TypeInv, StoreTypeOK, RowTypeOK
<1>1. PICK s \in Switches : s = drv[w].s
  BY <1>0, DriverRecord, Driving
<1>2. CASE SameRows /\ UNCHANGED ses
  BY <1>2, SameMaps
<1>3. ASSUME NEW x \in Held, row' = [row EXCEPT ![s].stage = x], row[s].stage \in Held,
             UNCHANGED ses
      PROVE  Maps
  <2>1. UNCHANGED AbstractSwitches
    BY <1>0, <1>3, StageWrite, HeldMaps
  <2>2. UNCHANGED AbstractSelection
    BY <1>3 DEF AbstractSelection
  <2> QED BY <2>1, <2>2 DEF Maps
<1>4. CASE UNCHANGED <<ses, row>>
  BY <1>4, SameMaps, NoRowWrite
<1>5. CASE StabilizeTarget(w)
  <2>1. PICK b : UNCHANGED row \/ row' = [row EXCEPT ![s].target = b]
    BY <1>1, <1>5 DEF StabilizeTarget
  <2>2. \A t \in Switches :
          /\ row'[t].stage = row[t].stage /\ row'[t].runtime = row[t].runtime
          /\ row'[t].created = row[t].created /\ row'[t].sourceRevision = row[t].sourceRevision
          /\ row'[t].selRevision = row[t].selRevision
    BY <1>0, <2>1 DEF RowTypeOK, RowRec
  <2>3. \A t \in Switches : Abstract(row'[t]) = Abstract(row[t])
    BY <2>2 DEF Abstract
  <2>4. UNCHANGED AbstractSwitches
    BY <2>3, AbstractRows
  <2>5. UNCHANGED AbstractSelection
    BY <1>5 DEF StabilizeTarget, AbstractSelection
  <2> QED BY <2>4, <2>5 DEF Maps
<1>6. CASE AdvanceToPrepared(w) \/ AdvanceToCommitting(w) \/ Revert(w)
  <2>1. UNCHANGED ses
    BY <1>6 DEF AdvanceToPrepared, AdvanceToCommitting, Revert
  <2>2. \/ UNCHANGED row
        \/ \E x \in Held : row' = [row EXCEPT ![s].stage = x] /\ row[s].stage \in Held
    BY <1>1, <1>6 DEF AdvanceToPrepared, AdvanceToCommitting, Revert, Held
  <2> QED BY <1>3, <1>4, <2>1, <2>2
<1>7. CASE BeginWaiting(w) \/ AdvanceToPreparing(w)
  <2>1. \/ UNCHANGED <<ses, row>>
        \/ \E x \in Held, y \in {"waiting", "preparing"} :
             row' = [row EXCEPT ![s].stage = x] /\ row[s].stage \in Held /\ ses' = Projected(s, y)
    BY <1>1, <1>7 DEF BeginWaiting, AdvanceToPreparing, Held
  <2> QED BY <1>0, <1>4, <2>1, StageWrite, PhaseMaps
<1>8. CASE ConfirmCommitted(w)
  <2>1. row[s].stage = "committing" => ses.current # row[s].target
    BY DEF RefineInv, OwnTarget, UsableInv, CurrentCommitted
  <2> QED BY <1>1, <1>4, <1>8, <2>1 DEF ConfirmCommitted
<1>9. CASE Disown(w) /\ ~OwnsIntent(s) /\ FinishWithoutCommit(s, "superseded")
  <2>1. CASE row[s].stage = "superseded"
    BY <1>0, <1>9, <2>1, SupersededMaps
  <2>2. CASE row[s].stage # "superseded"
    <3>1. Live(s)
      BY <1>9, <2>2 DEF FinishWithoutCommit, CanTransition, Live, Held
    <3>2. Selected!FinishWithoutCommit(s, "superseded") /\ ~Selected!OwnsIntent(s)
      BY <1>0, <1>9, <3>1, FinishMaps, SelectedReads DEF Terminal
    <3> QED BY <3>2, DriveMaps DEF Selected!DriveSwitch, Selected!SupersedeSwitch
  <2> QED BY <2>1, <2>2
<1>10. CASE FailSwitch(w) /\ FinishWithoutCommit(s, "failed")
  <2>1. row[s].stage # "failed"
    BY <1>1, <1>10 DEF RefineInv, AtFail, FailSwitch
  <2>2. Live(s)
    BY <1>10, <2>1 DEF FinishWithoutCommit, CanTransition, Live, Held
  <2>3. Selected!FinishWithoutCommit(s, "failed")
    BY <1>0, <1>10, <2>2, FinishMaps DEF Terminal
  <2> QED BY <2>3, DriveMaps DEF Selected!DriveSwitch, Selected!FailSwitch
<1>11. CASE Live(s) /\ FinishWithoutCommit(s, "ambiguous")
  <2>1. row[s].stage \in Held
    BY <1>11 DEF FinishWithoutCommit, CanTransition, Live, Held
  <2>2. Selected!FinishWithoutCommit(s, "ambiguous") /\ AbstractSwitches[s].status = "claimed"
    BY <1>0, <1>11, <2>1, FinishMaps, AbstractReads DEF Terminal
  <2> QED BY <2>2, DriveMaps DEF Selected!DriveSwitch, Selected!AmbiguousSwitch
<1> QED BY <1>0, <1>1, <1>2, <1>5, <1>6, <1>7, <1>8, <1>9, <1>10, <1>11, DriverRows, ClaimMaps,
        CommitMaps

\* A cancellation ends a switch that is under way.
LEMMA CancelMaps ==
    ASSUME RefineInv, CancelDirect \/ CancelLocked, FinishWithoutCommit(can.s, "cancelled")
    PROVE  Maps
<1>0. RowInv /\ TypeInv /\ CancelNames
  BY DEF RefineInv, UsableInv, EndInv, RowsInv, RowInv, TypeInv
<1>1. PICK s \in Switches : s = can.s
  BY <1>0 DEF CancelDirect, CancelLocked, CancelNames
<1>2. CASE UNCHANGED <<ses, row>>
  BY <1>2, SameMaps, NoRowWrite
<1>3. CASE Live(s)
  <2>1. Selected!FinishWithoutCommit(s, "cancelled")
    BY <1>0, <1>1, <1>3, FinishMaps DEF Terminal
  <2> QED BY <2>1, DriveMaps DEF Selected!CancelSwitch
<1>4. CASE CancelDirect
  <2>1. row[s].stage # "cancelled"
    BY <1>1, <1>4 DEF RefineInv, AtDirect, CancelDirect
  <2>2. Live(s)
    BY <1>1, <2>1 DEF FinishWithoutCommit, CanTransition, Live, Held
  <2> QED BY <1>3, <2>2
<1>5. CASE CancelLocked
  <2>1. Live(s) \/ UNCHANGED <<ses, row>>
    BY <1>1, <1>5 DEF CancelLocked
  <2> QED BY <1>2, <1>3, <2>1
<1> QED BY <1>4, <1>5

\* The current runtime is materialised again.
LEMMA MaterializeMaps ==
    ASSUME RefineInv, NEW r \in Runtimes, MaterializeCurrent(r)
    PROVE  Maps
<1>0. ses \in SesRec /\ TypeInv
  BY TypeParts DEF RefineInv, UsableInv, EndInv, RowsInv, RowInv, TypeInv, StoreTypeOK
<1>1. /\ ses'.desired = ses.desired /\ ses'.effective = ses.effective
      /\ ses'.pending = ses.pending /\ ses'.revision = ses.revision
      /\ ses'.selRevision = ses.selRevision /\ ses'.status = "ready" /\ row' = row
  BY <1>0 DEF MaterializeCurrent, SesRec
<1>2. AbstractSelection' = [AbstractSelection EXCEPT !.status = "ready"]
  BY <1>1, AbstractForm DEF Phase
<1>3. UNCHANGED AbstractSwitches
  BY <1>1 DEF AbstractSwitches
<1>4. ses.effective = r /\ ses.pending = NoSwitch /\ Selected!LiveIntent = NoSwitch
  BY <1>0, SelectedReads DEF MaterializeCurrent, Unchanged
<1>5. Selected!Unchanged(r) /\ ~Selected!Coalesces(r)
  BY <1>4, AbstractReads DEF Selected!Unchanged, Selected!Coalesces
<1>6. AbstractSelection.status = "failed" /\ AbstractSelection.desired = AbstractSelection.effective
  BY AbstractReads DEF MaterializeCurrent, Phase
<1>7. Selected!MaterializeCurrent(r)
  BY <1>2, <1>3, <1>5, <1>6 DEF Selected!MaterializeCurrent
<1> QED BY <1>7 DEF Maps, Selected!SelectionNext

\* The selection counts its switches as the saga does.
LEMMA SameCount == ASSUME NEW S PROVE Selected!Cardinality(S) = Cardinality(S)
  BY DEF Selected!Cardinality, Cardinality

\* A new row is a new switch of the selection.
LEMMA NewRowMaps ==
    ASSUME TypeInv, NEW s \in Switches, NEW r, NEW n, NEW x \in {"requested", "reserved"},
           NEW policy, NewRow(s, r, n, x, policy)
    PROVE  Selected!NewSwitch(s, r, n, IF x = "reserved" THEN "claimed" ELSE x, NoOwner)
<1> DEFINE c == Cardinality(Used) + 1
           y == IF x = "reserved" THEN "claimed" ELSE x
<1>0. RowTypeOK
  BY TypeParts DEF TypeInv, StoreTypeOK, RowTypeOK
<1>1. c = Selected!Cardinality(Selected!Used) + 1 /\ AbstractSelection.revision = ses.revision
  BY SelectedReads, AbstractReads, SameCount
<1>2. row'[s] = [stage |-> x, runtime |-> r, created |-> c, source |-> ses.current,
                 sourceRevision |-> ses.revision, selRevision |-> n, target |-> s,
                 policy |-> policy, owner |-> NoOwner, activated |-> FALSE]
  BY <1>0 DEF NewRow, RowTypeOK
<1>3. \A t \in Switches : t # s => row'[t] = row[t]
  BY <1>0 DEF NewRow, RowTypeOK
<1> HIDE DEF c
<1>4. Abstract(row'[s]) = [status |-> y, target |-> r, sourceRevision |-> ses.revision,
                           selRevision |-> n, created |-> c, by |-> NoOwner]
  BY <1>2 DEF Abstract, Held
<1> HIDE DEF y
<1> DEFINE d == [status |-> y, target |-> r, sourceRevision |-> ses.revision,
                 selRevision |-> n, created |-> c, by |-> NoOwner]
<1>5. d = [status |-> y, target |-> r, sourceRevision |-> AbstractSelection.revision,
           selRevision |-> n, created |-> Selected!Cardinality(Selected!Used) + 1, by |-> NoOwner]
  BY <1>1
<1>6. Selected!NewSwitch(s, r, n, y, NoOwner)
  <2> HIDE DEF d
  <2>1. AbstractSwitches' = [AbstractSwitches EXCEPT ![s] = d]
    BY <1>3, <1>4, AbstractRows DEF d
  <2> QED BY <1>5, <2>1 DEF Selected!NewSwitch
<1> QED BY <1>6 DEF y

\* A new selection is enqueued with its switch.
LEMMA SelectMaps ==
    ASSUME RefineInv, NEW w \in Workers, NEW r \in Runtimes, SelectRuntime(w, r)
    PROVE  Maps
<1>0. ses \in SesRec /\ TypeInv /\ CreatedBounded
  BY TypeParts DEF RefineInv, UsableInv, EndInv, RowsInv, RowInv, TypeInv, StoreTypeOK
<1> DEFINE n == ses.selRevision + 1
<1>1. PICK s \in Switches : row[s].stage = "absent" /\ NewRow(s, r, n, "requested", "wait")
  BY DEF SelectRuntime
<1>2. Selected!NewSwitch(s, r, n, "requested", NoOwner)
  <2> HIDE DEF n
  <2>1. "requested" \in {"requested", "reserved"} /\ "requested" # "reserved"
    OBVIOUS
  <2> QED BY <1>0, <1>1, <2>1, NewRowMaps
<1>3. ses'.selRevision = n /\ n = AbstractSelection.selRevision + 1
  BY <1>0, AbstractReads DEF SelectRuntime, SesRec
<1>4. /\ ses'.desired = r /\ ses'.effective = ses.effective /\ ses'.status = "preparing"
      /\ ses'.pending = ses.pending /\ ses'.revision = ses.revision
  BY <1>0 DEF SelectRuntime, SesRec
<1>5. AbstractSwitches[s].status = "absent"
  BY <1>1, AbstractReads DEF Held
<1>6. ~Selected!Unchanged(r)
  BY <1>0, SelectedReads, AbstractReads DEF SelectRuntime, Unchanged, Selected!Unchanged
<1>7. ~Selected!Coalesces(r)
  <2>1. LiveIntent # NoSwitch => LiveIntent \in Switches
    BY <1>0, LiveIntentIsOne
  <2>2. LiveIntent # NoSwitch => AbstractSwitches[LiveIntent].target # r
    BY <2>1, AbstractReads DEF SelectRuntime
  <2> QED BY <1>0, <2>2, SelectedReads DEF Selected!Coalesces
<1> HIDE DEF n
<1>8. AbstractSelection' = [AbstractSelection EXCEPT !.desired = r, !.status = "preparing",
                                                     !.selRevision = n]
  <2> DEFINE b == [AbstractSelection EXCEPT !.desired = r]
             c == [b EXCEPT !.status = "preparing"]
             f == [c EXCEPT !.selRevision = n]
  <2>1. [AbstractSelection EXCEPT !.desired = r, !.status = "preparing", !.selRevision = n] = f
    OBVIOUS
  <2>2. b = [desired |-> r, effective |-> ses.effective, status |-> Phase(ses.status),
             pending |-> ses.pending, revision |-> ses.revision, selRevision |-> ses.selRevision]
    BY AbstractForm
  <2> HIDE DEF b
  <2>3. c = [desired |-> r, effective |-> ses.effective, status |-> "preparing",
             pending |-> ses.pending, revision |-> ses.revision, selRevision |-> ses.selRevision]
    BY <2>2
  <2> HIDE DEF c
  <2>4. f = [desired |-> r, effective |-> ses.effective, status |-> "preparing",
             pending |-> ses.pending, revision |-> ses.revision, selRevision |-> n]
    BY <2>3
  <2> HIDE DEF f
  <2>5. AbstractSelection' =
          [desired |-> r, effective |-> ses.effective, status |-> "preparing",
           pending |-> ses.pending, revision |-> ses.revision, selRevision |-> n]
    BY <1>3, <1>4, AbstractForm DEF Phase
  <2> QED BY <2>1, <2>4, <2>5
<1>9. Selected!EnqueueDesired(r, NoOwner)
  BY <1>2, <1>3, <1>5, <1>6, <1>7, <1>8 DEF Selected!EnqueueDesired
<1> QED BY <1>9 DEF Maps, Selected!SelectionNext

\* A forced switch is reserved at once.
LEMMA RequestMaps ==
    ASSUME RefineInv, NEW w \in Workers, NEW r \in ForcedRuntimes, RequestSwitch(w, r)
    PROVE  Maps
<1>0. ses \in SesRec /\ TypeInv /\ r \in Runtimes
  BY TypeParts, SwitchAssumption DEF RefineInv, UsableInv, EndInv, RowsInv, RowInv, TypeInv,
     StoreTypeOK
<1>1. PICK s \in Switches, n \in 0 .. ses.selRevision, policy \in Policies :
        /\ row[s].stage = "absent" /\ NewRow(s, r, n, "reserved", policy)
        /\ ses' = [ses EXCEPT !.pending = s]
  BY DEF RequestSwitch
<1>2. Selected!NewSwitch(s, r, n, "claimed", NoOwner)
  BY <1>0, <1>1, NewRowMaps
<1>3. /\ ses'.desired = ses.desired /\ ses'.effective = ses.effective
      /\ ses'.pending = s /\ ses'.revision = ses.revision
      /\ ses'.selRevision = ses.selRevision /\ ses'.status = ses.status
  BY <1>0, <1>1 DEF SesRec
<1>4. AbstractSelection' = [AbstractSelection EXCEPT !.pending = s]
  BY <1>3, AbstractForm
<1>5. AbstractSwitches[s].status = "absent" /\ AbstractSelection.pending = NoSwitch
      /\ AbstractSelection.selRevision = ses.selRevision
  BY <1>1, AbstractReads DEF Held, RequestSwitch
<1>6. Selected!Reserve(r, n, NoOwner)
  BY <1>2, <1>4, <1>5 DEF Selected!Reserve
<1> QED BY <1>0, <1>5, <1>6 DEF Maps, Selected!SelectionNext

\* Every step of the saga is a step of the selection or changes nothing of it.
LEMMA StepMaps == RefineInv /\ [Next]_switchVars => [Selected!SelectionNext]_(Selected!selectionVars)
<1> SUFFICES ASSUME RefineInv, [Next]_switchVars PROVE Maps
  BY DEF Maps, Selected!selectionVars
<1>1. TypeInv
  BY DEF RefineInv, UsableInv, EndInv, RowsInv, RowInv
<1> QED BY <1>1, SameMaps, DriverMaps, MaterializeMaps, SelectMaps, RequestMaps, CancelMaps, OtherRows

LEMMA InitMaps == Init => Selected!SelectionInit
<1> SUFFICES ASSUME Init PROVE Selected!SelectionInit
  OBVIOUS
<1>1. AbstractSelection = [desired |-> InitialRuntime, effective |-> InitialRuntime,
                           status |-> "ready", pending |-> NoSwitch,
                           revision |-> 0, selRevision |-> 0]
  BY DEF Init, AbstractSelection
<1>2. AbstractSwitches = [s \in Switches |->
               [status |-> "absent", target |-> InitialRuntime,
                sourceRevision |-> 0, selRevision |-> 0, created |-> 0, by |-> NoOwner]]
  BY DEF Init, AbstractSwitches, Held
<1> QED BY <1>1, <1>2 DEF Selected!SelectionInit

\* While a switch has one driver at a time, and no runtime is reached by mutating the live
\* binding, the saga implements the selection the message queue is proved against: every
\* step of a driver, a cancellation or a request is a transaction of RuntimeSelection, or
\* changes nothing of the selection.
THEOREM SagaImplementsSelection ==
    OneAtATime /\ LiveRuntimes = {} => (Spec => ImplementsSelection)
<1> SUFFICES ASSUME OneAtATime, LiveRuntimes = {} PROVE Spec => ImplementsSelection
  OBVIOUS
<1>1. RefineInv /\ [Next]_switchVars => RefineInv'
  BY RefineStep
<1> QED BY <1>1, RefineInit, InitMaps, StepMaps, PTL
        DEF Spec, ImplementsSelection, Selected!SelectionSpec

\* Who makes a switch committed: the commit, or the proof that it happened.
LEMMA CommittedSteps ==
    ASSUME TypeInv, [Next]_switchVars, NEW s \in Switches, row[s].stage # "committed",
           row'[s].stage = "committed"
    PROVE  \E w \in Workers : /\ drv[w].s = s
                              /\ \/ Commits(w)
                                 \/ row[s].stage = "committing" /\ ses.current = row[s].target
<1>0. RowTypeOK /\ DrvTypeOK /\ CancelNames
  BY TypeParts DEF TypeInv, StoreTypeOK, RowTypeOK
<1>1. ~SameRows /\ row' # row
  BY DEF SameRows, SameRow
<1>2. \A t \in Switches : \A x :
        row' = [row EXCEPT ![t].stage = x] => t = s /\ x = "committed"
  BY <1>0, StageWrite DEF MovesTo
<1>3. ASSUME NEW w \in Workers, DriverStep(w)
      PROVE  /\ drv[w].s = s
             /\ Commits(w) \/ (row[s].stage = "committing" /\ ses.current = row[s].target)
  <2>0. drv[w].s \in Switches
    BY <1>0, <1>3, DriverRecord, Driving
  <2>1. ASSUME NEW x, x # "committed" PROVE row' # [row EXCEPT ![drv[w].s].stage = x]
    BY <1>2, <2>0, <2>1
  <2>2. CASE ClaimRequested(w) \/ BeginWaiting(w) \/ AdvanceToPreparing(w) \/ AdvanceToPrepared(w)
    BY <1>1, <2>1, <2>2 DEF ClaimRequested, BeginWaiting, AdvanceToPreparing, AdvanceToPrepared
  <2>3. CASE AdvanceToCommitting(w) \/ Revert(w)
    BY <1>1, <2>1, <2>3 DEF AdvanceToCommitting, Revert
  <2>4. CASE StabilizeTarget(w)
    <3>1. PICK b : UNCHANGED row \/ row' = [row EXCEPT ![drv[w].s].target = b]
      BY <2>4 DEF StabilizeTarget
    <3>2. row'[s].stage = row[s].stage
      BY <1>0, <2>0, <3>1 DEF RowTypeOK, RowRec
    <3> QED BY <3>2
  <2>5. CASE Commit(w)
    <3>1. row' = [row EXCEPT ![drv[w].s].stage = "committed"] /\ Commits(w)
      BY <1>1, <2>0, <2>1, <2>5 DEF Commit, Commits
    <3> QED BY <1>2, <2>0, <3>1
  <2>6. CASE ConfirmCommitted(w)
    <3>1. /\ row' = [row EXCEPT ![drv[w].s].stage = "committed"]
          /\ row[drv[w].s].stage = "committing" /\ ses.current = row[drv[w].s].target
      BY <1>1, <2>6 DEF ConfirmCommitted
    <3> QED BY <1>2, <2>0, <3>1
  <2>7. ASSUME NEW x, x # "committed" PROVE ~FinishWithoutCommit(drv[w].s, x)
    BY <2>1, <2>7 DEF FinishWithoutCommit
  <2> QED BY <1>1, <1>3, <2>2, <2>3, <2>4, <2>5, <2>6, <2>7, DriverRows
<1>4. CASE \E r \in Runtimes : MaterializeCurrent(r)
  BY <1>1, <1>4 DEF MaterializeCurrent
<1>5. CASE \/ \E w \in Workers, r \in Runtimes : SelectRuntime(w, r)
           \/ \E w \in Workers, r \in ForcedRuntimes : RequestSwitch(w, r)
  <2>1. PICK t \in Switches, x \in {"requested", "reserved"} :
          \E r, n, policy : NewRow(t, r, n, x, policy)
    BY <1>5 DEF SelectRuntime, RequestSwitch
  <2>2. row'[t].stage = x /\ \A u \in Switches : u # t => row'[u] = row[u]
    BY <1>0, <2>1 DEF NewRow, RowTypeOK
  <2> QED BY <2>1, <2>2
<1>6. CASE (CancelDirect \/ CancelLocked) /\ FinishWithoutCommit(can.s, "cancelled")
  <2>1. can.s \in Switches
    BY <1>0, <1>6 DEF CancelDirect, CancelLocked, CancelNames
  <2> QED BY <1>2, <1>6, <2>1 DEF FinishWithoutCommit
<1> QED BY <1>1, <1>3, <1>4, <1>5, <1>6, OtherRows

\* Under the same conditions a switch becomes committed exactly with the step that makes its
\* runtime the effective one and advances the revision of the session: confirm_committed
\* never takes a commit for granted that did not happen.
THEOREM CommitTakesEffect == OneAtATime /\ LiveRuntimes = {} => (Spec => CommitIsWhole)
<1> SUFFICES ASSUME OneAtATime, LiveRuntimes = {} PROVE Spec => CommitIsWhole
  OBVIOUS
<1>1. RefineInv /\ [Next]_switchVars => RefineInv'
  BY RefineStep
<1>2. RefineInv /\ [Next]_switchVars =>
        [\A s \in Switches : row[s].stage # "committed" /\ row'[s].stage = "committed" =>
           /\ ses'.effective = row[s].runtime
           /\ ses'.revision = ses.revision + 1]_switchVars
  <2> SUFFICES ASSUME RefineInv, [Next]_switchVars, NEW s \in Switches,
                      row[s].stage # "committed", row'[s].stage = "committed"
               PROVE  ses'.effective = row[s].runtime /\ ses'.revision = ses.revision + 1
    OBVIOUS
  <2>1. TypeInv /\ ses \in SesRec
    BY TypeParts DEF RefineInv, UsableInv, EndInv, RowsInv, RowInv, TypeInv, StoreTypeOK
  <2>2. row[s].stage = "committing" => ses.current # row[s].target
    BY DEF RefineInv, OwnTarget, UsableInv, CurrentCommitted
  <2>3. PICK w \in Workers : drv[w].s = s /\ Commits(w)
    BY <2>1, <2>2, CommittedSteps
  <2> QED BY <2>1, <2>3 DEF Commits, SesRec
<1> QED BY <1>1, <1>2, RefineInit, PTL DEF Spec, CommitIsWhole

-----------------------------------------------------------------------------
(* Where a driver stands and what its row says.  A cancellation is the one step of    *)
(* another task that a driver meets unprepared.                                        *)

\* A cancellation of the active work, and the probe after it.
Resuming(d) == d.pc = "recheck" \/ (d.pc \in OpPcs /\ d.op = "cancel")

\* The stage x of its switch a driver d relies on.
OnTrack(d, x) ==
    /\ d.pc = "target" => x = "reserved"
    /\ d.pc \in {"settle", "wait", "fence"} \/ (Resuming(d) /\ d.then = "fence")
         => x \in {"reserved", "waiting"}
    /\ d.pc = "park" => x = "waiting"
    /\ d.pc = "advance" => x = d.seen /\ x \in {"reserved", "waiting"}
    /\ d.pc \in {"fenced", "prepare", "prepared"} \/ (d.pc \in OpPcs /\ d.op # "cancel")
         => x = "preparing"
    /\ Resuming(d) \/ d.pc = "work" =>
         /\ d.then = "prepare" => x = "preparing"
         /\ d.then = "revalidate" => x = "prepared"
    /\ d.pc \in {"revalidate", "committing"} => x = "prepared"
    /\ d.pc \in {"commit", "reconcile", "revert"} => x = "committing"
    /\ d.pc = "activate" => x = "committed"
    /\ d.pc = "fail" => x = d.seen /\ x \in {"requested"} \cup Held

\* A driver whose switch was not cancelled under it finds the row as it left it.
Tracks(w) == row[drv[w].s].stage = "cancelled" \/ OnTrack(drv[w], row[drv[w].s].stage)

\* From the last probe to the commit the session is closed to prompts and idle, and from
\* the cancellation of the work that a prepared switch met it is closed.
Quiet(w) ==
    /\ drv[w].pc \in {"revalidate", "committing", "commit"} /\ Live(drv[w].s)
         => w \in gate /\ ~busy
    /\ Resuming(drv[w]) /\ drv[w].then = "revalidate" /\ Live(drv[w].s) => w \in gate

\* A driver d that will open prompts again, its switch at stage x.
Guards(d, x) ==
    /\ d.pc \notin {"idle", "release", "target"}
    /\ d.pc = "error" => x \in ReopensGate
    /\ d.pc \in {"fail", "clean"} => d.seen \in ReopensGate
    /\ d.pc \notin {"error", "fail", "clean", "advance"}
         => x \in {"waiting", "preparing", "prepared", "committing"}

Explains(r) == (r.stage = "committed" /\ ~r.activated) \/ r.stage = "cancelled"

Explained == \E s \in Switches : Explains(row[s])

\* Prompts a process keeps closed are explained or opened again by its driver.
Shut(w) == w \in gate => Explained \/ Guards(drv[w], row[drv[w].s].stage)

\* Activations are recorded of committed switches only.
ActivatedCommitted == \A s \in Switches : row[s].activated => row[s].stage = "committed"

\* What a step of a driver is to show.
TrackGoal(w) ==
    /\ Tracks(w)'
    /\ Quiet(w)'
    /\ Holds(w) /\ Shut(w) /\ w \in gate' =>
         \/ w \in gate /\ Explained
         \/ Explains(row'[drv[w].s])
         \/ Guards(drv'[w], row'[drv[w].s].stage)

\* What a step that writes a driver's record anew leaves in it.
LEMMA FreshRecords ==
    ASSUME TypeInv, NEW w \in Workers
    PROVE  /\ \A pc : Goto(w, pc) => /\ drv'[w].pc = pc /\ drv'[w].s = drv[w].s
                                     /\ drv'[w].op = "spawn" /\ drv'[w].then = "idle"
           /\ \A op : Begin(w, op) => /\ drv'[w].pc = "begin" /\ drv'[w].s = drv[w].s
                                      /\ drv'[w].op = op /\ drv'[w].then = "idle"
           /\ \A then : CancelWork(w, then) =>
                /\ drv'[w].pc = "begin" /\ drv'[w].s = drv[w].s
                /\ drv'[w].op = "cancel" /\ drv'[w].then = then
           /\ Stop(w) => drv'[w] = Idle
<1>0. drv \in [Workers -> DrvRec]
  BY TypeParts DEF TypeInv, DrvTypeOK
<1>1. \A pc : Goto(w, pc) => /\ drv'[w].pc = pc /\ drv'[w].s = drv[w].s
                             /\ drv'[w].op = "spawn" /\ drv'[w].then = "idle"
  BY <1>0 DEF Goto, Idle
<1>2. \A op : Begin(w, op) => /\ drv'[w].pc = "begin" /\ drv'[w].s = drv[w].s
                              /\ drv'[w].op = op /\ drv'[w].then = "idle"
  BY <1>0 DEF Begin, Idle
<1>3. \A then : CancelWork(w, then) =>
                /\ drv'[w].pc = "begin" /\ drv'[w].s = drv[w].s
                /\ drv'[w].op = "cancel" /\ drv'[w].then = then
  BY <1>0 DEF CancelWork, DrvRec
<1>4. Stop(w) => drv'[w] = Idle
  BY <1>0 DEF Stop
<1> QED BY <1>1, <1>2, <1>3, <1>4

\* The steps that only move the driver on.
LEMMA TrackMoves ==
    ASSUME TypeInv, NEW w \in Workers, UNCHANGED <<row, gate, busy>>, Quiet(w),
           OnTrack(drv[w], row[drv[w].s].stage), drv[w].pc # "idle", drv'[w].s = drv[w].s,
           OnTrack(drv'[w], row[drv[w].s].stage),
           drv'[w].pc \in {"revalidate", "committing", "commit"} /\ Live(drv[w].s)
             => w \in gate /\ ~busy,
           Resuming(drv'[w]) /\ drv'[w].then = "revalidate"
             => Resuming(drv[w]) /\ drv[w].then = "revalidate",
           Shut(w) /\ Guards(drv[w], row[drv[w].s].stage) =>
             Explains(row[drv[w].s]) \/ Guards(drv'[w], row[drv[w].s].stage)
    PROVE  TrackGoal(w)
<1>1. Tracks(w)'
  BY DEF Tracks
<1>2. Quiet(w)'
  BY DEF Quiet, Live
<1>3. Shut(w) /\ w \in gate' => \/ w \in gate /\ Explained
                                \/ Explains(row'[drv[w].s])
                                \/ Guards(drv'[w], row'[drv[w].s].stage)
  BY DEF Shut
<1> QED BY <1>1, <1>2, <1>3 DEF TrackGoal

LEMMA TrackSteps ==
    ASSUME TypeInv, AtCommit, ActivatedCommitted, NEW w \in Workers, Quiet(w),
           OnTrack(drv[w], row[drv[w].s].stage),
           \/ ProbeFenced(w) \/ Recheck(w) \/ ChooseStrategy(w) \/ Revalidate(w)
           \/ SettleActiveWork(w) \/ ReadFailed(w) \/ (SourceConflict(w) /\ Disown(w))
    PROVE  TrackGoal(w)
<1>0. drv \in [Workers -> DrvRec] /\ DrvTypeOK
  BY TypeParts DEF TypeInv, DrvTypeOK
<1>1. UNCHANGED <<row, gate, busy>> /\ drv[w].pc # "idle"
  BY DEF ProbeFenced, Recheck, ChooseStrategy, Revalidate, SettleActiveWork, ReadFailed,
     SourceConflict, Disown, storeVars, worldVars, At
<1> DEFINE x == row[drv[w].s].stage
<1>2. CASE ProbeFenced(w)
  <2>1. drv[w].pc = "fenced" /\ \E pc \in {"error", "loop"} : Goto(w, pc)
    BY <1>2 DEF ProbeFenced, At
  <2>2. x = "preparing"
    BY <2>1 DEF OnTrack
  <2>3. drv'[w].pc \in {"error", "loop"} /\ drv'[w].s = drv[w].s
    BY <2>1, FreshRecords
  <2> QED BY <1>1, <2>1, <2>2, <2>3, TrackMoves DEF OnTrack, Resuming, OpPcs, Guards, ReopensGate, CleansTarget
<1>3. CASE Recheck(w)
  <2>1. drv[w].pc = "recheck" /\ Goto(w, IF busy THEN "error" ELSE drv[w].then)
    BY <1>3 DEF Recheck, At
  <2>2. drv'[w].pc = (IF busy THEN "error" ELSE drv[w].then) /\ drv'[w].s = drv[w].s
    BY <2>1, FreshRecords
  <2>3. drv[w].then \in {"fence", "prepare", "revalidate"}
    BY <2>1 DEF TypeInv, Resumes, Resumable
  <2>4. OnTrack(drv'[w], x)
    BY <2>1, <2>2, <2>3 DEF OnTrack, Resuming, OpPcs
  <2>5. drv'[w].pc = "revalidate" /\ Live(drv[w].s) => w \in gate /\ ~busy
    BY <2>1, <2>2, <2>3 DEF Quiet, Resuming
  <2>6. Guards(drv[w], x) => Guards(drv'[w], x)
    BY <2>1, <2>2, <2>3 DEF Guards, ReopensGate, CleansTarget
  <2> QED BY <1>1, <2>2, <2>3, <2>4, <2>5, <2>6, TrackMoves DEF Resuming, OpPcs
<1>4. CASE ChooseStrategy(w)
  <2>1. drv[w].pc = "prepare" /\ (Goto(w, "error") \/ \E op \in {"mutate", "spawn"} : Begin(w, op))
    BY <1>4 DEF ChooseStrategy, At
  <2>2. /\ drv'[w].pc = "error" \/ (drv'[w].pc = "begin" /\ drv'[w].op # "cancel")
        /\ drv'[w].s = drv[w].s /\ drv'[w].then = "idle"
    BY <2>1, FreshRecords
  <2>3. x = "preparing"
    BY <2>1 DEF OnTrack
  <2>4. OnTrack(drv'[w], x)
    BY <2>1, <2>2, <2>3 DEF OnTrack, Resuming, OpPcs
  <2>5. Guards(drv'[w], x)
    BY <2>2, <2>3 DEF Guards, ReopensGate, CleansTarget
  <2> QED BY <1>1, <2>2, <2>4, <2>5, TrackMoves DEF Resuming, OpPcs
<1>5. CASE Revalidate(w)
  <2>1. drv[w].pc = "revalidate" /\ \E pc \in {"error", "committing"} : Goto(w, pc)
    BY <1>5 DEF Revalidate, At
  <2>2. drv'[w].pc \in {"error", "committing"} /\ drv'[w].s = drv[w].s
    BY <2>1, FreshRecords
  <2>3. x = "prepared"
    BY <2>1 DEF OnTrack
  <2>4. OnTrack(drv'[w], x)
    BY <2>2, <2>3 DEF OnTrack, Resuming, OpPcs
  <2>5. Guards(drv'[w], x)
    BY <2>2, <2>3 DEF Guards, ReopensGate, CleansTarget
  <2>6. drv'[w].pc = "committing" /\ Live(drv[w].s) => w \in gate /\ ~busy
    BY <2>1 DEF Quiet
  <2> QED BY <1>1, <2>2, <2>4, <2>5, <2>6, TrackMoves DEF Resuming, OpPcs
<1>6. CASE SettleActiveWork(w)
  <2>1. /\ drv[w].pc = "settle"
        /\ CancelWork(w, "fence") \/ \E pc \in {"error", "wait", "fence"} : Goto(w, pc)
    BY <1>6 DEF SettleActiveWork, At, Reject
  <2>2. /\ drv'[w].s = drv[w].s
        /\ \/ drv'[w].pc \in {"error", "wait", "fence"}
           \/ drv'[w].pc = "begin" /\ drv'[w].op = "cancel" /\ drv'[w].then = "fence"
    BY <2>1, FreshRecords
  <2>3. x \in {"reserved", "waiting"}
    BY <2>1 DEF OnTrack
  <2>4. OnTrack(drv'[w], x)
    BY <2>2, <2>3 DEF OnTrack, Resuming, OpPcs
  <2>5. Guards(drv[w], x) => Guards(drv'[w], x)
    BY <2>1, <2>2, <2>3 DEF Guards, ReopensGate, CleansTarget
  <2> QED BY <1>1, <2>2, <2>4, <2>5, TrackMoves DEF Resuming, OpPcs
<1>7. CASE SourceConflict(w) /\ Disown(w)
  <2>1. drv[w].pc \in {"loop", "settle", "work"} /\ Goto(w, "error")
    BY <1>7 DEF Disown, SourceConflict, At
  <2>2. drv'[w].pc = "error" /\ drv'[w].s = drv[w].s
    BY <2>1, FreshRecords
  <2>4. OnTrack(drv'[w], x)
    BY <2>2 DEF OnTrack, Resuming, OpPcs
  <2>5. Guards(drv[w], x) => Guards(drv'[w], x)
    BY <2>1, <2>2 DEF Guards, ReopensGate, CleansTarget
  <2> QED BY <1>1, <2>2, <2>4, <2>5, TrackMoves DEF Resuming, OpPcs
<1>8. CASE ReadFailed(w)
  <2>1. /\ drv[w].pc = "error" /\ drv'[w].s = drv[w].s /\ drv'[w].seen = x
        /\ drv'[w].pc = IF Live(drv[w].s) THEN "fail" ELSE "clean"
    BY <1>0, <1>8 DEF ReadFailed, At, DrvRec
  <2>4. OnTrack(drv'[w], x)
    BY <2>1 DEF OnTrack, Resuming, OpPcs, Live
  <2>5. Guards(drv[w], x) => Guards(drv'[w], x)
    BY <2>1 DEF Guards
  <2> QED BY <1>1, <2>1, <2>4, <2>5, TrackMoves DEF Resuming, OpPcs
<1> QED BY <1>2, <1>3, <1>4, <1>5, <1>6, <1>7, <1>8

\* The steps that move the switch to another stage.
LEMMA TrackWrites ==
    ASSUME TypeInv, ActivatedCommitted, NEW w \in Workers, NEW y,
           drv[w].s \in Switches, row' = [row EXCEPT ![drv[w].s].stage = y],
           UNCHANGED <<gate, busy>>, drv'[w].s = drv[w].s,
           row[drv[w].s].stage # "committed", OnTrack(drv'[w], y), ~Resuming(drv'[w]),
           drv'[w].pc \in {"revalidate", "committing", "commit"} => w \in gate /\ ~busy,
           Guards(drv[w], row[drv[w].s].stage) => y = "committed" \/ Guards(drv'[w], y)
    PROVE  TrackGoal(w)
<1>0. RowTypeOK
  BY TypeParts DEF TypeInv, StoreTypeOK, RowTypeOK
<1>1. row'[drv[w].s].stage = y /\ row'[drv[w].s].activated = row[drv[w].s].activated
  BY <1>0 DEF RowTypeOK, RowRec
<1>2. ~row'[drv[w].s].activated
  BY <1>1 DEF ActivatedCommitted
<1>3. Tracks(w)'
  BY <1>1 DEF Tracks
<1>4. Quiet(w)'
  BY <1>1 DEF Quiet, Live
<1>5. y = "committed" => Explains(row'[drv[w].s])
  BY <1>1, <1>2 DEF Explains
<1> QED BY <1>1, <1>3, <1>4, <1>5 DEF TrackGoal, Shut

\* A driver at a stage it relies on has a switch that is alive, or committed.
LEMMA TrackAlive ==
    ASSUME NEW d, NEW x, OnTrack(d, x),
           \/ d.pc \in {"target", "settle", "wait", "fence", "park", "advance", "fenced",
                        "prepare", "prepared", "revalidate", "committing", "commit",
                        "reconcile", "revert", "fail"}
           \/ (d.pc = "work" \/ d.pc = "recheck" \/ d.pc \in OpPcs) /\ Resumable(d)
    PROVE  x \in {"requested"} \cup Held
  BY DEF OnTrack, Held, Resumable, Resuming, OpPcs

LEMMA TrackStages ==
    ASSUME TypeInv, AtCommit, ActivatedCommitted, NEW w \in Workers, Quiet(w),
           OnTrack(drv[w], row[drv[w].s].stage),
           \/ ClaimRequested(w) \/ BeginWaiting(w) \/ AdvanceToPreparing(w)
           \/ AdvanceToPrepared(w) \/ AdvanceToCommitting(w)
    PROVE  TrackGoal(w)
<1>0. drv \in [Workers -> DrvRec] /\ DrvTypeOK
  BY TypeParts DEF TypeInv, DrvTypeOK
<1>1. UNCHANGED <<gate, busy>> /\ drv[w].pc # "idle"
  BY DEF ClaimRequested, BeginWaiting, AdvanceToPreparing, AdvanceToPrepared,
     AdvanceToCommitting, worldVars, At
<1>2. drv[w].s \in Switches
  BY <1>0, <1>1, Driving
<1> DEFINE s == drv[w].s
           x == row[s].stage
<1>3. CASE ClaimRequested(w)
  <2>1. /\ drv[w].pc = "loop" /\ x = "requested"
        /\ \/ row' = [row EXCEPT ![s].stage = "superseded"] /\ Goto(w, "release")
           \/ row' = row /\ Goto(w, "error")
           \/ row' = [row EXCEPT ![s].stage = "reserved"] /\ drv' = drv
    BY <1>3 DEF ClaimRequested, At
  <2>2. ~Guards(drv[w], x)
    BY <2>1 DEF Guards
  <2>3. drv'[w].s = drv[w].s /\ drv'[w].pc \in {"release", "error", "loop"}
    BY <2>1, FreshRecords
  <2>4. \A y : OnTrack(drv'[w], y)
    BY <2>3 DEF OnTrack, Resuming, OpPcs
  <2>5. CASE row' = row
    BY <1>1, <2>2, <2>3, <2>4, <2>5, TrackMoves DEF Resuming, OpPcs
  <2> QED BY <1>1, <1>2, <2>1, <2>2, <2>3, <2>4, <2>5, TrackWrites DEF Resuming, OpPcs
<1>4. CASE BeginWaiting(w)
  <2>1. /\ drv[w].pc = "wait"
        /\ \/ row' = [row EXCEPT ![s].stage = "waiting"] /\ Goto(w, "park") /\ x = "reserved"
           \/ row' = row /\ Goto(w, "park") /\ x = "waiting"
           \/ row' = row /\ Goto(w, "error") /\ x \notin {"reserved", "waiting"}
    BY <1>4 DEF BeginWaiting, At
  <2>2. x \in {"reserved", "waiting"}
    BY <2>1 DEF OnTrack
  <2>3. drv'[w].s = drv[w].s /\ drv'[w].pc = "park"
    BY <2>1, <2>2, FreshRecords
  <2>4. OnTrack(drv'[w], "waiting") /\ Guards(drv'[w], "waiting")
    BY <2>3 DEF OnTrack, Resuming, OpPcs, Guards
  <2>5. CASE row' = row /\ x = "waiting"
    BY <1>1, <2>1, <2>3, <2>4, <2>5, TrackMoves DEF Resuming, OpPcs
  <2> QED BY <1>1, <1>2, <2>1, <2>2, <2>3, <2>4, <2>5, TrackWrites DEF Resuming, OpPcs
<1>5. CASE AdvanceToPreparing(w)
  <2>1. /\ drv[w].pc = "advance"
        /\ \/ row' = [row EXCEPT ![s].stage = "preparing"] /\ Goto(w, "fenced")
           \/ drv[w].seen \notin {"reserved", "waiting"} \/ x # drv[w].seen
    BY <1>5 DEF AdvanceToPreparing, At
  <2>2. x \in {"reserved", "waiting"} /\ x = drv[w].seen
    BY <2>1 DEF OnTrack
  <2>3. drv'[w].s = drv[w].s /\ drv'[w].pc = "fenced"
    BY <2>1, <2>2, FreshRecords
  <2>4. OnTrack(drv'[w], "preparing") /\ Guards(drv'[w], "preparing")
    BY <2>3 DEF OnTrack, Resuming, OpPcs, Guards
  <2> QED BY <1>1, <1>2, <2>1, <2>2, <2>3, <2>4, TrackWrites DEF Resuming, OpPcs
<1>6. CASE AdvanceToPrepared(w)
  <2>1. /\ drv[w].pc = "prepared"
        /\ \/ row' = [row EXCEPT ![s].stage = "prepared"] /\ Goto(w, "loop")
           \/ row' = row /\ Goto(w, "error")
    BY <1>6 DEF AdvanceToPrepared, At
  <2>2. x = "preparing"
    BY <2>1 DEF OnTrack
  <2>3. drv'[w].s = drv[w].s /\ drv'[w].pc \in {"loop", "error"}
    BY <2>1, FreshRecords
  <2>4. \A y : OnTrack(drv'[w], y)
    BY <2>3 DEF OnTrack, Resuming, OpPcs
  <2>5. Guards(drv'[w], "prepared") /\ Guards(drv'[w], "preparing")
    BY <2>3 DEF Guards, ReopensGate, CleansTarget
  <2>6. CASE row' = row
    BY <1>1, <2>1, <2>2, <2>3, <2>4, <2>5, <2>6, TrackMoves DEF Resuming, OpPcs
  <2> QED BY <1>1, <1>2, <2>1, <2>2, <2>3, <2>4, <2>5, <2>6, TrackWrites DEF Resuming, OpPcs
<1>7. CASE AdvanceToCommitting(w)
  <2>1. /\ drv[w].pc = "committing"
        /\ \/ row' = [row EXCEPT ![s].stage = "committing"] /\ Goto(w, "commit")
           \/ x # "prepared"
    BY <1>7 DEF AdvanceToCommitting, At
  <2>2. x = "prepared"
    BY <2>1 DEF OnTrack
  <2>3. drv'[w].s = drv[w].s /\ drv'[w].pc = "commit"
    BY <2>1, <2>2, FreshRecords
  <2>4. OnTrack(drv'[w], "committing") /\ Guards(drv'[w], "committing")
    BY <2>3 DEF OnTrack, Resuming, OpPcs, Guards
  <2>5. w \in gate /\ ~busy
    BY <2>1, <2>2 DEF Quiet, Live, Held
  <2> QED BY <1>1, <1>2, <2>1, <2>2, <2>3, <2>4, <2>5, TrackWrites DEF Resuming, OpPcs
<1> QED BY <1>3, <1>4, <1>5, <1>6, <1>7


LEMMA TrackEnds ==
    ASSUME TypeInv, AtCommit, ActivatedCommitted, NEW w \in Workers, Quiet(w),
           OnTrack(drv[w], row[drv[w].s].stage),
           \/ Commit(w) \/ Revert(w) \/ ConfirmCommitted(w) \/ FailSwitch(w)
           \/ (Supersede(w) /\ Disown(w))
    PROVE  TrackGoal(w)
<1>0. drv \in [Workers -> DrvRec] /\ DrvTypeOK
  BY TypeParts DEF TypeInv, DrvTypeOK
<1>1. UNCHANGED <<gate, busy>> /\ drv[w].pc # "idle"
  BY DEF Commit, Revert, ConfirmCommitted, FailSwitch, Supersede, Disown, worldVars, At
<1>2. drv[w].s \in Switches
  BY <1>0, <1>1, Driving
<1> DEFINE s == drv[w].s
           x == row[s].stage
<1>3. ASSUME NEW pc, NEW then, drv' = [drv EXCEPT ![w].pc = pc, ![w].then = then]
      PROVE  drv'[w].pc = pc /\ drv'[w].then = then /\ drv'[w].s = s
  BY <1>0, <1>3 DEF DrvRec
<1>4. CASE Commit(w)
  <2>1. /\ drv[w].pc = "commit"
        /\ \/ row' = [row EXCEPT ![s].stage = "committed"] /\ Goto(w, "activate")
           \/ row' = [row EXCEPT ![s].stage = "superseded"] /\ Goto(w, "error")
           \/ row' = row /\ drv' = [drv EXCEPT ![w].pc = "revert", ![w].then = "error"]
    BY <1>4 DEF Commit, At
  <2>2. x = "committing"
    BY <2>1 DEF OnTrack
  <2>3. CASE row' = [row EXCEPT ![s].stage = "committed"] /\ Goto(w, "activate")
    <3>1. drv'[w].s = s /\ drv'[w].pc = "activate"
      BY <2>3, FreshRecords
    <3>2. OnTrack(drv'[w], "committed")
      BY <3>1 DEF OnTrack, Resuming, OpPcs
    <3> QED BY <1>1, <1>2, <2>2, <2>3, <3>1, <3>2, TrackWrites DEF Resuming, OpPcs
  <2>4. CASE row' = [row EXCEPT ![s].stage = "superseded"] /\ Goto(w, "error")
    <3>1. drv'[w].s = s /\ drv'[w].pc = "error"
      BY <2>4, FreshRecords
    <3>2. OnTrack(drv'[w], "superseded") /\ Guards(drv'[w], "superseded")
      BY <3>1 DEF OnTrack, Resuming, OpPcs, Guards, ReopensGate, CleansTarget
    <3> QED BY <1>1, <1>2, <2>2, <2>4, <3>1, <3>2, TrackWrites DEF Resuming, OpPcs
  <2>5. CASE row' = row /\ drv' = [drv EXCEPT ![w].pc = "revert", ![w].then = "error"]
    <3>1. drv'[w].s = s /\ drv'[w].pc = "revert"
      BY <1>3, <2>5
    <3>2. OnTrack(drv'[w], x) /\ Guards(drv'[w], x)
      BY <2>2, <3>1 DEF OnTrack, Resuming, OpPcs, Guards
    <3> QED BY <1>1, <2>5, <3>1, <3>2, TrackMoves DEF Resuming, OpPcs
  <2> QED BY <2>1, <2>3, <2>4, <2>5
<1>5. CASE Revert(w)
  <2>1. /\ drv[w].pc = "revert"
        /\ \/ row' = [row EXCEPT ![s].stage = "prepared"] /\ Goto(w, drv[w].then)
           \/ row' = row /\ Goto(w, "error")
    BY <1>5 DEF Revert, At
  <2>2. x = "committing" /\ drv[w].then \in {"loop", "error"}
    BY <2>1 DEF OnTrack, TypeInv, Resumes, Resumable
  <2>3. drv'[w].s = s /\ drv'[w].pc \in {"loop", "error"}
    BY <2>1, <2>2, FreshRecords
  <2>4. \A y : OnTrack(drv'[w], y)
    BY <2>3 DEF OnTrack, Resuming, OpPcs
  <2>5. Guards(drv'[w], "prepared") /\ Guards(drv'[w], "committing")
    BY <2>3 DEF Guards, ReopensGate, CleansTarget
  <2>6. CASE row' = row
    BY <1>1, <2>1, <2>2, <2>3, <2>4, <2>5, <2>6, TrackMoves DEF Resuming, OpPcs
  <2> QED BY <1>1, <1>2, <2>1, <2>2, <2>3, <2>4, <2>5, <2>6, TrackWrites DEF Resuming, OpPcs
<1>6. CASE ConfirmCommitted(w)
  <2>1. drv[w].pc = "reconcile" /\ x = "committing"
    BY <1>6 DEF ConfirmCommitted, At, OnTrack
  <2>2. \/ /\ row' = [row EXCEPT ![s].stage = "committed"]
           /\ drv' = [drv EXCEPT ![w].pc = "activate", ![w].then = "loop"]
        \/ row' = row /\ drv' = [drv EXCEPT ![w].pc = "revert", ![w].then = "loop"]
    BY <1>6, <2>1 DEF ConfirmCommitted
  <2>3. CASE /\ row' = [row EXCEPT ![s].stage = "committed"]
             /\ drv' = [drv EXCEPT ![w].pc = "activate", ![w].then = "loop"]
    <3>1. drv'[w].s = s /\ drv'[w].pc = "activate"
      BY <1>3, <2>3
    <3>2. OnTrack(drv'[w], "committed")
      BY <3>1 DEF OnTrack, Resuming, OpPcs
    <3> QED BY <1>1, <1>2, <2>1, <2>3, <3>1, <3>2, TrackWrites DEF Resuming, OpPcs
  <2>4. CASE row' = row /\ drv' = [drv EXCEPT ![w].pc = "revert", ![w].then = "loop"]
    <3>1. drv'[w].s = s /\ drv'[w].pc = "revert"
      BY <1>3, <2>4
    <3>2. OnTrack(drv'[w], x) /\ Guards(drv'[w], x)
      BY <2>1, <3>1 DEF OnTrack, Resuming, OpPcs, Guards
    <3> QED BY <1>1, <2>4, <3>1, <3>2, TrackMoves DEF Resuming, OpPcs
  <2> QED BY <2>2, <2>3, <2>4
<1>7. CASE FailSwitch(w)
  <2>1. drv[w].pc = "fail" /\ x \in {"requested"} \cup Held
    BY <1>7 DEF FailSwitch, At, OnTrack
  <2>2. x \notin Terminal
    BY <2>1 DEF Terminal, Held
  <2>3. row' = [row EXCEPT ![s].stage = "failed"] /\ drv' = [drv EXCEPT ![w].pc = "clean"]
    BY <1>7, <2>2 DEF FailSwitch, FinishWithoutCommit
  <2>4. drv'[w].s = s /\ drv'[w].pc = "clean" /\ drv'[w].seen = drv[w].seen
    BY <1>0, <2>3 DEF DrvRec
  <2>5. OnTrack(drv'[w], "failed") /\ (Guards(drv[w], x) => Guards(drv'[w], "failed"))
    BY <2>1, <2>4 DEF OnTrack, Resuming, OpPcs, Guards
  <2>6. x # "committed"
    BY <2>2 DEF Terminal
  <2> QED BY <1>1, <1>2, <2>3, <2>4, <2>5, <2>6, TrackWrites DEF Resuming, OpPcs
<1>8. CASE Supersede(w) /\ Disown(w)
  <2>1. \/ drv[w].pc = "loop" /\ x \in Held
        \/ drv[w].pc \in {"settle", "work"}
    BY <1>8 DEF Disown, At
  <2>2. x \in {"requested"} \cup Held
    BY <2>1, TrackAlive DEF TypeInv, Resumes
  <2>3. x \notin Terminal /\ x # "committed"
    BY <2>2 DEF Terminal, Held
  <2>4. row' = [row EXCEPT ![s].stage = "superseded"] /\ Goto(w, "error")
    BY <1>8, <2>3 DEF Supersede, FinishWithoutCommit
  <2>5. drv'[w].s = s /\ drv'[w].pc = "error"
    BY <2>4, FreshRecords
  <2>6. OnTrack(drv'[w], "superseded") /\ Guards(drv'[w], "superseded")
    BY <2>5 DEF OnTrack, Resuming, OpPcs, Guards, ReopensGate, CleansTarget
  <2> QED BY <1>1, <1>2, <2>3, <2>4, <2>5, <2>6, TrackWrites DEF Resuming, OpPcs
<1> QED BY <1>4, <1>5, <1>6, <1>7, <1>8

LEMMA TrackOperations ==
    ASSUME TypeInv, AtCommit, ActivatedCommitted, NEW w \in Workers, Quiet(w),
           OnTrack(drv[w], row[drv[w].s].stage),
           \/ BeginOperation(w) \/ ReconcileOperation(w) \/ Send(w) \/ Answer(w)
           \/ MarkSucceeded(w)
    PROVE  TrackGoal(w)
<1>0. drv \in [Workers -> DrvRec] /\ DrvTypeOK
  BY TypeParts DEF TypeInv, DrvTypeOK
<1>1. UNCHANGED gate /\ drv[w].pc \in OpPcs
  BY DEF BeginOperation, ReconcileOperation, Send, Answer, MarkSucceeded, worldVars, At, OpPcs
<1>2. drv[w].s \in Switches /\ drv[w].pc # "idle" /\ Resumable(drv[w])
  BY <1>0, <1>1, Driving DEF OpPcs, TypeInv, Resumes
<1> DEFINE s == drv[w].s
           x == row[s].stage
<1>3. x \in {"requested"} \cup Held
  BY <1>1, <1>2, TrackAlive
<1>4. x # "committed" /\ x # "cancelled"
  BY <1>3 DEF Held
\* The operation goes on, the driver goes on to the next, or the operation is over.
<1>5. ASSUME UNCHANGED <<row, busy>>, drv'[w].s = s,
             \/ drv'[w].pc \in OpPcs /\ drv'[w].op = drv[w].op /\ drv'[w].then = drv[w].then
             \/ drv'[w].pc \in OpPcs /\ drv'[w].op # "cancel" /\ drv[w].op # "cancel"
             \/ drv'[w].pc = "recheck" /\ drv[w].op = "cancel" /\ drv'[w].then = drv[w].then
             \/ drv'[w].pc = "prepared" /\ drv[w].op # "cancel"
             \/ drv'[w].pc = "error"
      PROVE  TrackGoal(w)
  <2>1. OnTrack(drv'[w], x)
    BY <1>1, <1>5 DEF OnTrack, Resuming, OpPcs
  <2>2. Guards(drv[w], x) => Guards(drv'[w], x)
    BY <1>1, <1>5 DEF Guards, OpPcs, ReopensGate, CleansTarget
  <2> QED BY <1>1, <1>2, <1>5, <2>1, <2>2, TrackMoves DEF Resuming, OpPcs
<1>6. CASE Send(w)
  <2>0. UNCHANGED row /\ \E ok : drv' = [drv EXCEPT ![w].pc = "sent", ![w].ok = ok]
    BY <1>6 DEF Send, storeVars
  <2>1. /\ drv'[w].pc = "sent" /\ drv'[w].op = drv[w].op /\ drv'[w].then = drv[w].then
        /\ drv'[w].s = s /\ UNCHANGED row
    BY <1>0, <2>0 DEF DrvRec
  <2>2. Tracks(w)'
    BY <1>1, <2>1 DEF Tracks, OnTrack, Resuming, OpPcs
  <2>3. Quiet(w)'
    BY <1>1, <2>1 DEF Quiet, Live, Resuming, OpPcs
  <2>4. Guards(drv[w], x) => Guards(drv'[w], x)
    BY <1>1, <2>1 DEF Guards, OpPcs
  <2> QED BY <1>1, <2>1, <2>2, <2>3, <2>4 DEF TrackGoal, Shut, At
<1>7. CASE Goto(w, "error") /\ UNCHANGED <<row, busy>>
  BY <1>5, <1>7, FreshRecords
<1>8. ASSUME NEW op, Ambiguous(w, op), UNCHANGED busy PROVE TrackGoal(w)
  <2>1. row' = [row EXCEPT ![s].stage = "ambiguous"] /\ Goto(w, "error")
    BY <1>3, <1>8 DEF Ambiguous, FinishWithoutCommit, Live
  <2>2. drv'[w].s = s /\ drv'[w].pc = "error"
    BY <2>1, FreshRecords
  <2>3. OnTrack(drv'[w], "ambiguous") /\ Guards(drv'[w], "ambiguous")
    BY <2>2 DEF OnTrack, Resuming, OpPcs, Guards, ReopensGate, CleansTarget
  <2> QED BY <1>1, <1>2, <1>4, <1>8, <2>1, <2>2, <2>3, TrackWrites DEF Resuming, OpPcs
<1>9. ASSUME Proceed(w, drv[w].op), UNCHANGED <<row, busy>> PROVE TrackGoal(w)
  <2>1. PICK next \in NextOp(s, drv[w].op) :
          /\ drv'[w].pc = After(s, drv[w].op) /\ drv'[w].op = next
          /\ drv'[w].s = s /\ drv'[w].then = drv[w].then
    BY <1>0, <1>9 DEF Proceed, DrvRec
  <2>2. \/ drv[w].op = "cancel" /\ drv'[w].pc = "recheck"
        \/ drv[w].op # "cancel" /\ drv'[w].pc = "prepared"
        \/ drv[w].op # "cancel" /\ drv'[w].pc = "begin" /\ drv'[w].op # "cancel"
    BY <2>1 DEF After, NextOp
  <2> QED BY <1>5, <1>9, <2>1, <2>2 DEF OpPcs
<1>10. ASSUME NEW n, Execute(w, drv[w].op, n), UNCHANGED <<row, busy>> PROVE TrackGoal(w)
  <2>1. /\ drv'[w].pc = "send" /\ drv'[w].op = drv[w].op
        /\ drv'[w].s = s /\ drv'[w].then = drv[w].then
    BY <1>0, <1>10 DEF Execute, DrvRec
  <2> QED BY <1>5, <1>10, <2>1 DEF OpPcs
<1>11. ASSUME NEW pc \in {"answer", "mark"}, NEW n, UNCHANGED <<row, busy>>,
              \/ drv' = [drv EXCEPT ![w].pc = pc, ![w].n = n]
              \/ drv' = [drv EXCEPT ![w].pc = pc]
      PROVE  TrackGoal(w)
  <2>1. /\ drv'[w].pc = pc /\ drv'[w].op = drv[w].op
        /\ drv'[w].s = s /\ drv'[w].then = drv[w].then
    BY <1>0, <1>11 DEF DrvRec
  <2> QED BY <1>5, <1>11, <2>1 DEF OpPcs
<1>12. ASSUME Begin(w, "create"), drv[w].op = "restore", UNCHANGED <<row, busy>>
       PROVE  TrackGoal(w)
  <2>1. drv'[w].pc = "begin" /\ drv'[w].op = "create" /\ drv'[w].s = s
    BY <1>12, FreshRecords
  <2> QED BY <1>5, <1>12, <2>1 DEF OpPcs
<1>13. CASE BeginOperation(w)
  <2>0. UNCHANGED busy
    BY <1>13 DEF BeginOperation, worldVars
  <2>1. \/ UNCHANGED row /\ Skip(w, drv[w].op)
        \/ UNCHANGED row /\ \E n : Execute(w, drv[w].op, n)
        \/ UNCHANGED row /\ \E n : drv' = [drv EXCEPT ![w].pc = "answer", ![w].n = n]
        \/ Ambiguous(w, drv[w].op)
    BY <1>13 DEF BeginOperation
  <2> QED BY <1>7, <1>8, <1>9, <1>10, <1>11, <2>0, <2>1 DEF Skip
<1>14. CASE ReconcileOperation(w)
  <2>0. UNCHANGED busy
    BY <1>14 DEF ReconcileOperation, worldVars
  <2>1. \/ UNCHANGED row /\ (Skip(w, drv[w].op) \/ Goto(w, "error"))
        \/ UNCHANGED row /\ \E n : Execute(w, drv[w].op, n)
        \/ Ambiguous(w, drv[w].op)
    BY <1>14 DEF ReconcileOperation
  <2> QED BY <1>7, <1>8, <1>9, <1>10, <2>0, <2>1 DEF Skip
<1>15. CASE Answer(w)
  <2>0. UNCHANGED <<row, busy>>
    BY <1>15 DEF Answer, worldVars
  <2>1. \/ drv' = [drv EXCEPT ![w].pc = "mark"] \/ Goto(w, "error")
        \/ drv[w].op = "restore" /\ Begin(w, "create")
    BY <1>15 DEF Answer
  <2> QED BY <1>7, <1>11, <1>12, <2>0, <2>1
<1>16. CASE MarkSucceeded(w)
  <2>0. UNCHANGED <<row, busy>>
    BY <1>16 DEF MarkSucceeded, worldVars
  <2>1. Proceed(w, drv[w].op) \/ Goto(w, "error")
    BY <1>16 DEF MarkSucceeded
  <2> QED BY <1>7, <1>9, <2>0, <2>1
<1> QED BY <1>6, <1>13, <1>14, <1>15, <1>16


\* The steps that close prompts or open them again, and the ones that leave the stage alone.
LEMMA TrackGates ==
    ASSUME TypeInv, AtCommit, ActivatedCommitted, NEW w \in Workers, Quiet(w),
           OnTrack(drv[w], row[drv[w].s].stage),
           \/ LeaseLost(w) \/ Dispatch(w) \/ StabilizeTarget(w) \/ Park(w) \/ Fence(w)
           \/ EnsureCommitIdle(w) \/ Activate(w) \/ CleanUp(w) \/ Release(w)
    PROVE  TrackGoal(w)
<1>0. drv \in [Workers -> DrvRec] /\ DrvTypeOK /\ RowTypeOK /\ gate \in SUBSET Workers
  BY TypeParts DEF TypeInv, DrvTypeOK, SwitchTypeOK, StoreTypeOK, RowTypeOK
<1>1. UNCHANGED busy /\ drv[w].pc # "idle"
  BY DEF LeaseLost, Dispatch, StabilizeTarget, Park, Fence, EnsureCommitIdle, Activate,
     CleanUp, Release, worldVars, At
<1>2. drv[w].s \in Switches /\ Resumable(drv[w])
  BY <1>0, <1>1, Driving DEF TypeInv, Resumes
<1> DEFINE s == drv[w].s
           x == row[s].stage
<1>3. ASSUME drv'[w] = Idle, Holds(w) => UNCHANGED gate /\ ~Guards(drv[w], x)
      PROVE  TrackGoal(w)
  <2>1. drv'[w].pc = "idle"
    BY <1>3 DEF Idle
  <2>2. Tracks(w)' /\ Quiet(w)'
    BY <2>1 DEF Tracks, OnTrack, Quiet, Resuming, OpPcs, At
  <2> QED BY <1>3, <2>2 DEF TrackGoal, Shut
\* Prompts are closed, if they were not, by a driver that will open them.
<1>4. ASSUME UNCHANGED row, gate' \in {gate, gate \cup {w}}, drv'[w].s = s,
             OnTrack(drv'[w], x), gate' = gate \/ Guards(drv'[w], x),
             Guards(drv[w], x) => Guards(drv'[w], x),
             drv'[w].pc \in {"revalidate", "committing", "commit"} => w \in gate' /\ ~busy,
             Resuming(drv'[w]) /\ drv'[w].then = "revalidate" => w \in gate'
      PROVE  TrackGoal(w)
  <2>1. Tracks(w)'
    BY <1>4 DEF Tracks
  <2>2. Quiet(w)'
    BY <1>1, <1>4 DEF Quiet
  <2> QED BY <1>4, <2>1, <2>2 DEF TrackGoal, Shut
<1>5. CASE LeaseLost(w)
  BY <1>3, <1>5, FreshRecords DEF LeaseLost
<1>6. CASE Release(w)
  <2>1. drv[w].pc = "release" /\ UNCHANGED gate /\ drv'[w] = Idle
    BY <1>6, FreshRecords DEF Release, At, worldVars
  <2> QED BY <1>3, <2>1 DEF Guards
<1>7. CASE Dispatch(w)
  <2>1. drv[w].pc = "loop" /\ UNCHANGED row
    BY <1>7 DEF Dispatch, At, storeVars
  <2>2. CASE \/ x \in Terminal /\ Goto(w, "release") /\ UNCHANGED gate
             \/ x = "reserved" /\ Goto(w, "target") /\ UNCHANGED gate
    <3>1. ~Guards(drv[w], x)
      BY <2>1, <2>2 DEF Guards, Terminal
    <3>2. drv'[w].s = s /\ (drv'[w].pc = "release" \/ (drv'[w].pc = "target" /\ x = "reserved"))
      BY <2>2, FreshRecords
    <3>3. OnTrack(drv'[w], x)
      BY <3>2 DEF OnTrack, Resuming, OpPcs
    <3> QED BY <1>4, <2>1, <2>2, <3>1, <3>2, <3>3 DEF Resuming, OpPcs
  <2>3. CASE x = "committing" /\ Goto(w, "reconcile") /\ UNCHANGED gate
    <3>1. drv'[w].s = s /\ drv'[w].pc = "reconcile"
      BY <2>3, FreshRecords
    <3>2. OnTrack(drv'[w], x) /\ Guards(drv'[w], x)
      BY <2>3, <3>1 DEF OnTrack, Resuming, OpPcs, Guards
    <3> QED BY <1>4, <2>1, <2>3, <3>1, <3>2 DEF Resuming, OpPcs
  <2>4. CASE x = "waiting" /\ Goto(w, "settle") /\ gate' = gate \cup {w}
    <3>1. drv'[w].s = s /\ drv'[w].pc = "settle"
      BY <2>4, FreshRecords
    <3>2. OnTrack(drv'[w], x) /\ Guards(drv'[w], x)
      BY <2>4, <3>1 DEF OnTrack, Resuming, OpPcs, Guards
    <3> QED BY <1>4, <2>1, <2>4, <3>1, <3>2 DEF Resuming, OpPcs
  <2>5. CASE /\ x \in {"preparing", "prepared"} /\ gate' = gate \cup {w}
             /\ drv' = [drv EXCEPT ![w].pc = "work",
                          ![w].then = IF x = "preparing" THEN "prepare" ELSE "revalidate"]
    <3>1. /\ drv'[w].s = s /\ drv'[w].pc = "work"
          /\ drv'[w].then = IF x = "preparing" THEN "prepare" ELSE "revalidate"
      BY <1>0, <2>5 DEF DrvRec
    <3>2. OnTrack(drv'[w], x) /\ Guards(drv'[w], x)
      BY <2>5, <3>1 DEF OnTrack, Resuming, OpPcs, Guards
    <3> QED BY <1>4, <2>1, <2>5, <3>1, <3>2 DEF Resuming, OpPcs
  <2> QED BY <1>7, <2>2, <2>3, <2>4, <2>5 DEF Dispatch
<1>8. CASE StabilizeTarget(w)
  <2>1. drv[w].pc = "target" /\ UNCHANGED gate
    BY <1>8 DEF StabilizeTarget, At, worldVars
  <2>2. x = "reserved" /\ ~Guards(drv[w], x)
    BY <2>1 DEF OnTrack, Guards
  <2>3. \E pc \in {"settle", "error"} : Goto(w, pc)
    BY <1>8 DEF StabilizeTarget
  <2>4. drv'[w].s = s /\ drv'[w].pc \in {"settle", "error"}
    BY <2>3, FreshRecords
  <2>5. PICK b : row' = row \/ row' = [row EXCEPT ![s].target = b]
    BY <1>8 DEF StabilizeTarget
  <2>6. row'[s].stage = x
    BY <1>0, <1>2, <2>5 DEF RowTypeOK, RowRec
  <2>7. Tracks(w)' /\ Quiet(w)'
    BY <2>2, <2>4, <2>6 DEF Tracks, OnTrack, Quiet, Resuming, OpPcs, At
  <2> QED BY <2>1, <2>2, <2>7 DEF TrackGoal, Shut
<1>9. CASE Park(w)
  <2>1. drv[w].pc = "park" /\ UNCHANGED row /\ gate' = gate \cup {w} /\ Goto(w, "settle")
    BY <1>9 DEF Park, At, storeVars
  <2>2. x = "waiting"
    BY <2>1 DEF OnTrack
  <2>3. drv'[w].s = s /\ drv'[w].pc = "settle"
    BY <2>1, FreshRecords
  <2>4. OnTrack(drv'[w], x) /\ Guards(drv'[w], x)
    BY <2>2, <2>3 DEF OnTrack, Resuming, OpPcs, Guards
  <2> QED BY <1>4, <2>1, <2>3, <2>4 DEF Resuming, OpPcs
<1>10. CASE Fence(w)
  <2>1. drv[w].pc = "fence" /\ UNCHANGED row /\ gate' = gate \cup {w}
    BY <1>10 DEF Fence, At, storeVars
  <2>2. x \in {"reserved", "waiting"}
    BY <2>1 DEF OnTrack
  <2>3. drv'[w].s = s /\ drv'[w].pc = "advance" /\ drv'[w].seen = x
    BY <1>0, <1>10 DEF Fence, DrvRec
  <2>4. OnTrack(drv'[w], x) /\ Guards(drv'[w], x)
    BY <2>2, <2>3 DEF OnTrack, Resuming, OpPcs, Guards
  <2> QED BY <1>4, <2>1, <2>3, <2>4 DEF Resuming, OpPcs
<1>11. CASE EnsureCommitIdle(w)
  <2>1. drv[w].pc = "work" /\ UNCHANGED row /\ gate' = gate \cup {w}
    BY <1>11 DEF EnsureCommitIdle, At, storeVars
  <2>2. /\ drv[w].then \in {"prepare", "revalidate"}
        /\ x = IF drv[w].then = "prepare" THEN "preparing" ELSE "prepared"
    BY <1>2, <2>1 DEF OnTrack, Resumable
  <2>3. \/ Goto(w, "error") \/ CancelWork(w, drv[w].then) \/ UNCHANGED drv
        \/ ~busy /\ Goto(w, drv[w].then)
    BY <1>11 DEF EnsureCommitIdle, Reject
  <2>4. /\ drv'[w].s = s
        /\ \/ drv'[w].pc = "error"
           \/ drv'[w].pc = "begin" /\ drv'[w].op = "cancel" /\ drv'[w].then = drv[w].then
           \/ drv'[w].pc = "work" /\ drv'[w].then = drv[w].then
           \/ ~busy /\ drv'[w].pc = drv[w].then
    BY <2>1, <2>3, FreshRecords
  <2>5. OnTrack(drv'[w], x)
    BY <2>2, <2>4 DEF OnTrack, Resuming, OpPcs
  <2>6. Guards(drv'[w], x)
    BY <2>2, <2>4 DEF Guards, ReopensGate, CleansTarget
  <2> QED BY <1>4, <2>1, <2>2, <2>4, <2>5, <2>6
<1>12. CASE Activate(w)
  <2>1. drv[w].pc = "activate" /\ x = "committed"
    BY <1>12 DEF Activate, At, OnTrack
  <2>2. \/ gate' = gate \ {w} /\ row' = [row EXCEPT ![s].activated = TRUE] /\ Goto(w, "release")
        \/ UNCHANGED <<row, gate>> /\ Goto(w, "error")
    BY <1>12 DEF Activate
  <2>3. drv'[w].s = s /\ drv'[w].pc \in {"release", "error"}
    BY <2>2, FreshRecords
  <2>4. Tracks(w)' /\ Quiet(w)'
    BY <2>3 DEF Tracks, OnTrack, Quiet, Resuming, OpPcs, At
  <2>5. w \in gate' => w \in gate /\ ~Guards(drv[w], x)
    BY <2>1, <2>2 DEF Guards
  <2> QED BY <2>4, <2>5 DEF TrackGoal, Shut
<1>13. CASE CleanUp(w)
  <2>1. /\ drv[w].pc = "clean" /\ UNCHANGED row /\ Goto(w, "release")
        /\ gate' = IF drv[w].seen \in ReopensGate THEN gate \ {w} ELSE gate
    BY <1>13 DEF CleanUp, At
  <2>2. drv'[w].s = s /\ drv'[w].pc = "release"
    BY <2>1, FreshRecords
  <2>3. Tracks(w)' /\ Quiet(w)'
    BY <2>2 DEF Tracks, OnTrack, Quiet, Resuming, OpPcs, At
  <2>4. w \in gate' => w \in gate /\ ~Guards(drv[w], x)
    BY <2>1 DEF Guards
  <2> QED BY <2>3, <2>4 DEF TrackGoal, Shut
<1> QED BY <1>5, <1>6, <1>7, <1>8, <1>9, <1>10, <1>11, <1>12, <1>13

\* One step of a driver.
LEMMA DriverTracks ==
    ASSUME TypeInv, AtCommit, ActivatedCommitted, NEW w \in Workers, Tracks(w), Quiet(w),
           DriverStep(w), [Next]_switchVars
    PROVE  TrackGoal(w)
<1>0. drv[w].s \in Switches /\ drv[w].pc # "idle"
  BY DriverRecord, TypeParts, Driving DEF TypeInv
<1>1. CASE row[drv[w].s].stage = "cancelled"
  <2>1. row'[drv[w].s].stage = "cancelled"
    BY <1>0, <1>1, EndStays DEF Terminal
  <2>2. drv'[w].pc = "idle" \/ drv'[w].s = drv[w].s
    BY DriverRecord
  <2>3. Tracks(w)' /\ Quiet(w)'
    BY <2>1, <2>2 DEF Tracks, OnTrack, Quiet, Resuming, OpPcs, Live, Held
  <2>4. Explains(row'[drv[w].s])
    BY <2>1 DEF Explains
  <2> QED BY <2>3, <2>4 DEF TrackGoal
<1>2. CASE OnTrack(drv[w], row[drv[w].s].stage)
  <2>1. Disown(w) => (Supersede(w) /\ Disown(w)) \/ (SourceConflict(w) /\ Disown(w))
    BY DEF Disown
  <2> QED BY <1>2, <2>1, TrackSteps, TrackStages, TrackEnds, TrackOperations, TrackGates
       DEF DriverStep
<1> QED BY <1>1, <1>2 DEF Tracks


-----------------------------------------------------------------------------
(* What the other tasks do to a driver's row and to the prompts. *)

\* A cancellation writes nothing but that end.
LEMMA CancelWrites ==
    ASSUME TypeInv, CancelDirect \/ CancelLocked, NEW s \in Switches
    PROVE  row'[s].stage \in {row[s].stage, "cancelled"} /\ row'[s].activated = row[s].activated
<1>1. row' = row \/ FinishWithoutCommit(can.s, "cancelled")
  BY DEF CancelDirect, CancelLocked
<1>2. can.s \in Switches /\ RowTypeOK
  BY TypeParts DEF CancelDirect, CancelLocked, TypeInv, CancelNames, StoreTypeOK, RowTypeOK
<1> QED BY <1>1, <1>2 DEF FinishWithoutCommit, RowTypeOK, RowRec

\* A switch is requested at most once.
LEMMA RequestedOnce ==
    ASSUME RowsInv, [Next]_switchVars, NEW s \in Switches,
           row[s].stage \notin {"absent", "requested"}
    PROVE  row'[s].stage \notin {"absent", "requested"}
<1>0. TypeInv /\ RowTypeOK /\ DrvTypeOK /\ Settles(s)
  BY RowsStep, TypeParts DEF RowsInv, RowInv, TypeInv, StoreTypeOK, RowTypeOK
<1>1. row'[s].stage # "absent"
  BY <1>0 DEF Settles
<1>2. CASE row'[s].stage = row[s].stage
  BY <1>2
<1>3. CASE CancelDirect \/ CancelLocked
  BY <1>0, <1>1, <1>3, CancelWrites
<1>4. CASE \E w \in Workers : drv[w].s = s /\ Commit(w)
  <2>1. PICK w \in Workers : drv[w].s = s /\ Commit(w)
    BY <1>4
  <2>2. row' = row \/ \E x \in {"committed", "superseded"} : row' = [row EXCEPT ![s].stage = x]
    BY <2>1 DEF Commit
  <2> QED BY <1>0, <1>2, <2>2 DEF RowTypeOK, RowRec
<1>5. CASE \E x : x = row'[s].stage /\ CanTransition(row[s].stage, x)
  BY <1>1, <1>5 DEF CanTransition
<1> QED BY <1>0, <1>2, <1>3, <1>4, <1>5, StageSteps

\* The switch of a driver that takes no step stays or is cancelled.
LEMMA OthersStage ==
    ASSUME TypeInv, Driven, Sole, [Next]_switchVars, NEW v \in Workers, ~DriverStep(v),
           drv[v].pc # "idle"
    PROVE  row'[drv[v].s].stage \in {row[drv[v].s].stage, "cancelled"}
<1>0. drv[v].s \in Switches /\ row[drv[v].s].stage # "absent"
  BY TypeParts, Driving DEF TypeInv, Driven
<1>1. \A w \in Workers : drv[w].s = drv[v].s => w = v
  BY DEF Sole
<1>2. CASE row'[drv[v].s].stage = row[drv[v].s].stage
  BY <1>2
<1>3. CASE CancelDirect \/ CancelLocked
  BY <1>0, <1>3, CancelWrites
<1> QED BY <1>0, <1>1, <1>2, <1>3, StageSteps

\* Activations are recorded by the driver and by the startup reconciliation, with the
\* prompts of their process opened.
LEMMA ActivatedSteps ==
    ASSUME TypeInv, [Next]_switchVars, NEW s \in Switches, row'[s].activated,
           ~row[s].activated
    PROVE  row[s].stage = "committed" /\ \E w \in Workers : w \notin gate'
<1>0. RowTypeOK /\ DrvTypeOK /\ TaskTypeOK /\ CancelNames
  BY TypeParts DEF TypeInv, StoreTypeOK, RowTypeOK
<1>1. row' # row
  OBVIOUS
<1>2. ASSUME NEW t \in Switches, NEW x,
             \/ row' = [row EXCEPT ![t].stage = x]
             \/ row' = [row EXCEPT ![t].target = x]
             \/ row' = [row EXCEPT ![t].owner = x]
      PROVE  FALSE
  <2>1. CASE row' = [row EXCEPT ![t].stage = x]
    BY <1>0, <2>1 DEF RowTypeOK, RowRec
  <2>2. CASE row' = [row EXCEPT ![t].target = x]
    BY <1>0, <2>2 DEF RowTypeOK, RowRec
  <2>3. CASE row' = [row EXCEPT ![t].owner = x]
    BY <1>0, <2>3 DEF RowTypeOK, RowRec
  <2> QED BY <1>2, <2>1, <2>2, <2>3
<1>3. ASSUME NEW w \in Workers, DriverStep(w) PROVE row[s].stage = "committed" /\ w \notin gate'
  <2>0. drv[w].s \in Switches
    BY <1>0, <1>3, DriverRecord, Driving
  <2>1. CASE \/ LeaseLost(w) \/ ClaimRequested(w) \/ Dispatch(w) \/ Disown(w)
              \/ StabilizeTarget(w) \/ SettleActiveWork(w) \/ BeginWaiting(w) \/ Park(w)
              \/ Fence(w) \/ AdvanceToPreparing(w) \/ ProbeFenced(w) \/ EnsureCommitIdle(w)
              \/ Recheck(w) \/ ChooseStrategy(w)
    <3>1. \/ row' = row
          \/ \E x : \/ row' = [row EXCEPT ![drv[w].s].stage = x]
                    \/ row' = [row EXCEPT ![drv[w].s].target = x]
      BY <2>1 DEF LeaseLost, ClaimRequested, Dispatch, Disown, Supersede, SourceConflict,
         StabilizeTarget, SettleActiveWork, BeginWaiting, Park, Fence, AdvanceToPreparing,
         ProbeFenced, EnsureCommitIdle, Recheck, ChooseStrategy, storeVars, FinishWithoutCommit
    <3> QED BY <1>1, <1>2, <2>0, <3>1
  <2>2. CASE \/ BeginOperation(w) \/ ReconcileOperation(w) \/ Send(w) \/ Answer(w)
              \/ MarkSucceeded(w) \/ AdvanceToPrepared(w)
              \/ Revalidate(w) \/ AdvanceToCommitting(w) \/ Commit(w) \/ Revert(w)
              \/ ConfirmCommitted(w) \/ ReadFailed(w) \/ FailSwitch(w)
              \/ CleanUp(w)
    <3>1. row' = row \/ \E x : row' = [row EXCEPT ![drv[w].s].stage = x]
      BY <2>2 DEF BeginOperation, ReconcileOperation, Ambiguous, Send, Answer, MarkSucceeded,
         AdvanceToPrepared, Revalidate, AdvanceToCommitting, Commit, Revert, ConfirmCommitted,
         ReadFailed, FailSwitch, CleanUp, storeVars, FinishWithoutCommit
    <3> QED BY <1>1, <1>2, <2>0, <3>1
  <2>3. CASE Release(w)
    BY <1>2, <2>0, <2>3 DEF Release, Released
  <2>4. CASE Activate(w)
    <3>1. /\ row[drv[w].s].stage = "committed" /\ w \notin gate'
          /\ row' = [row EXCEPT ![drv[w].s].activated = TRUE]
      BY <1>1, <2>4 DEF Activate
    <3>2. drv[w].s = s
      BY <1>0, <3>1 DEF RowTypeOK
    <3> QED BY <3>1, <3>2
  <2> QED BY <1>3, <2>1, <2>2, <2>3, <2>4 DEF DriverStep
<1>4. CASE \/ UNCHANGED switchVars \/ EndTurn \/ \E r \in Runtimes : MaterializeCurrent(r)
  BY <1>1, <1>4 DEF switchVars, storeVars, EndTurn, MaterializeCurrent
<1>5. CASE CancelStep
  <2>1. can.s \in Switches
    BY <1>0, <1>5 DEF CancelStep, CancelDirect, CancelLease, CancelLocked, CancelRelease, CancelNames
  <2>2. \/ row' = row
        \/ row' = [row EXCEPT ![can.s].stage = "cancelled"]
        \/ \E o : row' = [row EXCEPT ![can.s].owner = o]
    BY <1>5 DEF CancelStep, CancelDirect, CancelLease, CancelLocked, CancelRelease,
       FinishWithoutCommit, TakeLease, Released
  <2> QED BY <1>1, <1>2, <2>1, <2>2
<1>6. ASSUME NEW w \in Workers,
             \/ BeginTurn(w) \/ Crash(w)
             \/ \E t \in Switches : Unwatch(w, t) \/ BeginCancel(w, t)
      PROVE  FALSE
  <2>1. CASE BeginTurn(w) \/ \E t \in Switches : Unwatch(w, t) \/ BeginCancel(w, t)
    BY <1>1, <2>1 DEF BeginTurn, Unwatch, BeginCancel, storeVars
  <2>2. CASE Crash(w)
    BY <1>0, <2>2 DEF Crash, RowTypeOK, RowRec
  <2> QED BY <1>6, <2>1, <2>2
<1>7. ASSUME NEW w \in Workers, FinishBoot(w) PROVE row[s].stage = "committed" /\ w \notin gate'
  <2>1. PICK done \in SUBSET {t \in boot[w].pending : row[t].stage = "committed"} :
          /\ row' = [t \in Switches |->
                       IF t \in done THEN [row[t] EXCEPT !.activated = TRUE] ELSE row[t]]
          /\ gate' = IF done = {} THEN gate ELSE gate \ {w}
    BY <1>7 DEF FinishBoot
  <2>2. s \in done
    BY <2>1
  <2> QED BY <2>1, <2>2
<1>8. ASSUME NEW w \in Workers,
             \/ \E r \in Runtimes : SelectRuntime(w, r)
             \/ \E r \in ForcedRuntimes : RequestSwitch(w, r)
      PROVE  FALSE
  <2>1. PICK t \in Switches : \E r, n, x, policy : NewRow(t, r, n, x, policy)
    BY <1>8 DEF SelectRuntime, RequestSwitch
  <2>2. row'[t].activated = FALSE /\ \A u \in Switches : u # t => row'[u] = row[u]
    BY <1>0, <2>1 DEF NewRow, RowTypeOK
  <2> QED BY <2>2
<1>9. ASSUME NEW w \in Workers, DriveNext(w) \/ \E t \in Switches : DriveSwitch(w, t)
      PROVE  FALSE
  <2>1. CASE DriveNext(w)
    <3>1. PICK t \in boot[w].left : UNCHANGED row \/ TakeLease(t, w)
      BY <2>1 DEF DriveNext
    <3>2. t \in Switches
      BY <1>0 DEF TaskTypeOK
    <3> QED BY <1>1, <1>2, <3>1, <3>2 DEF TakeLease
  <2>2. CASE \E t \in Switches : DriveSwitch(w, t)
    BY <1>2, <2>2 DEF DriveSwitch, TakeLease
  <2> QED BY <1>9, <2>1, <2>2
<1> QED BY <1>3, <1>4, <1>5, <1>6, <1>7, <1>8, <1>9 DEF Next

\* The other tasks close no prompts.  They open them after a cancellation, or with no driver
\* in the process, and a turn starts where prompts are open.
Opens ==
    /\ (CancelDirect /\ can.seen = "waiting") \/ (CancelLocked /\ Live(can.s))
    /\ FinishWithoutCommit(can.s, "cancelled")

LEMMA OtherGates ==
    ASSUME TypeInv, [Next]_switchVars, \A w \in Workers : ~DriverStep(w)
    PROVE  /\ gate' \subseteq gate
           /\ \A w \in gate : w \notin gate' => drv'[w].pc = "idle" \/ Opens
           /\ \A w \in Workers : drv[w].pc # "idle" /\ drv'[w] = Idle => w \notin gate'
           /\ busy' => busy \/ \E w \in Workers : w \notin gate /\ UNCHANGED <<row, gate, drv>>
<1>0. gate \in SUBSET Workers /\ drv \in [Workers -> DrvRec]
  BY TypeParts DEF TypeInv, SwitchTypeOK, DrvTypeOK
<1> DEFINE Goal == /\ gate' \subseteq gate
                   /\ \A w \in gate : w \notin gate' => drv'[w].pc = "idle" \/ Opens
                   /\ \A w \in Workers : drv[w].pc # "idle" /\ drv'[w] = Idle => w \notin gate'
                   /\ busy' => busy \/ \E w \in Workers : w \notin gate /\ UNCHANGED <<row, gate, drv>>
<1>1. ASSUME UNCHANGED gate, busy' => busy,
             \A w \in Workers : drv[w].pc # "idle" => drv'[w] # Idle
      PROVE  Goal
  BY <1>1
<1>2. Idle.pc = "idle"
  BY DEF Idle
<1> HIDE DEF Goal
<1> SUFFICES Goal
  BY DEF Goal
<1>3. CASE UNCHANGED switchVars \/ EndTurn \/ \E r \in Runtimes : MaterializeCurrent(r)
  BY <1>1, <1>2, <1>3 DEF switchVars, worldVars, taskVars, EndTurn, MaterializeCurrent
<1>4. CASE CancelLease \/ CancelRelease
  BY <1>1, <1>2, <1>4 DEF CancelLease, CancelRelease, worldVars
<1>5. CASE CancelDirect
  <2>1. /\ UNCHANGED <<busy, drv>>
        /\ \/ UNCHANGED gate
           \/ /\ can.seen = "waiting" /\ FinishWithoutCommit(can.s, "cancelled")
              /\ gate' = gate \ {can.w}
    BY <1>5 DEF CancelDirect
  <2> QED BY <1>2, <1>5, <2>1 DEF Goal, Opens
<1>6. CASE CancelLocked
  <2>1. /\ UNCHANGED <<busy, drv>>
        /\ \/ UNCHANGED gate
           \/ /\ Live(can.s) /\ FinishWithoutCommit(can.s, "cancelled")
              /\ gate' = gate \ {can.w}
    BY <1>6 DEF CancelLocked
  <2> QED BY <1>2, <1>6, <2>1 DEF Goal, Opens
<1>7. ASSUME NEW w \in Workers,
             \/ \E r \in Runtimes : SelectRuntime(w, r)
             \/ \E r \in ForcedRuntimes : RequestSwitch(w, r)
             \/ \E s \in Switches : Unwatch(w, s) \/ BeginCancel(w, s)
      PROVE  Goal
  BY <1>1, <1>2, <1>7 DEF SelectRuntime, RequestSwitch, Unwatch, BeginCancel, worldVars
<1>8. ASSUME NEW w \in Workers, DriveNext(w) \/ \E s \in Switches : DriveSwitch(w, s)
      PROVE  Goal
  <2>1. UNCHANGED <<gate, busy>>
    BY <1>8 DEF DriveNext, DriveSwitch, worldVars
  <2>2. \/ UNCHANGED drv
        \/ \E s : drv' = [drv EXCEPT ![w] = [Idle EXCEPT !.pc = "loop", !.s = s]]
    BY <1>8 DEF DriveNext, DriveSwitch
  <2>3. \A s : [Idle EXCEPT !.pc = "loop", !.s = s].pc = "loop"
    BY DEF Idle
  <2>4. \A v \in Workers : drv'[v] = drv[v] \/ drv'[v].pc = "loop"
    BY <1>0, <2>2, <2>3
  <2> QED BY <1>1, <1>2, <2>1, <2>4
<1>9. ASSUME NEW w \in Workers, BeginTurn(w) PROVE Goal
  <2>1. w \notin gate /\ UNCHANGED <<row, gate, drv>>
    BY <1>9 DEF BeginTurn, storeVars, taskVars
  <2> QED BY <1>2, <2>1 DEF Goal
<1>10. ASSUME NEW w \in Workers, FinishBoot(w) PROVE Goal
  <2>1. drv[w].pc = "idle" /\ UNCHANGED <<drv, busy>> /\ gate' \in {gate, gate \ {w}}
    BY <1>10 DEF FinishBoot, At
  <2> QED BY <1>2, <2>1 DEF Goal
<1>11. ASSUME NEW w \in Workers, Crash(w) PROVE Goal
  <2>1. drv' = [drv EXCEPT ![w] = Idle] /\ gate' = gate \ {w}
    BY <1>11 DEF Crash
  <2>2. busy' \in {FALSE, busy}
    BY <1>11 DEF Crash
  <2>3. busy' => busy
    BY <2>2
  <2>4. drv'[w] = Idle /\ \A v \in Workers : v # w => drv'[v] = drv[v]
    BY <1>0, <2>1
  <2> QED BY <1>2, <2>1, <2>3, <2>4 DEF Goal
<1> QED BY <1>3, <1>4, <1>5, <1>6, <1>7, <1>8, <1>9, <1>10, <1>11 DEF Next, CancelStep


-----------------------------------------------------------------------------
(* One process: its prompt gate and its turns. *)

OneProcess == \A v, w \in Workers : v = w

\* A cancellation that opens prompts has a switch that was claimed.
Cancelling == can.pc \in {"lease", "locked"} \/ (can.pc = "direct" /\ can.seen = "waiting")
CancelsClaimed == Cancelling => row[can.s].stage \notin {"absent", "requested"}

TrackInv ==
    /\ EndInv /\ ActivatedCommitted /\ AtDirect /\ CancelsClaimed
    /\ \A w \in Workers : Tracks(w) /\ Quiet(w)

LEMMA ActivatedStep ==
    ASSUME TypeInv, AtCommit, ActivatedCommitted, [Next]_switchVars
    PROVE  ActivatedCommitted'
<1> SUFFICES ASSUME NEW s \in Switches, row'[s].activated PROVE row'[s].stage = "committed"
  BY DEF ActivatedCommitted
<1>1. row[s].stage = "committed"
  BY ActivatedSteps DEF ActivatedCommitted
<1> QED BY <1>1, EndStays DEF Terminal

LEMMA CancelsStep ==
    ASSUME RowsInv, CancelsClaimed, [Next]_switchVars
    PROVE  CancelsClaimed'
<1> SUFFICES ASSUME Cancelling' PROVE row'[can'.s].stage \notin {"absent", "requested"}
  BY DEF CancelsClaimed
<1>0. TypeInv /\ can \in CanRec /\ CancelNames
  BY TypeParts DEF RowsInv, RowInv, TypeInv, TaskTypeOK, CanRec
<1>1. CASE can'.s = can.s /\ Cancelling
  <2>1. can.s \in Switches /\ row[can.s].stage \notin {"absent", "requested"}
    BY <1>0, <1>1 DEF CancelNames, Cancelling, CancelsClaimed
  <2> QED BY <1>1, <2>1, RequestedOnce
<1>2. CASE can' = can
  BY <1>1, <1>2 DEF Cancelling
<1>3. NoCancel.pc = "idle"
  BY DEF NoCancel
<1>4. can' # NoCancel
  BY <1>3 DEF Cancelling
<1>5. CASE CancelStep
  <2>1. \/ can.pc = "lease" /\ can' = [can EXCEPT !.pc = "locked"]
        \/ can' = [can EXCEPT !.pc = "release"]
    BY <1>4, <1>5 DEF CancelStep, CancelDirect, CancelLease, CancelLocked, CancelRelease
  <2>2. can' # [can EXCEPT !.pc = "release"]
    BY <1>0 DEF Cancelling, CanRec
  <2>3. can'.s = can.s /\ Cancelling
    BY <1>0, <2>1, <2>2 DEF Cancelling, CanRec
  <2> QED BY <1>1, <2>3
<1>6. CASE \/ UNCHANGED switchVars \/ EndTurn \/ \E r \in Runtimes : MaterializeCurrent(r)
  BY <1>2, <1>6 DEF switchVars, taskVars, EndTurn, MaterializeCurrent
<1>7. ASSUME NEW w \in Workers,
             \/ DriverStep(w) \/ DriveNext(w) \/ FinishBoot(w) \/ BeginTurn(w)
             \/ \E r \in Runtimes : SelectRuntime(w, r)
             \/ \E r \in ForcedRuntimes : RequestSwitch(w, r)
             \/ \E s \in Switches : DriveSwitch(w, s) \/ Unwatch(w, s)
      PROVE  can' = can
  <2>1. CASE DriverStep(w)
    BY <2>1, DriverFrame
  <2> QED BY <1>7, <2>1 DEF DriveNext, FinishBoot, BeginTurn, SelectRuntime, RequestSwitch,
          DriveSwitch, Unwatch, taskVars
<1>8. ASSUME NEW w \in Workers, Crash(w) PROVE can' = can
  BY <1>4, <1>8 DEF Crash
<1>9. ASSUME NEW w \in Workers, NEW s \in Switches, BeginCancel(w, s)
      PROVE  row'[can'.s].stage \notin {"absent", "requested"}
  <2>1. /\ can' = [pc |-> IF row[s].stage \in {"requested", "waiting"} THEN "direct" ELSE "lease",
                   s |-> s, w |-> w, seen |-> row[s].stage]
        /\ UNCHANGED row /\ Live(s)
    BY <1>9 DEF BeginCancel, storeVars
  <2>2. row[s].stage # "requested"
    BY <2>1 DEF Cancelling
  <2> QED BY <2>1, <2>2 DEF Live, Held
<1> QED BY <1>2, <1>5, <1>6, <1>7, <1>8, <1>9 DEF Next

\* A cancellation that opens the prompts of a driver has cancelled its switch.
LEMMA OpensCancelled ==
    ASSUME TypeInv, SlotHeld, AtDirect, CancelsClaimed, Opens, NEW s \in Switches,
           row[s].stage \in Held
    PROVE  row'[s].stage = "cancelled"
<1>1. can.s \in Switches /\ RowTypeOK /\ can.pc \in {"direct", "locked"} /\ Cancelling
  BY TypeParts DEF Opens, CancelDirect, CancelLocked, TypeInv, CancelNames, StoreTypeOK,
     RowTypeOK, Cancelling
<1>2. row' = [row EXCEPT ![can.s].stage = "cancelled"]
  BY DEF Opens, FinishWithoutCommit
<1>3. row[can.s].stage # "cancelled"
  BY DEF Opens, AtDirect, CancelDirect, Live, Held
<1>4. CanTransition(row[can.s].stage, "cancelled")
  BY <1>3 DEF Opens, FinishWithoutCommit
<1>5. row[can.s].stage \in Held
  BY <1>1, <1>4 DEF CanTransition, CancelsClaimed
<1>6. can.s = s
  BY <1>1, <1>5 DEF SlotHeld
<1> QED BY <1>1, <1>2, <1>6 DEF RowTypeOK, RowRec

\* A driver that relies on a stage and lives on has claimed its switch.
LEMMA QuietHeld ==
    ASSUME NEW d, NEW x, OnTrack(d, x),
           \/ d.pc \in {"revalidate", "committing", "commit"}
           \/ Resuming(d) /\ d.then = "revalidate"
    PROVE  x \in Held
  BY DEF OnTrack, Held

\* A step of another task, seen from a driver.
LEMMA OthersQuiet ==
    ASSUME OneProcess, TrackInv, [Next]_switchVars, NEW w \in Workers,
           \A v \in Workers : ~DriverStep(v)
    PROVE  Tracks(w)' /\ Quiet(w)'
<1>0. /\ TypeInv /\ Driven /\ SlotHeld /\ Sole /\ AtDirect /\ CancelsClaimed /\ AtCommit
      /\ Tracks(w) /\ Quiet(w)
  BY DEF TrackInv, EndInv, RowsInv, RowInv, Sole, OneProcess
<1>1. CASE drv'[w].pc \in {"idle", "loop"}
  BY <1>1 DEF Tracks, OnTrack, Quiet, Resuming, OpPcs
<1>2. CASE drv'[w] = drv[w] /\ drv[w].pc # "idle"
  <2> DEFINE s == drv[w].s
             x == row[s].stage
  <2>1. s \in Switches
    BY <1>0, <1>2, TypeParts, Driving DEF TypeInv
  <2>2. row'[s].stage \in {x, "cancelled"}
    BY <1>0, <1>2, OthersStage
  <2>3. CASE row'[s].stage = "cancelled"
    BY <1>2, <2>3 DEF Tracks, Quiet, Live, Held
  <2>4. CASE row'[s].stage = x /\ x # "cancelled"
    <3>1. OnTrack(drv[w], x)
      BY <1>0, <2>4 DEF Tracks
    <3>2. Tracks(w)'
      BY <1>2, <2>4, <3>1 DEF Tracks
    <3>3. CASE \/ drv[w].pc \in {"revalidate", "committing", "commit"}
               \/ Resuming(drv[w]) /\ drv[w].then = "revalidate"
      <4>1. x \in Held
        BY <3>1, <3>3, QuietHeld
      <4>2. w \in gate /\ (drv[w].pc \in {"revalidate", "committing", "commit"} => ~busy)
        BY <1>0, <3>3, <4>1 DEF Quiet, Live
      <4>3. ~Opens
        BY <1>0, <2>1, <2>4, <4>1, OpensCancelled
      <4>4. w \in gate'
        BY <1>0, <1>2, <4>2, <4>3, OtherGates
      <4>5. busy' => busy
        BY <1>0, <4>2, OtherGates DEF OneProcess
      <4> QED BY <1>2, <3>2, <4>2, <4>4, <4>5 DEF Quiet
    <3>4. CASE ~(\/ drv[w].pc \in {"revalidate", "committing", "commit"}
                 \/ Resuming(drv[w]) /\ drv[w].then = "revalidate")
      BY <1>2, <3>2, <3>4 DEF Quiet
    <3> QED BY <3>3, <3>4
  <2> QED BY <2>2, <2>3, <2>4
<1>3. \/ drv'[w] = drv[w] \/ drv'[w] = Idle
      \/ \E t \in Switches : drv'[w] = [Idle EXCEPT !.pc = "loop", !.s = t]
  BY <1>0, OtherRecords
<1>4. Idle.pc = "idle" /\ \A t : [Idle EXCEPT !.pc = "loop", !.s = t].pc = "loop"
  BY DEF Idle
<1> QED BY <1>1, <1>2, <1>3, <1>4

LEMMA TrackStep == OneProcess /\ TrackInv /\ [Next]_switchVars => TrackInv'
<1> SUFFICES ASSUME OneProcess, TrackInv, [Next]_switchVars PROVE TrackInv'
  OBVIOUS
<1>0. RowsInv /\ TypeInv /\ AtCommit /\ ActivatedCommitted /\ OneAtATime
  BY DEF TrackInv, EndInv, RowsInv, RowInv, OneProcess, OneAtATime
<1>1. EndInv'
  BY <1>0, EndStep DEF TrackInv
<1>2. ActivatedCommitted' /\ AtDirect' /\ CancelsClaimed'
  BY <1>0, ActivatedStep, DirectStep, CancelsStep DEF TrackInv
<1>3. ASSUME NEW w \in Workers PROVE Tracks(w)' /\ Quiet(w)'
  <2>1. CASE DriverStep(w)
    BY <1>0, <2>1, DriverTracks DEF TrackInv, TrackGoal
  <2>2. CASE ~DriverStep(w)
    BY <2>2, OthersQuiet DEF OneProcess
  <2> QED BY <2>1, <2>2
<1> QED BY <1>1, <1>2, <1>3 DEF TrackInv

LEMMA TrackInit == Init => TrackInv
<1> SUFFICES ASSUME Init PROVE TrackInv
  OBVIOUS
<1>1. ActivatedCommitted
  BY DEF Init, ActivatedCommitted
<1>2. AtDirect /\ CancelsClaimed
  BY DEF Init, AtDirect, CancelsClaimed, Cancelling, NoCancel
<1>3. \A w \in Workers : drv[w].pc = "idle"
  BY DEF Init, Idle
<1>4. \A w \in Workers : Tracks(w) /\ Quiet(w)
  BY <1>3 DEF Tracks, OnTrack, Quiet, Resuming, OpPcs
<1> QED BY <1>1, <1>2, <1>4, EndInit DEF TrackInv

\* The revision of the session moves with the commit.
LEMMA RevisionSteps ==
    ASSUME TypeInv, [Next]_switchVars, ses'.revision # ses.revision
    PROVE  \E w \in Workers : Commit(w)
<1>0. ses \in SesRec
  BY TypeParts DEF TypeInv, StoreTypeOK
<1>1. ses' # ses
  OBVIOUS
<1>2. \A s, x : ~FinishWithoutCommit(s, x)
  BY <1>0 DEF FinishWithoutCommit, SesRec
<1>3. ASSUME NEW w \in Workers, DriverStep(w) PROVE Commit(w)
  <2>1. \/ \E x : ses' = [ses EXCEPT !.pending = x]
        \/ \E s, x : ses' = Projected(s, x)
        \/ Commit(w)
    BY <1>1, <1>2, <1>3, DriverRows DEF ClaimRequested, StabilizeTarget, BeginWaiting,
       AdvanceToPreparing, AdvanceToPrepared, AdvanceToCommitting, Revert, ConfirmCommitted
  <2>2. \A x : ses' # [ses EXCEPT !.pending = x]
    BY <1>0 DEF SesRec
  <2>3. \A s, x : ses' # Projected(s, x)
    BY <1>0 DEF SesRec, Projected
  <2> QED BY <2>1, <2>2, <2>3
<1>4. \A r : ~MaterializeCurrent(r)
  BY <1>0 DEF MaterializeCurrent, SesRec
<1>5. \A w, r : ~SelectRuntime(w, r)
  BY <1>0 DEF SelectRuntime, SesRec
<1>6. \A w, r : ~RequestSwitch(w, r)
  BY <1>0 DEF RequestSwitch, SesRec
<1> QED BY <1>1, <1>2, <1>3, <1>4, <1>5, <1>6, OtherRows

\* With one process on the database, no runtime is exchanged under a running turn: the
\* prompts that ensure_commit_idle closed stay closed until the commit, whatever crash,
\* cancellation or lost lease comes between, and the work is looked for behind them.
THEOREM CommitsWhenIdle == OneProcess => (Spec => CommitIsIdle)
<1> SUFFICES ASSUME OneProcess PROVE Spec => CommitIsIdle
  OBVIOUS
<1>1. TrackInv /\ [Next]_switchVars => TrackInv'
  BY TrackStep
<1>2. TrackInv /\ [Next]_switchVars => [ses'.revision # ses.revision => ~busy]_switchVars
  <2> SUFFICES ASSUME TrackInv, [Next]_switchVars, ses'.revision # ses.revision PROVE ~busy
    OBVIOUS
  <2>1. PICK w \in Workers : Commit(w)
    BY RevisionSteps DEF TrackInv, EndInv, RowsInv, RowInv
  <2>2. drv[w].pc = "commit" /\ row[drv[w].s].stage = "committing"
    BY <2>1 DEF Commit, TrackInv, EndInv, AtCommit, At
  <2> QED BY <2>2 DEF TrackInv, Quiet, Live, Held
<1> QED BY <1>1, <1>2, TrackInit, PTL DEF Spec, CommitIsIdle

-----------------------------------------------------------------------------
(* Prompts that stay closed. *)

ShutInv == TrackInv /\ \A w \in Workers : Shut(w)

\* What explains closed prompts lasts as long as they are closed.
LEMMA ExplainedStays ==
    ASSUME OneProcess, TypeInv, AtCommit, Explained, [Next]_switchVars,
           NEW w \in Workers, w \in gate'
    PROVE  Explained'
<1>1. PICK s \in Switches : Explains(row[s])
  BY DEF Explained
<1>2. row'[s].stage = row[s].stage
  BY <1>1, EndStays DEF Explains, Terminal
<1>3. row'[s].activated => row[s].activated
  BY ActivatedSteps DEF OneProcess
<1>4. Explains(row'[s])
  BY <1>1, <1>2, <1>3 DEF Explains
<1> QED BY <1>4 DEF Explained

LEMMA ShutStep == OneProcess /\ MaxStalls = 0 /\ ShutInv /\ [Next]_switchVars => ShutInv'
<1> SUFFICES ASSUME OneProcess, MaxStalls = 0, ShutInv, [Next]_switchVars PROVE ShutInv'
  OBVIOUS
<1>0. /\ TypeInv /\ Driven /\ Sole /\ AtCommit /\ ActivatedCommitted /\ LeaseHeld
      /\ \A w \in Workers : Tracks(w) /\ Quiet(w)
  BY DEF ShutInv, TrackInv, EndInv, RowsInv, RowInv, Sole, OneProcess
<1>1. TrackInv'
  BY TrackStep DEF ShutInv
<1>2. ASSUME NEW w \in Workers, w \in gate'
      PROVE  Explained' \/ Guards(drv'[w], row'[drv'[w].s].stage)
  <2>1. CASE Explained
    BY <1>0, <1>2, <2>1, ExplainedStays
  <2>2. ASSUME drv[w].s \in Switches, Explains(row'[drv[w].s]) PROVE Explained'
    BY <2>2 DEF Explained
  <2>3. CASE DriverStep(w) /\ ~Explained
    <3>1. drv[w].pc # "idle" /\ (drv'[w].pc = "idle" \/ drv'[w].s = drv[w].s)
      BY <1>0, <2>3, DriverRecord
    <3>2. drv[w].s \in Switches /\ Holds(w)
      BY <1>0, <3>1, TypeParts, Driving DEF TypeInv, LeaseHeld, Holds
    <3>3. Explains(row'[drv[w].s]) \/ Guards(drv'[w], row'[drv[w].s].stage)
      BY <1>0, <1>2, <2>3, <3>2, DriverTracks DEF TrackGoal, ShutInv
    <3> QED BY <2>2, <3>1, <3>2, <3>3 DEF Guards
  <2>4. CASE ~DriverStep(w) /\ ~Explained
    <3>0. \A v \in Workers : ~DriverStep(v)
      BY <2>4 DEF OneProcess
    <3>1. w \in gate
      BY <1>0, <1>2, <3>0, OtherGates
    <3>2. Guards(drv[w], row[drv[w].s].stage)
      BY <2>4, <3>1 DEF ShutInv, Shut
    <3>3. drv[w].pc # "idle"
      BY <3>2 DEF Guards
    <3>4. drv'[w] = drv[w]
      BY <1>0, <1>2, <3>0, <3>3, OtherGates, OtherRecords
    <3>5. drv[w].s \in Switches /\ row'[drv[w].s].stage \in {row[drv[w].s].stage, "cancelled"}
      BY <1>0, <2>4, <3>3, OthersStage, TypeParts, Driving DEF TypeInv
    <3>6. CASE row'[drv[w].s].stage = "cancelled"
      BY <2>2, <3>5, <3>6 DEF Explains
    <3> QED BY <3>2, <3>4, <3>5, <3>6
  <2> QED BY <2>1, <2>3, <2>4
<1> QED BY <1>1, <1>2 DEF ShutInv, Shut

\* With one process whose leases nobody takes over, a process that drives nothing keeps
\* prompts closed only behind a commit whose activation failed or after a cancellation:
\* every other way out of the saga, from each place an error can occur at, opens them again.
THEOREM ClosedPromptsExplained ==
    OneProcess /\ MaxStalls = 0 => (Spec => []ClosedIsExplained)
<1> SUFFICES ASSUME OneProcess, MaxStalls = 0 PROVE Spec => []ClosedIsExplained
  OBVIOUS
<1>1. Init => ShutInv
  <2> SUFFICES ASSUME Init PROVE ShutInv
    OBVIOUS
  <2>1. \A w \in Workers : Shut(w)
    BY DEF Init, Shut
  <2> QED BY <2>1, TrackInit DEF ShutInv
<1>2. ShutInv /\ [Next]_switchVars => ShutInv'
  BY ShutStep
<1>3. ShutInv => ClosedIsExplained
  <2> SUFFICES ASSUME ShutInv, NEW w \in gate, At(w, "idle")
               PROVE  \E s \in Switches : \/ row[s].stage = "committed" /\ ~row[s].activated
                                          \/ row[s].stage = "cancelled"
    BY DEF ClosedIsExplained
  <2>1. w \in Workers
    BY DEF ShutInv, TrackInv, EndInv, RowsInv, RowInv, TypeInv, SwitchTypeOK
  <2>2. Explained
    BY <2>1 DEF ShutInv, Shut, Guards, At
  <2> QED BY <2>2 DEF Explained, Explains
<1> QED BY <1>1, <1>2, <1>3, PTL DEF Spec


=============================================================================
