----------------------- MODULE RuntimeSelectionProofs -----------------------
(***************************************************************************)
(* What the transactions on the runtime selection preserve, for every set  *)
(* of runtimes and switches: the shape of the rows, that the pending slot  *)
(* and the claimed switch agree, and that a desired runtime the session is *)
(* not on has a switch under way.                                          *)
(***************************************************************************)
EXTENDS RuntimeSelection, FiniteSetTheorems, WellFoundedInduction, TLAPS

-----------------------------------------------------------------------------
(* Least and greatest natural numbers. *)

LessThan == {p \in Nat \X Nat : p[1] < p[2]}

\* A non-empty set of natural numbers has a least element.
LEMMA NatMin ==
    ASSUME NEW T, T \subseteq Nat, T # {}
    PROVE  \E x \in T : \A y \in T : x <= y
<1>1. IsWellFoundedOn(LessThan, Nat)
  BY NatLessThanWellFounded DEF OpToRel, LessThan
<1>2. PICK x \in T : \A y \in T : ~ (<<y, x>> \in LessThan)
  BY <1>1, WFMin
<1>3. ASSUME NEW y \in T PROVE x <= y
  <2>1. x \in Nat /\ y \in Nat
    OBVIOUS
  <2>2. y < x => <<y, x>> \in LessThan
    BY <2>1 DEF LessThan
  <2> QED BY <1>2, <2>1, <2>2
<1> QED BY <1>3

\* A non-empty bounded set of natural numbers has a greatest element.
LEMMA NatMax ==
    ASSUME NEW T, T \subseteq Nat, T # {}, NEW n \in Nat, \A x \in T : x <= n
    PROVE  \E u \in T : \A x \in T : x <= u
<1> DEFINE U == {u \in Nat : \A x \in T : x <= u}
<1>1. PICK u \in U : \A v \in U : u <= v
  <2>1. n \in U
    OBVIOUS
  <2>2. U \subseteq Nat /\ U # {}
    BY <2>1
  <2> HIDE DEF U
  <2> QED BY <2>2, NatMin
<1>2. u \in T
  <2>1. SUFFICES ASSUME u \notin T PROVE FALSE
    OBVIOUS
  <2>2. \A x \in T : x <= u - 1
    BY <1>1, <2>1
  <2>3. u # 0
    <3>1. PICK t \in T : t <= u /\ t # u /\ t \in Nat
      BY <1>1, <2>1
    <3> QED BY <3>1, <1>1
  <2>4. u - 1 \in U
    BY <1>1, <2>2, <2>3
  <2> QED BY <1>1, <2>4
<1> QED BY <1>1, <1>2

-----------------------------------------------------------------------------
(* The selection and its switches. *)

\* The creation numbers of the switches have a bound, so there is a newest one.
CreatedBounded == \E n \in Nat : \A s \in Switches : sw[s].created <= n

SelectionInv == SelectionTypeOK /\ CreatedBounded /\ SlotIsClaimed

\* A session starts on its initial runtime with a free slot and no switch.
LEMMA SelectionStarts == SelectionInit => SelectionInv
<1> SUFFICES ASSUME SelectionInit PROVE SelectionInv
  OBVIOUS
<1>1. SelectionTypeOK
  BY SelectionAssumption DEF SelectionInit, SelectionTypeOK, Selection, SwitchRow, SelectionStatus,
     SwitchStatus
<1>2. CreatedBounded
  <2>1. \A s \in Switches : sw[s].created <= 0
    BY DEF SelectionInit
  <2> QED BY <2>1 DEF CreatedBounded
<1>3. SlotIsClaimed
  BY SelectionAssumption DEF SelectionInit, SlotIsClaimed
<1> QED BY <1>1, <1>2, <1>3 DEF SelectionInv

\* Of some switches one is the newest.
LEMMA NewestExists ==
    ASSUME SelectionInv, NEW S \in SUBSET Switches, S # {}
    PROVE  Newest(S) \in S
<1> DEFINE C == {sw[s].created : s \in S}
<1>1. C \subseteq Nat /\ C # {}
  BY DEF SelectionInv, SelectionTypeOK, SwitchRow
<1>2. PICK n \in Nat : \A x \in C : x <= n
  BY DEF SelectionInv, CreatedBounded
<1>3. PICK m \in C : \A x \in C : x <= m
  <2> HIDE DEF C
  <2> QED BY <1>1, <1>2, NatMax
<1>4. \E s \in S : \A t \in S : sw[t].created <= sw[s].created
  BY <1>3
<1> QED BY <1>4 DEF Newest

\* The newest switch of a set is one of the set.
LEMMA NewestIsOne ==
    ASSUME SelectionInv, NEW S \in SUBSET Switches
    PROVE  Newest(S) \in S \cup {NoSwitch}
  BY NewestExists DEF Newest

\* What get_selection_state reports is a selection state.
LEMMA ViewIsSelection ==
    ASSUME SelectionInv
    PROVE  View \in Selection /\ \A by : SwitchOf(by) \in Switches \cup {NoSwitch}
<1>1. LatestIntent \in Switches \cup {NoSwitch}
  BY NewestIsOne DEF LatestIntent, Used
<1>2. \A by : SwitchOf(by) \in Switches \cup {NoSwitch}
  BY NewestIsOne DEF SwitchOf, Used
<1>3. /\ ReportedPending \in Switches \cup {NoSwitch}
      /\ ReportedStatus \in SelectionStatus
  BY <1>1 DEF ReportedPending, ReportedStatus, SelectionStatus, SelectionInv, SelectionTypeOK, Selection
<1>4. View \in Selection
  BY <1>3 DEF View, SelectionInv, SelectionTypeOK, Selection
<1> QED BY <1>2, <1>4

\* A new switch row keeps the shape of the rows and the bound.
LEMMA NewSwitchKeeps ==
    ASSUME SelectionInv, NEW s \in Switches, NEW r \in Runtimes, NEW n \in Nat,
           NEW status \in SwitchStatus, NEW by \in Requesters \cup {NoRequester},
           NewSwitch(s, r, n, status, by)
    PROVE  /\ sw' \in [Switches -> SwitchRow]
           /\ CreatedBounded'
           /\ sw'[s].status = status
           /\ \A t \in Switches : t # s => sw'[t] = sw[t]
<1> DEFINE c == Cardinality(Used) + 1
           row == [status |-> status, target |-> r, sourceRevision |-> sel.revision,
                   selRevision |-> n, created |-> c, by |-> by]
<1>1. c \in Nat
  <2>1. IsFiniteSet(Used)
    BY SelectionAssumption, FS_Subset DEF Used
  <2> QED BY <2>1, FS_CardinalityType
<1>2. sw' = [sw EXCEPT ![s] = row]
  BY DEF NewSwitch
<1>3. row \in SwitchRow /\ row.created = c /\ row.status = status
  <2> HIDE DEF c
  <2> QED BY <1>1 DEF SwitchRow, SelectionInv, SelectionTypeOK, Selection
<1> HIDE DEF row, c
<1>4. /\ sw' \in [Switches -> SwitchRow] /\ sw'[s] = row
      /\ \A t \in Switches : t # s => sw'[t] = sw[t]
  BY <1>2, <1>3 DEF SelectionInv, SelectionTypeOK
<1>5. CreatedBounded'
  <2>1. PICK m \in Nat : \A t \in Switches : sw[t].created <= m
    BY DEF SelectionInv, CreatedBounded
  <2>2. \A t \in Switches : sw[t].created \in Nat
    BY DEF SelectionInv, SelectionTypeOK, SwitchRow
  <2>3. m + c \in Nat /\ \A t \in Switches : sw'[t].created <= m + c
    BY <1>1, <1>3, <1>4, <2>1, <2>2
  <2> QED BY <2>3 DEF CreatedBounded
<1> QED BY <1>3, <1>4, <1>5

\* A transaction that only changes the status of a switch keeps the shape of the rows.
LEMMA SwitchStatusKeeps ==
    ASSUME SelectionInv, NEW s \in Switches, NEW status \in SwitchStatus,
           sw' = [sw EXCEPT ![s].status = status]
    PROVE  /\ sw' \in [Switches -> SwitchRow]
           /\ CreatedBounded'
           /\ sw'[s].status = status
           /\ \A t \in Switches : t # s => sw'[t] = sw[t]
<1>1. /\ sw' \in [Switches -> SwitchRow]
      /\ sw'[s].status = status
      /\ \A t \in Switches : t # s => sw'[t] = sw[t]
  BY DEF SelectionInv, SelectionTypeOK, SwitchRow
<1>2. \A t \in Switches : sw'[t].created = sw[t].created
  BY DEF SelectionInv, SelectionTypeOK, SwitchRow
<1> QED BY <1>1, <1>2 DEF SelectionInv, CreatedBounded

\* set_desired_runtime: a new intent claims nothing.
LEMMA EnqueueDesiredKeeps ==
    ASSUME SelectionInv, NEW r \in Runtimes, NEW by \in Requesters \cup {NoRequester},
           EnqueueDesired(r, by)
    PROVE  SelectionInv'
<1>1. PICK s \in Switches : /\ sw[s].status = "absent"
                            /\ NewSwitch(s, r, sel.selRevision + 1, "requested", by)
  BY DEF EnqueueDesired
<1>2. sel.selRevision + 1 \in Nat /\ "requested" \in SwitchStatus
  BY DEF SelectionInv, SelectionTypeOK, Selection, SwitchStatus, LiveSwitchStatus
<1>3. /\ sw' \in [Switches -> SwitchRow] /\ CreatedBounded' /\ sw'[s].status = "requested"
      /\ \A t \in Switches : t # s => sw'[t] = sw[t]
  BY <1>1, <1>2, NewSwitchKeeps
<1>4. sel' \in Selection /\ sel'.pending = sel.pending
  <2>1. sel \in Selection /\ "preparing" \in SelectionStatus
    BY DEF SelectionInv, SelectionTypeOK, SelectionStatus
  <2>2. sel' = [sel EXCEPT !.desired = r, !.status = "preparing",
                          !.selRevision = sel.selRevision + 1]
    BY <2>1 DEF EnqueueDesired, Selection
  <2> QED BY <1>2, <2>1, <2>2 DEF Selection
<1>5. SlotIsClaimed'
  BY <1>1, <1>3, <1>4 DEF SelectionInv, SlotIsClaimed
<1> QED BY <1>3, <1>4, <1>5 DEF SelectionInv, SelectionTypeOK

\* Re-materialising the current binding only clears the failure.
LEMMA MaterializeCurrentKeeps ==
    ASSUME SelectionInv, NEW r, MaterializeCurrent(r)
    PROVE  SelectionInv'
<1>1. sel' \in Selection /\ sel'.pending = sel.pending /\ sw' = sw
  BY DEF MaterializeCurrent, SelectionInv, SelectionTypeOK, Selection, SelectionStatus
<1> QED BY <1>1 DEF SelectionInv, SelectionTypeOK, CreatedBounded, SlotIsClaimed

\* request_switch: the new switch takes the slot it found free.
LEMMA ReserveKeeps ==
    ASSUME SelectionInv, NEW r \in Runtimes, NEW n \in Nat,
           NEW by \in Requesters \cup {NoRequester}, Reserve(r, n, by)
    PROVE  SelectionInv'
<1>1. PICK s \in Switches : /\ sw[s].status = "absent"
                            /\ NewSwitch(s, r, n, "claimed", by)
                            /\ sel' = [sel EXCEPT !.pending = s]
  BY DEF Reserve
<1>2. "claimed" \in SwitchStatus
  BY DEF SwitchStatus, LiveSwitchStatus
<1>3. /\ sw' \in [Switches -> SwitchRow] /\ CreatedBounded' /\ sw'[s].status = "claimed"
      /\ \A t \in Switches : t # s => sw'[t] = sw[t]
  BY <1>1, <1>2, NewSwitchKeeps
<1>4. sel' \in Selection /\ sel'.pending = s
  BY <1>1 DEF SelectionInv, SelectionTypeOK, Selection
<1>5. SlotIsClaimed'
  BY <1>1, <1>3, <1>4, SelectionAssumption DEF SelectionInv, SlotIsClaimed, Reserve
<1> QED BY <1>3, <1>4, <1>5 DEF SelectionInv, SelectionTypeOK

\* claim_requested: the slot is taken only when it is free, and a stale intent that
\* is superseded never held it.
LEMMA ClaimKeeps ==
    ASSUME SelectionInv, NEW s \in Switches, ClaimRequested(s)
    PROVE  SelectionInv'
<1>1. {"claimed", "superseded"} \subseteq SwitchStatus
  BY DEF SwitchStatus, LiveSwitchStatus, EndedSwitchStatus
<1>2. CASE UNCHANGED sel /\ sw' = [sw EXCEPT ![s].status = "superseded"]
  <2>1. /\ sw' \in [Switches -> SwitchRow] /\ CreatedBounded' /\ sw'[s].status = "superseded"
        /\ \A t \in Switches : t # s => sw'[t] = sw[t]
    BY <1>1, <1>2, SwitchStatusKeeps
  <2>2. SlotIsClaimed'
    BY <1>2, <2>1 DEF ClaimRequested, SelectionInv, SlotIsClaimed
  <2> QED BY <1>2, <2>1, <2>2 DEF SelectionInv, SelectionTypeOK
<1>3. CASE /\ sel.pending \in {NoSwitch, s} /\ sel' = [sel EXCEPT !.pending = s]
           /\ sw' = [sw EXCEPT ![s].status = "claimed"]
  <2>1. /\ sw' \in [Switches -> SwitchRow] /\ CreatedBounded' /\ sw'[s].status = "claimed"
        /\ \A t \in Switches : t # s => sw'[t] = sw[t]
    BY <1>1, <1>3, SwitchStatusKeeps
  <2>2. sel' \in Selection /\ sel'.pending = s
    BY <1>3 DEF SelectionInv, SelectionTypeOK, Selection
  <2>3. SlotIsClaimed'
    BY <1>3, <2>1, <2>2, SelectionAssumption DEF SelectionInv, SlotIsClaimed
  <2> QED BY <2>1, <2>2, <2>3 DEF SelectionInv, SelectionTypeOK
<1> QED BY <1>2, <1>3 DEF ClaimRequested

\* A switch that ends gives its slot back and takes nobody else's.
LEMMA EndedKeeps ==
    ASSUME SelectionInv, NEW s \in Switches, NEW status \in EndedSwitchStatus,
           sw' = [sw EXCEPT ![s].status = status], sel' \in Selection,
           sel'.pending = SlotReleased(s)
    PROVE  SelectionInv'
<1>1. status \in SwitchStatus /\ status # "claimed"
  BY DEF SwitchStatus, EndedSwitchStatus
<1>2. /\ sw' \in [Switches -> SwitchRow] /\ CreatedBounded' /\ sw'[s].status = status
      /\ \A t \in Switches : t # s => sw'[t] = sw[t]
  BY <1>1, SwitchStatusKeeps
<1>3. SlotIsClaimed'
  BY <1>1, <1>2, SelectionAssumption DEF SelectionInv, SlotIsClaimed, SlotReleased
<1> QED BY <1>2, <1>3 DEF SelectionInv, SelectionTypeOK

\* finish_without_commit, whatever the outcome.
LEMMA FinishKeeps ==
    ASSUME SelectionInv, NEW s \in Switches, NEW outcome \in EndedSwitchStatus,
           FinishWithoutCommit(s, outcome)
    PROVE  SelectionInv'
<1>1. SlotReleased(s) \in Switches \cup {NoSwitch} /\ DesiredAfter(s, outcome) \in Runtimes
  BY DEF SlotReleased, DesiredAfter, SelectionInv, SelectionTypeOK, Selection
<1>2. sel' \in Selection /\ sel'.pending = SlotReleased(s)
  BY <1>1 DEF FinishWithoutCommit, SelectionInv, SelectionTypeOK, Selection, SelectionStatus
<1> QED BY <1>2, EndedKeeps DEF FinishWithoutCommit

\* commit: the committed switch held the slot, and a superseded one gives it back.
LEMMA CommitKeeps ==
    ASSUME SelectionInv, NEW s \in Switches, Commit(s)
    PROVE  SelectionInv'
<1>1. {"committed", "superseded"} \subseteq EndedSwitchStatus
  BY DEF EndedSwitchStatus
<1>2. sw[s].target \in Runtimes
  BY DEF SelectionInv, SelectionTypeOK, SwitchRow
<1>3. sel' \in Selection /\ sel'.pending = SlotReleased(s)
  <2>1. sel \in Selection /\ "ready" \in SelectionStatus /\ sel.revision + 1 \in Nat
    BY DEF SelectionInv, SelectionTypeOK, Selection, SelectionStatus
  <2>2. CASE /\ sel.pending = s
             /\ sel' = [sel EXCEPT !.effective = sw[s].target, !.status = "ready",
                                   !.revision = @ + 1, !.pending = NoSwitch]
    <3>1. sel' = [sel EXCEPT !.effective = sw[s].target, !.status = "ready",
                            !.revision = sel.revision + 1, !.pending = NoSwitch]
      BY <2>1, <2>2 DEF Selection
    <3> QED BY <1>2, <2>1, <2>2, <3>1 DEF Selection, SlotReleased
  <2>3. CASE sel' = [sel EXCEPT !.pending = IF @ = s THEN NoSwitch ELSE @]
    BY <2>1, <2>3 DEF Selection, SlotReleased
  <2> QED BY <2>2, <2>3 DEF Commit
<1> QED BY <1>1, <1>3, EndedKeeps DEF Commit

\* advance_status: the projected phase is a status, and nothing else moves.
LEMMA ProjectKeeps ==
    ASSUME SelectionInv, NEW s \in Switches, ProjectPhase(s)
    PROVE  SelectionInv'
<1>1. sel' \in Selection /\ sel'.pending = sel.pending /\ sw' = sw
  BY DEF ProjectPhase, SelectionInv, SelectionTypeOK, Selection, SelectionStatus
<1> QED BY <1>1 DEF SelectionInv, SelectionTypeOK, CreatedBounded, SlotIsClaimed

\* Every write of a driver and of cancel_switch keeps the slot and its switch together.
LEMMA DriveKeeps ==
    ASSUME SelectionInv, NEW s \in Switches, DriveSwitch(s) \/ CancelSwitch(s)
    PROVE  SelectionInv'
<1>1. {"failed", "ambiguous", "superseded", "cancelled"} \subseteq EndedSwitchStatus
  BY DEF EndedSwitchStatus
<1> QED BY <1>1, ClaimKeeps, ProjectKeeps, CommitKeeps, FinishKeeps
        DEF DriveSwitch, CancelSwitch, FailSwitch, AmbiguousSwitch, SupersedeSwitch

\* The selection on its own keeps the slot and the switch rows together: a switch is
\* claimed exactly while it holds the pending slot of the session.
THEOREM SelectionKeepsSlot == SelectionSpec => []SlotIsClaimed
<1>1. SelectionInv /\ [SelectionNext]_selectionVars => SelectionInv'
  <2> SUFFICES ASSUME SelectionInv, [SelectionNext]_selectionVars PROVE SelectionInv'
    OBVIOUS
  <2>1. \A v \in 0 .. sel.selRevision : v \in Nat
    BY DEF SelectionInv, SelectionTypeOK, Selection
  <2>2. CASE \E r \in Runtimes, by \in Requesters \cup {NoRequester} :
               \/ EnqueueDesired(r, by)
               \/ MaterializeCurrent(r)
               \/ \E selRevision \in 0 .. sel.selRevision : Reserve(r, selRevision, by)
    BY <2>1, <2>2, EnqueueDesiredKeeps, MaterializeCurrentKeeps, ReserveKeeps
  <2>3. CASE \E s \in Switches : DriveSwitch(s) \/ CancelSwitch(s)
    BY <2>3, DriveKeeps
  <2>4. CASE UNCHANGED selectionVars
    BY <2>4 DEF selectionVars, SelectionInv, SelectionTypeOK, CreatedBounded, SlotIsClaimed
  <2> QED BY <2>2, <2>3, <2>4 DEF SelectionNext
<1>2. SelectionInv => SlotIsClaimed
  BY DEF SelectionInv
<1> QED BY <1>1, <1>2, SelectionStarts, PTL DEF SelectionSpec

-----------------------------------------------------------------------------
(* The desired runtime has a driver, as long as no switch is reserved without a new  *)
(* intent.                                                                           *)

\* Every intent has a selection revision of its own, the switch of the newest intent
\* leads to the desired runtime, and a session that is not there yet still has it.
IntentInv ==
    /\ \A s \in Used : sw[s].selRevision <= sel.selRevision
    /\ \A s, t \in Used : sw[s].selRevision = sw[t].selRevision => s = t
    /\ \A s \in Switches : Live(s) /\ OwnsIntent(s) => sw[s].target = sel.desired
    /\ sel.desired # sel.effective => \E s \in Switches : Live(s) /\ OwnsIntent(s)

LEMMA IntentStarts == SelectionInit => IntentInv
  BY DEF SelectionInit, IntentInv, Used, Live, LiveSwitchStatus

\* A live switch of the current intent is one get_selection_state finds.
LEMMA IntentDrives ==
    ASSUME SelectionInv, IntentInv
    PROVE  DivergenceIsDriven
<1> SUFFICES ASSUME sel.desired # sel.effective PROVE LiveIntent # NoSwitch
  BY DEF DivergenceIsDriven
<1> DEFINE S == {s \in Used : sw[s].selRevision = sel.selRevision /\ Live(s)}
<1>1. PICK s \in Switches : Live(s) /\ OwnsIntent(s)
  BY DEF IntentInv
<1>2. s \in S
  BY <1>1 DEF Used, Live, LiveSwitchStatus, OwnsIntent
<1>3. S \in SUBSET Switches
  BY DEF Used
<1>4. LiveIntent = Newest(S)
  BY DEF LiveIntent
<1> HIDE DEF S
<1>5. LiveIntent \in Switches
  BY <1>2, <1>3, <1>4, NewestExists
<1> QED BY <1>5, SelectionAssumption

\* A new intent has the newest revision and the only switch of it.
LEMMA EnqueueIntent ==
    ASSUME SelectionInv, IntentInv, NEW r \in Runtimes,
           NEW by \in Requesters \cup {NoRequester}, EnqueueDesired(r, by)
    PROVE  IntentInv'
<1>1. PICK s \in Switches : /\ sw[s].status = "absent"
                            /\ NewSwitch(s, r, sel.selRevision + 1, "requested", by)
  BY DEF EnqueueDesired
<1>2. sw \in [Switches -> SwitchRow] /\ sel \in Selection
  BY DEF SelectionInv, SelectionTypeOK
<1>3. /\ sw'[s].status = "requested" /\ sw'[s].target = r
      /\ sw'[s].selRevision = sel.selRevision + 1
      /\ \A t \in Switches : t # s => sw'[t] = sw[t]
  BY <1>1, <1>2 DEF NewSwitch
<1>4. /\ sel'.desired = r /\ sel'.effective = sel.effective
      /\ sel'.selRevision = sel.selRevision + 1
  BY <1>2 DEF EnqueueDesired, Selection
<1>5. Used' = Used \cup {s} /\ s \notin Used
  BY <1>1, <1>3 DEF Used
<1>6. /\ sel.selRevision \in Nat
      /\ \A t \in Used : /\ t \in Switches /\ t # s /\ sw'[t] = sw[t]
                         /\ sw[t].selRevision \in Nat /\ sw[t].selRevision <= sel.selRevision
  BY <1>2, <1>3, <1>5 DEF Used, IntentInv, SwitchRow, Selection
<1>7. \A t \in Used' : sw'[t].selRevision <= sel'.selRevision
  BY <1>3, <1>4, <1>5, <1>6
<1>8. ASSUME NEW t \in Used', NEW u \in Used', sw'[t].selRevision = sw'[u].selRevision
      PROVE  t = u
  BY <1>3, <1>5, <1>6, <1>8 DEF IntentInv
<1>9. ASSUME NEW t \in Switches, Live(t)', OwnsIntent(t)' PROVE sw'[t].target = sel'.desired
  <2>1. t \in Used'
    BY <1>9 DEF Used, Live, LiveSwitchStatus
  <2>2. t = s
    BY <1>4, <1>5, <1>6, <1>9, <2>1 DEF OwnsIntent
  <2> QED BY <1>3, <1>4, <2>2
<1>10. Live(s)' /\ OwnsIntent(s)'
  BY <1>3, <1>4 DEF Live, LiveSwitchStatus, OwnsIntent
<1> QED BY <1>7, <1>8, <1>9, <1>10 DEF IntentInv

\* Re-materialising the current binding leaves the intents alone.
LEMMA MaterializeIntent ==
    ASSUME SelectionInv, IntentInv, NEW r, MaterializeCurrent(r)
    PROVE  IntentInv'
<1>1. /\ sw' = sw /\ sel'.desired = sel.desired /\ sel'.effective = sel.effective
      /\ sel'.selRevision = sel.selRevision
  BY DEF MaterializeCurrent, SelectionInv, SelectionTypeOK, Selection
<1> QED BY <1>1 DEF IntentInv, Used, Live, OwnsIntent

\* A driver moves the status of a live switch; the intent is lost only when the session
\* then is where it was to lead, or no longer wants to go there.
LEMMA StatusIntent ==
    ASSUME SelectionInv, IntentInv, NEW s \in Switches, Live(s),
           NEW status \in LiveSwitchStatus \cup EndedSwitchStatus,
           sw' = [sw EXCEPT ![s].status = status],
           sel'.selRevision = sel.selRevision,
           \/ /\ sel'.desired = sel.desired /\ sel'.effective = sel.effective
              /\ status \in LiveSwitchStatus \/ ~OwnsIntent(s)
           \/ /\ OwnsIntent(s) /\ status \in EndedSwitchStatus
              /\ sel'.desired = sel'.effective
    PROVE  IntentInv'
<1>1. /\ \A t \in Switches : /\ sw'[t].target = sw[t].target
                             /\ sw'[t].selRevision = sw[t].selRevision
                             /\ t # s => sw'[t].status = sw[t].status
      /\ sw'[s].status = status
  BY DEF SelectionInv, SelectionTypeOK, SwitchRow
<1>2. sw[s].status # "absent" /\ status # "absent"
  BY DEF Live, LiveSwitchStatus, EndedSwitchStatus
<1>3. Used' = Used /\ Used \subseteq Switches /\ s \in Used
  BY <1>1, <1>2 DEF Used
<1>4. /\ \A t \in Switches : OwnsIntent(t)' <=> OwnsIntent(t)
      /\ \A t \in Switches : t # s => (Live(t)' <=> Live(t))
      /\ Live(s)' <=> status \in LiveSwitchStatus
  BY <1>1 DEF OwnsIntent, Live
<1>5. /\ \A t \in Used' : sw'[t].selRevision <= sel'.selRevision
      /\ \A t, u \in Used' : sw'[t].selRevision = sw'[u].selRevision => t = u
  BY <1>1, <1>3 DEF IntentInv
<1>6. CASE /\ sel'.desired = sel.desired /\ sel'.effective = sel.effective
           /\ status \in LiveSwitchStatus \/ ~OwnsIntent(s)
  <2>1. \A t \in Switches : Live(t)' /\ OwnsIntent(t)' => sw'[t].target = sel'.desired
    BY <1>1, <1>4, <1>6 DEF IntentInv
  <2>2. \A t \in Switches : Live(t) /\ OwnsIntent(t) => Live(t)' /\ OwnsIntent(t)'
    BY <1>4, <1>6
  <2>3. sel'.desired # sel'.effective => \E t \in Switches : Live(t)' /\ OwnsIntent(t)'
    BY <1>6, <2>2 DEF IntentInv
  <2> QED BY <1>5, <2>1, <2>3 DEF IntentInv
<1>7. CASE OwnsIntent(s) /\ status \in EndedSwitchStatus /\ sel'.desired = sel'.effective
  <2>1. ASSUME NEW t \in Switches, Live(t)', OwnsIntent(t)' PROVE FALSE
    <3>1. t # s
      BY <1>4, <1>7, <2>1 DEF EndedSwitchStatus, LiveSwitchStatus
    <3>2. t \in Used
      BY <1>4, <2>1, <3>1 DEF Used, Live, LiveSwitchStatus
    <3> QED BY <1>3, <1>4, <1>7, <2>1, <3>1, <3>2 DEF IntentInv, OwnsIntent
  <2> QED BY <1>5, <1>7, <2>1 DEF IntentInv
<1> QED BY <1>6, <1>7

\* finish_without_commit: the outcome of the current intent takes the desired runtime
\* back, and only a stale one is superseded.
LEMMA FinishIntent ==
    ASSUME SelectionInv, IntentInv, NEW s \in Switches, NEW outcome \in EndedSwitchStatus,
           outcome = "superseded" => ~OwnsIntent(s), FinishWithoutCommit(s, outcome)
    PROVE  IntentInv'
<1>1. /\ sel'.selRevision = sel.selRevision /\ sel'.effective = sel.effective
      /\ sel'.desired = DesiredAfter(s, outcome)
  BY DEF FinishWithoutCommit, SelectionInv, SelectionTypeOK, Selection
<1>2. Live(s) /\ sw' = [sw EXCEPT ![s].status = outcome]
  BY DEF FinishWithoutCommit
<1>3. CASE OwnsIntent(s)
  <2>1. sel'.desired = sel'.effective
    BY <1>1, <1>3 DEF DesiredAfter
  <2> QED BY <1>1, <1>2, <1>3, <2>1, StatusIntent
<1>4. CASE ~OwnsIntent(s)
  <2>1. sel'.desired = sel.desired
    BY <1>1, <1>4 DEF DesiredAfter
  <2> QED BY <1>1, <1>2, <1>4, <2>1, StatusIntent
<1> QED BY <1>3, <1>4

\* What a driver and cancel_switch write.
LEMMA DriveIntent ==
    ASSUME SelectionInv, IntentInv, NEW s \in Switches, DriveSwitch(s) \/ CancelSwitch(s)
    PROVE  IntentInv'
<1>1. /\ {"failed", "ambiguous", "superseded", "cancelled", "committed"} \subseteq EndedSwitchStatus
      /\ {"requested", "claimed"} = LiveSwitchStatus
  BY DEF EndedSwitchStatus, LiveSwitchStatus
<1>2. CASE ClaimRequested(s)
  <2>1. Live(s)
    BY <1>2 DEF ClaimRequested, Live, LiveSwitchStatus
  <2>2. /\ sel'.selRevision = sel.selRevision /\ sel'.desired = sel.desired
        /\ sel'.effective = sel.effective
    BY <1>2 DEF ClaimRequested, SelectionInv, SelectionTypeOK, Selection
  <2>3. CASE ~OwnsIntent(s) /\ sw' = [sw EXCEPT ![s].status = "superseded"]
    BY <1>1, <2>1, <2>2, <2>3, StatusIntent
  <2>4. CASE sw' = [sw EXCEPT ![s].status = "claimed"]
    BY <1>1, <2>1, <2>2, <2>4, StatusIntent
  <2> QED BY <1>2, <2>3, <2>4 DEF ClaimRequested
<1>3. CASE ProjectPhase(s)
  <2>1. /\ sw' = sw /\ sel'.desired = sel.desired /\ sel'.effective = sel.effective
        /\ sel'.selRevision = sel.selRevision
    BY <1>3 DEF ProjectPhase, SelectionInv, SelectionTypeOK, Selection
  <2> QED BY <2>1 DEF IntentInv, Used, Live, OwnsIntent
<1>4. CASE Commit(s)
  <2>1. Live(s)
    BY <1>4 DEF Commit, Live, LiveSwitchStatus
  <2>2. sel'.selRevision = sel.selRevision /\ sel'.desired = sel.desired
    BY <1>4 DEF Commit, SelectionInv, SelectionTypeOK, Selection
  <2>3. CASE /\ OwnsIntent(s) /\ sw' = [sw EXCEPT ![s].status = "committed"]
             /\ sel' = [sel EXCEPT !.effective = sw[s].target, !.status = "ready",
                                   !.revision = @ + 1, !.pending = NoSwitch]
    <3>1. sel'.effective = sw[s].target
      BY <2>3 DEF SelectionInv, SelectionTypeOK, Selection
    <3>2. sel'.desired = sel'.effective
      BY <2>1, <2>2, <2>3, <3>1 DEF IntentInv
    <3> QED BY <1>1, <2>1, <2>2, <2>3, <3>2, StatusIntent
  <2>4. CASE /\ ~OwnsIntent(s) /\ sw' = [sw EXCEPT ![s].status = "superseded"]
             /\ sel' = [sel EXCEPT !.pending = IF @ = s THEN NoSwitch ELSE @]
    <3>1. sel'.effective = sel.effective
      BY <2>4 DEF SelectionInv, SelectionTypeOK, Selection
    <3> QED BY <1>1, <2>1, <2>2, <2>4, <3>1, StatusIntent
  <2> QED BY <1>4, <2>3, <2>4 DEF Commit
<1>5. CASE FailSwitch(s) \/ AmbiguousSwitch(s) \/ CancelSwitch(s)
  BY <1>1, <1>5, FinishIntent DEF FailSwitch, AmbiguousSwitch, CancelSwitch
<1>6. CASE SupersedeSwitch(s)
  BY <1>1, <1>6, FinishIntent DEF SupersedeSwitch
<1> QED BY <1>2, <1>3, <1>4, <1>5, <1>6 DEF DriveSwitch

=============================================================================
