-------------------------- MODULE RuntimeSelection --------------------------
(***************************************************************************)
(* The runtime selection of one Logical Session, as the rows of            *)
(* agent_sessions and runtime_switches keep it (crates/db/src/runtime.rs)  *)
(* and as RuntimeSelectionService projects it                              *)
(* (crates/agent/src/runtime_selection.rs).                                *)
(*                                                                         *)
(* Every action is one SQLite transaction.  The stages a driver walks      *)
(* through while it owns the pending slot (Reserved, WaitingForIdle,       *)
(* Preparing, Prepared, Committing) are one status here, "claimed": no     *)
(* reader of the selection tells them apart.  The current binding changes  *)
(* exactly when the session revision does, so the revision stands for both *)
(* fences of a commit.                                                     *)
(***************************************************************************)
EXTENDS Naturals, FiniteSets

CONSTANTS
    Runtimes,        \* canonical and non-canonical SessionRuntimeSelection values
    InitialRuntime,  \* the selection the session was initialised with
    Resolve,         \* what the adapter resolver makes of a selection
    Switches,        \* identities runtime_switches rows may use
    NoSwitch,        \* a NULL switch reference
    Requesters,      \* owners of durable switch idempotency keys
    NoRequester      \* a switch whose key is never presented again

ASSUME SelectionAssumption ==
    /\ Resolve \in [Runtimes -> Runtimes]
    /\ \A r \in Runtimes : Resolve[Resolve[r]] = Resolve[r]
    /\ InitialRuntime \in Runtimes
    /\ Resolve[InitialRuntime] = InitialRuntime
    /\ IsFiniteSet(Switches)
    /\ NoSwitch \notin Switches
    /\ NoRequester \notin Requesters

VARIABLES
    sel,  \* the selection columns of the agent_sessions row
    sw    \* the runtime_switches rows

selectionVars == <<sel, sw>>

LiveSwitchStatus == {"requested", "claimed"}
EndedSwitchStatus == {"committed", "failed", "cancelled", "superseded", "ambiguous"}
SwitchStatus == {"absent"} \cup LiveSwitchStatus \cup EndedSwitchStatus
SelectionStatus == {"ready", "preparing", "failed"}

Selection ==
    [desired : Runtimes, effective : Runtimes, status : SelectionStatus,
     pending : Switches \cup {NoSwitch}, revision : Nat, selRevision : Nat]

SwitchRow ==
    [status : SwitchStatus, target : Runtimes, sourceRevision : Nat,
     selRevision : Nat, created : Nat, by : Requesters \cup {NoRequester}]

SelectionTypeOK ==
    /\ sel \in Selection
    /\ sw \in [Switches -> SwitchRow]

SelectionInit ==
    /\ sel = [desired |-> InitialRuntime, effective |-> InitialRuntime,
              status |-> "ready", pending |-> NoSwitch,
              revision |-> 0, selRevision |-> 0]
    /\ sw = [s \in Switches |->
               [status |-> "absent", target |-> InitialRuntime,
                sourceRevision |-> 0, selRevision |-> 0, created |-> 0,
                by |-> NoRequester]]

Live(s) == sw[s].status \in LiveSwitchStatus
Used == {s \in Switches : sw[s].status # "absent"}

Newest(S) ==
    IF S = {} THEN NoSwitch
    ELSE CHOOSE s \in S : \A t \in S : sw[t].created <= sw[s].created

\* The newest switch of the current selection revision, and the newest one
\* that has not ended.
LatestIntent == Newest({s \in Used : sw[s].selRevision = sel.selRevision})
LiveIntent == Newest({s \in Used : sw[s].selRevision = sel.selRevision /\ Live(s)})

SwitchOf(by) == Newest({s \in Used : by # NoRequester /\ sw[s].by = by})

-----------------------------------------------------------------------------
(* What get_selection_state reports. *)

ReportedStatus ==
    IF sel.status = "failed" THEN "failed"
    ELSE IF LatestIntent # NoSwitch /\ Live(LatestIntent) THEN "preparing"
    ELSE IF sel.desired = sel.effective THEN "ready" ELSE sel.status

ReportedPending ==
    IF LatestIntent # NoSwitch /\ Live(LatestIntent) THEN LatestIntent ELSE sel.pending

View ==
    [desired |-> sel.desired, effective |-> sel.effective,
     status |-> ReportedStatus, pending |-> ReportedPending,
     revision |-> sel.revision, selRevision |-> sel.selRevision]

-----------------------------------------------------------------------------
(* Requesting a selection. *)

NewSwitch(s, r, selRevision, status, by) ==
    sw' = [sw EXCEPT ![s] =
             [status |-> status, target |-> r, sourceRevision |-> sel.revision,
              selRevision |-> selRevision, created |-> Cardinality(Used) + 1, by |-> by]]

RevisionsMatch(revision, selRevision) ==
    sel.revision = revision /\ sel.selRevision = selRevision

Coalesces(r) == LiveIntent # NoSwitch /\ sw[LiveIntent].target = r

Unchanged(r) ==
    sel.effective = r /\ sel.pending = NoSwitch /\ LiveIntent = NoSwitch

\* A new desired selection and its Requested switch, in one transaction.  The
\* previous intent keeps its row and its slot until its own driver notices.
EnqueueDesired(r, by) ==
    /\ ~Coalesces(r) /\ ~Unchanged(r)
    /\ \E s \in Switches :
         /\ sw[s].status = "absent"
         /\ NewSwitch(s, r, sel.selRevision + 1, "requested", by)
    /\ sel' = [sel EXCEPT !.desired = r, !.status = "preparing",
                          !.selRevision = @ + 1]

\* Selecting the effective runtime again after a failure re-materialises the
\* current binding; the recovery update needs desired = effective and a free slot.
MaterializeCurrent(r) ==
    /\ ~Coalesces(r) /\ Unchanged(r)
    /\ sel.status = "failed"
    /\ sel.desired = sel.effective
    /\ sel' = [sel EXCEPT !.status = "ready"]
    /\ UNCHANGED sw

\* request_switch: a switch that is reserved at once, claiming the pending slot,
\* without a new selection revision (forced fresh sessions, credential refresh).
Reserve(r, selRevision, by) ==
    /\ sel.pending = NoSwitch
    /\ \E s \in Switches :
         /\ sw[s].status = "absent"
         /\ NewSwitch(s, r, selRevision, "claimed", by)
         /\ sel' = [sel EXCEPT !.pending = s]

-----------------------------------------------------------------------------
(* What a switch driver writes. *)

OwnsSource(s) == sw[s].sourceRevision = sel.revision
OwnsIntent(s) == sw[s].selRevision = sel.selRevision

\* claim_requested: supersede a stale intent, else take the pending slot when the
\* source is unchanged and no other switch holds it.
ClaimRequested(s) ==
    /\ sw[s].status = "requested"
    /\ \/ /\ ~OwnsIntent(s)
          /\ sw' = [sw EXCEPT ![s].status = "superseded"]
          /\ UNCHANGED sel
       \/ /\ OwnsIntent(s) /\ OwnsSource(s)
          /\ sel.pending \in {NoSwitch, s}
          /\ sw' = [sw EXCEPT ![s].status = "claimed"]
          /\ sel' = [sel EXCEPT !.pending = s]

\* commit: one transaction that compares the four fences; a moved selection
\* revision supersedes the switch instead.
Commit(s) ==
    /\ sw[s].status = "claimed"
    /\ \/ /\ OwnsSource(s) /\ OwnsIntent(s) /\ sel.pending = s
          /\ sel' = [sel EXCEPT !.effective = sw[s].target, !.status = "ready",
                                !.revision = @ + 1, !.pending = NoSwitch]
          /\ sw' = [sw EXCEPT ![s].status = "committed"]
       \/ /\ ~OwnsIntent(s)
          /\ sel' = [sel EXCEPT !.pending = IF @ = s THEN NoSwitch ELSE @]
          /\ sw' = [sw EXCEPT ![s].status = "superseded"]

\* Defects: an ended switch keeps the pending slot, or its desired runtime.
SlotKept(s) == sel.pending
SlotReleased(s) == IF sel.pending = s THEN NoSwitch ELSE sel.pending

DesiredKept(s, outcome) == sel.desired
DesiredAfter(s, outcome) ==
    IF OwnsIntent(s) /\ outcome # "superseded" THEN sel.effective ELSE sel.desired

\* finish_without_commit: the pending slot is released, and the outcome is
\* projected into the selection only while the switch is the current intent.
FinishWithoutCommit(s, outcome) ==
    /\ Live(s)
    /\ sw' = [sw EXCEPT ![s].status = outcome]
    /\ sel' =
         [sel EXCEPT
            !.pending = SlotReleased(s),
            !.desired = DesiredAfter(s, outcome),
            !.status = IF ~OwnsIntent(s) \/ outcome = "superseded" THEN @
                       ELSE IF outcome = "cancelled" THEN "ready" ELSE "failed"]

\* A driver fails a switch it cannot claim or prepare, or gives up on an external
\* effect whose outcome it cannot learn once it holds the slot.
FailSwitch(s) == FinishWithoutCommit(s, "failed")
AmbiguousSwitch(s) == sw[s].status = "claimed" /\ FinishWithoutCommit(s, "ambiguous")
SupersedeSwitch(s) == ~OwnsIntent(s) /\ FinishWithoutCommit(s, "superseded")

\* advance_status projects the phase of the pending switch into the session.
ProjectPhase(s) ==
    /\ sw[s].status = "claimed" /\ sel.pending = s
    /\ sel' = [sel EXCEPT !.status = "preparing"]
    /\ UNCHANGED sw

DriveSwitch(s) ==
    \/ ClaimRequested(s)
    \/ ProjectPhase(s)
    \/ Commit(s)
    \/ FailSwitch(s)
    \/ AmbiguousSwitch(s)
    \/ SupersedeSwitch(s)

\* cancel_switch refuses a switch that is not the current intent, but the selection may
\* move on between that reading and the cancellation.
CancelSwitch(s) == FinishWithoutCommit(s, "cancelled")

-----------------------------------------------------------------------------
(* The selection of a session on its own: what a switch driver may do to it. *)

SelectionNext ==
    \/ \E r \in Runtimes, by \in Requesters \cup {NoRequester} :
         \/ EnqueueDesired(r, by)
         \/ MaterializeCurrent(r)
         \/ \E selRevision \in 0 .. sel.selRevision : Reserve(r, selRevision, by)
    \/ \E s \in Switches : DriveSwitch(s) \/ CancelSwitch(s)

SelectionSpec == SelectionInit /\ [][SelectionNext]_selectionVars

-----------------------------------------------------------------------------
(* Properties. *)

\* The pending slot and the switch rows agree: a switch is claimed exactly while it
\* holds the slot, so no slot leaks to an ended switch and no two drivers prepare.
SlotIsClaimed == \A s \in Switches : sw[s].status = "claimed" <=> sel.pending = s

\* A session that reports ready on another runtime than the desired one still has a
\* switch under way that brings it there.
DivergenceIsDriven ==
    sel.desired # sel.effective => sel.pending # NoSwitch \/ LiveIntent # NoSwitch

=============================================================================
