------------------------- MODULE SubmissionTimeline -------------------------
(***************************************************************************)
(* The session Timeline as the durable message queue reads it: a sequence  *)
(* of items whose position is their sequence number, and the rule by which *)
(* a dispatch that returned an error is classified from the items that     *)
(* were persisted after its fence                                          *)
(* (MessageSubmissionCoordinator::persisted_dispatch_result).              *)
(*                                                                         *)
(* An item records which submission it was written for.  The program does  *)
(* not: it only compares the text and the attachments of user messages,    *)
(* which is what Text stands for.                                          *)
(***************************************************************************)
EXTENDS Naturals, Sequences, FiniteSets

CONSTANTS
    Keys,   \* message idempotency keys, one per submission
    NoKey,  \* the owner of items that no submission wrote
    Text    \* the text and attachments each submission asks to send

ASSUME TimelineAssumption ==
    /\ IsFiniteSet(Keys)
    /\ NoKey \notin Keys
    /\ DOMAIN Text = Keys

\* A user message; a message, tool or reasoning item that does not end a turn; a
\* final agent message; an error; a retry notice that reports exhaustion.
ItemKind == {"user", "partial", "final", "error", "exhausted"}
Item == [kind : ItemKind, key : Keys \cup {NoKey}]

MinOf(S) == IF S = {} THEN 0 ELSE CHOOSE i \in S : \A j \in S : i <= j
MaxOf(S) == IF S = {} THEN 0 ELSE CHOOSE i \in S : \A j \in S : j <= i

Users(items, from, to) == {i \in (from + 1)..to : items[i].kind = "user"}

\* The user messages after the fence that carry the text of k.
Matching(items, k, from, to) ==
    {i \in Users(items, from, to) :
        items[i].key # NoKey /\ Text[items[i].key] = Text[k]}

FirstMatch(items, k, from, to) == MinOf(Matching(items, k, from, to))

\* Defect: an error that ends the turn counts as a result.
AnyEndVerdict(kind) == "completed"
EndVerdict(kind) == IF kind = "error" THEN "failed" ELSE "completed"

\* persisted_dispatch_result: what the items after the fence say of the turn of k.
PersistedResult(items, k, from, to) ==
    LET turn == (FirstMatch(items, k, from, to) + 1)..to
        ends == {i \in turn : items[i].kind \in {"error", "final"}}
    IN  IF Matching(items, k, from, to) = {} THEN "unknown"
        ELSE IF \E i \in turn : items[i].kind = "exhausted" THEN "failed"
        ELSE IF ends # {} THEN EndVerdict(items[MaxOf(ends)].kind)
        ELSE IF \E i \in turn : items[i].kind = "partial" THEN "completed"
        ELSE "unknown"

=============================================================================
