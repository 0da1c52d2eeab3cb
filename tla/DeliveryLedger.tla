--------------------------- MODULE DeliveryLedger ---------------------------
(***************************************************************************)
(* What the message queue of a session promises its clients, without its   *)
(* workers, callers, restarts and storage: a ledger of where every message *)
(* stands and how often the provider received it.                          *)
(*                                                                         *)
(* A message waits in its place, is sent when it is the first open one,    *)
(* and is received at most once.  Its final entry is binding: "unsent"     *)
(* says that the provider never got it and never will, "unknown" that it   *)
(* may have it or may still get it.  Nothing that left the queue returns.  *)
(***************************************************************************)
EXTENDS Naturals

CONSTANTS
    Messages,   \* what clients submit, by idempotency key
    Exclusive   \* TRUE when every turn of the session is that of a message

VARIABLES
    state,     \* where a message stands
    place,     \* its place in the queue
    received   \* how often the provider received it

ledgerVars == <<state, place, received>>

Final == {"done", "failed", "unsent", "unknown"}

LedgerInit ==
    /\ state = [m \in Messages |-> "none"]
    /\ place = [m \in Messages |-> 0]
    /\ received = [m \in Messages |-> 0]

In(s) == {m \in Messages : state[m] = s}
Open == In("queued") \cup In("inflight")

\* A new message goes to the end.  An edit also takes back messages R that are done, and
\* only while nothing is open.
Accept(m, R) ==
    /\ R # {} => Open = {}
    /\ \A n \in Messages : place[n] < place'[m]
    /\ place' = [place EXCEPT ![m] = place'[m]]
    /\ state' = [n \in Messages |-> IF n = m THEN "queued"
                                    ELSE IF n \in R THEN "replaced" ELSE state[n]]
    /\ UNCHANGED received

\* Queued messages leave without being sent.
Withdraw(S) ==
    /\ state' = [n \in Messages |-> IF n \in S THEN "unsent" ELSE state[n]]
    /\ UNCHANGED <<place, received>>

\* A queued message is given to the provider when it is the first open one.
Send(m) ==
    /\ \A n \in Open : place[m] <= place[n]
    /\ state' = [state EXCEPT ![m] = "inflight"]
    /\ UNCHANGED <<place, received>>

\* The provider has it, perhaps after the ledger gave up on knowing.
Receive(m) ==
    /\ received[m] = 0
    /\ received' = [received EXCEPT ![m] = 1]
    /\ UNCHANGED <<state, place>>

\* The outcome of a message in flight is entered.
End(m, s) ==
    /\ s = "unsent" => received[m] = 0
    /\ s = "done" /\ Exclusive => received[m] = 1
    /\ state' = [state EXCEPT ![m] = s]
    /\ UNCHANGED <<place, received>>

LedgerNext ==
    \/ \E m \in In("none"), R \in SUBSET In("done") : Accept(m, R)
    \/ \E S \in SUBSET In("queued") : Withdraw(S)
    \/ \E m \in In("queued") : Send(m)
    \/ \E m \in In("inflight") \cup In("unknown") : Receive(m)
    \/ \E m \in In("inflight"), s \in Final : End(m, s)

LedgerSpec == LedgerInit /\ [][LedgerNext]_ledgerVars

=============================================================================
