----------------------------- MODULE MCRemoteSync -----------------------------
(***************************************************************************)
(* RemoteSync for TLC: how many facts each domain publishes.               *)
(***************************************************************************)
EXTENDS RemoteSync

Facts == [d \in Domains |-> IF d = Timeline THEN 3 ELSE IF d = Sidebar THEN 2 ELSE 1]

=============================================================================
