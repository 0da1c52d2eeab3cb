--------------------------- MODULE MCRuntimeSwitch ---------------------------
(***************************************************************************)
(* RuntimeSwitch for TLC: the identities of switches are interchangeable.   *)
(***************************************************************************)
EXTENDS RuntimeSwitch, TLC

SwitchSymmetry == Permutations(Switches)

=============================================================================
