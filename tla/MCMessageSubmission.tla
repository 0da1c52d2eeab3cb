------------------------ MODULE MCMessageSubmission ------------------------
(***************************************************************************)
(* Values for the constants of MessageSubmission that are functions.       *)
(***************************************************************************)
EXTENDS MessageSubmission, TLC

CONSTANTS k1, k2, r1, r2, loose

\* Every message has a text of its own.
OwnText == [k \in Keys |-> k]

\* The adapter accepts r1 and r2 as they are and resolves loose to r2.
AdapterResolve == [r \in Runtimes |-> IF r = loose THEN r2 ELSE r]

\* Where the messages want to run: all on the initial runtime, the first one
\* elsewhere, or the first one on a selection the adapter rewrites.
AllInitial == [k \in Keys |-> InitialRuntime]
FirstElsewhere == [k \in Keys |-> IF k = k1 THEN r2 ELSE InitialRuntime]
FirstLoose == [k \in Keys |-> IF k = k1 THEN loose ELSE InitialRuntime]

\* Workers are interchangeable, and so are messages that want the same runtime.
WorkerSymmetry == Permutations(Workers)
Symmetry == Permutations(Workers) \cup Permutations(Keys)

=============================================================================
