--------------------------- MODULE MCBuildContext ---------------------------
(***************************************************************************)
(* Small instances of BuildContext: two clients, the watcher's worker and  *)
(* the initial build thread.  Flights are numbered; an identity is reused  *)
(* once nobody refers to it, so one more than the actors suffices.         *)
(***************************************************************************)
EXTENDS BuildContext, TLC

CONSTANTS c1, c2

AllMethods == [c \in Clients |-> {"rebuild", "cancel", "watch", "dispose"}]

\* For liveness: watch mode is enabled at any moment of another client's
\* builds, and either client disposes of the context at any moment of what the
\* other does.  With the worker and the initial thread three actors rebuild.
SplitMethods ==
    [c \in Clients |-> IF c = c1 THEN {"rebuild", "cancel", "dispose"}
                       ELSE {"watch", "dispose"}]

MCFlights == 1 .. 5
Symmetry == Permutations(Clients)
=============================================================================
