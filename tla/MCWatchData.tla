---------------------------- MODULE MCWatchData -----------------------------
(***************************************************************************)
(* A file that two threads read, with ticks enough to be written, to       *)
(* become old enough for a key and to be written again within a build; a   *)
(* directory with two names that differ in case only and one that does     *)
(* not; four threads for two places, so that two may wait while two close. *)
(***************************************************************************)
EXTENDS WatchData

MCNames == {"a", "A", "b"}
MCFold(n) == IF n = "A" THEN "a" ELSE n

Symmetry == Permutations(Threads)
=============================================================================
