------------------------- MODULE MCServiceContexts -------------------------
(***************************************************************************)
(* Small instances of ServiceContexts: one key, three context identities   *)
(* so that a key is reused while old contexts are still being disposed,    *)
(* and two or three requests in flight at a time.                          *)
(***************************************************************************)
EXTENDS ServiceContexts, TLC

AllCommands == {"build", "rebuild", "watch", "resolve", "cancel", "dispose"}
Symmetry == Permutations(Workers)
=============================================================================
