-------------------------- MODULE CoalescedBuilds --------------------------
(***************************************************************************)
(* What a build context promises its callers, without cancellation, watch  *)
(* mode or output files: a caller asks for a build and is given one that   *)
(* was still running when it asked; builds run one after the other; after  *)
(* the context is closed no build begins.                                  *)
(***************************************************************************)
CONSTANTS
    Callers,
    Builds,     \* identities of builds, reused once nobody refers to them
    NoBuild,
    Nobody      \* not one of the callers

VARIABLES
    open,       \* whether builds may still begin
    running,    \* the build in progress, if any
    owner,      \* the caller that runs it
    asked       \* the build each caller has been promised

vars == <<open, running, owner, asked>>

Init ==
    /\ open = TRUE
    /\ running = NoBuild
    /\ owner = Nobody
    /\ asked = [a \in Callers |-> NoBuild]

\* A caller that finds no build running runs one itself.
Begin(a, b) ==
    /\ open
    /\ asked[a] = NoBuild
    /\ running = NoBuild
    /\ \A c \in Callers : asked[c] # b
    /\ running' = b
    /\ owner' = a
    /\ asked' = [asked EXCEPT ![a] = b]
    /\ UNCHANGED open

\* A caller that finds one shares it.
Share(a) ==
    /\ open
    /\ asked[a] = NoBuild
    /\ running # NoBuild
    /\ asked' = [asked EXCEPT ![a] = running]
    /\ UNCHANGED <<open, running, owner>>

\* The owner ends its build and has its answer.
End ==
    /\ running # NoBuild
    /\ running' = NoBuild
    /\ asked' = [asked EXCEPT ![owner] = NoBuild]
    /\ owner' = Nobody
    /\ UNCHANGED open

\* The others are answered once the build they share is over.
Answer(a) ==
    /\ asked[a] \notin {NoBuild, running}
    /\ asked' = [asked EXCEPT ![a] = NoBuild]
    /\ UNCHANGED <<open, running, owner>>

Close == open /\ open' = FALSE /\ UNCHANGED <<running, owner, asked>>

Next ==
    \/ \E a \in Callers : Share(a) \/ Answer(a) \/ \E b \in Builds : Begin(a, b)
    \/ End
    \/ Close

Spec ==
    /\ Init /\ [][Next]_vars
    /\ WF_vars(End)
    /\ \A a \in Callers : WF_vars(Answer(a))
=============================================================================
