-------------------------------- MODULE Bundle --------------------------------
(* A build from the scan of its files to the bindings of its imports, the  *)
(* order of its style sheets and the names of its symbols.                 *)
EXTENDS Renaming

vars == <<scanVars, awaitVars, wrapVars, exportVars, cssVars, names>>

Init == BundleInit /\ WrapInit /\ ExportInit /\ CssInit /\ RenameInit

Next ==
    \/ BundleNext /\ UNCHANGED <<wrapVars, exportVars, cssVars, names>>
    \/ WrapNext /\ UNCHANGED <<exportVars, cssVars, names>>
    \/ ExportNext /\ UNCHANGED <<cssVars, names>>
    \/ ComputeCssOrder /\ UNCHANGED names
    \/ RenameSymbols

Spec == Init /\ [][Next]_vars
==============================================================================
