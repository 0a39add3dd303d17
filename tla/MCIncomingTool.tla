--------------------------- MODULE MCIncomingTool ---------------------------
(***************************************************************************)
(* Instances of IncomingTool for TLC.                                      *)
(***************************************************************************)
EXTENDS IncomingTool, TLC

CONSTANTS c1, r1, r2, r3, r4

\* One authorization, presented twice.
PresentedTwice == (r1 :> c1) @@ (r2 :> c1)

\* One authorization, presented to a tool and to a task, twice each.
PresentedToBoth == PresentedTwice @@ (r3 :> c1) @@ (r4 :> c1)
=============================================================================
