---------------------------- MODULE MCLocalGuard -----------------------------
(***************************************************************************)
(* Instance of LocalGuard for TLC.                                         *)
(***************************************************************************)
EXTENDS LocalGuard, TLC

CONSTANTS g1, g2

\* The agent is permitted, then suspended under rules anchored anew.
Verdicts == (0 :> "permit") @@ (1 :> "contain")
Anchors == (0 :> 1) @@ (1 :> 2)
=============================================================================
