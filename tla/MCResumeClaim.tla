--------------------------- MODULE MCResumeClaim ----------------------------
(***************************************************************************)
(* Instance of ResumeClaim for TLC.                                        *)
(***************************************************************************)
EXTENDS ResumeClaim, TLC

CONSTANTS p1, p2, p3, a1, a2, a3, a4

\* Two processes that take the claim, p1 twice, and one that does not.
ClaimedCalls == (a1 :> p1) @@ (a2 :> p1) @@ (a3 :> p2) @@ (a4 :> p3)
=============================================================================
