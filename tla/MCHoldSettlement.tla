-------------------------- MODULE MCHoldSettlement --------------------------
(***************************************************************************)
(* Instances of HoldSettlement for TLC.                                    *)
(***************************************************************************)
EXTENDS HoldSettlement, TLC

CONSTANTS c1, c2, r1, r2

\* One call, handed to services twice.
ReplayedCallOf == (r1 :> c1) @@ (r2 :> c1)

\* Two calls: c1 runs in process, c2 is handed to a service.
MixedCallOf == r1 :> c2

\* One call, handed to one service.
OneCallOf == r1 :> c1
=============================================================================
