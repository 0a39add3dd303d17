-------------------------- MODULE MCOutcomeReports --------------------------
(***************************************************************************)
(* Instances of OutcomeReports for TLC.                                    *)
(***************************************************************************)
EXTENDS OutcomeReports, TLC

CONSTANTS k1, k2

\* Two callers; with room for one window, the second evicts the first.
TwoKeys == {k1, k2}
=============================================================================
