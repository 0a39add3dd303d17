---------------------------- MODULE MCBundleCache ---------------------------
(***************************************************************************)
(* Instance of BundleCache for TLC: agents that compete for one place.     *)
(***************************************************************************)
EXTENDS BundleCache, TLC

CONSTANTS a1, a2, g1, g2, g3, g4

\* Three calls for one agent, enough to open its stream, load and hit; one for
\* the other.
ThreeAndOne == (g1 :> a1) @@ (g2 :> a1) @@ (g3 :> a1) @@ (g4 :> a2)
=============================================================================
