---------------------------- MODULE ResumeClaim -----------------------------
(***************************************************************************)
(* Running an escalated call once its owner has approved it: gated.resume  *)
(* of guardTool (agentsafe-guard.mjs) and resume of guard_tool in the      *)
(* Python client.  Several processes of one agent may resume the same      *)
(* escalation, each several times.  A process keeps one lock per           *)
(* escalation in memory; across processes only the gate's resume claim     *)
(* tells them apart, and it is taken after the hold was looked at.         *)
(*                                                                         *)
(* A call of the Python client can go on without the lock: when its task   *)
(* is cancelled, the worker thread that asks the gate, or settles, cannot  *)
(* be stopped; and a tool that returns a coroutine runs once the resume    *)
(* has returned.                                                           *)
(*                                                                         *)
(* The claim is at most once for as long as the issuer leaves it taken.  A *)
(* run that hands its call to an outdated gateway has it refused there,    *)
(* and the issuer then re-opens the one resume.                            *)
(***************************************************************************)
EXTENDS Naturals, FiniteSets

CONSTANTS
    Process,     \* processes of the agent
    Attempt,     \* calls of resume(escalationId, args)
    ProcOf,      \* the process that makes each call
    SameRequest, \* calls whose args map to the approved request
    SameContext, \* calls whose args map to the approved context
    Legacy,      \* processes whose signer or gate knows no resume claim
    Python,      \* processes of the Python client, with asyncio
    Nobody,      \* no attempt
    MaxReopens   \* bound: times the issuer re-opens the resume

ASSUME ProcOfAssumption == ProcOf \in [Attempt -> Process]
ASSUME SameAssumption == SameRequest \subseteq Attempt /\ SameContext \subseteq Attempt
ASSUME LegacyAssumption == Legacy \subseteq Process
ASSUME PythonAssumption == Python \subseteq Process
ASSUME NobodyAssumption == Nobody \notin Attempt
ASSUME MaxReopensAssumption == MaxReopens \in Nat

VARIABLES
    escalation, \* the owner's decision
    digests,    \* which digests of the approved call the gate returns
    hold,       \* the hold the approval minted
    taken,      \* who took the approval's one resume
    opened,     \* times the issuer re-opened it
    net,        \* claims the gate may still process
    locked,     \* processes with the escalation in resumesInFlight
    at,         \* where each call stands
    loose,      \* calls that go on without the lock
    ran,        \* calls that ran the tool
    settled     \* processes whose run changed the hold

gateVars == <<escalation, digests, hold, taken, opened, net>>
vars == <<gateVars, locked, at, loose, ran, settled>>

InProgress == {"waiting", "checking", "matching", "claiming", "running", "settling"}
Busy(p) == \E a \in Attempt : ProcOf[a] = p /\ at[a] \in InProgress

\* Types of the state, and that a resume on its way holds the lock of its
\* process (resumesInFlight), if nothing set it loose.
TypeOK ==
    /\ escalation \in {"pending", "approved", "refused"}
    /\ digests \subseteq {"request", "context"}
    /\ hold \in {"none", "held", "used", "voided"}
    /\ opened \in Nat
    /\ taken \in Attempt \cup {Nobody}
    /\ net \subseteq Attempt
    /\ locked \subseteq Process
    /\ at \in [Attempt -> {"idle", "done", "crashed"} \cup InProgress]
    /\ ran \subseteq Attempt
    /\ settled \subseteq Process
    /\ loose \in [Attempt -> {"no", "cancelled", "deferred"}]
    /\ \A a \in Attempt : at[a] \in InProgress /\ loose[a] = "no" => ProcOf[a] \in locked

Init ==
    /\ escalation = "pending" /\ hold = "none"
    /\ digests \in SUBSET {"request", "context"}
    /\ taken = Nobody /\ opened = 0 /\ net = {}
    /\ locked = {}
    /\ at = [a \in Attempt |-> "idle"]
    /\ loose = [a \in Attempt |-> "no"]
    /\ ran = {} /\ settled = {}

Step(a, from, to) ==
    /\ at[a] = from
    /\ at' = [at EXCEPT ![a] = to]

\* Mutant: a refusal leaves the escalation in resumesInFlight.
LeavesKeepsLock(a, from) ==
    /\ Step(a, from, "done")
    /\ UNCHANGED locked

\* The call is over; the finally block frees the lock, if it has not already.
Leaves(a, from) ==
    /\ Step(a, from, "done")
    /\ locked' = IF loose[a] = "no" THEN locked \ {ProcOf[a]} ELSE locked

(***************************************************************************)
(* gated.resume and resumeOnce.                                            *)
(***************************************************************************)
Enter(a) ==
    /\ ProcOf[a] \notin locked
    /\ Step(a, "idle", "waiting")
    /\ locked' = locked \cup {ProcOf[a]}
    /\ UNCHANGED <<gateVars, loose, ran, settled>>

InUse(a) ==
    /\ ProcOf[a] \in locked
    /\ Step(a, "idle", "done")
    /\ UNCHANGED <<gateVars, locked, loose, ran, settled>>

Approval(a) ==
    /\ escalation = "approved"
    /\ Step(a, "waiting", "checking")
    /\ UNCHANGED <<gateVars, locked, loose, ran, settled>>

\* Refused, still pending at the timeout, or the gate did not answer.
NoApproval(a) ==
    /\ Leaves(a, "waiting")
    /\ UNCHANGED <<gateVars, loose, ran, settled>>

\* effectStatus: nothing has used the authorization yet.
NotStarted(a) ==
    /\ hold = "held"
    /\ Step(a, "checking", "matching")
    /\ UNCHANGED <<gateVars, locked, loose, ran, settled>>

\* Used, voided, or the gate did not answer.
Unavailable(a) ==
    /\ Leaves(a, "checking")
    /\ UNCHANGED <<gateVars, loose, ran, settled>>

\* Mutant: the context of the call is not compared.
MatchesRequest(a) ==
    /\ "request" \in digests => a \in SameRequest
    /\ Step(a, "matching", "claiming")
    /\ UNCHANGED <<gateVars, locked, loose, ran, settled>>

\* The digests that came with the approval are those of this call.  A gate that
\* predates one of them does not return it: there is a warning, and no check.
SameAsApproved(a) ==
    /\ "request" \in digests => a \in SameRequest
    /\ "context" \in digests => a \in SameContext

Matches(a) ==
    /\ SameAsApproved(a)
    /\ Step(a, "matching", "claiming")
    /\ UNCHANGED <<gateVars, locked, loose, ran, settled>>

\* Another request or context; or the arguments are refused by mapArgs or, in
\* Python, by the owner's policy.
Mismatch(a) ==
    /\ Leaves(a, "matching")
    /\ UNCHANGED <<gateVars, loose, ran, settled>>

(***************************************************************************)
(* claimResume.                                                            *)
(***************************************************************************)
\* The gate gives the one resume to the first claim of a hold still held.
Takes(a) ==
    /\ hold = "held"
    /\ taken = Nobody
    /\ taken' = a

Claims(a) == at[a] = "claiming" /\ ProcOf[a] \notin Legacy

ClaimGranted(a) ==
    /\ Claims(a)
    /\ Takes(a)
    /\ Step(a, "claiming", "running")
    /\ UNCHANGED <<escalation, digests, hold, opened, net, locked, loose, ran, settled>>

ClaimRefused(a) ==
    /\ Claims(a)
    /\ hold # "held" \/ taken # Nobody
    /\ Leaves(a, "claiming")
    /\ UNCHANGED <<gateVars, loose, ran, settled>>

\* Mutant: a gate that does not answer is taken for one without the route.
ClaimLostFailsOpen(a) ==
    /\ Claims(a)
    /\ Step(a, "claiming", "running")
    /\ net' = net \cup {a}
    /\ UNCHANGED <<escalation, digests, hold, taken, opened, locked, loose, ran, settled>>

\* Never run a resume the issuer could not be told about; the claim may have
\* landed, or land later.
ClaimLost(a) ==
    /\ Claims(a)
    /\ Leaves(a, "claiming")
    /\ net' = net \cup {a}
    /\ UNCHANGED <<escalation, digests, hold, taken, opened, loose, ran, settled>>

\* No signer for the claim, or a gate that predates it: run as before.
Unsupported(a) ==
    /\ ProcOf[a] \in Legacy
    /\ Step(a, "claiming", "running")
    /\ UNCHANGED <<gateVars, locked, loose, ran, settled>>

(***************************************************************************)
(* run, and what it does to the hold (module HoldSettlement).              *)
(***************************************************************************)
Run(a) ==
    /\ loose[a] # "cancelled"
    /\ Step(a, "running", "settling")
    /\ ran' = ran \cup {a}
    /\ UNCHANGED <<gateVars, locked, loose, settled>>

\* The tool returned or failed; its settlement landed ...
Settle(a) ==
    /\ hold = "held"
    /\ hold' \in {"used", "voided"}
    /\ settled' = settled \cup {ProcOf[a]}
    /\ Leaves(a, "settling")
    /\ UNCHANGED <<escalation, digests, taken, opened, net, loose, ran>>

\* ... or there was none, or it was lost, refused or already made.
SettleNothing(a) ==
    /\ Leaves(a, "settling")
    /\ UNCHANGED <<gateVars, loose, ran, settled>>

(***************************************************************************)
(* The Python client.                                                      *)
(***************************************************************************)
\* The task is cancelled while its worker thread asks the gate or settles:
\* the finally block frees the lock, the thread goes on.  (A tool that is
\* itself cancelled keeps its hold: SettleNothing.)
Cancel(a) ==
    /\ ProcOf[a] \in Python
    /\ at[a] \in InProgress /\ loose[a] = "no"
    /\ loose' = [loose EXCEPT ![a] = "cancelled"]
    /\ locked' = locked \ {ProcOf[a]}
    /\ UNCHANGED <<gateVars, at, ran, settled>>

\* The gate permitted a cancelled call: nobody will run it, so its hold is
\* released, best effort.
GiveBack(a) ==
    /\ loose[a] = "cancelled"
    /\ Leaves(a, "running")
    /\ (hold = "held" /\ hold' = "voided") \/ UNCHANGED hold
    /\ UNCHANGED <<escalation, digests, taken, opened, net, loose, ran, settled>>

\* The tool returns a coroutine: the resume is over before it is awaited.
Defer(a) ==
    /\ ProcOf[a] \in Python
    /\ at[a] = "running" /\ loose[a] = "no"
    /\ loose' = [loose EXCEPT ![a] = "deferred"]
    /\ locked' = locked \ {ProcOf[a]}
    /\ UNCHANGED <<gateVars, at, ran, settled>>

(***************************************************************************)
(* The owner, the gate, and crashes.                                       *)
(***************************************************************************)
Decide ==
    /\ escalation = "pending"
    /\ \/ escalation' = "approved" /\ hold' = "held"
       \/ escalation' = "refused" /\ UNCHANGED hold
    /\ UNCHANGED <<digests, taken, opened, net, locked, at, loose, ran, settled>>

\* The owner revokes the hold, it lapses, or a service claims it.
Withdrawn ==
    /\ hold = "held"
    /\ hold' \in {"used", "voided"}
    /\ UNCHANGED <<escalation, digests, taken, opened, net, locked, at, loose, ran, settled>>

ClaimLands(a) ==
    /\ a \in net
    /\ Takes(a)
    /\ UNCHANGED <<escalation, digests, hold, opened, net, locked, at, loose, ran, settled>>

\* A run handed its call, with the hold, to a gateway that predates the
\* approved context.  The issuer refuses that gateway's claim of the hold,
\* AUTHORIZATION_CONTEXT_REQUIRED, and re-opens the one resume.  The call may
\* reach the gateway after the run is over.
Reopens ==
    /\ ran # {}
    /\ hold = "held" /\ taken # Nobody
    /\ opened < MaxReopens
    /\ taken' = Nobody
    /\ opened' = opened + 1
    /\ UNCHANGED <<escalation, digests, hold, net, locked, at, loose, ran, settled>>

Crash(p) ==
    /\ Busy(p)
    /\ at' = [a \in Attempt |->
                IF ProcOf[a] = p /\ at[a] \in InProgress THEN "crashed" ELSE at[a]]
    /\ locked' = locked \ {p}
    /\ UNCHANGED <<gateVars, loose, ran, settled>>

ResumeStep(a) ==
    \/ Approval(a) \/ NoApproval(a) \/ NotStarted(a) \/ Unavailable(a)
    \/ Matches(a) \/ Mismatch(a)
    \/ ClaimGranted(a) \/ ClaimRefused(a) \/ ClaimLost(a) \/ Unsupported(a)
    \/ Run(a) \/ Settle(a) \/ SettleNothing(a)
    \/ Cancel(a) \/ GiveBack(a) \/ Defer(a)

Next ==
    \/ \E a \in Attempt : Enter(a) \/ InUse(a) \/ ResumeStep(a) \/ ClaimLands(a)
    \/ \E p \in Process : Crash(p)
    \/ Decide \/ Withdrawn \/ Reopens

Spec == Init /\ [][Next]_vars

(***************************************************************************)
(* Properties.                                                             *)
(***************************************************************************)
\* Calls whose process takes the resume claim.
Claiming == {a \in Attempt : ProcOf[a] \notin Legacy}

\* An approval is run once by processes that take the resume claim, and once
\* more for every time the issuer re-opened it, whatever they lose and wherever
\* they crash (resumeOnce: "At most once").
AtMostOnce == Cardinality(ran \cap Claiming) <= 1 + opened

\* The one resume is never spent on a call that differs from the approved one
\* in what the gate returned a digest of (the digests are compared before the
\* claim; resume-binding.smoke.mjs).
SpentOnTheApproved == taken # Nobody => SameAsApproved(taken)

\* A process that settled its run never runs the tool again, also without the
\* claim: the look at the hold and the run that follows are under one lock.
\* (Where that lock is lost with a cancelled task only the claim prevents it,
\* if the issuer does not re-open it.)
SettledIsNotRerun ==
    [][\A a \in Attempt :
          /\ a \notin ran /\ a \in ran'
          /\ ProcOf[a] \in Python => ProcOf[a] \notin Legacy /\ opened = 0
          => ProcOf[a] \notin settled]_vars

\* The hold that a cancelled call gives back belongs to no run, of its own
\* process or of another one: the claim that permitted it permits nobody else.
\* Every run there was with a claim was followed by a re-opening.
GivenBackNeverRan ==
    [][\A a \in Claiming :
          /\ loose[a] = "cancelled" /\ at[a] = "running" /\ at'[a] = "done"
          /\ hold # hold'
          => Cardinality(ran \cap Claiming) <= opened]_vars

\* A call is refused AUTHORIZATION_IN_USE only while another one of its process
\* is on its way.
InUseMeansInUse ==
    [][\A a \in Attempt :
          at[a] = "idle" /\ at'[a] = "done" => Busy(ProcOf[a])]_vars
=============================================================================
