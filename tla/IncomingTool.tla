---------------------------- MODULE IncomingTool ----------------------------
(***************************************************************************)
(* A handler a service protects in its own process, with                   *)
(* requireAuthorization and { settle: true }: guardIncomingTool of         *)
(* agentsafe-mcp-guard.mjs for a tool, guardA2ATask of                     *)
(* agentsafe-a2a-guard.mjs for a task.  Between the claim and the handler  *)
(* of a tool stand checks that can still refuse the call; after either     *)
(* handler stands one settlement, tried once, and after a tool's a check   *)
(* of the answer.  The gate is module Issuer; the agent whose hold it is   *)
(* may settle it at any time, in any way the gate lets it.                 *)
(***************************************************************************)
EXTENDS Issuer

CONSTANTS
    ClaimTries,   \* attempts in claimAuthorization
    Capabilities, \* is the tool guarded with verifyCapability?
    Task,         \* the requests that are A2A tasks; the others call a tool
    Amountless    \* the requests that state no amount, which is verified as 0

ASSUME ClaimTriesAssumption == ClaimTries \in Nat \ {0}
ASSUME CapabilitiesAssumption == Capabilities \in BOOLEAN
ASSUME TaskAssumption == Task \subseteq Req
\* The claim of a request without an amount states 0, which no hold with a value
\* is granted for.
ASSUME AmountlessAssumption == Amountless \subseteq {r \in Req : CallOf[r] \notin Valued}

VARIABLES
    net,      \* messages the gate may still process
    unsigned, \* requests whose settlement the signer of the service failed to sign
    at,       \* where each request stands
    tries,    \* claim attempts left
    ran,      \* requests whose handler was started
    answer    \* what the caller was told

vars == <<ledger, net, unsigned, at, tries, ran, answer>>

InProgress == {"verifying", "claiming", "granted", "permitted", "refusing", "running",
               "capturing", "marking", "checking"}

\* Types of the state, and that a claim is only under way while it has tries
\* left (claimAuthorization).
TypeOK ==
    /\ IssuerTypeOK
    /\ net \subseteq Message
    /\ unsigned \subseteq Req \ Task
    /\ at \in [Req -> {"idle", "done", "crashed"} \cup InProgress]
    /\ tries \in [Req -> 0..ClaimTries]
    /\ \A r \in Req : at[r] = "claiming" => tries[r] > 0
    /\ ran \subseteq Req
    /\ answer \in [Req -> {"none", "refused", "incapable", "result", "withheld", "error"}]

Init ==
    /\ IssuerInit
    /\ net = {}
    /\ unsigned = {}
    /\ at = [r \in Req |-> "idle"]
    /\ tries = [r \in Req |-> 0]
    /\ ran = {}
    /\ answer = [r \in Req |-> "none"]

Told(r, what) == answer' = [answer EXCEPT ![r] = what]

Step(r, from, to) ==
    /\ at[r] = from
    /\ at' = [at EXCEPT ![r] = to]

\* A call to the gate is answered, or its outcome is ambiguous.
Answered(m) == Process(m) /\ UNCHANGED <<net, unsigned>>
Lost(m) == net' = net \cup {m} /\ UNCHANGED <<ledger, unsigned>>

\* A settlement is one such call, tried once.  It is not even sent when the
\* tool's service cannot sign it, and what comes of it is looked at nowhere.
Settles(op, r) ==
    \/ Answered(ServiceMsg(op, r)) \/ Lost(ServiceMsg(op, r))
    \/ r \notin Task /\ unsigned' = unsigned \cup {r} /\ UNCHANGED <<ledger, net>>

\* captureAuthorization sends nothing either for an amount that is no number,
\* which a missing one has become.
Captures(r) ==
    \/ r \in Amountless /\ UNCHANGED <<ledger, net, unsigned>>
    \/ r \notin Amountless /\ Settles("capture", r)

(***************************************************************************)
(* verifyRequest.                                                          *)
(***************************************************************************)
\* The payload cannot be digested, or the verdict is not a permit.
Refuse(r) ==
    /\ Step(r, "verifying", "done")
    /\ Told(r, "refused")
    /\ UNCHANGED <<ledger, net, unsigned, tries, ran>>

Verified(r) ==
    /\ Step(r, "verifying", "claiming")
    /\ tries' = [tries EXCEPT ![r] = ClaimTries]
    /\ UNCHANGED <<ledger, net, unsigned, ran, answer>>

\* Mutant: any claim of the authorization answers this request's claim.
GrantsAnyClaim(r) ==
    \/ MayClaim(ServiceMsg("claim", r))
    \/ claimer[CallOf[r]] # NoReq

\* The claim is this request's, now or on an attempt with the same key.
Grants(r) ==
    \/ MayClaim(ServiceMsg("claim", r))
    \/ claimer[CallOf[r]] = r

ClaimGranted(r) ==
    /\ Grants(r)
    /\ Step(r, "claiming", "granted")
    /\ Answered(ServiceMsg("claim", r))
    /\ UNCHANGED <<tries, ran, answer>>

ClaimRefused(r) ==
    /\ ~ Grants(r)
    /\ Step(r, "claiming", "done")
    /\ Told(r, "refused")
    /\ UNCHANGED <<ledger, net, unsigned, tries, ran>>

\* Mutant: one attempt too many.
ClaimLostOffByOne(r) ==
    /\ Step(r, "claiming", IF tries[r] = 0 THEN "done" ELSE "claiming")
    /\ tries' = [tries EXCEPT ![r] = IF @ = 0 THEN 0 ELSE @ - 1]
    /\ IF tries[r] = 0 THEN Told(r, "refused") ELSE UNCHANGED answer
    /\ Lost(ServiceMsg("claim", r))
    /\ UNCHANGED ran

ClaimLost(r) ==
    /\ Step(r, "claiming", IF tries[r] = 1 THEN "done" ELSE "claiming")
    /\ tries' = [tries EXCEPT ![r] = @ - 1]
    /\ IF tries[r] = 1 THEN Told(r, "refused") ELSE UNCHANGED answer
    /\ Lost(ServiceMsg("claim", r))
    /\ UNCHANGED ran

\* What the grant names is not this request: released, then refused.
GrantMismatch(r) ==
    /\ Step(r, "granted", "refusing")
    /\ UNCHANGED <<ledger, net, unsigned, tries, ran, answer>>

(***************************************************************************)
(* guardIncomingTool.                                                      *)
(***************************************************************************)
\* The capability is missing, invalid, or could not be checked.
CapabilityRefused(r) ==
    /\ Capabilities /\ r \notin Task
    /\ Step(r, "granted", "done")
    /\ Told(r, "incapable")
    /\ UNCHANGED <<ledger, net, unsigned, tries, ran>>

CapabilityPasses(r) ==
    /\ r \notin Task
    /\ Step(r, "granted", "permitted")
    /\ UNCHANGED <<ledger, net, unsigned, tries, ran, answer>>

\* Mutant: the refusal leaves the claim as it is.
CheckRefusesOnly(r) ==
    /\ Step(r, "permitted", "done")
    /\ Told(r, "refused")
    /\ UNCHANGED <<ledger, net, unsigned, tries, ran>>

\* The arguments hold forbidden words, or nobody vouches for a principal.
CheckRefuses(r) ==
    /\ Step(r, "permitted", "refusing")
    /\ UNCHANGED <<ledger, net, unsigned, tries, ran, answer>>

\* One release, best effort; the caller is refused in any case.
Release(r) ==
    /\ Step(r, "refusing", "done")
    /\ Told(r, "refused")
    /\ Settles("void", r)
    /\ UNCHANGED <<tries, ran>>

Run(r) ==
    /\ Step(r, "permitted", "running")
    /\ ran' = ran \cup {r}
    /\ UNCHANGED <<ledger, net, unsigned, tries, answer>>

\* Mutant: the answer is checked, and perhaps withheld, before it is settled.
ReturnsUnsettled(r) ==
    /\ Step(r, "running", "checking")
    /\ UNCHANGED <<ledger, net, unsigned, tries, ran, answer>>

Returns(r) ==
    /\ Step(r, "running", "capturing")
    /\ UNCHANGED <<ledger, net, unsigned, tries, ran, answer>>

\* Mutant: an exception is taken for "nothing was executed".
ThrowsReleases(r) ==
    /\ Step(r, "running", "refusing")
    /\ UNCHANGED <<ledger, net, unsigned, tries, ran, answer>>

Throws(r) ==
    /\ Step(r, "running", "marking")
    /\ UNCHANGED <<ledger, net, unsigned, tries, ran, answer>>

\* One capture, whatever becomes of it ...
Capture(r) ==
    /\ r \notin Task
    /\ Step(r, "capturing", "checking")
    /\ Captures(r)
    /\ UNCHANGED <<tries, ran, answer>>

\* ... and then the access check lets the answer out or withholds it.
CheckAnswer(r) ==
    /\ Step(r, "checking", "done")
    /\ Told(r, "result") \/ Told(r, "withheld")
    /\ UNCHANGED <<ledger, net, unsigned, tries, ran>>

\* The effect is UNKNOWN; the handler's error goes to the caller.
MarkUnknown(r) ==
    /\ Step(r, "marking", "done")
    /\ Told(r, "error")
    /\ Settles("unknown", r)
    /\ UNCHANGED <<tries, ran>>

(***************************************************************************)
(* guardA2ATask: its handler starts on the permit itself, and its answer   *)
(* leaves with the capture.                                                *)
(***************************************************************************)
TaskRuns(r) ==
    /\ r \in Task
    /\ Step(r, "granted", "running")
    /\ ran' = ran \cup {r}
    /\ UNCHANGED <<ledger, net, unsigned, tries, answer>>

TaskCapture(r) ==
    /\ r \in Task
    /\ Step(r, "capturing", "done")
    /\ Told(r, "result")
    /\ Captures(r)
    /\ UNCHANGED <<tries, ran>>

Crash(r) ==
    /\ at[r] \in InProgress
    /\ at' = [at EXCEPT ![r] = "crashed"]
    /\ UNCHANGED <<ledger, net, unsigned, tries, ran, answer>>

(***************************************************************************)
(* The agent, the gate and late messages.                                  *)
(***************************************************************************)
AgentAuthorizes(c) ==
    /\ CanMint(c)
    /\ Answered(AgentMsg("authorize", c))
    /\ UNCHANGED <<at, tries, ran, answer>>

\* The same signed request may be presented more than once.
Present(r) ==
    /\ hold[CallOf[r]] # "none"
    /\ Step(r, "idle", "verifying")
    /\ UNCHANGED <<ledger, net, unsigned, tries, ran, answer>>

AgentSettles(c) ==
    /\ hold[c] \in {"held", "claimed"}
    /\ Answered(AgentMsg("void", c)) \/ Answered(AgentMsg("capture", c))
    /\ UNCHANGED <<at, tries, ran, answer>>

Deliver(m) ==
    /\ m \in net
    /\ Process(m)
    /\ UNCHANGED <<net, unsigned, at, tries, ran, answer>>

Lapse(c) ==
    /\ Expire(c)
    /\ UNCHANGED <<net, unsigned, at, tries, ran, answer>>

ToolStep(r) ==
    \/ Refuse(r) \/ Verified(r)
    \/ ClaimGranted(r) \/ ClaimRefused(r) \/ ClaimLost(r) \/ GrantMismatch(r)
    \/ CapabilityRefused(r) \/ CapabilityPasses(r) \/ CheckRefuses(r) \/ Release(r)
    \/ Run(r) \/ Returns(r) \/ Throws(r)
    \/ Capture(r) \/ CheckAnswer(r) \/ MarkUnknown(r)
    \/ TaskRuns(r) \/ TaskCapture(r)

Next ==
    \/ \E c \in Call : AgentAuthorizes(c) \/ AgentSettles(c) \/ Lapse(c)
    \/ \E r \in Req : Present(r) \/ ToolStep(r) \/ Crash(r)
    \/ \E m \in net : Deliver(m)

Spec == Init /\ [][Next]_vars

(***************************************************************************)
(* Properties.                                                             *)
(***************************************************************************)
\* One authorization runs one handler, however often its request is presented
\* and wherever the claim was lost.
RunsOnce == \A r, s \in ran : CallOf[r] = CallOf[s] => r = s

\* Once a handler has started, its spend stays committed: not the agent, not a
\* late message, not an exception gives the budget back.
RunStaysCommitted ==
    \A r \in ran : hold[CallOf[r]] \in {"claimed", "captured", "unknown"}

\* "a claimed hold is settled as executed first": no caller has the answer, or
\* knows that it is withheld, before the hold was captured, the one message that
\* captures it went missing, or the service failed to sign it.  Not so for a
\* request without an amount.
SettledBeforeAnswered ==
    \A r \in Req \ Amountless :
        answer[r] \in {"result", "withheld"} =>
            \/ hold[CallOf[r]] = "captured"
            \/ ServiceMsg("capture", r) \in net
            \/ r \in unsigned

\* Nothing came between a request and the gate: no message of its claim or of
\* its release is missing, and the release was signed.
Heard(r) ==
    r \notin unsigned /\ \A op \in {"claim", "void"} : ServiceMsg(op, r) \notin net

\* A request refused for its claim, its grant, its words or its principal does
\* not keep its hold claimed, if the gate heard it.
RefusedIsReleased ==
    \A r \in Req :
        answer[r] = "refused" /\ claimer[CallOf[r]] = r /\ Heard(r)
        => hold[CallOf[r]] # "claimed"

\* "A refusal before the handler runs: a hold this guard settles is released",
\* whatever it was refused for: the same of the capability check.
RefusalReleases ==
    \A r \in Req :
        answer[r] \in {"refused", "incapable"} /\ claimer[CallOf[r]] = r /\ Heard(r)
        => hold[CallOf[r]] # "claimed"
=============================================================================
