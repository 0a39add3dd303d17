--------------------------- MODULE HoldSettlement ---------------------------
(***************************************************************************)
(* The life of an authorization between three parties that share nothing   *)
(* but messages: the agent whose guarded tool was permitted (guardTool,    *)
(* agentsafe-guard.mjs), the services its tool hands the request to        *)
(* (agentsafe-http-gateway/gateway.mjs, with agentsafe-mcp-guard.mjs       *)
(* inside), and the gate that keeps the ledger (module Issuer).            *)
(*                                                                         *)
(* A call to the gate either is processed and answered in one step, or its *)
(* outcome is ambiguous to the caller: the message joins `net`, where the  *)
(* gate may process it at any later time, more than once, or never.  A     *)
(* lost request, a lost answer, a proxy's 5xx and a late delivery are all  *)
(* that one case, and so is a call the sender's key could not sign: it is  *)
(* a message that is never processed.                                      *)
(***************************************************************************)
EXTENDS Issuer

CONSTANTS
    InProcess,     \* calls whose tool acts in the agent's own process
    Candid,        \* calls whose tool claims that nothing ran only if so
    Claiming,      \* requests served with requireAuthorization
    OrphanLooks,   \* orphanReleaseDelaysMs.length
    CaptureTries,  \* captureRan's [0, 250, 1000].length
    ClaimTries,    \* attempts in claimAuthorization
    SettleTries    \* settleRetryDelaysMs.length + 1

ASSUME InProcessAssumption == InProcess \subseteq Call
ASSUME CandidAssumption == Candid \subseteq Call
ASSUME ClaimingAssumption == Claiming \subseteq Req
ASSUME TriesAssumption ==
    {OrphanLooks, CaptureTries, ClaimTries, SettleTries} \subseteq Nat \ {0}

VARIABLES
    net,      \* messages the gate may still process
    agent,    \* where each guarded call stands in the agent's process
    left,     \* attempts the agent has left in its current retry loop
    saw,      \* what effectStatus told settleDelegated and captureRan
    acted,    \* calls whose in-process tool had its effect
    service,  \* where each handed-over request stands in its service
    tries,    \* attempts the service has left in its current retry loop
    closing,  \* how the service closes the hold it claimed
    upstream, \* what became of the forwarded request at the upstream
    answer    \* what the tool was answered

agentVars == <<agent, left, saw, acted>>
serviceVars == <<service, tries, closing, upstream, answer>>
vars == <<hold, claimer, net, agent, left, saw, acted,
          service, tries, closing, upstream, answer>>

\* "voidX": about to release the hold because of X.
AgentState == {"idle", "orphaned", "permitted", "running", "askDelegated",
               "askRan", "capturing", "voidOrphan", "voidUnbound",
               "voidFailed", "voidUnclaimed", "done", "crashed"}
Voiding == {"voidOrphan", "voidUnbound", "voidFailed", "voidUnclaimed"}
Fx == {"none", "blind", "unclaimed", "busy"}
ServiceState == {"idle", "verifying", "claiming", "granted", "forwarding", "closing",
                 "releasing", "done", "crashed"}
Upstream == {"none", "pending", "ran", "declined"}
Answer == {"none", "result", "refused", "withheld"}

\* A loop's counter never exceeds the longest loop.
Attempts == 0..(OrphanLooks + CaptureTries)
Retries == 0..(ClaimTries + SettleTries)

\* Types of the state, and that a request that closes knows how: the agent and
\* the services keep no state outside the code's (guardTool, decide).
TypeOK ==
    /\ IssuerTypeOK
    /\ net \subseteq Message
    /\ agent \in [Call -> AgentState]
    /\ left \in [Call -> Attempts]
    /\ saw \in [Call -> [delegated : Fx, ran : Fx]]
    /\ acted \subseteq InProcess
    /\ service \in [Req -> ServiceState]
    /\ tries \in [Req -> Retries]
    /\ closing \in [Req -> {"none", "capture", "void", "unknown"}]
    /\ \A r \in Req : service[r] = "closing" => closing[r] # "none"
    /\ upstream \in [Req -> Upstream]
    /\ answer \in [Req -> Answer]

Init ==
    /\ IssuerInit
    /\ net = {}
    /\ agent = [c \in Call |-> "idle"]
    /\ left = [c \in Call |-> 0]
    /\ saw = [c \in Call |-> [delegated |-> "none", ran |-> "none"]]
    /\ acted = {}
    /\ service = [r \in Req |-> "idle"]
    /\ tries = [r \in Req |-> 0]
    /\ closing = [r \in Req |-> "none"]
    /\ upstream = [r \in Req |-> "none"]
    /\ answer = [r \in Req |-> "none"]

Delegated(c) == c \notin InProcess

Ran(c) ==
    \/ c \in acted
    \/ \E r \in Req : CallOf[r] = c /\ upstream[r] = "ran"

(***************************************************************************)
(* Calls to the gate.                                                      *)
(***************************************************************************)
Answered(m) == Process(m) /\ UNCHANGED net

Lost(m) == net' = net \cup {m} /\ UNCHANGED ledger

AgentAt(c, from, to) ==
    /\ agent[c] = from
    /\ agent' = [agent EXCEPT ![c] = to]

ServiceAt(r, from, to) ==
    /\ service[r] = from
    /\ service' = [service EXCEPT ![r] = to]

(***************************************************************************)
(* The agent: authorize.                                                   *)
(***************************************************************************)
\* A permit arrived, and with it the acknowledgement of the payload binding.
Permitted(c) ==
    /\ CanMint(c)
    /\ AgentAt(c, "idle", "permitted")
    /\ Answered(AgentMsg("authorize", c))
    /\ UNCHANGED <<left, saw, acted, serviceVars>>

\* A permit that does not echo the payload digest is refused and released.
PermitUnbound(c) ==
    /\ CanMint(c)
    /\ AgentAt(c, "idle", "voidUnbound")
    /\ Answered(AgentMsg("authorize", c))
    /\ UNCHANGED <<left, saw, acted, serviceVars>>

\* The gate refused, or the request could not be signed: nothing was minted.
Refused(c) ==
    /\ AgentAt(c, "idle", "done")
    /\ UNCHANGED <<ledger, net, left, saw, acted, serviceVars>>

\* No decision came back: blocked here, and the hold it may have minted is
\* looked up in the background.
AuthorizeLost(c) ==
    /\ AgentAt(c, "idle", "orphaned")
    /\ Lost(AgentMsg("authorize", c))
    /\ left' = [left EXCEPT ![c] = OrphanLooks]
    /\ UNCHANGED <<saw, acted, serviceVars>>

\* releaseOrphan's timer: the hold is there, so it is released and that is all.
OrphanFound(c) ==
    /\ hold[c] # "none"
    /\ left[c] > 0
    /\ AgentAt(c, "orphaned", "voidOrphan")
    /\ UNCHANGED <<ledger, net, left, saw, acted, serviceVars>>

\* Mutant: one look too many.
OrphanNotFoundOffByOne(c) ==
    /\ AgentAt(c, "orphaned", IF left[c] = 0 THEN "done" ELSE "orphaned")
    /\ left' = [left EXCEPT ![c] = @ - 1]
    /\ UNCHANGED <<ledger, net, saw, acted, serviceVars>>

\* Not there yet, or the gate is unreachable: look again after the next delay.
OrphanNotFound(c) ==
    /\ left[c] > 0
    /\ AgentAt(c, "orphaned", IF left[c] = 1 THEN "done" ELSE "orphaned")
    /\ left' = [left EXCEPT ![c] = @ - 1]
    /\ UNCHANGED <<ledger, net, saw, acted, serviceVars>>

(***************************************************************************)
(* The agent: the tool runs.                                               *)
(***************************************************************************)
StartTool(c) ==
    /\ AgentAt(c, "permitted", "running")
    /\ UNCHANGED <<ledger, net, left, saw, acted, serviceVars>>

Act(c) ==
    /\ c \in InProcess
    /\ agent[c] = "running"
    /\ acted' = acted \cup {c}
    /\ UNCHANGED <<ledger, net, agent, left, saw, serviceVars>>

\* The tool sends its governanceHeaders() to a service; it may send them again.
HandOver(c, r) ==
    /\ Delegated(c) /\ CallOf[r] = c
    /\ agent[c] = "running"
    /\ ServiceAt(r, "idle", "verifying")
    /\ UNCHANGED <<ledger, net, agentVars, tries, closing, upstream, answer>>

\* The tool returned: a value-bearing call handed to a gateway is settled by
\* settleDelegated, any other by captureRan.
ToolReturns(c) ==
    /\ AgentAt(c, "running",
               IF Delegated(c) /\ c \in Valued THEN "askDelegated" ELSE "askRan")
    /\ UNCHANGED <<ledger, net, left, saw, acted, serviceVars>>

\* Mutant: every error of an in-process tool says that nothing ran.
EveryErrorSaysNothingRan(c) ==
    \/ c \notin Candid
    \/ c \in InProcess
    \/ \E r \in Req : CallOf[r] = c /\ answer[r] \in {"refused", "withheld"}

\* nothingRan: a GovernanceBlocked a service raised, or what the tool says of
\* itself, in its error or through releaseOnError.  Only a candid tool says so
\* for the reason that it has not acted.
SaysNothingRan(c) ==
    \/ c \notin Candid
    \/ c \in InProcess /\ c \notin acted
    \/ \E r \in Req : CallOf[r] = c /\ answer[r] \in {"refused", "withheld"}

ToolFailsUnrun(c) ==
    /\ SaysNothingRan(c)
    /\ AgentAt(c, "running", "voidFailed")
    /\ UNCHANGED <<ledger, net, left, saw, acted, serviceVars>>

\* Any other error keeps the hold, and so does the AUTHORIZATION_CONTEXT_REQUIRED
\* of an outdated gateway, whatever nothingRan says of it.
ToolFails(c) ==
    /\ AgentAt(c, "running", "done")
    /\ UNCHANGED <<ledger, net, left, saw, acted, serviceVars>>
(***************************************************************************)
(* The agent: the hold is settled.                                         *)
(***************************************************************************)
\* What effectStatus may return: the truth, or that the gate cannot be asked.
Asked(c) == {EffectOf(c), "blind"}

\* Mutant: a delegated tool that returned is taken to have run.
SettleDelegatedTrusting(c) ==
    \E fx \in Asked(c) :
        /\ AgentAt(c, "askDelegated", IF fx = "busy" THEN "done" ELSE "askRan")
        /\ saw' = [saw EXCEPT ![c].delegated = fx]
        /\ UNCHANGED <<ledger, net, left, acted, serviceVars>>

\* settleDelegated: a hold no service claimed is released, one in use is left
\* alone, and an agent that cannot ask goes on to captureRan.
SettleDelegated(c) ==
    \E fx \in Asked(c) :
        /\ \/ fx = "busy" /\ AgentAt(c, "askDelegated", "done")
           \/ fx = "unclaimed" /\ AgentAt(c, "askDelegated", "voidUnclaimed")
           \/ fx = "blind" /\ AgentAt(c, "askDelegated", "askRan")
        /\ saw' = [saw EXCEPT ![c].delegated = fx]
        /\ UNCHANGED <<ledger, net, left, acted, serviceVars>>

\* captureRan asks (again, after settleDelegated) and captures unless in use.
CaptureRan(c) ==
    \E fx \in Asked(c) :
        /\ AgentAt(c, "askRan", IF fx = "busy" THEN "done" ELSE "capturing")
        /\ saw' = [saw EXCEPT ![c].ran = fx]
        /\ left' = [left EXCEPT ![c] = CaptureTries]
        /\ UNCHANGED <<ledger, net, acted, serviceVars>>

\* An answer ends the loop, whatever it says.
CaptureAnswered(c) ==
    /\ AgentAt(c, "capturing", "done")
    /\ Answered(AgentMsg("capture", c))
    /\ UNCHANGED <<left, saw, acted, serviceVars>>

\* Mutant: a capture that goes missing starts captureRan over.
CaptureLostRestarts(c) ==
    /\ AgentAt(c, "capturing", "askRan")
    /\ Lost(AgentMsg("capture", c))
    /\ UNCHANGED <<left, saw, acted, serviceVars>>

CaptureLost(c) ==
    /\ left[c] > 0
    /\ AgentAt(c, "capturing", IF left[c] = 1 THEN "done" ELSE "capturing")
    /\ left' = [left EXCEPT ![c] = @ - 1]
    /\ Lost(AgentMsg("capture", c))
    /\ UNCHANGED <<saw, acted, serviceVars>>

\* voidHold is tried once and never throws.
Voids(c) ==
    /\ agent[c] \in Voiding
    /\ agent' = [agent EXCEPT ![c] = "done"]
    /\ \/ Answered(AgentMsg("void", c))
       \/ Lost(AgentMsg("void", c))
    /\ UNCHANGED <<left, saw, acted, serviceVars>>

\* The process dies: timers, retries and the permit die with it.  A call whose
\* request is never answered (it has no time limit) is left the same way.
AgentCrash(c) ==
    /\ agent[c] \notin {"idle", "done", "crashed"}
    /\ agent' = [agent EXCEPT ![c] = "crashed"]
    /\ UNCHANGED <<ledger, net, left, saw, acted, serviceVars>>

(***************************************************************************)
(* The service: verify, claim, forward.                                    *)
(***************************************************************************)
\* A route, body, signature or policy refusal: before anything is claimed.
RefuseUnverified(r) ==
    /\ ServiceAt(r, "verifying", "done")
    /\ answer' = [answer EXCEPT ![r] = "refused"]
    /\ UNCHANGED <<ledger, net, agentVars, tries, closing, upstream>>

\* A permit is claimed when the service runs with requireAuthorization.
Verified(r) ==
    /\ ServiceAt(r, "verifying", IF r \in Claiming THEN "claiming" ELSE "granted")
    /\ tries' = [tries EXCEPT ![r] = ClaimTries]
    /\ UNCHANGED <<ledger, net, agentVars, closing, upstream, answer>>

\* Mutant: the idempotency key is the authorization's, not the request's.
GrantsSharedKey(r) ==
    \/ MayClaim(ServiceMsg("claim", r))
    \/ claimer[CallOf[r]] # NoReq

\* Granted to the caller whose claim it is, now or on an earlier attempt with
\* the same idempotency key.
Grants(r) ==
    \/ MayClaim(ServiceMsg("claim", r))
    \/ claimer[CallOf[r]] = r

ClaimGranted(r) ==
    /\ Grants(r)
    /\ ServiceAt(r, "claiming", "granted")
    /\ Answered(ServiceMsg("claim", r))
    /\ UNCHANGED <<agentVars, tries, closing, upstream, answer>>

\* Mutant: a refused claim does not stop the request.
ClaimRefusedFailsOpen(r) ==
    /\ ~ Grants(r)
    /\ ServiceAt(r, "claiming", "granted")
    /\ UNCHANGED <<ledger, net, agentVars, tries, closing, upstream, answer>>

ClaimRefused(r) ==
    /\ ~ Grants(r)
    /\ ServiceAt(r, "claiming", "done")
    /\ answer' = [answer EXCEPT ![r] = "refused"]
    /\ UNCHANGED <<ledger, net, agentVars, tries, closing, upstream>>

\* Mutant: an unreachable gate sends the request through verification again.
ClaimLostVerifiesAgain(r) ==
    /\ tries[r] > 0
    /\ ServiceAt(r, "claiming", IF tries[r] = 1 THEN "verifying" ELSE "claiming")
    /\ tries' = [tries EXCEPT ![r] = @ - 1]
    /\ Lost(ServiceMsg("claim", r))
    /\ UNCHANGED <<agentVars, closing, upstream, answer>>

\* Ambiguous: retried with the same key, then refused as unreachable, although
\* the claim may have landed or may still land.
ClaimLost(r) ==
    /\ tries[r] > 0
    /\ ServiceAt(r, "claiming", IF tries[r] = 1 THEN "done" ELSE "claiming")
    /\ tries' = [tries EXCEPT ![r] = @ - 1]
    /\ answer' = IF tries[r] = 1 THEN [answer EXCEPT ![r] = "refused"] ELSE answer
    /\ Lost(ServiceMsg("claim", r))
    /\ UNCHANGED <<agentVars, closing, upstream>>

\* Mutant: a refusal after the grant forgets the hold it claimed.
UnexecutedKeepsClaim(r) ==
    /\ ServiceAt(r, "granted", "done")
    /\ answer' = [answer EXCEPT ![r] = "refused"]
    /\ UNCHANGED <<ledger, net, agentVars, tries, closing, upstream>>

\* Refused after the grant with nothing sent: a mismatch the claim revealed, an
\* output, access or credential refusal, or an upstream never reached.
Unexecuted(r) ==
    /\ ServiceAt(r, "granted", IF r \in Claiming THEN "releasing" ELSE "done")
    /\ answer' = IF r \in Claiming THEN answer ELSE [answer EXCEPT ![r] = "refused"]
    /\ UNCHANGED <<ledger, net, agentVars, tries, closing, upstream>>

\* releaseUnexecuted is tried once; the caller is answered afterwards.
ReleaseUnexecuted(r) ==
    /\ ServiceAt(r, "releasing", "done")
    /\ answer' = [answer EXCEPT ![r] = "refused"]
    /\ \/ Answered(ServiceMsg("void", r))
       \/ Lost(ServiceMsg("void", r))
    /\ UNCHANGED <<agentVars, tries, closing, upstream>>

Forward(r) ==
    /\ ServiceAt(r, "granted", "forwarding")
    /\ upstream' = [upstream EXCEPT ![r] = "pending"]
    /\ UNCHANGED <<ledger, net, agentVars, tries, closing, answer>>

\* The upstream gets to the request in its own time, also after the gateway
\* has stopped waiting for it.
UpstreamRuns(r) ==
    /\ upstream[r] = "pending"
    /\ upstream' = [upstream EXCEPT ![r] = "ran"]
    /\ UNCHANGED <<ledger, net, agentVars, service, tries, closing, answer>>

UpstreamDeclines(r) ==
    /\ upstream[r] = "pending"
    /\ upstream' = [upstream EXCEPT ![r] = "declined"]
    /\ UNCHANGED <<ledger, net, agentVars, service, tries, closing, answer>>

(***************************************************************************)
(* The service: the hold is closed in the background.                      *)
(***************************************************************************)
\* Mutant: an upstream that does not answer is taken not to have run.
VerdictsOnSilence(r) ==
    {"unknown", "void"} \cup (IF upstream[r] = "ran" THEN {"capture"} ELSE {})

\* How closeHold reads the upstream's answer.  A 2xx comes from an upstream
\* that ran; a status in releaseOnStatus guarantees that it did not; any other
\* status, or none, says nothing either way.
Verdicts(r) ==
    {"unknown"} \cup (IF upstream[r] = "ran" THEN {"capture"} ELSE {})
                \cup (IF upstream[r] = "declined" THEN {"void"} ELSE {})

\* The caller is answered at once.  An access check may withhold an answer that
\* is not a plain error.
UpstreamAnswers(r) ==
    \E v \in Verdicts(r), a \in {"result", "withheld"} :
        /\ a = "withheld" => v # "void" /\ upstream[r] # "pending"
        /\ ServiceAt(r, "forwarding", IF r \in Claiming THEN "closing" ELSE "done")
        /\ closing' = [closing EXCEPT ![r] = v]
        /\ tries' = [tries EXCEPT ![r] = SettleTries]
        /\ answer' = [answer EXCEPT ![r] = a]
        /\ UNCHANGED <<ledger, net, agentVars, upstream>>

\* settleCall: any answer is final, a transient failure is retried.
CloseAnswered(r) ==
    /\ ServiceAt(r, "closing", "done")
    /\ Answered(ServiceMsg(closing[r], r))
    /\ UNCHANGED <<agentVars, tries, closing, upstream, answer>>

CloseLost(r) ==
    /\ tries[r] > 0
    /\ ServiceAt(r, "closing", IF tries[r] = 1 THEN "done" ELSE "closing")
    /\ tries' = [tries EXCEPT ![r] = @ - 1]
    /\ Lost(ServiceMsg(closing[r], r))
    /\ UNCHANGED <<agentVars, closing, upstream, answer>>

\* The process dies, or is stopped before its settlements have drained, or the
\* request waits for an answer that never comes.
ServiceCrash(r) ==
    /\ service[r] \notin {"idle", "done", "crashed"}
    /\ service' = [service EXCEPT ![r] = "crashed"]
    /\ UNCHANGED <<ledger, net, agentVars, tries, closing, upstream, answer>>

(***************************************************************************)
(* The gate, on its own time.                                              *)
(***************************************************************************)
Deliver(m) ==
    /\ m \in net
    /\ Process(m)
    /\ UNCHANGED <<net, agentVars, serviceVars>>

Lapse(c) ==
    /\ Expire(c)
    /\ UNCHANGED <<net, agentVars, serviceVars>>

(***************************************************************************)
(* The specification.                                                      *)
(***************************************************************************)
\* Steps the agent's runtime takes by itself: an await settles, a timer fires,
\* and a tool that was started returns or throws.
AgentStep(c) ==
    \/ OrphanFound(c) \/ OrphanNotFound(c)
    \/ StartTool(c) \/ ToolReturns(c) \/ ToolFailsUnrun(c) \/ ToolFails(c)
    \/ SettleDelegated(c) \/ CaptureRan(c)
    \/ CaptureAnswered(c) \/ CaptureLost(c) \/ Voids(c)

ServiceStep(r) ==
    \/ RefuseUnverified(r) \/ Verified(r)
    \/ ClaimGranted(r) \/ ClaimRefused(r) \/ ClaimLost(r)
    \/ Unexecuted(r) \/ ReleaseUnexecuted(r)
    \/ Forward(r) \/ UpstreamAnswers(r)
    \/ CloseAnswered(r) \/ CloseLost(r)

Next ==
    \/ \E c \in Call :
          \/ Permitted(c) \/ PermitUnbound(c) \/ Refused(c) \/ AuthorizeLost(c)
          \/ Act(c) \/ AgentStep(c) \/ AgentCrash(c) \/ Lapse(c)
          \/ \E r \in Req : HandOver(c, r)
    \/ \E r \in Req :
          \/ ServiceStep(r) \/ ServiceCrash(r)
          \/ UpstreamRuns(r) \/ UpstreamDeclines(r)
    \/ \E m \in net : Deliver(m)

Fairness ==
    /\ \A c \in Call : WF_vars(AgentStep(c))
    /\ \A r \in Req : WF_vars(ServiceStep(r))

Spec == Init /\ [][Next]_vars /\ Fairness

(***************************************************************************)
(* Properties.                                                             *)
(***************************************************************************)
Spending == {"claimed", "captured", "unknown"}

\* One authorization is one execution: of all the requests that present it,
\* replays included, services that claim send at most one upstream
\* (claimAuthorization's single-use claim; the gateway's Idempotency-Key).
OneExecution ==
    \A r, s \in Claiming :
        /\ CallOf[r] = CallOf[s]
        /\ upstream[r] # "none"
        /\ upstream[s] # "none"
        => r = s

\* What a claiming service has sent upstream, and the upstream has not
\* declined, counts against the cap from then on: no release by the agent,
\* by an earlier or late message, or by the TTL hands its budget back.
ExecutedStaysCommitted ==
    \A r \in Claiming :
        upstream[r] \in {"pending", "ran"} => hold[CallOf[r]] \in Spending

\* A hold whose budget was handed back by a void, the agent's or the service's,
\* belongs to a call that did nothing (nothingRan, settleDelegated, releaseOrphan,
\* releaseUnexecuted, closeHold), or to an in-process tool that acted and then
\* claimed otherwise, which nothing can check.
ReleasedNeverRan ==
    \A c \in Call : hold[c] = "voided" /\ Ran(c) => c \in InProcess \ Candid

\* A value-bearing call that a gateway did not run is booked as spend only by
\* an agent whose settleDelegated could not ask the gate about it.
UnrunSpendOnlyWhenBlind ==
    \A c \in Valued \ InProcess :
        hold[c] = "captured" /\ ~ Ran(c) => saw[c].delegated = "blind"

\* A service that finished with a request never leaves the hold it claimed
\* claimed, unless a message of it to the gate went missing.
NoStrandedClaim ==
    \A r \in Claiming :
        /\ hold[CallOf[r]] = "claimed"
        /\ claimer[CallOf[r]] = r
        /\ service[r] = "done"
        => \E op \in {"claim", "void", "capture", "unknown"} : ServiceMsg(op, r) \in net

\* The value-bearing calls that claiming services ran, and those an agent booked
\* as spend, together never exceed the cap, whatever is lost, late or repeated.
ServiceSpend == {c \in Valued : \E r \in Claiming : CallOf[r] = c /\ upstream[r] = "ran"}
BookedSpend == {c \in Valued : hold[c] = "captured"}
SpendWithinCap == Cardinality(ServiceSpend \cup BookedSpend) <= Cap

\* Every guarded call ends: no retry, lookup or settlement loop of the agent
\* runs for ever.
CallsEnd ==
    \A c \in Call : agent[c] # "idle" ~> agent[c] \in {"done", "crashed"}

\* Every request a service took is answered and its settlement ends.
RequestsEnd ==
    \A r \in Req : service[r] # "idle" ~> service[r] \in {"done", "crashed"}

\* The three parties together keep the promise of module SingleUse.
MoneyOf(h) ==
    IF h = "none" THEN "free"
    ELSE IF h = "held" THEN "reserved"
    ELSE IF h \in Spending THEN "committed" ELSE "returned"

Money == [c \in Call |-> MoneyOf(hold[c])]
ServiceRan == {c \in Call : \E r \in Claiming : CallOf[r] = c /\ upstream[r] = "ran"}

Promise == INSTANCE SingleUse WITH money <- Money, spent <- ServiceRan
KeepsPromise == Promise!Spec

\* What the comments of guardTool say of two of its branches.
\* "failure -> released only when nothing can have run" (1144): the void that
\* follows an error is applied only to a call that did nothing.
FailureReleasesOnlyUnrun ==
    [][\A c \in Call :
          agent[c] = "voidFailed" /\ hold[c] = "held" /\ hold'[c] = "voided"
          => ~ Ran(c)]_vars

\* "Capturing that hold booked a refusal as spend ... It is released instead"
\* (1183): the agent of a call whose gateway refused goes on to capture its hold
\* only if the gate could not be asked, not if it said that nobody claimed it.
RefusalIsNotBooked ==
    [][\A c \in Valued \ InProcess :
          /\ agent[c] = "askRan" /\ agent'[c] = "capturing"
          /\ \E r \in Req : CallOf[r] = c /\ answer[r] = "refused"
          => saw'[c].ran = "blind"]_vars
=============================================================================
