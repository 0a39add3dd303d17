------------------------ MODULE HoldSettlementProofs ------------------------
(***************************************************************************)
(* Proofs about HoldSettlement for any number of calls, requests, services *)
(* and retries: the types, the single use of an authorization, that what a *)
(* service executed stays committed and within the cap, the refinement of  *)
(* SingleUse, and what a release, a booking and a claim left behind say.   *)
(***************************************************************************)
EXTENDS HoldSettlement, FiniteSetTheorems, TLAPS

\* Every message is an agent's own or is about the call its request presents.
WellAddressed == \A m \in net : m.req # NoReq => m.call = CallOf[m.req]

\* A hold has a claimer only once it has left "held", for good.
ClaimedOnce ==
    \A c \in Call : claimer[c] # NoReq => hold[c] \notin {"none", "held", "expired"}

\* A service goes beyond its claim only as the claimer.
Holds(r) == service[r] \in {"granted", "forwarding", "closing", "releasing"}
OwnsWhatItRuns ==
    \A r \in Claiming : Holds(r) \/ upstream[r] # "none" => claimer[CallOf[r]] = r

\* What is sent upstream, and when.
NotYetSent(r) == service[r] \in {"idle", "verifying", "claiming", "granted"}
SentInOrder ==
    \A r \in Claiming :
        /\ NotYetSent(r) \/ service[r] = "releasing" => upstream[r] = "none"
        /\ service[r] = "closing" /\ closing[r] = "void" => upstream[r] = "declined"

\* A service releases a hold only if it will never run anything under it.
MayYetRun(r) == NotYetSent(r) \/ upstream[r] \in {"pending", "ran"}
ReleasesOnlyUnrun ==
    \A r \in Claiming :
        ServiceMsg("void", r) \in net => ~ MayYetRun(r) /\ service[r] # "forwarding"

\* So the hold of what ran, or may yet run, counts against the cap.
RunsCommitted ==
    \A r \in Claiming :
        claimer[CallOf[r]] = r /\ MayYetRun(r) => hold[CallOf[r]] \in Spending

Safe ==
    /\ WellAddressed
    /\ ClaimedOnce
    /\ OwnsWhatItRuns
    /\ SentInOrder
    /\ ReleasesOnlyUnrun
    /\ RunsCommitted

IInv == TypeOK /\ Safe

USE DEF AgentMsg, ServiceMsg

(***************************************************************************)
(* Types.                                                                  *)
(***************************************************************************)
LEMMA ProcessType ==
    ASSUME IssuerTypeOK, NEW m \in Message, Process(m)
    PROVE  IssuerTypeOK'
BY DEF IssuerTypeOK, Process, Becomes, HoldStatus, Message, ledger

LEMMA MessageType ==
    ASSUME NEW op \in {"authorize", "claim", "capture", "void", "unknown"}
    PROVE  /\ \A c \in Call : AgentMsg(op, c) \in Message
           /\ \A r \in Req : ServiceMsg(op, r) \in Message
BY CallOfAssumption DEF Message

LEMMA TriesType ==
    /\ OrphanLooks \in Nat /\ OrphanLooks > 0
    /\ CaptureTries \in Nat /\ CaptureTries > 0
    /\ ClaimTries \in Nat /\ ClaimTries > 0
    /\ SettleTries \in Nat /\ SettleTries > 0
BY TriesAssumption

LEMMA AgentPermitType ==
    ASSUME TypeOK, NEW c \in Call,
           Permitted(c) \/ PermitUnbound(c) \/ Refused(c) \/ AuthorizeLost(c)
    PROVE  TypeOK'
<1>1. AgentMsg("authorize", c) \in Message
  BY MessageType
<1>2. CASE Permitted(c) \/ PermitUnbound(c)
  <2>1. Process(AgentMsg("authorize", c)) /\ UNCHANGED net
    BY <1>2 DEF Permitted, PermitUnbound, Answered
  <2>2. IssuerTypeOK'
    BY <1>1, <2>1, ProcessType DEF TypeOK
  <2>. QED BY <1>2, <2>1, <2>2
       DEF TypeOK, Permitted, PermitUnbound, AgentAt, AgentState, serviceVars
<1>3. CASE Refused(c)
  BY <1>3 DEF TypeOK, IssuerTypeOK, Refused, AgentAt, AgentState, serviceVars, ledger
<1>4. CASE AuthorizeLost(c)
  BY <1>1, <1>4, TriesType
     DEF TypeOK, IssuerTypeOK, AuthorizeLost, Lost, AgentAt, AgentState,
         serviceVars, ledger, Attempts
<1>. QED BY <1>2, <1>3, <1>4

LEMMA AgentRunType ==
    ASSUME TypeOK, NEW c \in Call,
           \/ OrphanFound(c) \/ OrphanNotFound(c) \/ StartTool(c) \/ Act(c)
           \/ ToolReturns(c) \/ ToolFailsUnrun(c) \/ ToolFails(c) \/ AgentCrash(c)
    PROVE  TypeOK'
BY TriesType, SMTT(30)
   DEF TypeOK, IssuerTypeOK, OrphanFound, OrphanNotFound, StartTool, Act, ToolReturns,
       ToolFailsUnrun, ToolFails, AgentCrash, AgentAt, AgentState, Attempts,
       serviceVars, ledger

LEMMA HandOverType ==
    ASSUME TypeOK, NEW c \in Call, NEW r \in Req, HandOver(c, r)
    PROVE  TypeOK'
BY DEF TypeOK, IssuerTypeOK, HandOver, ServiceAt, ServiceState, agentVars, ledger

LEMMA AgentSettleType ==
    ASSUME TypeOK, NEW c \in Call,
           \/ SettleDelegated(c) \/ CaptureRan(c)
           \/ CaptureAnswered(c) \/ CaptureLost(c) \/ Voids(c)
    PROVE  TypeOK'
<1>1. AgentMsg("capture", c) \in Message /\ AgentMsg("void", c) \in Message
  BY MessageType
<1>2. CASE SettleDelegated(c)
  <2>1. PICK fx \in Asked(c) : saw' = [saw EXCEPT ![c].delegated = fx]
    BY <1>2 DEF SettleDelegated
  <2>2. fx \in Fx
    BY DEF Asked, EffectOf, Fx
  <2>3. saw' \in [Call -> [delegated : Fx, ran : Fx]]
    BY <2>1, <2>2 DEF TypeOK
  <2>. QED BY <1>2, <2>3
       DEF TypeOK, IssuerTypeOK, SettleDelegated, AgentAt, AgentState, serviceVars, ledger
<1>3. CASE CaptureRan(c)
  <2>1. PICK fx \in Asked(c) : saw' = [saw EXCEPT ![c].ran = fx]
    BY <1>3 DEF CaptureRan
  <2>2. fx \in Fx
    BY DEF Asked, EffectOf, Fx
  <2>3. saw' \in [Call -> [delegated : Fx, ran : Fx]]
    BY <2>1, <2>2 DEF TypeOK
  <2>. QED BY <1>3, <2>3, TriesType
       DEF TypeOK, IssuerTypeOK, CaptureRan, AgentAt, AgentState, Attempts,
           serviceVars, ledger
<1>4. CASE CaptureAnswered(c)
  <2>1. IssuerTypeOK' /\ UNCHANGED net
    BY <1>1, <1>4, ProcessType DEF TypeOK, CaptureAnswered, Answered
  <2>. QED BY <1>4, <2>1
       DEF TypeOK, CaptureAnswered, AgentAt, AgentState, serviceVars
<1>5. CASE CaptureLost(c)
  BY <1>1, <1>5, TriesType
     DEF TypeOK, IssuerTypeOK, CaptureLost, Lost, AgentAt, AgentState, Attempts,
         serviceVars, ledger
<1>6. CASE Voids(c)
  <2>1. IssuerTypeOK' /\ net' \subseteq Message
    BY <1>1, <1>6, ProcessType
       DEF TypeOK, IssuerTypeOK, Voids, Answered, Lost, ledger
  <2>. QED BY <1>6, <2>1 DEF TypeOK, Voids, AgentState, serviceVars
<1>. QED BY <1>2, <1>3, <1>4, <1>5, <1>6

LEMMA ServiceType ==
    ASSUME TypeOK, NEW r \in Req,
           ServiceStep(r) \/ ServiceCrash(r) \/ UpstreamRuns(r) \/ UpstreamDeclines(r)
    PROVE  TypeOK'
<1>1. /\ ServiceMsg("claim", r) \in Message
      /\ ServiceMsg("void", r) \in Message
  BY MessageType
<1>2. CASE \/ RefuseUnverified(r) \/ Verified(r) \/ ClaimRefused(r) \/ Unexecuted(r)
           \/ Forward(r) \/ ServiceCrash(r) \/ UpstreamRuns(r) \/ UpstreamDeclines(r)
  BY <1>2, TriesType
     DEF TypeOK, IssuerTypeOK, RefuseUnverified, Verified, ClaimRefused, Unexecuted,
         Forward, ServiceCrash, UpstreamRuns, UpstreamDeclines, ServiceAt, ServiceState,
         Retries, Upstream, Answer, agentVars, ledger
<1>3. CASE ClaimGranted(r)
  <2>1. IssuerTypeOK' /\ UNCHANGED net
    BY <1>1, <1>3, ProcessType DEF TypeOK, ClaimGranted, Answered
  <2>. QED BY <1>3, <2>1 DEF TypeOK, ClaimGranted, ServiceAt, ServiceState, agentVars
<1>4. CASE ClaimLost(r)
  BY <1>1, <1>4, TriesType
     DEF TypeOK, IssuerTypeOK, ClaimLost, Lost, ServiceAt, ServiceState, Retries,
         Answer, agentVars, ledger
<1>5. CASE ReleaseUnexecuted(r)
  <2>1. IssuerTypeOK' /\ net' \subseteq Message
    BY <1>1, <1>5, ProcessType
       DEF TypeOK, IssuerTypeOK, ReleaseUnexecuted, Answered, Lost, ledger
  <2>. QED BY <1>5, <2>1
       DEF TypeOK, ReleaseUnexecuted, ServiceAt, ServiceState, Answer, agentVars
<1>6. CASE CloseAnswered(r) \/ CloseLost(r)
  <2>1. ServiceMsg(closing[r], r) \in Message
    BY <1>6, MessageType DEF TypeOK, CloseAnswered, CloseLost, ServiceAt
  <2>2. CASE CloseAnswered(r)
    <3>1. IssuerTypeOK' /\ UNCHANGED net
      BY <2>1, <2>2, ProcessType DEF TypeOK, CloseAnswered, Answered
    <3>. QED BY <2>2, <3>1
         DEF TypeOK, CloseAnswered, ServiceAt, ServiceState, agentVars
  <2>3. CASE CloseLost(r)
    BY <2>1, <2>3, TriesType
       DEF TypeOK, IssuerTypeOK, CloseLost, Lost, ServiceAt, ServiceState, Retries,
           agentVars, ledger
  <2>. QED BY <1>6, <2>2, <2>3
<1>7. CASE UpstreamAnswers(r)
  <2>1. PICK v \in Verdicts(r), a \in {"result", "withheld"} :
            /\ ServiceAt(r, "forwarding", IF r \in Claiming THEN "closing" ELSE "done")
            /\ closing' = [closing EXCEPT ![r] = v]
            /\ tries' = [tries EXCEPT ![r] = SettleTries]
            /\ answer' = [answer EXCEPT ![r] = a]
            /\ UNCHANGED <<ledger, net, agentVars, upstream>>
    BY <1>7 DEF UpstreamAnswers
  <2>2. v \in {"capture", "void", "unknown"}
    BY DEF Verdicts
  <2>. QED BY <2>1, <2>2, TriesType
       DEF TypeOK, IssuerTypeOK, ServiceAt, ServiceState, Retries, Answer, agentVars, ledger
<1>. QED BY <1>2, <1>3, <1>4, <1>5, <1>6, <1>7 DEF ServiceStep

LEMMA GateType ==
    ASSUME TypeOK,
           \/ \E m \in net : Deliver(m)
           \/ \E c \in Call : Lapse(c)
    PROVE  TypeOK'
<1>1. ASSUME NEW m \in net, Deliver(m) PROVE TypeOK'
  <2>1. IssuerTypeOK'
    BY <1>1, ProcessType DEF TypeOK, Deliver
  <2>. QED BY <1>1, <2>1 DEF TypeOK, Deliver, agentVars, serviceVars
<1>2. ASSUME NEW c \in Call, Lapse(c) PROVE TypeOK'
  BY <1>2 DEF TypeOK, IssuerTypeOK, Lapse, Expire, HoldStatus, agentVars, serviceVars
<1>. QED BY <1>1, <1>2

LEMMA InitType == Init => TypeOK
BY TriesType
   DEF Init, IssuerInit, TypeOK, IssuerTypeOK, HoldStatus, AgentState, Attempts, Fx,
       ServiceState, Retries, Upstream, Answer

LEMMA NextType == TypeOK /\ [Next]_vars => TypeOK'
<1>. SUFFICES ASSUME TypeOK, [Next]_vars PROVE TypeOK'
  OBVIOUS
<1>1. ASSUME NEW c \in Call,
             \/ Permitted(c) \/ PermitUnbound(c) \/ Refused(c) \/ AuthorizeLost(c)
             \/ Act(c) \/ AgentStep(c) \/ AgentCrash(c) \/ Lapse(c)
      PROVE  TypeOK'
  BY <1>1, AgentPermitType, AgentRunType, AgentSettleType, GateType DEF AgentStep
<1>2. ASSUME NEW c \in Call, NEW r \in Req, HandOver(c, r) PROVE TypeOK'
  BY <1>2, HandOverType
<1>3. ASSUME NEW r \in Req,
             ServiceStep(r) \/ ServiceCrash(r) \/ UpstreamRuns(r) \/ UpstreamDeclines(r)
      PROVE  TypeOK'
  BY <1>3, ServiceType
<1>4. CASE \E m \in net : Deliver(m)
  BY <1>4, GateType
<1>5. CASE UNCHANGED vars
  BY <1>5 DEF TypeOK, IssuerTypeOK, vars
<1>. QED BY <1>1, <1>2, <1>3, <1>4, <1>5 DEF Next

\* Every variable keeps its type, for all sets of calls and requests and any
\* number of retries.
THEOREM TypeCorrect == Spec => []TypeOK
BY InitType, NextType, PTL DEF Spec

(***************************************************************************)
(* The inductive invariant: steps of the gate.                             *)
(***************************************************************************)
Owners == \A r \in Claiming : claimer[CallOf[r]] = r => claimer'[CallOf[r]] = r

\* Whatever message the gate processes, a hold's claimer stays its claimer, and
\* only the claimer's own release takes a hold out of the spent statuses.
LEMMA ProcessKeeps ==
    ASSUME IInv, NEW m \in Message, Process(m),
           m.req # NoReq => m.call = CallOf[m.req],
           \A r \in Claiming : m = ServiceMsg("void", r) => ~ MayYetRun(r)
    PROVE  /\ ClaimedOnce'
           /\ Owners
           /\ \A r \in Claiming : claimer'[CallOf[r]] = r /\ MayYetRun(r)
                                 => hold'[CallOf[r]] \in Spending
<1>. USE ClaimingAssumption, CallOfAssumption, NoReqAssumption
<1>1. hold \in [Call -> HoldStatus] /\ claimer \in [Call -> Req \cup {NoReq}]
  BY DEF IInv, TypeOK, IssuerTypeOK
<1>2. m.call \in Call /\ m.req \in Req \cup {NoReq}
  BY DEF Message
<1>3. ClaimedOnce' /\ Owners
  BY <1>1, <1>2
     DEF IInv, Safe, ClaimedOnce, Owners, Process, Becomes, MayMint, CanMint, MayClaim,
         MayCapture, MayVoid, MayMarkUnknown, ledger
<1>4. ASSUME NEW r \in Claiming, claimer'[CallOf[r]] = r, MayYetRun(r)
      PROVE  hold'[CallOf[r]] \in Spending
  <2>1. claimer[CallOf[r]] = r => hold[CallOf[r]] \in Spending
    BY <1>4 DEF IInv, Safe, RunsCommitted
  <2>2. CASE m.call # CallOf[r]
    BY <1>1, <1>2, <1>4, <2>1, <2>2 DEF Process, Becomes, ledger
  <2>3. CASE m.call = CallOf[r] /\ MayClaim(m) /\ Becomes(m, "claimed")
    BY <1>1, <2>3 DEF Becomes, Spending
  <2>4. CASE m.call = CallOf[r] /\ claimer' = claimer
    <3>1. hold[m.call] \in Spending
      BY <1>4, <2>1, <2>4
    <3>2. ~ MayVoid(m)
      <4>1. SUFFICES ASSUME MayVoid(m) PROVE FALSE
        OBVIOUS
      <4>2. m.op = "void" /\ m.req = claimer[m.call]
        BY <3>1, <4>1 DEF MayVoid, Spending
      <4>3. m.req = r
        BY <1>4, <2>4, <4>2
      <4>4. m = ServiceMsg("void", r)
        BY <2>4, <4>2, <4>3 DEF Message
      <4>. QED BY <1>4, <4>4
    <3>. QED BY <1>1, <2>4, <3>1, <3>2
         DEF Process, Becomes, MayMint, CanMint, Spending, ledger,
             MayClaim
  <2>. QED BY <2>2, <2>3, <2>4 DEF Process, ledger
<1>. QED BY <1>3, <1>4

routing == <<service, closing, upstream>>

\* A message processed while no service moves.
LEMMA ProcessSafe ==
    ASSUME IInv, NEW m \in Message, Process(m), UNCHANGED <<net, routing>>,
           m.req # NoReq => m.call = CallOf[m.req],
           \A r \in Claiming : m = ServiceMsg("void", r) => ~ MayYetRun(r)
    PROVE  Safe'
<1>1. /\ ClaimedOnce' /\ Owners
      /\ \A r \in Claiming : claimer'[CallOf[r]] = r /\ MayYetRun(r)
                            => hold'[CallOf[r]] \in Spending
  BY ProcessKeeps
<1>. QED BY <1>1
     DEF IInv, Safe, Owners, routing, WellAddressed, OwnsWhatItRuns, Holds, SentInOrder,
         NotYetSent, ReleasesOnlyUnrun, MayYetRun, RunsCommitted

\* An agent's message that goes missing.
LEMMA AgentLostSafe ==
    ASSUME IInv, NEW c \in Call, NEW op, Lost(AgentMsg(op, c)), UNCHANGED routing
    PROVE  Safe'
BY NoReqAssumption, ClaimingAssumption
   DEF IInv, Safe, Lost, ledger, routing, WellAddressed, ClaimedOnce, OwnsWhatItRuns,
       Holds, SentInOrder, NotYetSent, ReleasesOnlyUnrun, MayYetRun, RunsCommitted

LEMMA AgentAnsweredSafe ==
    ASSUME IInv, NEW c \in Call,
           NEW op \in {"authorize", "claim", "capture", "void", "unknown"},
           Answered(AgentMsg(op, c)), UNCHANGED routing
    PROVE  Safe'
<1>1. AgentMsg(op, c) \in Message
  BY MessageType
<1>2. \A r \in Claiming : AgentMsg(op, c) # ServiceMsg("void", r)
  BY NoReqAssumption, ClaimingAssumption
<1>. QED BY <1>1, <1>2, ProcessSafe DEF Answered

LEMMA StillSafe ==
    ASSUME IInv, UNCHANGED <<ledger, net, routing>>
    PROVE  Safe'
BY DEF IInv, Safe, ledger, routing, WellAddressed, ClaimedOnce, OwnsWhatItRuns, Holds,
       SentInOrder, NotYetSent, ReleasesOnlyUnrun, MayYetRun, RunsCommitted

LEMMA AgentSafe ==
    ASSUME IInv, NEW c \in Call,
           \/ Permitted(c) \/ PermitUnbound(c) \/ Refused(c) \/ AuthorizeLost(c)
           \/ Act(c) \/ AgentStep(c) \/ AgentCrash(c)
    PROVE  Safe'
<1>1. CASE Permitted(c) \/ PermitUnbound(c) \/ CaptureAnswered(c)
  BY <1>1, AgentAnsweredSafe
     DEF Permitted, PermitUnbound, CaptureAnswered, routing, serviceVars
<1>2. CASE AuthorizeLost(c) \/ CaptureLost(c)
  BY <1>2, AgentLostSafe DEF AuthorizeLost, CaptureLost, routing, serviceVars
<1>3. CASE Voids(c)
  BY <1>3, AgentAnsweredSafe, AgentLostSafe DEF Voids, routing, serviceVars
<1>4. CASE \/ Refused(c) \/ Act(c) \/ AgentCrash(c) \/ OrphanFound(c)
           \/ OrphanNotFound(c) \/ StartTool(c) \/ ToolReturns(c) \/ ToolFailsUnrun(c)
           \/ ToolFails(c) \/ SettleDelegated(c) \/ CaptureRan(c)
  BY <1>4, StillSafe
     DEF Refused, Act, AgentCrash, OrphanFound, OrphanNotFound, StartTool, ToolReturns,
         ToolFailsUnrun, ToolFails, SettleDelegated, CaptureRan, routing, serviceVars
<1>. QED BY <1>1, <1>2, <1>3, <1>4 DEF AgentStep

LEMMA GateSafe ==
    ASSUME IInv,
           \/ \E m \in net : Deliver(m)
           \/ \E c \in Call : Lapse(c)
    PROVE  Safe'
<1>1. ASSUME NEW m \in net, Deliver(m) PROVE Safe'
  <2>1. m \in Message /\ (m.req # NoReq => m.call = CallOf[m.req])
    BY DEF IInv, Safe, TypeOK, WellAddressed
  <2>2. \A r \in Claiming : m = ServiceMsg("void", r) => ~ MayYetRun(r)
    BY DEF IInv, Safe, ReleasesOnlyUnrun
  <2>. QED BY <1>1, <2>1, <2>2, ProcessSafe DEF Deliver, routing, serviceVars
<1>2. ASSUME NEW c \in Call, Lapse(c) PROVE Safe'
  BY <1>2, ClaimingAssumption, NoReqAssumption, CallOfAssumption
     DEF IInv, TypeOK, IssuerTypeOK, Safe, Lapse, Expire, serviceVars, Spending,
         WellAddressed, ClaimedOnce, OwnsWhatItRuns, Holds, SentInOrder, NotYetSent,
         ReleasesOnlyUnrun, MayYetRun, RunsCommitted
<1>. QED BY <1>1, <1>2

\* A service's step that involves no call to the gate.
LEMMA ServiceQuietSafe ==
    ASSUME IInv, NEW r \in Req,
           \/ RefuseUnverified(r) \/ Verified(r) \/ ClaimRefused(r) \/ Unexecuted(r)
           \/ Forward(r) \/ UpstreamAnswers(r) \/ ServiceCrash(r)
           \/ UpstreamRuns(r) \/ UpstreamDeclines(r)
           \/ \E c \in Call : HandOver(c, r)
    PROVE  Safe'
<1>. USE ClaimingAssumption DEF IInv, Safe, TypeOK, ServiceAt, agentVars
<1>1. UNCHANGED <<hold, claimer, net>>
  BY DEF RefuseUnverified, Verified, ClaimRefused, Unexecuted, Forward, UpstreamAnswers,
         ServiceCrash, UpstreamRuns, UpstreamDeclines, HandOver, ledger
<1>2. WellAddressed' /\ ClaimedOnce'
  BY <1>1 DEF WellAddressed, ClaimedOnce
<1>3. OwnsWhatItRuns'
  BY <1>1 DEF OwnsWhatItRuns, Holds, RefuseUnverified, Verified, ClaimRefused, Unexecuted,
         Forward, UpstreamAnswers, ServiceCrash, UpstreamRuns, UpstreamDeclines, HandOver
<1>4. SentInOrder'
  BY DEF SentInOrder, NotYetSent, RefuseUnverified, Verified, ClaimRefused, Unexecuted,
         Forward, UpstreamAnswers, Verdicts, ServiceCrash, UpstreamRuns,
         UpstreamDeclines, HandOver
<1>5. \A s \in Claiming : MayYetRun(s)' => MayYetRun(s)
  BY DEF MayYetRun, NotYetSent, RefuseUnverified, Verified, ClaimRefused, Unexecuted,
         Forward, UpstreamAnswers, ServiceCrash, UpstreamRuns, UpstreamDeclines, HandOver
<1>6. \A s \in Claiming : service'[s] = "forwarding" /\ service[s] # "forwarding"
                          => MayYetRun(s)
  BY DEF MayYetRun, NotYetSent, RefuseUnverified, Verified, ClaimRefused, Unexecuted,
         Forward, UpstreamAnswers, ServiceCrash, UpstreamRuns, UpstreamDeclines, HandOver
<1>7. ReleasesOnlyUnrun' /\ RunsCommitted'
  BY <1>1, <1>5, <1>6 DEF ReleasesOnlyUnrun, RunsCommitted
<1>. QED BY <1>2, <1>3, <1>4, <1>7

\* A service's message that goes missing.
LEMMA ServiceLost ==
    ASSUME IInv, NEW r \in Req, NEW op, Lost(ServiceMsg(op, r)),
           op = "void" /\ r \in Claiming => ~ MayYetRun(r)' /\ service'[r] # "forwarding",
           \A s \in Claiming : MayYetRun(s)' => MayYetRun(s),
           \A s \in Claiming : service'[s] = "forwarding" => service[s] = "forwarding"
    PROVE  WellAddressed' /\ ClaimedOnce' /\ ReleasesOnlyUnrun' /\ RunsCommitted'
<1>1. net' = net \cup {ServiceMsg(op, r)} /\ UNCHANGED <<hold, claimer>>
  BY DEF Lost, ledger
<1>2. WellAddressed' /\ ClaimedOnce' /\ RunsCommitted'
  BY <1>1 DEF IInv, Safe, WellAddressed, ClaimedOnce, RunsCommitted
<1>3. \A s \in Claiming : ServiceMsg("void", s) \in net'
                          => ServiceMsg("void", s) \in net \/ (s = r /\ op = "void")
  BY <1>1
<1>4. ReleasesOnlyUnrun'
  BY <1>3 DEF IInv, Safe, ReleasesOnlyUnrun
<1>. QED BY <1>2, <1>4

\* A service's message that is answered.
LEMMA ServiceAnswered ==
    ASSUME IInv, NEW r \in Req,
           NEW op \in {"claim", "capture", "void", "unknown"},
           Answered(ServiceMsg(op, r)),
           op = "void" /\ r \in Claiming => ~ MayYetRun(r),
           \A s \in Claiming : MayYetRun(s)' => MayYetRun(s),
           \A s \in Claiming : service'[s] = "forwarding" => service[s] = "forwarding"
    PROVE  WellAddressed' /\ ClaimedOnce' /\ Owners /\ ReleasesOnlyUnrun' /\ RunsCommitted'
<1>1. ServiceMsg(op, r) \in Message
  BY MessageType
<1>2. \A s \in Claiming : ServiceMsg(op, r) = ServiceMsg("void", s) => ~ MayYetRun(s)
  OBVIOUS
<1>3. Process(ServiceMsg(op, r)) /\ UNCHANGED net
  BY DEF Answered
<1>4. /\ ClaimedOnce' /\ Owners
      /\ \A s \in Claiming : claimer'[CallOf[s]] = s /\ MayYetRun(s)
                            => hold'[CallOf[s]] \in Spending
  BY <1>1, <1>2, <1>3, ProcessKeeps
<1>5. WellAddressed' /\ ReleasesOnlyUnrun'
  BY <1>3 DEF IInv, Safe, WellAddressed, ReleasesOnlyUnrun
<1>. QED BY <1>4, <1>5 DEF RunsCommitted

LEMMA ServiceCallSafe ==
    ASSUME IInv, NEW r \in Req,
           \/ ClaimGranted(r) \/ ClaimLost(r) \/ ReleaseUnexecuted(r)
           \/ CloseAnswered(r) \/ CloseLost(r)
    PROVE  Safe'
<1>. USE ClaimingAssumption, CallOfAssumption DEF ServiceAt
<1>1. UNCHANGED <<closing, upstream>> /\ service \in [Req -> ServiceState]
  BY DEF IInv, TypeOK, ClaimGranted, ClaimLost, ReleaseUnexecuted, CloseAnswered, CloseLost
<1>2. /\ \A s \in Claiming : MayYetRun(s)' => MayYetRun(s)
      /\ \A s \in Claiming : service'[s] = "forwarding" => service[s] = "forwarding"
  BY <1>1 DEF ClaimGranted, ClaimLost, ReleaseUnexecuted, CloseAnswered, CloseLost,
              MayYetRun, NotYetSent
<1>3. SentInOrder'
  BY <1>1 DEF IInv, Safe, SentInOrder, NotYetSent, ClaimGranted, ClaimLost,
              ReleaseUnexecuted, CloseAnswered, CloseLost
<1>4. CASE ClaimGranted(r)
  <2>1. /\ WellAddressed' /\ ClaimedOnce' /\ Owners /\ ReleasesOnlyUnrun' /\ RunsCommitted'
    BY <1>2, <1>4, ServiceAnswered DEF ClaimGranted
  <2>2. claimer'[CallOf[r]] = r
    BY <1>4 DEF IInv, TypeOK, IssuerTypeOK, ClaimGranted, Grants, Answered, Process,
                MayMint, MayCapture, MayVoid, MayMarkUnknown, Applies, ledger
  <2>3. OwnsWhatItRuns'
    BY <1>1, <1>4, <2>1, <2>2
       DEF IInv, Safe, OwnsWhatItRuns, Holds, Owners, ClaimGranted
  <2>. QED BY <1>3, <2>1, <2>3 DEF Safe
<1>5. CASE ClaimLost(r)
  <2>1. WellAddressed' /\ ClaimedOnce' /\ ReleasesOnlyUnrun' /\ RunsCommitted'
    BY <1>2, <1>5, ServiceLost DEF ClaimLost
  <2>2. OwnsWhatItRuns'
    BY <1>1, <1>5 DEF IInv, Safe, OwnsWhatItRuns, Holds, ClaimLost, Lost, ledger
  <2>. QED BY <1>3, <2>1, <2>2 DEF Safe
<1>6. CASE ReleaseUnexecuted(r)
  <2>1. r \in Claiming => /\ ~ MayYetRun(r) /\ ~ MayYetRun(r)'
                          /\ service'[r] # "forwarding"
    BY <1>1, <1>6 DEF IInv, Safe, SentInOrder, ReleaseUnexecuted, MayYetRun, NotYetSent
  <2>2. WellAddressed' /\ ClaimedOnce' /\ ReleasesOnlyUnrun' /\ RunsCommitted' /\ Owners
    <3>1. CASE Answered(ServiceMsg("void", r))
      BY <1>2, <2>1, <3>1, ServiceAnswered
    <3>2. CASE Lost(ServiceMsg("void", r))
      BY <1>2, <2>1, <3>2, ServiceLost DEF Owners, Lost, ledger
    <3>. QED BY <1>6, <3>1, <3>2 DEF ReleaseUnexecuted
  <2>3. OwnsWhatItRuns'
    BY <1>1, <1>6, <2>2 DEF IInv, Safe, OwnsWhatItRuns, Holds, Owners, ReleaseUnexecuted
  <2>. QED BY <1>3, <2>2, <2>3 DEF Safe
<1>7. CASE CloseAnswered(r) \/ CloseLost(r)
  <2>1. closing[r] \in {"capture", "void", "unknown"}
    BY <1>7 DEF IInv, TypeOK, CloseAnswered, CloseLost
  <2>2. closing[r] = "void" /\ r \in Claiming
        => /\ ~ MayYetRun(r) /\ ~ MayYetRun(r)'
           /\ service'[r] # "forwarding"
    BY <1>1, <1>7
       DEF IInv, Safe, SentInOrder, CloseAnswered, CloseLost, MayYetRun, NotYetSent
  <2>3. WellAddressed' /\ ClaimedOnce' /\ ReleasesOnlyUnrun' /\ RunsCommitted' /\ Owners
    <3>1. CASE CloseAnswered(r)
      BY <1>2, <2>1, <2>2, <3>1, ServiceAnswered DEF CloseAnswered
    <3>2. CASE CloseLost(r)
      BY <1>2, <2>2, <3>2, ServiceLost DEF CloseLost, Owners, Lost, ledger
    <3>. QED BY <1>7, <3>1, <3>2
  <2>4. OwnsWhatItRuns'
    BY <1>1, <1>7, <2>3
       DEF IInv, Safe, OwnsWhatItRuns, Holds, Owners, CloseAnswered, CloseLost
  <2>. QED BY <1>3, <2>3, <2>4 DEF Safe
<1>. QED BY <1>4, <1>5, <1>6, <1>7

LEMMA InitSafe == Init => IInv
BY InitType, NoReqAssumption, CallOfAssumption, ClaimingAssumption
   DEF Init, IssuerInit, IInv, Safe, WellAddressed, ClaimedOnce, OwnsWhatItRuns, Holds,
       SentInOrder, NotYetSent, ReleasesOnlyUnrun, MayYetRun, RunsCommitted

LEMMA NextSafe == IInv /\ [Next]_vars => IInv'
<1>. SUFFICES ASSUME IInv, [Next]_vars PROVE Safe'
  BY NextType DEF IInv
<1>1. ASSUME NEW c \in Call,
             \/ Permitted(c) \/ PermitUnbound(c) \/ Refused(c) \/ AuthorizeLost(c)
             \/ Act(c) \/ AgentStep(c) \/ AgentCrash(c) \/ Lapse(c)
      PROVE  Safe'
  BY <1>1, AgentSafe, GateSafe
<1>2. ASSUME NEW c \in Call, NEW r \in Req, HandOver(c, r) PROVE Safe'
  BY <1>2, ServiceQuietSafe
<1>3. ASSUME NEW r \in Req,
             ServiceStep(r) \/ ServiceCrash(r) \/ UpstreamRuns(r) \/ UpstreamDeclines(r)
      PROVE  Safe'
  BY <1>3, ServiceQuietSafe, ServiceCallSafe DEF ServiceStep
<1>4. CASE \E m \in net : Deliver(m)
  BY <1>4, GateSafe
<1>5. CASE UNCHANGED vars
  BY <1>5, StillSafe DEF vars, ledger, routing
<1>. QED BY <1>1, <1>2, <1>3, <1>4, <1>5 DEF Next

LEMMA AlwaysSafe == Spec => []IInv
BY InitSafe, NextSafe, PTL DEF Spec

\* However many services are handed an authorization, in whatever order claims,
\* their answers and their late copies arrive, at most one sends it upstream.
THEOREM SingleUseHolds == Spec => []OneExecution
<1>1. IInv => OneExecution
  BY ClaimingAssumption DEF IInv, Safe, OwnsWhatItRuns, OneExecution
<1>. QED BY <1>1, AlwaysSafe, PTL

\* No message of agent, service or gate, and no lapse, hands back the budget of
\* what a claiming service has sent upstream.
THEOREM CommitmentHolds == Spec => []ExecutedStaysCommitted
<1>1. IInv => ExecutedStaysCommitted
  BY ClaimingAssumption
     DEF IInv, Safe, OwnsWhatItRuns, RunsCommitted, MayYetRun, ExecutedStaysCommitted
<1>. QED BY <1>1, AlwaysSafe, PTL

(***************************************************************************)
(* The budget.                                                             *)
(***************************************************************************)
UnderCap == Cardinality(CommittedSpend) <= Cap

LEMMA SubsetUnderCap ==
    ASSUME UnderCap, CommittedSpend' \subseteq CommittedSpend
    PROVE  UnderCap'
<1>1. IsFiniteSet(CommittedSpend)
  BY FiniteAssumption, ValuedAssumption, FS_Subset DEF CommittedSpend
<1>2. /\ Cardinality(CommittedSpend') <= Cardinality(CommittedSpend)
      /\ IsFiniteSet(CommittedSpend')
  BY <1>1, FS_Subset
<1>3. Cardinality(CommittedSpend') \in Nat /\ Cardinality(CommittedSpend) \in Nat
  BY <1>1, <1>2, FS_CardinalityType
<1>. QED BY <1>2, <1>3, CapAssumption DEF UnderCap

LEMMA ProcessUnderCap ==
    ASSUME IssuerTypeOK, UnderCap, NEW m \in Message, Process(m)
    PROVE  UnderCap'
<1>1. m.call \in Call
  BY DEF Message
<1>2. CASE MayMint(m) /\ Becomes(m, "held") /\ m.call \in Valued
  <2>1. CommittedSpend' = CommittedSpend \cup {m.call}
    BY <1>1, <1>2, ValuedAssumption
       DEF IssuerTypeOK, Becomes, CommittedSpend, Committed
  <2>2. IsFiniteSet(CommittedSpend)
    BY FiniteAssumption, ValuedAssumption, FS_Subset DEF CommittedSpend
  <2>3. m.call \notin CommittedSpend /\ Cardinality(CommittedSpend) < Cap
    BY <1>2 DEF MayMint, CanMint, CommittedSpend, Committed
  <2>4. /\ Cardinality(CommittedSpend') = Cardinality(CommittedSpend) + 1
        /\ Cardinality(CommittedSpend) \in Nat
    BY <2>1, <2>2, <2>3, FS_AddElement, FS_CardinalityType
  <2>. QED BY <2>3, <2>4, CapAssumption DEF UnderCap
<1>3. CASE ~ (MayMint(m) /\ m.call \in Valued)
  <2>1. CommittedSpend' \subseteq CommittedSpend
    BY <1>1, <1>3, ValuedAssumption
       DEF IssuerTypeOK, Process, Becomes, CommittedSpend, Committed, MayClaim,
           MayCapture, MayVoid, MayMarkUnknown, ledger
  <2>. QED BY <2>1, SubsetUnderCap
<1>4. MayMint(m) => Becomes(m, "held")
  BY DEF MayMint, Process, MayClaim, MayCapture, MayVoid, MayMarkUnknown, Applies
<1>. QED BY <1>2, <1>3, <1>4

Sends(r) == Forward(r) \/ UpstreamRuns(r) \/ UpstreamDeclines(r)

\* Every step is one the gate takes on one message, a lapse, one of a request on
\* its way through the upstream, or leaves ledger and upstreams alone.
LEMMA LedgerSteps ==
    ASSUME IInv, [Next]_vars
    PROVE  \/ \E m \in Message : Process(m) /\ UNCHANGED upstream
           \/ \E c \in Call : Expire(c) /\ UNCHANGED upstream
           \/ \E r \in Req : Sends(r) /\ UNCHANGED ledger
           \/ UNCHANGED <<ledger, upstream>>
<1>1. ASSUME NEW c \in Call,
             \/ Permitted(c) \/ PermitUnbound(c) \/ Refused(c) \/ AuthorizeLost(c)
             \/ Act(c) \/ AgentStep(c) \/ AgentCrash(c) \/ Lapse(c)
             \/ \E r \in Req : HandOver(c, r)
      PROVE  \/ \E m \in Message : Process(m) /\ UNCHANGED upstream
             \/ Expire(c) /\ UNCHANGED upstream
             \/ UNCHANGED <<ledger, upstream>>
  <2>1. \A op \in {"authorize", "capture", "void"} : AgentMsg(op, c) \in Message
    BY MessageType
  <2>2. CASE Permitted(c) \/ PermitUnbound(c)
    BY <2>1, <2>2 DEF Permitted, PermitUnbound, Answered, serviceVars
  <2>3. CASE CaptureAnswered(c)
    BY <2>1, <2>3 DEF CaptureAnswered, Answered, serviceVars
  <2>4. CASE Voids(c)
    BY <2>1, <2>4 DEF Voids, Answered, Lost, serviceVars
  <2>5. CASE Lapse(c)
    BY <2>5 DEF Lapse, serviceVars
  <2>. QED BY <1>1, <2>2, <2>3, <2>4, <2>5
       DEF Refused, AuthorizeLost, Act, AgentStep, AgentCrash, OrphanFound,
           OrphanNotFound, StartTool, ToolReturns, ToolFailsUnrun, ToolFails,
           SettleDelegated, CaptureRan, CaptureLost, HandOver, Lost, serviceVars
<1>2. ASSUME NEW r \in Req,
             ServiceStep(r) \/ ServiceCrash(r) \/ UpstreamRuns(r) \/ UpstreamDeclines(r)
      PROVE  \/ \E m \in Message : Process(m) /\ UNCHANGED upstream
             \/ Sends(r) /\ UNCHANGED ledger
             \/ UNCHANGED <<ledger, upstream>>
  <2>1. ServiceMsg("claim", r) \in Message /\ ServiceMsg("void", r) \in Message
    BY MessageType
  <2>2. CASE ClaimGranted(r)
    BY <2>1, <2>2 DEF ClaimGranted, Answered
  <2>3. CASE ReleaseUnexecuted(r)
    BY <2>1, <2>3 DEF ReleaseUnexecuted, Answered, Lost
  <2>4. CASE CloseAnswered(r)
    <3>1. ServiceMsg(closing[r], r) \in Message
      BY <2>4, MessageType DEF IInv, TypeOK, CloseAnswered, ServiceAt
    <3>. QED BY <2>4, <3>1 DEF CloseAnswered, Answered
  <2>. QED BY <1>2, <2>2, <2>3, <2>4
       DEF ServiceStep, RefuseUnverified, Verified, ClaimRefused, ClaimLost, Unexecuted,
           Forward, UpstreamAnswers, CloseLost, ServiceCrash, UpstreamRuns,
           UpstreamDeclines, Lost, Sends
<1>3. ASSUME NEW m \in net, Deliver(m)
      PROVE  Process(m) /\ UNCHANGED upstream /\ m \in Message
  BY <1>3 DEF IInv, TypeOK, Deliver, serviceVars
<1>4. CASE UNCHANGED vars
  BY <1>4 DEF vars, ledger
<1>. QED BY <1>1, <1>2, <1>3, <1>4 DEF Next

LEMMA ExpireUnderCap ==
    ASSUME IssuerTypeOK, UnderCap, NEW c \in Call, Expire(c)
    PROVE  UnderCap'
BY SubsetUnderCap, ValuedAssumption
   DEF IssuerTypeOK, Expire, CommittedSpend, Committed

LEMMA NextUnderCap == IInv /\ UnderCap /\ [Next]_vars => UnderCap'
<1>. SUFFICES ASSUME IInv, UnderCap, [Next]_vars PROVE UnderCap'
  OBVIOUS
<1>1. IssuerTypeOK
  BY DEF IInv, TypeOK
<1>2. CASE UNCHANGED ledger
  BY <1>2 DEF UnderCap, CommittedSpend, ledger
<1>. QED BY <1>1, <1>2, LedgerSteps, ProcessUnderCap, ExpireUnderCap

LEMMA InitUnderCap == Init => UnderCap
<1>. SUFFICES ASSUME Init PROVE UnderCap
  OBVIOUS
<1>1. CommittedSpend = {}
  BY ValuedAssumption DEF Init, IssuerInit, CommittedSpend, Committed
<1>. QED BY <1>1, FS_EmptySet, CapAssumption DEF UnderCap

LEMMA SpendUnderCap ==
    ASSUME IInv, UnderCap
    PROVE  SpendWithinCap
<1>1. ServiceSpend \cup BookedSpend \subseteq CommittedSpend
  BY ClaimingAssumption
     DEF IInv, Safe, OwnsWhatItRuns, RunsCommitted, MayYetRun, ServiceSpend,
         BookedSpend, CommittedSpend, Committed, Spending
<1>2. IsFiniteSet(CommittedSpend)
  BY FiniteAssumption, ValuedAssumption, FS_Subset DEF CommittedSpend
<1>3. /\ Cardinality(ServiceSpend \cup BookedSpend) <= Cardinality(CommittedSpend)
      /\ IsFiniteSet(ServiceSpend \cup BookedSpend)
  BY <1>1, <1>2, FS_Subset
<1>4. Cardinality(ServiceSpend \cup BookedSpend) \in Nat /\ Cardinality(CommittedSpend) \in Nat
  BY <1>2, <1>3, FS_CardinalityType
<1>. QED BY <1>3, <1>4, CapAssumption DEF UnderCap, SpendWithinCap

\* What claiming services ran and agents booked as spend never exceeds the mandate's
\* cap, for any cap and any number of calls, services, losses and replays.
THEOREM CapHolds == Spec => []SpendWithinCap
<1>1. Init => IInv /\ UnderCap
  BY InitSafe, InitUnderCap
<1>2. IInv /\ UnderCap /\ [Next]_vars => IInv' /\ UnderCap'
  BY NextSafe, NextUnderCap
<1>3. IInv /\ UnderCap => SpendWithinCap
  BY SpendUnderCap
<1>. QED BY <1>1, <1>2, <1>3, PTL DEF Spec

(***************************************************************************)
(* The refinement.                                                         *)
(***************************************************************************)
LEMMA ProcessKeepsPromise ==
    ASSUME IInv, IInv', NEW m \in Message, Process(m), UNCHANGED upstream
    PROVE  [Promise!Next]_<<Money, ServiceRan>>
<1>1. m.call \in Call /\ hold \in [Call -> HoldStatus] /\ hold' \in [Call -> HoldStatus]
  BY DEF Message, IInv, TypeOK, IssuerTypeOK
<1>2. UNCHANGED ServiceRan
  BY DEF ServiceRan
<1>3. \A c \in ServiceRan : hold'[c] \in Spending
  BY ClaimingAssumption
     DEF IInv, Safe, OwnsWhatItRuns, RunsCommitted, MayYetRun, ServiceRan
<1>4. \A status : Becomes(m, status) => Money' = [Money EXCEPT ![m.call] = MoneyOf(status)]
  BY <1>1 DEF Becomes, Money
<1>5. Money[m.call] = MoneyOf(hold[m.call])
  BY <1>1 DEF Money
<1>6. CASE MayMint(m) /\ Becomes(m, "held")
  <2>1. Promise!InUse = CommittedSpend
    BY <1>1, ValuedAssumption
       DEF Promise!InUse, CommittedSpend, Committed, Money, MoneyOf, Spending, HoldStatus
  <2>2. Promise!Cardinality(CommittedSpend) = Cardinality(CommittedSpend)
    BY DEF Promise!Cardinality, Cardinality
  <2>3. Promise!Reserve(m.call)
    BY <1>2, <1>4, <1>5, <1>6, <2>1, <2>2
       DEF Promise!Reserve, MayMint, CanMint, MoneyOf, Spending
  <2>. QED BY <1>1, <2>3 DEF Promise!Next
<1>7. CASE MayClaim(m) /\ Becomes(m, "claimed")
  <2>1. Promise!Commit(m.call)
    BY <1>2, <1>4, <1>5, <1>7 DEF Promise!Commit, MayClaim, MoneyOf, Spending
  <2>. QED BY <1>1, <2>1 DEF Promise!Next
<1>8. CASE MayCapture(m) /\ Becomes(m, "captured")
  <2>1. CASE hold[m.call] = "held"
    <3>1. Promise!Commit(m.call)
      BY <1>2, <1>4, <1>5, <1>8, <2>1 DEF Promise!Commit, MoneyOf, Spending
    <3>. QED BY <1>1, <3>1 DEF Promise!Next
  <2>2. CASE hold[m.call] = "claimed"
    <3>1. UNCHANGED Money
      BY <1>1, <1>8, <2>2 DEF Becomes, Money, MoneyOf, Spending
    <3>. QED BY <1>2, <3>1
  <2>. QED BY <1>8, <2>1, <2>2 DEF MayCapture
<1>9. CASE MayVoid(m) /\ Becomes(m, "voided")
  <2>1. m.call \notin ServiceRan
    BY <1>1, <1>3, <1>9 DEF Becomes, Spending
  <2>2. Promise!Return(m.call)
    BY <1>2, <1>4, <1>5, <1>9, <2>1 DEF Promise!Return, MayVoid, MoneyOf, Spending
  <2>. QED BY <1>1, <2>2 DEF Promise!Next
<1>10. CASE MayMarkUnknown(m) /\ Becomes(m, "unknown")
  <2>1. Money[m.call] = "committed" /\ Money' = [Money EXCEPT ![m.call] = "committed"]
    BY <1>4, <1>5, <1>10 DEF MayMarkUnknown, MoneyOf, Spending
  <2>2. UNCHANGED Money
    BY <2>1 DEF Money
  <2>. QED BY <1>2, <2>2
<1>11. CASE UNCHANGED ledger
  BY <1>2, <1>11 DEF ledger, Money
<1>. QED BY <1>6, <1>7, <1>8, <1>9, <1>10, <1>11 DEF Process

LEMMA ExpireKeepsPromise ==
    ASSUME IInv, IInv', NEW c \in Call, Expire(c), UNCHANGED upstream
    PROVE  [Promise!Next]_<<Money, ServiceRan>>
<1>1. hold \in [Call -> HoldStatus] /\ UNCHANGED ServiceRan
  BY DEF IInv, TypeOK, IssuerTypeOK, ServiceRan
<1>2. c \notin ServiceRan
  BY ClaimingAssumption
     DEF IInv, Safe, OwnsWhatItRuns, RunsCommitted, MayYetRun, ServiceRan, Expire, Spending
<1>3. Promise!Return(c)
  BY <1>1, <1>2 DEF Promise!Return, Expire, Money, MoneyOf, Spending
<1>. QED BY <1>3 DEF Promise!Next

LEMMA RunKeepsPromise ==
    ASSUME IInv, NEW r \in Req, UpstreamRuns(r)
    PROVE  [Promise!Next]_<<Money, ServiceRan>>
<1>1. UNCHANGED Money /\ upstream' = [upstream EXCEPT ![r] = "ran"]
  BY DEF UpstreamRuns, Money, ledger
<1>2. CASE r \notin Claiming
  BY <1>1, <1>2, ClaimingAssumption DEF IInv, TypeOK, ServiceRan
<1>3. CASE r \in Claiming
  <2>1. hold[CallOf[r]] \in Spending /\ claimer[CallOf[r]] = r /\ CallOf[r] \in Call
    BY <1>3, CallOfAssumption
       DEF IInv, Safe, OwnsWhatItRuns, RunsCommitted, MayYetRun, UpstreamRuns
  <2>2. CallOf[r] \notin ServiceRan
    BY <1>3, <2>1, ClaimingAssumption
       DEF IInv, Safe, OwnsWhatItRuns, ServiceRan, UpstreamRuns
  <2>3. ServiceRan' = ServiceRan \cup {CallOf[r]}
    BY <1>1, <1>3, <2>1, ClaimingAssumption DEF IInv, TypeOK, ServiceRan
  <2>4. Promise!Execute(CallOf[r])
    BY <1>1, <2>1, <2>2, <2>3 DEF Promise!Execute, Money, MoneyOf, Spending
  <2>. QED BY <2>1, <2>4 DEF Promise!Next
<1>. QED BY <1>2, <1>3

LEMMA SendKeepsPromise ==
    ASSUME IInv, NEW r \in Req, Sends(r), UNCHANGED ledger
    PROVE  [Promise!Next]_<<Money, ServiceRan>>
<1>1. CASE Forward(r) \/ UpstreamDeclines(r)
  <2>1. UNCHANGED Money
    BY DEF Money, ledger
  <2>2. UNCHANGED ServiceRan
    BY <1>1, ClaimingAssumption
       DEF IInv, TypeOK, Safe, SentInOrder, NotYetSent, Forward, UpstreamDeclines,
           ServiceAt, ServiceRan
  <2>. QED BY <2>1, <2>2
<1>2. CASE UpstreamRuns(r)
  BY <1>2, RunKeepsPromise
<1>. QED BY <1>1, <1>2 DEF Sends

LEMMA NextKeepsPromise ==
    IInv /\ IInv' /\ [Next]_vars => [Promise!Next]_<<Money, ServiceRan>>
<1>. SUFFICES ASSUME IInv, IInv', [Next]_vars
              PROVE  [Promise!Next]_<<Money, ServiceRan>>
  OBVIOUS
<1>1. CASE UNCHANGED <<ledger, upstream>>
  BY <1>1 DEF ledger, Money, ServiceRan
<1>. QED BY <1>1, LedgerSteps, ProcessKeepsPromise, ExpireKeepsPromise, SendKeepsPromise

\* Agents, services and gate together implement SingleUse: money is reserved
\* under the cap, a service executes at most once and against committed money,
\* and what it has spent is never handed back.
THEOREM Refinement == Spec => KeepsPromise
<1>1. Init => Promise!Init
  BY ClaimingAssumption DEF Init, IssuerInit, Promise!Init, Money, MoneyOf, ServiceRan
<1>2. IInv /\ IInv' /\ [Next]_vars => [Promise!Next]_<<Money, ServiceRan>>
  BY NextKeepsPromise
<1>. QED BY <1>1, <1>2, AlwaysSafe, PTL DEF Spec, KeepsPromise, Promise!Spec

(***************************************************************************)
(* What a release, a booking and a claim that is left behind say.          *)
(***************************************************************************)
\* A request of an in-process call is never handed over; one that is not yet
\* verified has asked the gate for nothing; nothing is upstream unforwarded.
AtHome ==
    \A r \in Req : CallOf[r] \in InProcess => service[r] = "idle" /\ answer[r] = "none"
Unclaimed(r) == service[r] \in {"idle", "verifying"}
Early ==
    \A r \in Req : Unclaimed(r) => claimer[CallOf[r]] # r /\ \A m \in net : m.req # r
Unsent == \A r \in Req : NotYetSent(r) => upstream[r] = "none"

\* An in-process tool acts only while it runs, and the hold of a call that is
\* released before or after that is the hold of one that never acted, if the
\* tool is candid about it.
Over == {"done", "crashed"}
BeforeOrVoiding == {"idle", "orphaned", "permitted", "askDelegated"} \cup Voiding
VoidSent(c) == hold[c] = "voided" \/ AgentMsg("void", c) \in net
VoidsUnrun ==
    \A c \in InProcess \cap Candid :
        /\ agent[c] \in BeforeOrVoiding => c \notin acted
        /\ VoidSent(c) => c \notin acted /\ agent[c] \in Over

\* A service captures only what ran, and an agent captures a delegated call of
\* value only if it could not ask about it.
CapturesRan ==
    \A r \in Req :
        closing[r] = "capture" \/ ServiceMsg("capture", r) \in net
        => upstream[r] = "ran" /\ service[r] \in {"closing", "done", "crashed"}
Blind(c) == saw[c].delegated = "blind"
Booking(c) == Blind(c) /\ agent[c] \in {"capturing"} \cup Over
BooksBlindly ==
    \A c \in Valued \ InProcess :
        /\ agent[c] \in {"askRan", "capturing"} => Blind(c)
        /\ AgentMsg("capture", c) \in net => Booking(c)
        /\ hold[c] = "captured" => Ran(c) \/ Booking(c)

Traced ==
    /\ AtHome /\ Early /\ Unsent
    /\ VoidsUnrun /\ CapturesRan /\ BooksBlindly
    /\ NoStrandedClaim

\* What a message can do to the ledger: nothing but what it asks for, and to
\* its own call; a claimer's settlement leaves nothing claimed.
LEMMA ProcessEffect ==
    ASSUME IssuerTypeOK, NEW m \in Message, Process(m)
    PROVE  /\ \A c \in Call : c # m.call => hold'[c] = hold[c] /\ claimer'[c] = claimer[c]
           /\ hold'[m.call] # hold[m.call] =>
                \/ m.op = "authorize" /\ hold'[m.call] = "held"
                \/ m.op = "claim" /\ hold'[m.call] = "claimed"
                \/ m.op = "capture" /\ hold'[m.call] = "captured"
                \/ m.op = "void" /\ hold'[m.call] = "voided"
                \/ m.op = "unknown" /\ hold'[m.call] = "unknown"
           /\ claimer'[m.call] # claimer[m.call] =>
                m.op = "claim" /\ m.req # NoReq /\ claimer'[m.call] = m.req
           /\ hold'[m.call] = "claimed" =>
                \/ m.op = "claim" /\ claimer'[m.call] = m.req /\ m.req # NoReq
                \/ hold[m.call] = "claimed" /\ claimer'[m.call] = claimer[m.call]
           /\ m.op \in {"capture", "void", "unknown"} /\ m.req # NoReq
              /\ m.req = claimer[m.call] => hold'[m.call] # "claimed"
<1>1. /\ m.call \in Call /\ hold \in [Call -> HoldStatus]
      /\ claimer \in [Call -> Req \cup {NoReq}]
  BY DEF Message, IssuerTypeOK
<1>. QED BY <1>1
     DEF Process, Becomes, Applies, MayMint, CanMint, MayClaim, MayCapture, MayVoid,
         MayMarkUnknown, ledger

\* A step that moves no service and sends or delivers no message of one.
LEMMA ServicesStill ==
    ASSUME IInv, Traced, UNCHANGED serviceVars,
           \A m \in net' : m.req # NoReq => m \in net,
           net \subseteq net', UNCHANGED claimer,
           \A c \in Call : hold'[c] = "claimed" => hold[c] = "claimed"
    PROVE  AtHome' /\ Early' /\ Unsent' /\ CapturesRan' /\ NoStrandedClaim'
<1>. USE NoReqAssumption, CallOfAssumption, ClaimingAssumption DEF Traced, serviceVars
<1>1. AtHome' /\ Unsent'
  BY DEF AtHome, Unsent, NotYetSent
<1>2. Early'
  BY DEF Early, Unclaimed
<1>3. CapturesRan'
  BY DEF CapturesRan
<1>4. NoStrandedClaim'
  BY DEF NoStrandedClaim
<1>. QED BY <1>1, <1>2, <1>3, <1>4

\* The agent's steps: what they do to its own record, and what they ask.
AgentMove(c) ==
    \/ Permitted(c) \/ PermitUnbound(c) \/ Refused(c) \/ AuthorizeLost(c)
    \/ Act(c) \/ AgentStep(c) \/ AgentCrash(c)

LEMMA AgentAsks ==
    ASSUME IInv, NEW c \in Call, AgentMove(c)
    PROVE  \/ UNCHANGED <<ledger, net>>
           \/ \E op \in {"authorize", "capture", "void"} :
                 /\ \/ Process(AgentMsg(op, c)) /\ UNCHANGED net
                    \/ Lost(AgentMsg(op, c))
                 /\ op = "void" => agent[c] \in Voiding /\ agent'[c] = "done"
                 /\ op = "capture" => /\ agent[c] = "capturing" /\ saw' = saw
                                      /\ agent'[c] \in {"capturing", "done"}
<1>. USE DEF IInv, TypeOK
<1>1. CASE Permitted(c) \/ PermitUnbound(c)
  <2>1. Process(AgentMsg("authorize", c)) /\ UNCHANGED net
    BY <1>1 DEF Permitted, PermitUnbound, Answered
  <2>. QED BY <2>1
<1>2. CASE AuthorizeLost(c)
  <2>1. Lost(AgentMsg("authorize", c))
    BY <1>2 DEF AuthorizeLost
  <2>. QED BY <2>1
<1>3. CASE CaptureAnswered(c) \/ CaptureLost(c)
  <2>1. \/ Process(AgentMsg("capture", c)) /\ UNCHANGED net
        \/ Lost(AgentMsg("capture", c))
    BY <1>3 DEF CaptureAnswered, CaptureLost, Answered
  <2>2. /\ agent[c] = "capturing" /\ saw' = saw
        /\ agent'[c] \in {"capturing", "done"}
    BY <1>3 DEF CaptureAnswered, CaptureLost, AgentAt
  <2>. QED BY <2>1, <2>2
<1>4. CASE Voids(c)
  <2>1. \/ Process(AgentMsg("void", c)) /\ UNCHANGED net
        \/ Lost(AgentMsg("void", c))
    BY <1>4 DEF Voids, Answered
  <2>2. agent[c] \in Voiding /\ agent'[c] = "done"
    BY <1>4 DEF Voids
  <2>. QED BY <2>1, <2>2
<1>. QED BY <1>1, <1>2, <1>3, <1>4
     DEF AgentMove, AgentStep, Refused, Act, AgentCrash, OrphanFound, OrphanNotFound,
         StartTool, ToolReturns, ToolFailsUnrun, ToolFails, SettleDelegated, CaptureRan

LEMMA AgentRecord ==
    ASSUME IInv, Traced, NEW c \in Call, AgentMove(c), NEW d \in Call
    PROVE  /\ UNCHANGED serviceVars
           /\ acted \subseteq acted'
           /\ d \in acted' => d \in acted \/ (agent[d] = "running" /\ agent'[d] = "running")
           /\ agent[d] \in Over => agent'[d] \in Over /\ saw'[d] = saw[d]
           /\ d \in InProcess \cap Candid /\ agent'[d] \in BeforeOrVoiding
              => agent[d] \in BeforeOrVoiding \/ d \notin acted
           /\ d \in Valued \ InProcess /\ agent'[d] \in {"askRan", "capturing"} => Blind(d)'
           /\ d \in Valued \ InProcess /\ Booking(d) => Booking(d)'
<1>. USE DEF IInv, TypeOK, AgentAt, Over, BeforeOrVoiding, Voiding
<1>1. UNCHANGED serviceVars
  BY DEF AgentMove, AgentStep, Permitted, PermitUnbound, Refused, AuthorizeLost, Act,
         AgentCrash, OrphanFound, OrphanNotFound, StartTool, ToolReturns, ToolFailsUnrun,
         ToolFails, SettleDelegated, CaptureRan, CaptureAnswered, CaptureLost, Voids
<1>2. /\ acted \subseteq acted'
      /\ d \in acted' => d \in acted \/ (agent[d] = "running" /\ agent'[d] = "running")
  <2>1. CASE Act(c)
    BY <2>1 DEF Act
  <2>2. CASE ~ Act(c)
    BY <2>2 DEF AgentMove, AgentStep, Permitted, PermitUnbound, Refused, AuthorizeLost,
         AgentCrash, OrphanFound, OrphanNotFound, StartTool, ToolReturns, ToolFailsUnrun,
         ToolFails, SettleDelegated, CaptureRan, CaptureAnswered, CaptureLost, Voids
  <2>. QED BY <2>1, <2>2
<1>3. agent[d] \in Over => agent'[d] \in Over /\ saw'[d] = saw[d]
  <2>1. CASE SettleDelegated(c) \/ CaptureRan(c)
    <3>1. agent[c] \in {"askDelegated", "askRan"}
      BY <2>1 DEF SettleDelegated, CaptureRan
    <3>2. \E to : agent' = [agent EXCEPT ![c] = to]
      BY <2>1 DEF SettleDelegated, CaptureRan
    <3>3. \E new : saw' = [saw EXCEPT ![c] = new]
      BY <2>1 DEF SettleDelegated, CaptureRan
    <3>. QED BY <3>1, <3>2, <3>3
  <2>2. CASE ~ (SettleDelegated(c) \/ CaptureRan(c))
    BY <2>2 DEF AgentMove, AgentStep, Permitted, PermitUnbound, Refused, AuthorizeLost, Act,
         AgentCrash, OrphanFound, OrphanNotFound, StartTool, ToolReturns, ToolFailsUnrun,
         ToolFails, CaptureAnswered, CaptureLost, Voids
  <2>. QED BY <2>1, <2>2
<1>4. ASSUME d \in InProcess \cap Candid, agent'[d] \in BeforeOrVoiding
      PROVE  agent[d] \in BeforeOrVoiding \/ d \notin acted
  <2>1. SaysNothingRan(d) => d \notin acted
    BY <1>4 DEF SaysNothingRan, Traced, AtHome
  <2>. QED BY <1>4, <2>1
       DEF AgentMove, AgentStep, Permitted, PermitUnbound, Refused, AuthorizeLost, Act,
           AgentCrash, OrphanFound, OrphanNotFound, StartTool, ToolReturns, ToolFailsUnrun,
           ToolFails, SettleDelegated, CaptureRan, CaptureAnswered, CaptureLost, Voids,
           Delegated
<1>5. ASSUME d \in Valued \ InProcess
      PROVE  /\ agent'[d] \in {"askRan", "capturing"} => Blind(d)'
             /\ Booking(d) => Booking(d)'
  <2>1. agent[d] \in {"askRan", "capturing"} => Blind(d)
    BY <1>5 DEF Traced, BooksBlindly
  <2>2. CASE SettleDelegated(c)
    <3>1. PICK fx \in Asked(c) :
            /\ \/ fx = "busy" /\ AgentAt(c, "askDelegated", "done")
               \/ fx = "unclaimed" /\ AgentAt(c, "askDelegated", "voidUnclaimed")
               \/ fx = "blind" /\ AgentAt(c, "askDelegated", "askRan")
            /\ saw' = [saw EXCEPT ![c].delegated = fx]
      BY <2>2 DEF SettleDelegated
    <3>. QED BY <2>1, <3>1 DEF Blind, Booking
  <2>3. CASE CaptureRan(c)
    <3>1. PICK fx \in Asked(c) : saw' = [saw EXCEPT ![c].ran = fx]
      BY <2>3 DEF CaptureRan
    <3>2. saw'[d].delegated = saw[d].delegated
      BY <3>1
    <3>. QED BY <2>1, <2>3, <3>2 DEF CaptureRan, Blind, Booking
  <2>4. CASE ~ SettleDelegated(c) /\ ~ CaptureRan(c)
    BY <1>5, <2>1, <2>4
       DEF AgentMove, AgentStep, Permitted, PermitUnbound, Refused, AuthorizeLost, Act,
           AgentCrash, OrphanFound, OrphanNotFound, StartTool, ToolReturns, ToolFailsUnrun,
           ToolFails, CaptureAnswered, CaptureLost, Voids, Delegated, Blind, Booking
  <2>. QED BY <2>2, <2>3, <2>4
<1>. QED BY <1>1, <1>2, <1>3, <1>4, <1>5

LEMMA AgentTraced ==
    ASSUME IInv, Traced, NEW c \in Call, AgentMove(c)
    PROVE  Traced'
<1>. USE NoReqAssumption DEF IInv, TypeOK
<1>. DEFINE Asks(op) == \/ Process(AgentMsg(op, c)) /\ UNCHANGED net
                        \/ Lost(AgentMsg(op, c))
            V == agent[c] \in Voiding /\ agent'[c] = "done"
            K == /\ agent[c] = "capturing" /\ saw' = saw
                 /\ agent'[c] \in {"capturing", "done"}
<1>1. /\ \A m \in net' : m.req # NoReq => m \in net
      /\ net \subseteq net' /\ UNCHANGED claimer
      /\ \A d \in Call : hold'[d] = "claimed" => hold[d] = "claimed"
      /\ \A d \in Call : VoidSent(d)' => VoidSent(d) \/ (d = c /\ V)
      /\ \A d \in Call : hold'[d] = "captured" => hold[d] = "captured" \/ (d = c /\ K)
      /\ \A d \in Call : AgentMsg("capture", d) \in net'
                         => AgentMsg("capture", d) \in net \/ (d = c /\ K)
  <2>1. CASE UNCHANGED <<ledger, net>>
    BY <2>1 DEF ledger, VoidSent
  <2>2. ASSUME NEW op \in {"authorize", "capture", "void"}, Asks(op),
               op = "void" => V, op = "capture" => K
        PROVE  <1>1
    <3>. HIDE DEF V, K
    <3>1. AgentMsg(op, c) \in Message
      BY MessageType
    <3>2. CASE Process(AgentMsg(op, c)) /\ UNCHANGED net
      <4>1. \A d \in Call : d # c => hold'[d] = hold[d] /\ claimer'[d] = claimer[d]
        BY <3>1, <3>2, ProcessEffect
      <4>2. /\ claimer'[c] = claimer[c]
            /\ hold'[c] = "claimed" => hold[c] = "claimed"
            /\ hold'[c] = "voided" => hold[c] = "voided" \/ op = "void"
            /\ hold'[c] = "captured" => hold[c] = "captured" \/ op = "capture"
        BY <3>1, <3>2, ProcessEffect
      <4>3. claimer' = claimer
        BY <3>2 DEF Process, MayClaim, ledger
      <4>. QED BY <2>2, <3>2, <4>1, <4>2, <4>3 DEF VoidSent
    <3>3. CASE Lost(AgentMsg(op, c))
      <4>1. net' = net \cup {AgentMsg(op, c)} /\ UNCHANGED <<hold, claimer>>
        BY <3>3 DEF Lost, ledger
      <4>. QED BY <2>2, <4>1 DEF VoidSent
    <3>. QED BY <2>2, <3>2, <3>3
  <2>. QED BY <2>1, <2>2, AgentAsks
<1>. HIDE DEF Asks
<1>2. UNCHANGED serviceVars /\ acted \subseteq acted'
  BY AgentRecord
<1>3. AtHome' /\ Early' /\ Unsent' /\ CapturesRan' /\ NoStrandedClaim'
  BY <1>1, <1>2, ServicesStill
<1>4. VoidsUnrun'
  <2> SUFFICES ASSUME NEW d \in InProcess \cap Candid
               PROVE  /\ agent'[d] \in BeforeOrVoiding => d \notin acted'
                      /\ VoidSent(d)' => d \notin acted' /\ agent'[d] \in Over
    BY DEF VoidsUnrun
  <2>1. d \in Call
    BY InProcessAssumption
  <2>2. /\ agent[d] \in BeforeOrVoiding => d \notin acted
        /\ VoidSent(d) => d \notin acted /\ agent[d] \in Over
    BY DEF Traced, VoidsUnrun
  <2>3. /\ d \in acted' => d \in acted \/ (agent[d] = "running" /\ agent'[d] = "running")
        /\ agent[d] \in Over => agent'[d] \in Over
        /\ agent'[d] \in BeforeOrVoiding => agent[d] \in BeforeOrVoiding \/ d \notin acted
    BY <2>1, AgentRecord
  <2>. QED BY <1>1, <2>1, <2>2, <2>3 DEF Over, BeforeOrVoiding, Voiding
<1>5. BooksBlindly'
  <2> SUFFICES ASSUME NEW d \in Valued \ InProcess
               PROVE  /\ agent'[d] \in {"askRan", "capturing"} => Blind(d)'
                      /\ AgentMsg("capture", d) \in net' => Booking(d)'
                      /\ hold'[d] = "captured" => Ran(d)' \/ Booking(d)'
    BY DEF BooksBlindly
  <2>1. d \in Call
    BY ValuedAssumption
  <2>2. /\ agent'[d] \in {"askRan", "capturing"} => Blind(d)'
        /\ Booking(d) => Booking(d)'
    BY <2>1, AgentRecord
  <2>3. /\ agent[d] \in {"askRan", "capturing"} => Blind(d)
        /\ AgentMsg("capture", d) \in net => Booking(d)
        /\ hold[d] = "captured" => Ran(d) \/ Booking(d)
    BY DEF Traced, BooksBlindly
  <2>4. d = c /\ K => Booking(d)'
    BY <2>3 DEF Booking, Blind, Over
  <2>5. Ran(d) => Ran(d)'
    BY <1>2 DEF Ran, serviceVars
  <2>. QED BY <1>1, <2>1, <2>2, <2>3, <2>4, <2>5
<1>. QED BY <1>3, <1>4, <1>5 DEF Traced

\* The service's steps.
ServiceMove(r) ==
    \/ ServiceStep(r) \/ ServiceCrash(r) \/ UpstreamRuns(r) \/ UpstreamDeclines(r)

LEMMA ServiceAsks ==
    ASSUME IInv, NEW r \in Req, ServiceMove(r)
    PROVE  \/ UNCHANGED <<ledger, net>>
           \/ \E op \in {"claim", "capture", "void", "unknown"} :
                 /\ \/ Process(ServiceMsg(op, r)) /\ UNCHANGED net
                    \/ Lost(ServiceMsg(op, r))
                 /\ op = "claim" => service[r] = "claiming" /\ UNCHANGED <<closing, upstream>>
                                    /\ (service'[r] = "done" => ServiceMsg(op, r) \in net')
                 /\ op = "capture" => service[r] = "closing" /\ closing[r] = "capture"
                 /\ service[r] \in {"claiming", "releasing", "closing"}
<1>. USE DEF IInv, TypeOK, ServiceAt
<1>1. CASE ClaimGranted(r)
  <2>1. /\ Process(ServiceMsg("claim", r)) /\ UNCHANGED net
        /\ service[r] = "claiming" /\ service'[r] = "granted" /\ UNCHANGED <<closing, upstream>>
    BY <1>1 DEF ClaimGranted, Answered
  <2>. QED BY <2>1
<1>2. CASE ClaimLost(r)
  <2>1. /\ Lost(ServiceMsg("claim", r)) /\ ServiceMsg("claim", r) \in net'
        /\ service[r] = "claiming" /\ UNCHANGED <<closing, upstream>>
    BY <1>2 DEF ClaimLost, Lost
  <2>. QED BY <2>1
<1>3. CASE ReleaseUnexecuted(r)
  <2>1. /\ \/ Process(ServiceMsg("void", r)) /\ UNCHANGED net
           \/ Lost(ServiceMsg("void", r))
        /\ service[r] = "releasing"
    BY <1>3 DEF ReleaseUnexecuted, Answered
  <2>. QED BY <2>1
<1>4. CASE CloseAnswered(r) \/ CloseLost(r)
  <2>1. /\ \/ Process(ServiceMsg(closing[r], r)) /\ UNCHANGED net
           \/ Lost(ServiceMsg(closing[r], r))
        /\ service[r] = "closing" /\ closing[r] \in {"capture", "void", "unknown"}
    BY <1>4 DEF CloseAnswered, CloseLost, Answered
  <2>. QED BY <2>1
<1>. QED BY <1>1, <1>2, <1>3, <1>4
     DEF ServiceMove, ServiceStep, RefuseUnverified, Verified, ClaimRefused, Unexecuted,
         Forward, UpstreamAnswers, ServiceCrash, UpstreamRuns, UpstreamDeclines

\* Where a service's step may leave its own request.
LEMMA ServiceRecord ==
    ASSUME IInv, Traced, NEW r \in Req, ServiceMove(r)
    PROVE  /\ UNCHANGED agentVars
           /\ \A s \in Req : s # r => /\ service'[s] = service[s]
                                      /\ closing'[s] = closing[s]
                                      /\ upstream'[s] = upstream[s]
                                      /\ answer'[s] = answer[s]
           /\ service[r] # "idle" \/ upstream[r] = "pending"
           /\ Unclaimed(r)' => Unclaimed(r)
           /\ NotYetSent(r)' => NotYetSent(r) /\ upstream'[r] = upstream[r]
           /\ upstream[r] = "ran" => upstream'[r] = "ran"
           /\ closing'[r] = "capture" =>
                \/ closing[r] = "capture"
                \/ /\ service[r] = "forwarding" /\ upstream'[r] = "ran"
                   /\ service'[r] \in {"closing", "done", "crashed"}
           /\ service[r] \in {"closing", "done", "crashed"}
              => service'[r] \in {"closing", "done", "crashed"}
<1>. USE DEF IInv, TypeOK, ServiceAt, Unclaimed, NotYetSent
<1>1. CASE UpstreamAnswers(r)
  <2>1. PICK v \in Verdicts(r), a \in {"result", "withheld"} :
            /\ ServiceAt(r, "forwarding", IF r \in Claiming THEN "closing" ELSE "done")
            /\ closing' = [closing EXCEPT ![r] = v]
            /\ answer' = [answer EXCEPT ![r] = a]
            /\ UNCHANGED <<agentVars, upstream>>
    BY <1>1 DEF UpstreamAnswers
  <2>2. v = "capture" => upstream[r] = "ran"
    BY DEF Verdicts
  <2>. QED BY <2>1, <2>2
<1>2. CASE Forward(r)
  BY <1>2 DEF Forward, Traced, Unsent
<1>3. CASE \/ RefuseUnverified(r) \/ Verified(r) \/ ClaimGranted(r) \/ ClaimRefused(r)
           \/ Unexecuted(r) \/ CloseAnswered(r) \/ CloseLost(r) \/ ServiceCrash(r)
  BY <1>3, ClaimingAssumption
     DEF RefuseUnverified, Verified, ClaimGranted, ClaimRefused, Unexecuted,
         CloseAnswered, CloseLost, ServiceCrash
<1>4. CASE ClaimLost(r) \/ ReleaseUnexecuted(r)
  BY <1>4 DEF ClaimLost, ReleaseUnexecuted
<1>5. CASE UpstreamRuns(r) \/ UpstreamDeclines(r)
  BY <1>5 DEF UpstreamRuns, UpstreamDeclines, Traced, Unsent
<1>. QED BY <1>1, <1>2, <1>3, <1>4, <1>5 DEF ServiceMove, ServiceStep

LEMMA ServiceTraced ==
    ASSUME IInv, IInv', Traced, NEW r \in Req, ServiceMove(r)
    PROVE  Traced'
<1>. USE NoReqAssumption, CallOfAssumption, ClaimingAssumption DEF IInv, TypeOK, IssuerTypeOK
<1>. DEFINE c == CallOf[r]
            Asking == service[r] \in {"claiming", "releasing", "closing"}
            Capturing == service[r] = "closing" /\ closing[r] = "capture"
<1>0. c \in Call
  OBVIOUS
<1>1. /\ UNCHANGED agentVars
      /\ \A s \in Req : s # r => /\ service'[s] = service[s]
                                 /\ closing'[s] = closing[s]
                                 /\ upstream'[s] = upstream[s]
                                 /\ answer'[s] = answer[s]
      /\ Unclaimed(r)' => Unclaimed(r)
      /\ upstream[r] = "ran" => upstream'[r] = "ran"
  BY ServiceRecord
<1>2. /\ net \subseteq net'
      /\ \A m \in net' : m \in net \/ (m.req = r /\ Asking)
      /\ \A d \in Call : d # c => hold'[d] = hold[d] /\ claimer'[d] = claimer[d]
      /\ claimer'[c] # claimer[c] => claimer'[c] = r /\ Asking
      /\ hold'[c] = "captured" => hold[c] = "captured" \/ Capturing
      /\ ServiceMsg("capture", r) \in net' => ServiceMsg("capture", r) \in net \/ Capturing
  <2>1. CASE UNCHANGED <<ledger, net>>
    BY <2>1 DEF ledger
  <2>2. ASSUME NEW op \in {"claim", "capture", "void", "unknown"},
               Process(ServiceMsg(op, r)) /\ UNCHANGED net,
               op = "capture" => Capturing, Asking
        PROVE  <1>2
    <3>. HIDE DEF Asking, Capturing
    <3>. DEFINE m == ServiceMsg(op, r)
    <3>1. /\ m \in Message /\ Process(m)
          /\ m.call = c /\ m.req = r /\ m.op = op
      BY <2>2, MessageType
    <3>. HIDE DEF m
    <3>2. /\ \A d \in Call : d # m.call => hold'[d] = hold[d] /\ claimer'[d] = claimer[d]
          /\ claimer'[m.call] # claimer[m.call] => claimer'[m.call] = m.req
          /\ hold'[m.call] = "captured" => hold[m.call] = "captured" \/ m.op = "capture"
      BY <3>1, ProcessEffect
    <3>3. /\ \A d \in Call : d # c => hold'[d] = hold[d] /\ claimer'[d] = claimer[d]
          /\ claimer'[c] # claimer[c] => claimer'[c] = r
          /\ hold'[c] = "captured" => hold[c] = "captured" \/ op = "capture"
      BY <3>1, <3>2
    <3>. QED BY <2>2, <3>3
  <2>3. ASSUME NEW op \in {"claim", "capture", "void", "unknown"},
               Lost(ServiceMsg(op, r)), op = "capture" => Capturing, Asking
        PROVE  <1>2
    BY <2>3 DEF Lost, ledger
  <2>. QED BY <2>1, <2>2, <2>3, ServiceAsks
<1>3. Asking => ~ Unclaimed(r)
  BY DEF Unclaimed
<1>. HIDE DEF Asking
<1>4. AtHome'
  <2>1. c \notin InProcess
    <3>1. service[r] # "idle" \/ upstream[r] = "pending"
      BY ServiceRecord
    <3>. QED BY <3>1 DEF Traced, AtHome, Unsent, NotYetSent
  <2>. QED BY <1>1, <2>1 DEF Traced, AtHome
<1>5. Early'
  BY <1>1, <1>2, <1>3 DEF Traced, Early, Unclaimed
<1>6. Unsent'
  <2>1. NotYetSent(r)' => NotYetSent(r) /\ upstream'[r] = upstream[r]
    BY ServiceRecord
  <2>. QED BY <1>1, <2>1 DEF Traced, Unsent, NotYetSent
<1>7. VoidsUnrun'
  <2>1. c \notin InProcess
    <3>1. service[r] # "idle" \/ upstream[r] = "pending"
      BY ServiceRecord
    <3>. QED BY <3>1 DEF Traced, AtHome, Unsent, NotYetSent
  <2>2. \A d \in InProcess \cap Candid : VoidSent(d)' => VoidSent(d)
    BY <1>2, <2>1, InProcessAssumption DEF VoidSent
  <2>. QED BY <1>1, <2>2 DEF Traced, VoidsUnrun, agentVars
<1>8. CapturesRan'
  <2> SUFFICES ASSUME NEW s \in Req,
                      closing'[s] = "capture" \/ ServiceMsg("capture", s) \in net'
               PROVE  upstream'[s] = "ran" /\ service'[s] \in {"closing", "done", "crashed"}
    BY DEF CapturesRan
  <2>1. closing[s] = "capture" \/ ServiceMsg("capture", s) \in net
        => upstream[s] = "ran" /\ service[s] \in {"closing", "done", "crashed"}
    BY DEF Traced, CapturesRan
  <2>2. CASE s # r
    BY <1>1, <1>2, <2>1, <2>2
  <2>3. CASE s = r
    <3>1. /\ closing'[r] = "capture" =>
               \/ closing[r] = "capture"
               \/ /\ service[r] = "forwarding" /\ upstream'[r] = "ran"
                  /\ service'[r] \in {"closing", "done", "crashed"}
          /\ service[r] \in {"closing", "done", "crashed"}
             => service'[r] \in {"closing", "done", "crashed"}
      BY ServiceRecord
    <3>. QED BY <1>1, <1>2, <2>1, <2>3, <3>1
  <2>. QED BY <2>2, <2>3
<1>9. BooksBlindly'
  <2>1. Capturing => upstream[r] = "ran"
    BY DEF Traced, CapturesRan
  <2>. HIDE DEF Capturing
  <2>2. \A d \in Call : Ran(d) => Ran(d)'
    BY <1>1 DEF Ran, agentVars
  <2>3. Capturing => Ran(c)'
    BY <1>1, <2>1 DEF Ran
  <2>4. \A d \in Call : hold'[d] = "captured" => hold[d] = "captured" \/ Ran(d)'
    BY <1>0, <1>2, <2>3
  <2>5. \A d \in Call : AgentMsg("capture", d) \in net' => AgentMsg("capture", d) \in net
    BY <1>2
  <2>6. \A d : Booking(d)' <=> Booking(d)
    BY <1>1 DEF Booking, Blind, agentVars
  <2>7. \A d : (agent'[d] = agent[d]) /\ (Blind(d)' <=> Blind(d))
    BY <1>1 DEF Blind, agentVars
  <2>. QED BY <2>2, <2>4, <2>5, <2>6, <2>7, ValuedAssumption DEF Traced, BooksBlindly
<1>. HIDE DEF Capturing
<1>10. NoStrandedClaim'
  <2> SUFFICES ASSUME NEW s \in Claiming, hold'[CallOf[s]] = "claimed",
                      claimer'[CallOf[s]] = s, service'[s] = "done",
                      \A op \in {"claim", "void", "capture", "unknown"} :
                          ServiceMsg(op, s) \notin net'
               PROVE  FALSE
    BY DEF NoStrandedClaim
  <2>1. \A op \in {"claim", "void", "capture", "unknown"} : ServiceMsg(op, s) \notin net
    BY <1>2
  <2>2. CASE s # r
    <3>1. claimer[CallOf[s]] = s /\ service[s] = "done"
      BY <1>1, <1>2, <2>2
    <3>2. hold[CallOf[s]] # "claimed"
      BY <2>1, <3>1 DEF Traced, NoStrandedClaim
    <3>3. claimer[CallOf[s]] = claimer'[CallOf[s]]
      BY <3>1
    <3>4. PICK op \in {"claim", "capture", "void", "unknown"} : Process(ServiceMsg(op, r))
      BY <3>2, ServiceAsks DEF Lost, ledger
    <3>5. ServiceMsg(op, r) \in Message
      BY MessageType
    <3>6. CallOf[s] = c /\ claimer'[c] = r
      BY <3>2, <3>4, <3>5, ProcessEffect
    <3>. QED BY <2>2, <3>6
  <2>3. CASE s = r
    <3>1. CASE RefuseUnverified(r)
      BY <2>3, <3>1 DEF RefuseUnverified, ServiceAt, Traced, Early, Unclaimed, ledger
    <3>2. CASE ClaimRefused(r)
      BY <2>3, <3>2 DEF ClaimRefused, Grants, ledger
    <3>3. CASE ClaimLost(r)
      BY <2>3, <3>3 DEF ClaimLost, Lost
    <3>4. CASE ReleaseUnexecuted(r) \/ CloseAnswered(r) \/ CloseLost(r)
      <4>1. PICK op \in {"capture", "void", "unknown"} :
                Answered(ServiceMsg(op, r)) \/ Lost(ServiceMsg(op, r))
        <5>1. CASE ReleaseUnexecuted(r)
          BY <5>1 DEF ReleaseUnexecuted
        <5>2. CASE CloseAnswered(r) \/ CloseLost(r)
          <6>1. closing[r] \in {"capture", "void", "unknown"}
            BY <5>2 DEF CloseAnswered, CloseLost, ServiceAt
          <6>. QED BY <5>2, <6>1 DEF CloseAnswered, CloseLost
        <5>. QED BY <3>4, <5>1, <5>2
      <4>2. CASE Lost(ServiceMsg(op, r))
        BY <2>3, <4>2 DEF Lost
      <4>3. CASE Answered(ServiceMsg(op, r))
        <5>. DEFINE m == ServiceMsg(op, r)
        <5>1. /\ Process(m) /\ m \in Message
              /\ m.op \in {"capture", "void", "unknown"} /\ m.req = r /\ m.call = c
          BY <4>3, MessageType DEF Answered
        <5>. HIDE DEF m
        <5>2. claimer'[m.call] = claimer[m.call]
          BY <5>1, ProcessEffect
        <5>3. m.req # NoReq /\ m.req = claimer[m.call]
          BY <2>3, <5>1, <5>2
        <5>4. hold'[m.call] # "claimed"
          BY <5>1, <5>3, ProcessEffect
        <5>. QED BY <2>3, <5>1, <5>4
      <4>. QED BY <4>1, <4>2, <4>3
    <3>5. CASE UpstreamRuns(r) \/ UpstreamDeclines(r)
      BY <2>1, <2>3, <3>5 DEF UpstreamRuns, UpstreamDeclines, Traced, NoStrandedClaim, ledger
    <3>. QED BY <2>3, <3>1, <3>2, <3>3, <3>4, <3>5
         DEF ServiceMove, ServiceStep, Verified, ClaimGranted, Unexecuted, Forward,
             UpstreamAnswers, ServiceCrash, ServiceAt
  <2>. QED BY <2>2, <2>3
<1>. QED BY <1>4, <1>5, <1>6, <1>7, <1>8, <1>9, <1>10 DEF Traced

LEMMA HandOverTraced ==
    ASSUME IInv, Traced, NEW c \in Call, NEW r \in Req, HandOver(c, r)
    PROVE  Traced'
<1>. USE NoReqAssumption, CallOfAssumption, ClaimingAssumption DEF IInv, TypeOK, Traced
<1>1. /\ service[r] = "idle" /\ service' = [service EXCEPT ![r] = "verifying"]
      /\ CallOf[r] \notin InProcess
      /\ UNCHANGED <<hold, claimer, net, agentVars, closing, upstream, answer>>
  BY DEF HandOver, ServiceAt, Delegated, ledger
<1>2. AtHome' /\ Early' /\ Unsent'
  BY <1>1 DEF AtHome, Early, Unclaimed, Unsent, NotYetSent
<1>3. VoidsUnrun'
  BY <1>1 DEF VoidsUnrun, VoidSent, agentVars
<1>4. CapturesRan' /\ NoStrandedClaim'
  BY <1>1 DEF CapturesRan, NoStrandedClaim
<1>5. BooksBlindly'
  <2>1. \A d : (Ran(d)' <=> Ran(d)) /\ (Booking(d)' <=> Booking(d)) /\ (Blind(d)' <=> Blind(d))
    BY <1>1 DEF Ran, Booking, Blind, agentVars
  <2>. QED BY <1>1, <2>1 DEF BooksBlindly, agentVars
<1>. QED BY <1>2, <1>3, <1>4, <1>5

LEMMA DeliverTraced ==
    ASSUME IInv, Traced, NEW m \in net, Deliver(m)
    PROVE  Traced'
<1>. USE NoReqAssumption, CallOfAssumption, ClaimingAssumption DEF IInv, TypeOK, IssuerTypeOK
<1>1. /\ Process(m) /\ m \in Message /\ UNCHANGED <<net, agentVars, serviceVars>>
      /\ m.req # NoReq => m.call = CallOf[m.req]
  BY DEF Deliver, Safe, WellAddressed
<1>2. /\ m.call \in Call
      /\ \A d \in Call : d # m.call => hold'[d] = hold[d] /\ claimer'[d] = claimer[d]
      /\ claimer'[m.call] # claimer[m.call]
         => m.op = "claim" /\ m.req # NoReq /\ claimer'[m.call] = m.req
      /\ hold'[m.call] = "voided" => hold[m.call] = "voided" \/ m.op = "void"
      /\ hold'[m.call] = "captured" => hold[m.call] = "captured" \/ m.op = "capture"
      /\ hold'[m.call] = "claimed" =>
            \/ m.op = "claim" /\ claimer'[m.call] = m.req /\ m.req # NoReq
            \/ hold[m.call] = "claimed" /\ claimer'[m.call] = claimer[m.call]
  BY <1>1, ProcessEffect DEF Message
<1>3. m.req \in Req \cup {NoReq}
  BY <1>1 DEF Message
<1>4. m.req # NoReq => m = ServiceMsg(m.op, m.req) /\ ~ Unclaimed(m.req)
  BY <1>1, <1>3 DEF Message, Traced, Early
<1>5. m.req = NoReq => m = AgentMsg(m.op, m.call)
  BY <1>1 DEF Message
<1>6. AtHome' /\ Unsent' /\ CapturesRan'
  BY <1>1 DEF Traced, AtHome, Unsent, NotYetSent, CapturesRan, serviceVars
<1>7. Early'
  BY <1>1, <1>2, <1>4 DEF Traced, Early, Unclaimed, serviceVars
<1>8. VoidsUnrun'
  <2>1. \A d \in InProcess \cap Candid : VoidSent(d)' => VoidSent(d)
    <3> SUFFICES ASSUME NEW d \in InProcess \cap Candid, hold'[d] = "voided", hold[d] # "voided"
                 PROVE  AgentMsg("void", d) \in net
      BY <1>1 DEF VoidSent
    <3>1. d = m.call /\ m.op = "void"
      BY <1>2, InProcessAssumption
    <3>2. m.req = NoReq
      BY <1>1, <1>3, <1>4, <3>1 DEF Traced, AtHome, Unclaimed
    <3>. QED BY <1>5, <3>1, <3>2
  <2>. QED BY <1>1, <2>1 DEF Traced, VoidsUnrun, agentVars
<1>9. BooksBlindly'
  <2>1. \A d : (Ran(d)' <=> Ran(d)) /\ (Booking(d)' <=> Booking(d)) /\ (Blind(d)' <=> Blind(d))
    BY <1>1 DEF Ran, Booking, Blind, agentVars, serviceVars
  <2>2. ASSUME NEW d \in Valued \ InProcess, hold'[d] = "captured", hold[d] # "captured"
        PROVE  Ran(d) \/ Booking(d)
    <3>1. d = m.call /\ m.op = "capture"
      BY <1>2, <2>2, ValuedAssumption
    <3>2. CASE m.req = NoReq
      BY <1>5, <3>1, <3>2 DEF Traced, BooksBlindly
    <3>3. CASE m.req # NoReq
      BY <1>1, <1>3, <1>4, <3>1, <3>3 DEF Traced, CapturesRan, Ran
    <3>. QED BY <3>2, <3>3
  <2>. QED BY <1>1, <2>1, <2>2 DEF Traced, BooksBlindly, agentVars
<1>10. NoStrandedClaim'
  <2> SUFFICES ASSUME NEW s \in Claiming, hold'[CallOf[s]] = "claimed",
                      claimer'[CallOf[s]] = s, service'[s] = "done"
               PROVE  \E op \in {"claim", "void", "capture", "unknown"} :
                          ServiceMsg(op, s) \in net
    BY <1>1 DEF NoStrandedClaim
  <2>1. service[s] = "done"
    BY <1>1 DEF serviceVars
  <2>2. CASE hold[CallOf[s]] = "claimed" /\ claimer[CallOf[s]] = s
    BY <2>1, <2>2 DEF Traced, NoStrandedClaim
  <2>3. CASE ~ (hold[CallOf[s]] = "claimed" /\ claimer[CallOf[s]] = s)
    <3>1. m.op = "claim" /\ m.req = s
      BY <1>2, <2>3
    <3>. QED BY <1>4, <3>1
  <2>. QED BY <2>2, <2>3
<1>. QED BY <1>6, <1>7, <1>8, <1>9, <1>10 DEF Traced

LEMMA LapseTraced ==
    ASSUME IInv, Traced, NEW c \in Call, Lapse(c)
    PROVE  Traced'
<1>. USE DEF IInv, TypeOK, IssuerTypeOK
<1>1. /\ hold' = [hold EXCEPT ![c] = "expired"]
      /\ UNCHANGED <<claimer, net, agentVars, serviceVars>>
  BY DEF Lapse, Expire
<1>2. AtHome' /\ Early' /\ Unsent' /\ CapturesRan' /\ NoStrandedClaim'
  BY <1>1, ServicesStill
<1>3. VoidsUnrun'
  BY <1>1, InProcessAssumption DEF Traced, VoidsUnrun, VoidSent, agentVars
<1>4. BooksBlindly'
  <2>1. \A d : (Ran(d)' <=> Ran(d)) /\ (Booking(d)' <=> Booking(d)) /\ (Blind(d)' <=> Blind(d))
    BY <1>1 DEF Ran, Booking, Blind, agentVars, serviceVars
  <2>. QED BY <1>1, <2>1, ValuedAssumption DEF Traced, BooksBlindly, agentVars
<1>. QED BY <1>2, <1>3, <1>4 DEF Traced

LEMMA InitTraced == Init => Traced
BY NoReqAssumption, CallOfAssumption, ClaimingAssumption, InProcessAssumption, ValuedAssumption
   DEF Init, IssuerInit, Traced, AtHome, Early, Unclaimed, Unsent, VoidsUnrun, VoidSent,
       BeforeOrVoiding, Voiding, CapturesRan, BooksBlindly, NoStrandedClaim

LEMMA StutterTraced == ASSUME Traced, UNCHANGED vars PROVE Traced'
BY DEF vars, Traced, AtHome, Early, Unclaimed, Unsent, NotYetSent, VoidsUnrun, VoidSent,
       CapturesRan, BooksBlindly, Blind, Booking, Ran, NoStrandedClaim

LEMMA AlwaysTraced == Spec => [](IInv /\ Traced)
<1>1. Init => IInv /\ Traced
  BY InitSafe, InitTraced
<1>2. IInv /\ Traced /\ [Next]_vars => IInv' /\ Traced'
  <2> SUFFICES ASSUME IInv, Traced, [Next]_vars PROVE IInv' /\ Traced'
    OBVIOUS
  <2>1. IInv'
    BY NextSafe
  <2>2. ASSUME NEW c \in Call, AgentMove(c) PROVE Traced'
    BY <2>2, AgentTraced
  <2>3. ASSUME NEW r \in Req, ServiceMove(r) PROVE Traced'
    BY <2>1, <2>3, ServiceTraced
  <2>4. ASSUME NEW c \in Call, NEW r \in Req, HandOver(c, r) PROVE Traced'
    BY <2>4, HandOverTraced
  <2>5. ASSUME NEW m \in net, Deliver(m) PROVE Traced'
    BY <2>5, DeliverTraced
  <2>6. ASSUME NEW c \in Call, Lapse(c) PROVE Traced'
    BY <2>6, LapseTraced
  <2>. QED BY <2>1, <2>2, <2>3, <2>4, <2>5, <2>6, StutterTraced
       DEF Next, AgentMove, ServiceMove
<1>. QED BY <1>1, <1>2, PTL DEF Spec

\* A claim that a service finished with is settled or released, or a message
\* about it went missing (claimAuthorization, releaseUnexecuted, settleCall).
THEOREM ClaimsAreNotLeft == Spec => []NoStrandedClaim
<1>1. Traced => NoStrandedClaim
  BY DEF Traced
<1>. QED BY <1>1, AlwaysTraced, PTL

\* A delegated call of value that did not run is booked as spend only by an
\* agent whose settleDelegated could not ask the gate, for any number of tries.
THEOREM OnlyTheBlindBook == Spec => []UnrunSpendOnlyWhenBlind
<1>1. Traced => UnrunSpendOnlyWhenBlind
  BY DEF Traced, BooksBlindly, Booking, Blind, UnrunSpendOnlyWhenBlind
<1>. QED BY <1>1, AlwaysTraced, PTL

\* Where every service claims, a void belongs to a call that did nothing: of
\* delegated calls by the claim, of in-process ones because the tool is candid.
THEOREM ReleasedDidNothing == ASSUME Claiming = Req PROVE Spec => []ReleasedNeverRan
<1>1. ASSUME IInv, Traced PROVE ReleasedNeverRan
  <2> SUFFICES ASSUME NEW c \in Call, hold[c] = "voided", Ran(c), c \notin InProcess \ Candid
               PROVE  FALSE
    BY DEF ReleasedNeverRan
  <2>1. c \notin acted
    BY <1>1 DEF IInv, TypeOK, Traced, VoidsUnrun, VoidSent
  <2>2. PICK r \in Req : CallOf[r] = c /\ upstream[r] = "ran"
    BY <2>1 DEF Ran
  <2>3. hold[c] \in Spending
    BY <1>1, <2>2 DEF IInv, Safe, OwnsWhatItRuns, RunsCommitted, MayYetRun
  <2>. QED BY <2>3 DEF Spending
<1>. QED BY <1>1, AlwaysTraced, PTL

\* Where every service claims and every in-process tool is candid, the void that
\* follows an error is applied only to a call that did nothing, whatever the
\* tools that hand their calls over say of themselves.
THEOREM FailureReleasesUnrun ==
    ASSUME Claiming = Req, InProcess \subseteq Candid
    PROVE  Spec => FailureReleasesOnlyUnrun
<1>1. IInv /\ Traced => [\A c \in Call :
          agent[c] = "voidFailed" /\ hold[c] = "held" /\ hold'[c] = "voided"
          => ~ Ran(c)]_vars
  <2> SUFFICES ASSUME IInv, Traced, NEW c \in Call,
                      agent[c] = "voidFailed", hold[c] = "held", Ran(c)
               PROVE  FALSE
    OBVIOUS
  <2>1. c \notin acted
    BY DEF IInv, TypeOK, Traced, VoidsUnrun, BeforeOrVoiding, Voiding
  <2>2. PICK r \in Req : CallOf[r] = c /\ upstream[r] = "ran"
    BY <2>1 DEF Ran
  <2>3. hold[c] \in Spending
    BY <2>2 DEF IInv, Safe, OwnsWhatItRuns, RunsCommitted, MayYetRun
  <2>. QED BY <2>3 DEF Spending
<1>. QED BY <1>1, AlwaysTraced, PTL DEF FailureReleasesOnlyUnrun
=============================================================================
