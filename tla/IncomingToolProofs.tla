------------------------- MODULE IncomingToolProofs -------------------------
(***************************************************************************)
(* Proofs about IncomingTool, for any number of calls, requests and claim  *)
(* tries, with or without capabilities: a handler runs once, its spend     *)
(* stays committed, it is settled before its answer leaves, a refusal      *)
(* gives the claim back, and together they implement SingleUse.            *)
(***************************************************************************)
EXTENDS IncomingTool, FiniteSetTheorems, TLAPS

Unsettled == {"none", "held", "expired"}
Spending == {"claimed", "captured", "unknown"}

\* Every message is an agent's own or is about the call its request presents.
WellAddressed == \A m \in net : m.req # NoReq => m.call = CallOf[m.req]

\* A hold has a claimer only once it has left "held", for good.
ClaimedOnce == \A c \in Call : claimer[c] # NoReq => hold[c] \notin Unsettled

Claimer(r) == claimer[CallOf[r]] = r
Pending(op, r) == ServiceMsg(op, r) \in net
BeforeGrant == {"idle", "verifying", "claiming"}
AfterGrant == {"granted", "permitted", "refusing", "running", "capturing", "marking", "checking"}
BeforeRun == BeforeGrant \cup {"granted", "permitted"}

\* A request goes beyond its claim only as the claimer, and before it only
\* with a claim that went missing.
GrantedToClaimer == \A r \in Req :
    /\ at[r] \in AfterGrant \/ r \in ran => Claimer(r)
    /\ at[r] \in BeforeGrant /\ ~Pending("claim", r) => ~Claimer(r)

\* The handler runs after the permit, and before the settlement.
RunsLast == \A r \in Req :
    /\ at[r] \in BeforeRun \cup {"refusing"} => r \notin ran
    /\ at[r] \in {"running", "capturing"} => r \in ran

\* A release belongs to a request that will never run.
ReleasesOnlyUnrun == \A r \in Req : Pending("void", r) => at[r] = "done" /\ r \notin ran

\* So the hold of what ran, or may yet run, is spent.
RunsCommitted == \A r \in Req :
    Claimer(r) /\ (at[r] \in BeforeRun \/ r \in ran) => hold[CallOf[r]] \in Spending

\* Only a request that was answered with its handler's error marks its hold
\* unknown.
UnknownIsAnError == \A r \in Req :
    /\ Pending("unknown", r) \/ (Claimer(r) /\ hold[CallOf[r]] = "unknown") => answer[r] = "error"
    /\ answer[r] # "none" => at[r] = "done"

\* The answer is looked at when the hold is settled, as far as that was tried.
Settled(r) == hold[CallOf[r]] = "captured" \/ Pending("capture", r) \/ r \in unsigned
SettledWhenChecked == \A r \in Req \ Amountless : at[r] = "checking" => Settled(r)

Safe ==
    /\ WellAddressed /\ ClaimedOnce /\ GrantedToClaimer /\ RunsLast /\ ReleasesOnlyUnrun
    /\ RunsCommitted /\ UnknownIsAnError /\ SettledWhenChecked
    /\ SettledBeforeAnswered /\ RefusedIsReleased

IInv == TypeOK /\ Safe

USE DEF AgentMsg, ServiceMsg

-----------------------------------------------------------------------------
\* What one message may do to the ledger, whoever sent it.
LEMMA ProcessFacts ==
    ASSUME IssuerTypeOK, ClaimedOnce, NEW m \in Message, Process(m)
    PROVE  /\ IssuerTypeOK' /\ ClaimedOnce'
           /\ \A c \in Call :
              /\ claimer'[c] # claimer[c] =>
                   /\ m.op = "claim" /\ m.call = c /\ claimer'[c] = m.req /\ m.req # NoReq
                   /\ claimer[c] = NoReq /\ hold'[c] = "claimed"
              /\ hold[c] = "captured" => hold'[c] = "captured"
              /\ hold[c] \in Spending /\ hold'[c] \notin Spending =>
                   m.op = "void" /\ m.call = c /\ m.req = claimer[c] /\ m.req # NoReq
              /\ hold'[c] = "unknown" /\ hold[c] # "unknown" =>
                   m.op = "unknown" /\ m.call = c /\ m.req = claimer[c] /\ m.req # NoReq
              /\ claimer[c] # NoReq /\ hold'[c] = "claimed" => hold[c] = "claimed"
<1>1. IssuerTypeOK'
  BY DEF IssuerTypeOK, Process, Becomes, HoldStatus, Message, ledger
<1>2. ClaimedOnce'
  BY DEF IssuerTypeOK, Process, Becomes, ClaimedOnce, Unsettled, HoldStatus, Message, ledger,
         MayMint, CanMint, MayClaim, MayCapture, MayVoid, MayMarkUnknown
<1>. QED
  BY <1>1, <1>2
  DEF IssuerTypeOK, Process, Becomes, ClaimedOnce, Unsettled, Spending, HoldStatus, Message, ledger,
      MayMint, CanMint, MayClaim, MayCapture, MayVoid, MayMarkUnknown

LEMMA MessageType ==
    ASSUME NEW op \in {"authorize", "claim", "capture", "void", "unknown"}
    PROVE  /\ \A c \in Call : AgentMsg(op, c) \in Message
           /\ \A r \in Req : ServiceMsg(op, r) \in Message
BY CallOfAssumption DEF Message

LEMMA TriesType == ClaimTries \in Nat /\ ClaimTries > 0
BY ClaimTriesAssumption

LEMMA InitIInv == Init => IInv
BY CallOfAssumption, NoReqAssumption, TriesType
DEF Init, IssuerInit, IInv, TypeOK, IssuerTypeOK, HoldStatus, Message, InProgress, Safe, WellAddressed,
    ClaimedOnce, GrantedToClaimer, RunsLast, ReleasesOnlyUnrun, RunsCommitted, UnknownIsAnError,
    SettledWhenChecked, Settled, SettledBeforeAnswered, RefusedIsReleased, Heard, Claimer, Pending, BeforeRun,
    BeforeGrant, AfterGrant

\* Steps that ask the gate nothing.
LEMMA LocalSteps ==
    ASSUME IInv, NEW r \in Req,
           \/ Present(r) \/ Refuse(r) \/ Verified(r) \/ ClaimRefused(r) \/ GrantMismatch(r)
           \/ CapabilityRefused(r) \/ CapabilityPasses(r) \/ CheckRefuses(r)
           \/ Run(r) \/ TaskRuns(r) \/ Returns(r) \/ Throws(r) \/ CheckAnswer(r) \/ Crash(r)
    PROVE  IInv'
<1>1. UNCHANGED <<hold, claimer, net, unsigned>>
  BY DEF Present, Refuse, Verified, ClaimRefused, GrantMismatch, CapabilityRefused, CapabilityPasses,
         CheckRefuses, Run, TaskRuns, Returns, Throws, CheckAnswer, Crash, ledger
<1>2. TypeOK'
  BY <1>1, TriesType
  DEF IInv, TypeOK, IssuerTypeOK, Present, Refuse, Verified, ClaimRefused, GrantMismatch,
      CapabilityRefused, CapabilityPasses, CheckRefuses, Run, TaskRuns, Returns, Throws, CheckAnswer, Crash,
      Step, Told, InProgress
<1>3. WellAddressed' /\ ClaimedOnce'
  BY <1>1 DEF IInv, Safe, WellAddressed, ClaimedOnce
<1>4. GrantedToClaimer' /\ RunsLast' /\ ReleasesOnlyUnrun'
  BY <1>1 DEF IInv, Safe, TypeOK, GrantedToClaimer, RunsLast, ReleasesOnlyUnrun, Claimer, Pending,
      BeforeRun, BeforeGrant, AfterGrant, Present, Refuse, Verified, ClaimRefused, GrantMismatch,
      CapabilityRefused, CapabilityPasses, CheckRefuses, Run, TaskRuns, Returns, Throws, CheckAnswer, Crash,
      Step, Told, InProgress
<1>5. RunsCommitted' /\ SettledWhenChecked' /\ UnknownIsAnError'
  BY <1>1 DEF IInv, Safe, TypeOK, RunsCommitted, SettledWhenChecked, Settled, UnknownIsAnError, Claimer, Pending,
      BeforeRun, BeforeGrant, Present, Refuse, Verified, ClaimRefused, GrantMismatch,
      CapabilityRefused, CapabilityPasses, CheckRefuses, Run, TaskRuns, Returns, Throws, CheckAnswer, Crash,
      Step, Told, InProgress
<1>6. SettledBeforeAnswered' /\ RefusedIsReleased'
  BY <1>1 DEF IInv, Safe, TypeOK, GrantedToClaimer, SettledWhenChecked, Settled, SettledBeforeAnswered,
      RefusedIsReleased, Heard, Claimer, Pending, BeforeGrant, AfterGrant,
      Present, Refuse, Verified, ClaimRefused, GrantMismatch,
      CapabilityRefused, CapabilityPasses, CheckRefuses, Run, TaskRuns, Returns, Throws, CheckAnswer, Crash,
      Step, Told, InProgress
<1>. QED BY <1>2, <1>3, <1>4, <1>5, <1>6 DEF IInv, Safe

\* The ledger moves and no request does: a message of an agent, one that is
\* late, or a lapse.
LEMMA LedgerSteps ==
    ASSUME IInv, UNCHANGED <<net, unsigned, at, tries, ran, answer>>,
           \/ \E m \in net : Process(m)
           \/ \E c \in Call, op \in {"authorize", "capture", "void"} : Process(AgentMsg(op, c))
           \/ \E c \in Call : Expire(c)
    PROVE  IInv'
<1>1. CASE \E m \in Message : Process(m) /\ (m \in net \/ m.req = NoReq)
  <2>1. PICK m \in Message : Process(m) /\ (m \in net \/ m.req = NoReq)
    BY <1>1
  <2>2. m.req # NoReq => m.req \in Req /\ m \in net /\ m.call = CallOf[m.req] /\ m = ServiceMsg(m.op, m.req)
    BY <2>1 DEF IInv, Safe, WellAddressed, Message
  <2>3. IssuerTypeOK' /\ ClaimedOnce'
    BY <2>1, ProcessFacts DEF IInv, TypeOK, Safe
  <2>4. TypeOK'
    BY <2>3 DEF IInv, TypeOK
  <2>5. \A c \in Call :
          /\ claimer'[c] # claimer[c] =>
               \E r \in Req : /\ CallOf[r] = c /\ Pending("claim", r) /\ claimer'[c] = r
                              /\ claimer[c] = NoReq /\ hold'[c] = "claimed"
          /\ hold[c] = "captured" => hold'[c] = "captured"
          /\ hold[c] \in Spending /\ hold'[c] \notin Spending =>
               \E r \in Req : CallOf[r] = c /\ Pending("void", r) /\ claimer[c] = r
          /\ hold'[c] = "unknown" /\ hold[c] # "unknown" =>
               \E r \in Req : CallOf[r] = c /\ Pending("unknown", r) /\ claimer[c] = r
          /\ claimer[c] # NoReq /\ hold'[c] = "claimed" => hold[c] = "claimed"
    BY <2>1, <2>2, ProcessFacts DEF IInv, TypeOK, Safe, Pending
  <2>6. \A r \in Req : CallOf[r] \in Call /\ r # NoReq
    BY CallOfAssumption, NoReqAssumption
  <2>7. ASSUME NEW r \in Req
        PROVE  /\ Claimer(r) => Claimer(r)'
               /\ Claimer(r)' /\ ~Claimer(r) =>
                    Pending("claim", r) /\ hold'[CallOf[r]] = "claimed"
               /\ Claimer(r) /\ hold[CallOf[r]] \in Spending /\ ~Pending("void", r) =>
                    hold'[CallOf[r]] \in Spending
               /\ Claimer(r) /\ hold'[CallOf[r]] = "unknown" =>
                    hold[CallOf[r]] = "unknown" \/ Pending("unknown", r)
               /\ \A op : Pending(op, r)' <=> Pending(op, r)
    <3>1. CallOf[r] \in Call /\ r # NoReq
      BY <2>6
    <3>2. \A op : Pending(op, r)' <=> Pending(op, r)
      BY DEF Pending
    <3>3. Claimer(r) => Claimer(r)'
      BY <2>5, <3>1 DEF Claimer
    <3>4. Claimer(r)' /\ ~Claimer(r) => Pending("claim", r) /\ hold'[CallOf[r]] = "claimed"
      BY <2>5, <3>1 DEF Claimer
    <3>5. Claimer(r) /\ hold[CallOf[r]] \in Spending /\ ~Pending("void", r) =>
            hold'[CallOf[r]] \in Spending
      BY <2>5, <3>1 DEF Claimer
    <3>6. Claimer(r) /\ hold'[CallOf[r]] = "unknown" =>
            hold[CallOf[r]] = "unknown" \/ Pending("unknown", r)
      BY <2>5, <3>1 DEF Claimer
    <3>. QED BY <3>2, <3>3, <3>4, <3>5, <3>6
  <2>8. GrantedToClaimer' /\ RunsLast' /\ ReleasesOnlyUnrun' /\ WellAddressed'
    BY <2>7 DEF IInv, Safe, GrantedToClaimer, RunsLast, ReleasesOnlyUnrun, WellAddressed
  <2>9. RunsCommitted' /\ UnknownIsAnError'
    BY <2>7 DEF IInv, Safe, RunsCommitted, UnknownIsAnError, ReleasesOnlyUnrun, Spending,
        BeforeRun, BeforeGrant
  <2>10. SettledWhenChecked' /\ SettledBeforeAnswered'
    BY <2>5, <2>6 DEF IInv, Safe, SettledWhenChecked, Settled, SettledBeforeAnswered, Pending
  <2>11. RefusedIsReleased'
    <3>1. SUFFICES ASSUME NEW r \in Req, answer[r] = "refused", Claimer(r)', Heard(r)
                   PROVE  hold'[CallOf[r]] # "claimed"
      BY DEF RefusedIsReleased, Claimer, Heard
    <3>2. Claimer(r)
      <4>1. ~Pending("claim", r)
        BY <3>1 DEF Heard, Pending
      <4>. QED BY <2>7, <3>1, <4>1
    <3>3. hold[CallOf[r]] # "claimed"
      BY <3>1, <3>2 DEF IInv, Safe, RefusedIsReleased, Claimer
    <3>. QED BY <2>5, <2>6, <3>2, <3>3 DEF Claimer
  <2>. QED BY <2>3, <2>4, <2>8, <2>9, <2>10, <2>11 DEF IInv, Safe
<1>2. CASE \E c \in Call : Expire(c)
  BY <1>2, CallOfAssumption, NoReqAssumption
  DEF Expire, IInv, TypeOK, IssuerTypeOK, HoldStatus, Safe, WellAddressed, ClaimedOnce, GrantedToClaimer,
      RunsLast, ReleasesOnlyUnrun, RunsCommitted, UnknownIsAnError, SettledWhenChecked, Settled,
      SettledBeforeAnswered, RefusedIsReleased, Heard, Claimer, Pending, Spending, Unsettled
<1>3. (\E c \in Call, op \in {"authorize", "capture", "void"} : Process(AgentMsg(op, c)))
      => \E m \in Message : Process(m) /\ (m \in net \/ m.req = NoReq)
  BY MessageType
<1>4. (\E m \in net : Process(m)) => \E m \in Message : Process(m) /\ (m \in net \/ m.req = NoReq)
  BY DEF IInv, TypeOK
<1>. QED BY <1>1, <1>2, <1>3, <1>4

\* What a call of request r to the gate may do, answered or lost.
LEMMA Sends ==
    ASSUME IInv, NEW r \in Req, NEW op \in {"claim", "capture", "void", "unknown"},
           \/ Answered(ServiceMsg(op, r)) \/ Lost(ServiceMsg(op, r))
           \/ UNCHANGED <<ledger, net>>
    PROVE  /\ IssuerTypeOK' /\ (net \subseteq Message)' /\ WellAddressed' /\ ClaimedOnce'
           /\ \A s \in Req :
                /\ Claimer(s) => Claimer(s)'
                /\ Claimer(s)' /\ ~Claimer(s) =>
                     op = "claim" /\ s = r /\ hold'[CallOf[s]] = "claimed"
                /\ Claimer(s) /\ hold[CallOf[s]] \in Spending /\ ~(op = "void" /\ s = r) =>
                     hold'[CallOf[s]] \in Spending
                /\ Claimer(s) /\ hold'[CallOf[s]] = "unknown" =>
                     hold[CallOf[s]] = "unknown" \/ (op = "unknown" /\ s = r)
                /\ Claimer(s) /\ hold'[CallOf[s]] = "claimed" => hold[CallOf[s]] = "claimed"
                /\ hold[CallOf[s]] = "captured" => hold'[CallOf[s]] = "captured"
                /\ \A o : Pending(o, s) => Pending(o, s)'
                /\ \A o : Pending(o, s)' => Pending(o, s) \/ (o = op /\ s = r)
<1> DEFINE m == ServiceMsg(op, r)
<1>1. m \in Message /\ m.req = r /\ m.op = op /\ m.call = CallOf[r]
  BY MessageType
<1>2. \A s \in Req : CallOf[s] \in Call /\ s # NoReq
  BY CallOfAssumption, NoReqAssumption
<1>3. net' = net \/ net' = net \cup {m}
  BY DEF Answered, Lost
<1>4. (net \subseteq Message)' /\ WellAddressed'
  BY <1>1, <1>3 DEF IInv, TypeOK, Safe, WellAddressed
<1>5. ASSUME NEW s \in Req
      PROVE  /\ \A o : Pending(o, s) => Pending(o, s)'
             /\ \A o : Pending(o, s)' => Pending(o, s) \/ (o = op /\ s = r)
  BY <1>3 DEF Pending
<1>6. CASE Process(m)
  <2>1. /\ IssuerTypeOK' /\ ClaimedOnce'
        /\ \A c \in Call :
              /\ claimer'[c] # claimer[c] =>
                   /\ op = "claim" /\ c = CallOf[r] /\ claimer'[c] = r
                   /\ claimer[c] = NoReq /\ hold'[c] = "claimed"
              /\ hold[c] = "captured" => hold'[c] = "captured"
              /\ hold[c] \in Spending /\ hold'[c] \notin Spending => op = "void" /\ r = claimer[c]
              /\ hold'[c] = "unknown" /\ hold[c] # "unknown" => op = "unknown" /\ r = claimer[c]
              /\ claimer[c] # NoReq /\ hold'[c] = "claimed" => hold[c] = "claimed"
    BY <1>1, <1>6, ProcessFacts DEF IInv, TypeOK, Safe
  <2>. QED BY <1>2, <1>4, <1>5, <2>1 DEF Claimer
<1>7. CASE UNCHANGED <<hold, claimer>>
  BY <1>2, <1>4, <1>5, <1>7 DEF IInv, TypeOK, Safe, IssuerTypeOK, ClaimedOnce, Claimer
<1>. QED BY <1>6, <1>7 DEF Answered, Lost, ledger

\* Of what is the caller's, only a void and a capture may change a hold.
LEMMA VoidEnds ==
    ASSUME IInv, NEW r \in Req, Claimer(r),
           Answered(ServiceMsg("void", r)) \/ Lost(ServiceMsg("void", r))
    PROVE  hold'[CallOf[r]] # "claimed" \/ Pending("void", r)'
<1>1. CallOf[r] \in Call /\ r # NoReq
  BY CallOfAssumption, NoReqAssumption
<1>. QED
  BY <1>1 DEF IInv, TypeOK, IssuerTypeOK, Claimer, Pending, Answered, Lost, Process, Applies, Becomes,
      MayMint, MayClaim, MayCapture, MayVoid, MayMarkUnknown, ledger

LEMMA CaptureEnds ==
    ASSUME IInv, NEW r \in Req, Claimer(r), hold[CallOf[r]] \in {"claimed", "captured"},
           Answered(ServiceMsg("capture", r)) \/ Lost(ServiceMsg("capture", r))
    PROVE  hold'[CallOf[r]] = "captured" \/ Pending("capture", r)'
<1>1. CallOf[r] \in Call /\ r # NoReq
  BY CallOfAssumption, NoReqAssumption
<1>. QED
  BY <1>1 DEF IInv, TypeOK, IssuerTypeOK, Claimer, Pending, Answered, Lost, Process, Applies, Becomes,
      MayMint, MayClaim, MayCapture, MayVoid, MayMarkUnknown, ledger

\* A granted claim makes the request the claimer, if it was not already.
LEMMA GrantClaims ==
    ASSUME IInv, NEW r \in Req, Grants(r), Answered(ServiceMsg("claim", r))
    PROVE  Claimer(r)'
<1>1. CallOf[r] \in Call /\ r # NoReq
  BY CallOfAssumption, NoReqAssumption
<1>. QED
  BY <1>1 DEF IInv, TypeOK, IssuerTypeOK, Safe, ClaimedOnce, Unsettled, Claimer, Grants, Answered, Process,
      Applies, Becomes, MayMint, CanMint, MayClaim, MayCapture, MayVoid, MayMarkUnknown, ledger
-----------------------------------------------------------------------------
LEMMA ClaimSteps ==
    ASSUME IInv, NEW r \in Req, ClaimGranted(r) \/ ClaimLost(r)
    PROVE  IInv'
<1>1. Answered(ServiceMsg("claim", r)) \/ Lost(ServiceMsg("claim", r))
  BY DEF ClaimGranted, ClaimLost
<1>2. /\ at[r] = "claiming" /\ ran' = ran /\ unsigned' = unsigned
      /\ ClaimGranted(r) => /\ at' = [at EXCEPT ![r] = "granted"] /\ answer' = answer /\ tries' = tries
                            /\ Claimer(r)'
      /\ ClaimLost(r) => Pending("claim", r)' /\ tries' = [tries EXCEPT ![r] = @ - 1]
      /\ ClaimLost(r) /\ tries[r] = 1 =>
            at' = [at EXCEPT ![r] = "done"] /\ answer' = [answer EXCEPT ![r] = "refused"]
      /\ ClaimLost(r) /\ tries[r] # 1 => at' = [at EXCEPT ![r] = "claiming"] /\ answer' = answer
  BY GrantClaims DEF ClaimGranted, ClaimLost, Step, Told, Answered, Lost, Pending
<1> DEFINE Effects(s) ==
      /\ Claimer(s) => Claimer(s)'
      /\ Claimer(s)' /\ ~Claimer(s) => s = r /\ hold'[CallOf[s]] = "claimed"
      /\ Claimer(s) /\ hold[CallOf[s]] \in Spending => hold'[CallOf[s]] \in Spending
      /\ Claimer(s) /\ hold'[CallOf[s]] = "unknown" => hold[CallOf[s]] = "unknown"
      /\ Claimer(s) /\ hold'[CallOf[s]] = "claimed" => hold[CallOf[s]] = "claimed"
      /\ hold[CallOf[s]] = "captured" => hold'[CallOf[s]] = "captured"
      /\ \A o : Pending(o, s) => Pending(o, s)'
      /\ \A o : Pending(o, s)' => Pending(o, s) \/ (o = "claim" /\ s = r)
<1>3. \A s \in Req : Effects(s)
  BY <1>1, Sends
<1>4. TypeOK' /\ WellAddressed' /\ ClaimedOnce'
  <2>1. IssuerTypeOK' /\ (net \subseteq Message)' /\ WellAddressed' /\ ClaimedOnce'
    BY <1>1, Sends
  <2>. QED BY <1>2, <2>1, TriesType DEF IInv, TypeOK, InProgress
<1>5. GrantedToClaimer' /\ RunsLast' /\ ReleasesOnlyUnrun'
  BY <1>2, <1>3 DEF IInv, TypeOK, Safe, GrantedToClaimer, RunsLast, ReleasesOnlyUnrun, BeforeRun, BeforeGrant,
      AfterGrant
<1>6. RunsCommitted' /\ UnknownIsAnError'
  BY <1>2, <1>3 DEF IInv, TypeOK, Safe, RunsCommitted, UnknownIsAnError, RunsLast, BeforeRun, BeforeGrant, Spending
<1>7. SettledWhenChecked'
  BY <1>2, <1>3 DEF IInv, TypeOK, Safe, SettledWhenChecked, Settled
<1>8. SettledBeforeAnswered'
  BY <1>2, <1>3 DEF IInv, TypeOK, Safe, SettledBeforeAnswered, Pending
<1>9. RefusedIsReleased'
  <2>1. SUFFICES ASSUME NEW s \in Req, answer'[s] = "refused", Claimer(s)', Heard(s)'
                 PROVE  hold'[CallOf[s]] # "claimed"
    BY DEF RefusedIsReleased, Claimer
  <2>2. s # r
    BY <1>2, <2>1 DEF IInv, Safe, UnknownIsAnError, Heard, Pending
  <2>3. answer[s] = "refused" /\ Claimer(s) /\ Heard(s)
    BY <1>2, <1>3, <2>1, <2>2 DEF IInv, TypeOK, Heard, Pending
  <2>4. hold[CallOf[s]] # "claimed"
    BY <2>3 DEF IInv, Safe, RefusedIsReleased, Claimer
  <2>. QED BY <1>3, <2>3, <2>4
<1>. QED BY <1>4, <1>5, <1>6, <1>7, <1>8, <1>9 DEF IInv, Safe

\* The one release of a refused request, and what becomes of its claim.
LEMMA ReleaseStep ==
    ASSUME IInv, NEW r \in Req, Release(r)
    PROVE  IInv'
<1>1. /\ \/ Answered(ServiceMsg("void", r)) \/ Lost(ServiceMsg("void", r))
         \/ UNCHANGED <<ledger, net>> /\ r \in unsigned'
      /\ unsigned \subseteq unsigned' /\ unsigned' \subseteq Req \ Task
  BY DEF Release, Settles, Answered, Lost, IInv, TypeOK
<1>2. /\ at[r] = "refusing" /\ ran' = ran /\ tries' = tries
      /\ at' = [at EXCEPT ![r] = "done"] /\ answer' = [answer EXCEPT ![r] = "refused"]
  BY DEF Release, Step, Told
<1>3. Claimer(r) /\ r \notin ran
  BY <1>2 DEF IInv, Safe, GrantedToClaimer, RunsLast, AfterGrant
<1> DEFINE Effects(s) ==
      /\ Claimer(s)' <=> Claimer(s)
      /\ Claimer(s) /\ hold[CallOf[s]] \in Spending /\ s # r => hold'[CallOf[s]] \in Spending
      /\ Claimer(s) /\ hold'[CallOf[s]] = "unknown" => hold[CallOf[s]] = "unknown"
      /\ Claimer(s) /\ hold'[CallOf[s]] = "claimed" => hold[CallOf[s]] = "claimed"
      /\ hold[CallOf[s]] = "captured" => hold'[CallOf[s]] = "captured"
      /\ \A o : Pending(o, s) => Pending(o, s)'
      /\ \A o : Pending(o, s)' => Pending(o, s) \/ (o = "void" /\ s = r)
<1>4. \A s \in Req : Effects(s)
  BY <1>1, Sends
<1>5. TypeOK' /\ WellAddressed' /\ ClaimedOnce'
  <2>1. IssuerTypeOK' /\ (net \subseteq Message)' /\ WellAddressed' /\ ClaimedOnce'
    BY <1>1, Sends
  <2>. QED BY <1>1, <1>2, <2>1 DEF IInv, TypeOK
<1>6. GrantedToClaimer' /\ RunsLast' /\ ReleasesOnlyUnrun'
  BY <1>2, <1>3, <1>4 DEF IInv, TypeOK, Safe, GrantedToClaimer, RunsLast, ReleasesOnlyUnrun, BeforeRun,
      BeforeGrant, AfterGrant
<1>7. RunsCommitted' /\ UnknownIsAnError'
  <2>1. hold[CallOf[r]] # "unknown" /\ ~Pending("unknown", r)
    BY <1>2, <1>3 DEF IInv, Safe, UnknownIsAnError
  <2>. QED BY <1>2, <1>3, <1>4, <2>1 DEF IInv, TypeOK, Safe, RunsCommitted, UnknownIsAnError, BeforeRun, BeforeGrant
<1>8. SettledWhenChecked' /\ SettledBeforeAnswered'
  BY <1>1, <1>2, <1>4 DEF IInv, TypeOK, Safe, SettledWhenChecked, Settled, SettledBeforeAnswered, Pending
<1>9. RefusedIsReleased'
  <2>1. SUFFICES ASSUME NEW s \in Req, answer'[s] = "refused", Claimer(s)', Heard(s)'
                 PROVE  hold'[CallOf[s]] # "claimed"
    BY DEF RefusedIsReleased, Claimer
  <2>2. CASE s = r
    BY <1>1, <1>3, <2>1, <2>2, VoidEnds DEF Heard, Pending
  <2>3. CASE s # r
    <3>1. answer[s] = "refused" /\ Claimer(s) /\ Heard(s)
      BY <1>1, <1>2, <1>4, <2>1, <2>3 DEF IInv, TypeOK, Heard, Pending
    <3>2. hold[CallOf[s]] # "claimed"
      BY <3>1 DEF IInv, Safe, RefusedIsReleased, Claimer
    <3>. QED BY <1>4, <3>1, <3>2
  <2>. QED BY <2>2, <2>3
<1>. QED BY <1>5, <1>6, <1>7, <1>8, <1>9 DEF IInv, Safe

\* What follows a handler: its capture, or the mark that nobody knows.
LEMMA SettleSteps ==
    ASSUME IInv, NEW r \in Req, Capture(r) \/ TaskCapture(r) \/ MarkUnknown(r)
    PROVE  IInv'
<1>1. PICK op \in {"capture", "unknown"} :
        /\ \/ Answered(ServiceMsg(op, r)) \/ Lost(ServiceMsg(op, r))
           \/ UNCHANGED <<ledger, net>> /\ (op = "capture" => r \in unsigned' \cup Amountless)
        /\ op = "capture" =>
             /\ at[r] = "capturing"
             /\ \/ at' = [at EXCEPT ![r] = "checking"] /\ answer' = answer
                \/ at' = [at EXCEPT ![r] = "done"] /\ answer' = [answer EXCEPT ![r] = "result"]
        /\ op = "unknown" => /\ at[r] = "marking" /\ at' = [at EXCEPT ![r] = "done"]
                             /\ answer' = [answer EXCEPT ![r] = "error"]
        /\ ran' = ran /\ tries' = tries
        /\ unsigned \subseteq unsigned' /\ unsigned' \subseteq Req \ Task
  <2>1. Capture(r) \/ TaskCapture(r) =>
          /\ \/ Answered(ServiceMsg("capture", r)) \/ Lost(ServiceMsg("capture", r))
             \/ UNCHANGED <<ledger, net>> /\ r \in unsigned' \cup Amountless
          /\ unsigned \subseteq unsigned' /\ unsigned' \subseteq Req \ Task
    BY DEF Capture, TaskCapture, Captures, Settles, Answered, Lost, IInv, TypeOK
  <2>2. MarkUnknown(r) =>
          /\ \/ Answered(ServiceMsg("unknown", r)) \/ Lost(ServiceMsg("unknown", r))
             \/ UNCHANGED <<ledger, net>>
          /\ unsigned \subseteq unsigned' /\ unsigned' \subseteq Req \ Task
    BY DEF MarkUnknown, Settles, Answered, Lost, IInv, TypeOK
  <2>3. CASE Capture(r) \/ TaskCapture(r)
    BY <2>1, <2>3 DEF Capture, TaskCapture, Step, Told
  <2>4. CASE MarkUnknown(r)
    BY <2>2, <2>4 DEF MarkUnknown, Step, Told
  <2>. QED BY <2>3, <2>4
<1>2. Claimer(r) /\ answer[r] = "none"
  BY <1>1 DEF IInv, TypeOK, Safe, GrantedToClaimer, UnknownIsAnError, AfterGrant
<1> DEFINE Effects(s) ==
      /\ Claimer(s)' <=> Claimer(s)
      /\ Claimer(s) /\ hold[CallOf[s]] \in Spending => hold'[CallOf[s]] \in Spending
      /\ Claimer(s) /\ hold'[CallOf[s]] = "unknown" =>
           hold[CallOf[s]] = "unknown" \/ (op = "unknown" /\ s = r)
      /\ Claimer(s) /\ hold'[CallOf[s]] = "claimed" => hold[CallOf[s]] = "claimed"
      /\ hold[CallOf[s]] = "captured" => hold'[CallOf[s]] = "captured"
      /\ \A o : Pending(o, s) => Pending(o, s)'
      /\ \A o : Pending(o, s)' => Pending(o, s) \/ (o = op /\ s = r)
<1>3. \A s \in Req : Effects(s)
  BY <1>1, Sends
<1>4. TypeOK' /\ WellAddressed' /\ ClaimedOnce'
  <2>1. IssuerTypeOK' /\ (net \subseteq Message)' /\ WellAddressed' /\ ClaimedOnce'
    BY <1>1, Sends
  <2>. QED BY <1>1, <2>1 DEF IInv, TypeOK, InProgress
<1>5. GrantedToClaimer' /\ RunsLast' /\ ReleasesOnlyUnrun'
  BY <1>1, <1>3 DEF IInv, TypeOK, Safe, GrantedToClaimer, RunsLast, ReleasesOnlyUnrun, BeforeRun, BeforeGrant,
      AfterGrant
<1>6. RunsCommitted'
  BY <1>1, <1>3 DEF IInv, TypeOK, Safe, RunsCommitted, BeforeRun, BeforeGrant
<1>7. UnknownIsAnError'
  BY <1>1, <1>3 DEF IInv, TypeOK, Safe, UnknownIsAnError
<1>8. SettledWhenChecked'
  <2>1. SUFFICES ASSUME NEW s \in Req \ Amountless, at'[s] = "checking"
                 PROVE  Settled(s)'
    BY DEF SettledWhenChecked
  <2>2. CASE s = r
    <3>1. op = "capture" /\ at[r] = "capturing"
      BY <1>1, <2>1, <2>2 DEF IInv, TypeOK
    <3>2. hold[CallOf[r]] \in {"claimed", "captured"}
      BY <1>2, <3>1 DEF IInv, Safe, RunsLast, RunsCommitted, UnknownIsAnError, Spending
    <3>. QED BY <1>1, <1>2, <2>2, <3>1, <3>2, CaptureEnds DEF Settled
  <2>3. CASE s # r
    BY <1>1, <1>3, <2>1, <2>3 DEF IInv, TypeOK, Safe, SettledWhenChecked, Settled
  <2>. QED BY <2>2, <2>3
<1>9. SettledBeforeAnswered'
  <2>1. SUFFICES ASSUME NEW s \in Req \ Amountless, answer'[s] \in {"result", "withheld"}
                 PROVE  Settled(s)'
    BY DEF SettledBeforeAnswered, Settled, Pending
  <2>2. CASE s = r
    <3>1. op = "capture" /\ at[r] = "capturing"
      BY <1>1, <1>2, <2>1, <2>2 DEF IInv, TypeOK
    <3>2. hold[CallOf[r]] \in {"claimed", "captured"}
      BY <1>2, <3>1 DEF IInv, Safe, RunsLast, RunsCommitted, UnknownIsAnError, Spending
    <3>. QED BY <1>1, <1>2, <2>2, <3>1, <3>2, CaptureEnds DEF Settled
  <2>3. CASE s # r
    BY <1>1, <1>3, <2>1, <2>3 DEF IInv, TypeOK, Safe, SettledBeforeAnswered, Settled, Pending
  <2>. QED BY <2>2, <2>3
<1>10. RefusedIsReleased'
  <2>1. SUFFICES ASSUME NEW s \in Req, answer'[s] = "refused", Claimer(s)', Heard(s)'
                 PROVE  hold'[CallOf[s]] # "claimed"
    BY DEF RefusedIsReleased, Claimer
  <2>2. answer[s] = "refused" /\ Claimer(s) /\ Heard(s)
    BY <1>1, <1>3, <2>1 DEF IInv, TypeOK, Heard, Pending
  <2>3. hold[CallOf[s]] # "claimed"
    BY <2>2 DEF IInv, Safe, RefusedIsReleased, Claimer
  <2>. QED BY <1>3, <2>2, <2>3
<1>. QED BY <1>4, <1>5, <1>6, <1>7, <1>8, <1>9, <1>10 DEF IInv, Safe
-----------------------------------------------------------------------------
LEMMA NextIInv == IInv /\ [Next]_vars => IInv'
<1> SUFFICES ASSUME IInv, [Next]_vars PROVE IInv'
  OBVIOUS
<1>1. ASSUME NEW c \in Call, AgentAuthorizes(c) \/ AgentSettles(c) \/ Lapse(c)
      PROVE  IInv'
  BY <1>1, LedgerSteps DEF AgentAuthorizes, AgentSettles, Lapse, Answered
<1>2. ASSUME NEW r \in Req, Present(r) \/ ToolStep(r) \/ Crash(r)
      PROVE  IInv'
  BY <1>2, LocalSteps, ClaimSteps, ReleaseStep, SettleSteps DEF ToolStep
<1>3. ASSUME NEW m \in net, Deliver(m)
      PROVE  IInv'
  BY <1>3, LedgerSteps DEF Deliver
<1>4. CASE UNCHANGED vars
  BY <1>4 DEF vars, ledger, IInv, TypeOK, IssuerTypeOK, Safe, WellAddressed, ClaimedOnce, GrantedToClaimer,
      RunsLast, ReleasesOnlyUnrun, RunsCommitted, UnknownIsAnError, SettledWhenChecked, Settled,
      SettledBeforeAnswered, RefusedIsReleased, Heard, Claimer, Pending
<1>. QED BY <1>1, <1>2, <1>3, <1>4 DEF Next

LEMMA Invariance == Spec => []IInv
<1>. QED BY InitIInv, NextIInv, PTL DEF Spec

\* Every reachable state is of the stated types, whatever is lost or late.
THEOREM ToolTypeCorrect == Spec => []TypeOK
<1>1. IInv => TypeOK
  BY DEF IInv
<1>. QED BY <1>1, Invariance, PTL

\* One authorization runs one handler: those that ran are its one claimer.
THEOREM HandlerRunsOnce == Spec => []RunsOnce
<1>1. IInv => RunsOnce
  BY DEF IInv, TypeOK, Safe, GrantedToClaimer, Claimer, RunsOnce
<1>. QED BY <1>1, Invariance, PTL

\* No message of anybody gives back what a handler spent.
THEOREM HandlerStaysCommitted == Spec => []RunStaysCommitted
<1>1. IInv => RunStaysCommitted
  BY DEF IInv, TypeOK, Safe, GrantedToClaimer, RunsCommitted, Spending, RunStaysCommitted
<1>. QED BY <1>1, Invariance, PTL

\* No answer of a handler leaves before its hold was settled as executed, or the
\* settlement sent and not yet processed, or nobody could sign it; of a request
\* that states an amount.
THEOREM AnswerIsSettled == Spec => []SettledBeforeAnswered
<1>1. IInv => SettledBeforeAnswered
  BY DEF IInv, Safe
<1>. QED BY <1>1, Invariance, PTL

\* A refusal, but one of the capability, gives the claim back, unless a message
\* of the request to the gate is still outstanding or could not be signed.
THEOREM RefusalGivesBack == Spec => []RefusedIsReleased
<1>1. IInv => RefusedIsReleased
  BY DEF IInv, Safe
<1>. QED BY <1>1, Invariance, PTL

\* Of a handler whose capability nobody checks, every refusal gives the claim
\* back: the promise the capability check alone breaks.
THEOREM OtherRefusalsRelease == ~Capabilities /\ Spec => []RefusalReleases
<1> DEFINE NeverIncapable == \A r \in Req : answer[r] # "incapable"
<1>1. Init => NeverIncapable
  BY DEF Init
<1>2. IInv /\ ~Capabilities /\ NeverIncapable /\ [Next]_vars => NeverIncapable'
  <2>. SUFFICES ASSUME IInv, ~Capabilities, NeverIncapable, [Next]_vars PROVE NeverIncapable'
    OBVIOUS
  <2>1. ASSUME NEW r \in Req, Present(r) \/ ToolStep(r) \/ Crash(r)
        PROVE  NeverIncapable'
    BY <2>1 DEF IInv, TypeOK, Present, ToolStep, Crash, Refuse, Verified, ClaimGranted, ClaimRefused,
        ClaimLost, GrantMismatch, CapabilityRefused, CapabilityPasses, CheckRefuses, Release, Run, Returns,
        Throws, Capture, CheckAnswer, MarkUnknown, TaskRuns, TaskCapture, Told
  <2>. QED BY <2>1 DEF Next, AgentAuthorizes, AgentSettles, Lapse, Deliver, vars
<1>3. IInv /\ NeverIncapable => RefusalReleases
  BY DEF IInv, Safe, RefusedIsReleased, RefusalReleases
<1>4. CASE Capabilities
  BY <1>4
<1>5. CASE ~Capabilities
  <2>1. IInv /\ NeverIncapable /\ [Next]_vars => NeverIncapable'
    BY <1>2, <1>5
  <2>. HIDE DEF NeverIncapable
  <2>. QED BY <1>1, <1>3, <2>1, Invariance, PTL DEF Spec
<1>. QED BY <1>4, <1>5

(***************************************************************************)
(* The refinement.                                                         *)
(***************************************************************************)
\* What a hold says of the money, and the calls some handler was started for.
MoneyOf(h) ==
    IF h = "none" THEN "free"
    ELSE IF h = "held" THEN "reserved"
    ELSE IF h \in Spending THEN "committed" ELSE "returned"

Money == [c \in Call |-> MoneyOf(hold[c])]
Handled == {CallOf[r] : r \in ran}

Promise == INSTANCE SingleUse WITH money <- Money, spent <- Handled

\* One message, whoever sent it, moves the money as SingleUse allows.
LEMMA ProcessKeepsPromise ==
    ASSUME IInv, IInv', NEW m \in Message, Process(m), UNCHANGED ran
    PROVE  [Promise!Next]_<<Money, Handled>>
<1>1. m.call \in Call /\ hold \in [Call -> HoldStatus] /\ hold' \in [Call -> HoldStatus]
  BY DEF Message, IInv, TypeOK, IssuerTypeOK
<1>2. UNCHANGED Handled
  BY DEF Handled
<1>3. \A c \in Handled : hold'[c] \in Spending
  BY DEF IInv, TypeOK, Safe, GrantedToClaimer, RunsCommitted, Claimer, Handled
<1>4. \A status : Becomes(m, status) => Money' = [Money EXCEPT ![m.call] = MoneyOf(status)]
  BY <1>1 DEF Becomes, Money
<1>5. Money[m.call] = MoneyOf(hold[m.call])
  BY <1>1 DEF Money
<1>6. CASE MayMint(m) /\ Becomes(m, "held")
  <2>1. Promise!InUse = CommittedSpend
    BY <1>1, ValuedAssumption
       DEF Promise!InUse, CommittedSpend, Committed, Money, MoneyOf, Spending, HoldStatus
  <2>2. Promise!Cardinality(CommittedSpend) = Cardinality(CommittedSpend)
    BY DEF Promise!Cardinality, Cardinality
  <2>3. Promise!Reserve(m.call)
    BY <1>2, <1>4, <1>5, <1>6, <2>1, <2>2
       DEF Promise!Reserve, MayMint, CanMint, MoneyOf, Spending
  <2>. QED BY <1>1, <2>3 DEF Promise!Next
<1>7. CASE MayClaim(m) /\ Becomes(m, "claimed")
  <2>1. Promise!Commit(m.call)
    BY <1>2, <1>4, <1>5, <1>7 DEF Promise!Commit, MayClaim, MoneyOf, Spending
  <2>. QED BY <1>1, <2>1 DEF Promise!Next
<1>8. CASE MayCapture(m) /\ Becomes(m, "captured")
  <2>1. CASE hold[m.call] = "held"
    <3>1. Promise!Commit(m.call)
      BY <1>2, <1>4, <1>5, <1>8, <2>1 DEF Promise!Commit, MoneyOf, Spending
    <3>. QED BY <1>1, <3>1 DEF Promise!Next
  <2>2. CASE hold[m.call] = "claimed"
    <3>1. UNCHANGED Money
      BY <1>1, <1>8, <2>2 DEF Becomes, Money, MoneyOf, Spending
    <3>. QED BY <1>2, <3>1
  <2>. QED BY <1>8, <2>1, <2>2 DEF MayCapture
<1>9. CASE MayVoid(m) /\ Becomes(m, "voided")
  <2>1. m.call \notin Handled
    BY <1>1, <1>3, <1>9 DEF Becomes, Spending
  <2>2. Promise!Return(m.call)
    BY <1>2, <1>4, <1>5, <1>9, <2>1 DEF Promise!Return, MayVoid, MoneyOf, Spending
  <2>. QED BY <1>1, <2>2 DEF Promise!Next
<1>10. CASE MayMarkUnknown(m) /\ Becomes(m, "unknown")
  <2>1. Money[m.call] = "committed" /\ Money' = [Money EXCEPT ![m.call] = "committed"]
    BY <1>4, <1>5, <1>10 DEF MayMarkUnknown, MoneyOf, Spending
  <2>2. UNCHANGED Money
    BY <2>1 DEF Money
  <2>. QED BY <1>2, <2>2
<1>11. CASE UNCHANGED ledger
  BY <1>2, <1>11 DEF ledger, Money
<1>. QED BY <1>6, <1>7, <1>8, <1>9, <1>10, <1>11 DEF Process

LEMMA ExpireKeepsPromise ==
    ASSUME IInv, NEW c \in Call, Expire(c), UNCHANGED ran
    PROVE  [Promise!Next]_<<Money, Handled>>
<1>1. hold \in [Call -> HoldStatus] /\ UNCHANGED Handled
  BY DEF IInv, TypeOK, IssuerTypeOK, Handled
<1>2. c \notin Handled
  BY DEF IInv, TypeOK, Safe, GrantedToClaimer, RunsCommitted, Claimer, Handled, Expire, Spending
<1>3. Promise!Return(c)
  BY <1>1, <1>2 DEF Promise!Return, Expire, Money, MoneyOf, Spending
<1>. QED BY <1>3 DEF Promise!Next

\* A handler starts on committed money that no other handler was started on.
LEMMA RunKeepsPromise ==
    ASSUME IInv, NEW r \in Req, Run(r) \/ TaskRuns(r)
    PROVE  [Promise!Next]_<<Money, Handled>>
<1>1. UNCHANGED Money /\ ran' = ran \cup {r} /\ at[r] \in {"granted", "permitted"}
  BY DEF Run, TaskRuns, Step, Money, ledger
<1>2. hold[CallOf[r]] \in Spending /\ Claimer(r) /\ CallOf[r] \in Call
  BY <1>1, CallOfAssumption
     DEF IInv, Safe, GrantedToClaimer, RunsCommitted, AfterGrant, BeforeRun
<1>3. CallOf[r] \notin Handled
  BY <1>1, <1>2
     DEF IInv, TypeOK, Safe, GrantedToClaimer, RunsLast, Claimer, Handled, BeforeRun
<1>4. Handled' = Handled \cup {CallOf[r]}
  BY <1>1 DEF Handled
<1>5. Promise!Execute(CallOf[r])
  BY <1>1, <1>2, <1>3, <1>4 DEF Promise!Execute, Money, MoneyOf, Spending
<1>. QED BY <1>2, <1>5 DEF Promise!Next

LEMMA NextKeepsPromise ==
    IInv /\ IInv' /\ [Next]_vars => [Promise!Next]_<<Money, Handled>>
<1>. SUFFICES ASSUME IInv, IInv', [Next]_vars
              PROVE  [Promise!Next]_<<Money, Handled>>
  OBVIOUS
<1>1. CASE UNCHANGED <<ledger, ran>>
  BY <1>1 DEF ledger, Money, Handled
<1>2. ASSUME NEW c \in Call, AgentAuthorizes(c) \/ AgentSettles(c) \/ Lapse(c)
      PROVE  [Promise!Next]_<<Money, Handled>>
  BY <1>2, MessageType, ProcessKeepsPromise, ExpireKeepsPromise
     DEF AgentAuthorizes, AgentSettles, Lapse, Answered
<1>3. ASSUME NEW r \in Req, NEW op \in {"claim", "capture", "void", "unknown"}, UNCHANGED ran,
             Answered(ServiceMsg(op, r)) \/ Lost(ServiceMsg(op, r)) \/ UNCHANGED ledger
      PROVE  [Promise!Next]_<<Money, Handled>>
  BY <1>1, <1>3, MessageType, ProcessKeepsPromise DEF Answered, Lost
<1>4. ASSUME NEW r \in Req, Present(r) \/ ToolStep(r) \/ Crash(r)
      PROVE  [Promise!Next]_<<Money, Handled>>
  <2>1. CASE Run(r) \/ TaskRuns(r)
    BY <2>1, RunKeepsPromise
  <2>2. CASE \/ ClaimGranted(r) \/ ClaimLost(r) \/ Release(r)
             \/ Capture(r) \/ TaskCapture(r) \/ MarkUnknown(r)
    BY <1>3, <2>2 DEF ClaimGranted, ClaimLost, Release, Capture, TaskCapture, MarkUnknown,
        Captures, Settles
  <2>. QED BY <1>1, <1>4, <2>1, <2>2
       DEF ToolStep, Present, Crash, Refuse, Verified, ClaimRefused, GrantMismatch,
           CapabilityRefused, CapabilityPasses, CheckRefuses, Returns, Throws, CheckAnswer
<1>5. ASSUME NEW m \in net, Deliver(m)
      PROVE  [Promise!Next]_<<Money, Handled>>
  BY <1>5, ProcessKeepsPromise DEF Deliver, IInv, TypeOK
<1>. QED BY <1>1, <1>2, <1>4, <1>5 DEF Next, vars

\* Handlers of tools and tasks, agents and gate implement SingleUse, the spec
\* that guardTool and the gateway implement: money is reserved under the cap, a
\* handler starts at most once and on committed money, and what it spent is
\* never handed back, for any cap and any number of presentations.
THEOREM HandlersKeepPromise == Spec => Promise!Spec
<1>1. Init => Promise!Init
  BY DEF Init, IssuerInit, Promise!Init, Money, MoneyOf, Handled
<1>2. IInv /\ IInv' /\ [Next]_vars => [Promise!Next]_<<Money, Handled>>
  BY NextKeepsPromise
<1>. QED BY <1>1, <1>2, Invariance, PTL DEF Spec, Promise!Spec

\* What SingleUse promises any implementation of it: the money in use stays
\* under the cap.
LEMMA PromiseUnderCap == Promise!Spec => [](Cardinality(Promise!InUse) <= Cap)
<1> DEFINE Use == Promise!InUse
           UnderCap == Cardinality(Use) <= Cap
<1>1. IsFiniteSet(Valued)
  BY FiniteAssumption, ValuedAssumption, FS_Subset
<1>2. Use \subseteq Valued /\ Use' \subseteq Valued
  BY DEF Promise!InUse
<1>3. /\ IsFiniteSet(Use) /\ Cardinality(Use) \in Nat
      /\ IsFiniteSet(Use') /\ Cardinality(Use') \in Nat
  BY <1>1, <1>2, FS_Subset, FS_CardinalityType
<1>4. Promise!Init => UnderCap
  <2>. SUFFICES ASSUME Promise!Init PROVE UnderCap
    OBVIOUS
  <2>1. Use = {}
    BY ValuedAssumption DEF Promise!Init, Promise!InUse
  <2>. QED BY <2>1, FS_EmptySet, CapAssumption
<1>5. UnderCap /\ [Promise!Next]_<<Money, Handled>> => UnderCap'
  <2>. SUFFICES ASSUME UnderCap, [Promise!Next]_<<Money, Handled>> PROVE UnderCap'
    OBVIOUS
  <2>1. ASSUME Use' \subseteq Use PROVE UnderCap'
    BY <1>3, <2>1, FS_Subset, CapAssumption
  <2>2. ASSUME NEW c \in Call, Promise!Reserve(c), c \in Valued PROVE UnderCap'
    <3>1. Use' = Use \cup {c} /\ c \notin Use
      BY <2>2, ValuedAssumption DEF Promise!Reserve, Promise!InUse, Money
    <3>2. Cardinality(Use) < Cap
      BY <2>2 DEF Promise!Reserve, Promise!Cardinality, Cardinality
    <3>3. Cardinality(Use') = Cardinality(Use) + 1
      BY <1>3, <3>1, FS_AddElement
    <3>. QED BY <1>3, <3>2, <3>3, CapAssumption
  <2>3. ASSUME NEW c \in Call,
               \/ Promise!Reserve(c) /\ c \notin Valued
               \/ Promise!Commit(c) \/ Promise!Execute(c) \/ Promise!Return(c)
        PROVE  Use' \subseteq Use
    BY <2>3, ValuedAssumption
       DEF Promise!Reserve, Promise!Commit, Promise!Execute, Promise!Return, Promise!InUse, Money
  <2>4. CASE UNCHANGED <<Money, Handled>>
    BY <2>1, <2>4 DEF Promise!InUse
  <2>. QED BY <2>1, <2>2, <2>3, <2>4 DEF Promise!Next
<1>. HIDE DEF UnderCap
<1>6. Promise!Spec => []UnderCap
  BY <1>4, <1>5, PTL DEF Promise!Spec
<1>. QED BY <1>6 DEF UnderCap

\* The value-bearing calls that handlers of tools and tasks were started for
\* never exceed the mandate's cap, whatever is lost, late or presented again.
HandledWithinCap == Cardinality(Handled \cap Valued) <= Cap
THEOREM HandlersSpendUnderCap == Spec => []HandledWithinCap
<1>1. IInv /\ Cardinality(Promise!InUse) <= Cap => HandledWithinCap
  <2>. SUFFICES ASSUME IInv, Cardinality(Promise!InUse) <= Cap PROVE HandledWithinCap
    OBVIOUS
  <2>1. Handled \cap Valued \subseteq Promise!InUse
    BY ValuedAssumption
       DEF IInv, TypeOK, Safe, GrantedToClaimer, RunsCommitted, Claimer, Handled, Promise!InUse,
           Money, MoneyOf, Spending
  <2>2. IsFiniteSet(Promise!InUse)
    BY FiniteAssumption, ValuedAssumption, FS_Subset DEF Promise!InUse
  <2>3. /\ Cardinality(Handled \cap Valued) <= Cardinality(Promise!InUse)
        /\ Cardinality(Handled \cap Valued) \in Nat /\ Cardinality(Promise!InUse) \in Nat
    BY <2>1, <2>2, FS_Subset, FS_CardinalityType
  <2>. QED BY <2>3, CapAssumption DEF HandledWithinCap
<1>. QED BY <1>1, Invariance, HandlersKeepPromise, PromiseUnderCap, PTL
=============================================================================
