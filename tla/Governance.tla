----------------------------- MODULE Governance -----------------------------
(***************************************************************************)
(* What an agent, and the service it calls, decide about a request from    *)
(* the bundle of the agent: its mandate, the last of a chain of delegated  *)
(* ones, the standards and SOPs it is bound to, its operating mode and     *)
(* whether it is contained (evaluateLocally of agentsafe-guard.mjs, and    *)
(* verifyRequest of agentsafe-mcp-guard.mjs and agentsafe-a2a-guard.mjs).  *)
(*                                                                         *)
(* A request is [target, now, values, itinerary]: the operands it signs,   *)
(* with the defaults of the code filled in, and the fields of its unsigned *)
(* context.  A service has [derived, arguments, keyed]: what it derives    *)
(* from the call itself, the paths of the arguments it was handed (NoValue *)
(* when it was handed none that can be walked), and whether it has a key   *)
(* to hash them with.                                                      *)
(***************************************************************************)
EXTENDS Rules

CONSTANTS
    Bundle,     \* what the issuer may publish beside the mandate
    Regulated,  \* the principals' mandates for which it does
    SignedRequest, \* [target, now, values, itinerary]
    Claim,      \* risk levels an agent may claim, and words that are none
    Service     \* what a service has to judge a call by, beside the request

VARIABLE bundle \* [standards, sops, granted, mode, contained]

gvars == <<chain, bundle>>

OperatingMode == {"autonomous", "supervised", "restricted", "read_only"}
Unregulated ==
    [standards |-> {}, sops |-> {}, granted |-> Action, mode |-> "autonomous", contained |-> "no"]

\* What validateMolecules lets a document hold: atoms read fields, and
\* risk-at-or-above reads the risk.
MoleculeOK(m) ==
    /\ m.decision \in {"observe", "escalate", "block", "suspend", "quarantine"}
    /\ \A a \in m.atoms :
        a.field \in Field /\ (a.predicate = "risk-at-or-above" => a.field = "riskLevel")
BundleOK(b) ==
    /\ \A document \in b.standards \cup b.sops : \A m \in document : MoleculeOK(m)
    /\ b.mode \in OperatingMode
    /\ b.contained \in {"no", "suspended", "quarantined"}

ASSUME BundleAssumption == \A b \in Bundle : BundleOK(b)
ASSUME SignedAssumption ==
    /\ SignedRequest \subseteq Request
    /\ \A req \in SignedRequest :
        /\ req.values[Amount] \in Int
        /\ req.values[Currency] # NoValue /\ req.values[Merchant] # NoValue

GInit == Init /\ bundle = Unregulated

\* An agent delegates ...
Hand(child) == Delegate(child) /\ UNCHANGED bundle

\* ... and the issuer changes what binds the agents of a chain.
Publish(b) ==
    /\ chain[1] \in Regulated
    /\ bundle' = b
    /\ UNCHANGED chain

GNext == (\E child \in Mandate : Hand(child)) \/ (\E b \in Bundle : Publish(b))

GSpec == GInit /\ [][GNext]_gvars
-----------------------------------------------------------------------------
(***************************************************************************)
(* The verdict.                                                            *)
(***************************************************************************)
AmountOf(req) == req.values[Amount]

\* withoutUnsignedJurisdiction: the agent's unsigned word is dropped.
Unsigned(req) == [f \in Field |-> IF f = "jurisdiction" THEN NoValue ELSE req.itinerary[f]]

\* The fields of the context that the signature covers.
Signed(req) ==
    [f \in Field |->
        CASE f = "amount" -> req.values[Amount]
          [] f = "currency" -> req.values[Currency]
          [] f = "merchant" -> req.values[Merchant]
          [] f = "jurisdiction" -> req.values[Jurisdiction]
          [] OTHER -> NoValue]

Nothing == [f \in Field |-> NoValue]

Containment(b) == IF b.contained = "quarantined" THEN "quarantine" ELSE "suspend"

HardStop(decision) == decision \in {"block", "suspend", "quarantine"}

EnforcesJurisdiction(b) == \E d \in b.standards \cup b.sops : DocumentEnforcesJurisdiction(d)

\* Mutant: the operating mode sees the risk that the agent claims.
EvaluateLocallyAsClaimed(b, mandate, req) ==
    LET gate == OperatingModeGate(b.mode, AmountOf(req), RiskLevel(req.itinerary["riskLevel"]))
        floor == EffectiveRiskFloor(mandate, req.target, AmountOf(req))
        verdict == Evaluate(b.standards, b.sops, mandate, req,
                            BuildRuleContext(Unsigned(req), Signed(req), Nothing, floor))
    IN IF b.contained # "no" THEN Containment(b)
       ELSE IF gate = "block" THEN "block"
       ELSE IF /\ req.values[Jurisdiction] = NoValue
               /\ ~HardStop(verdict) /\ EnforcesJurisdiction(b)
       THEN "block"
       ELSE IF Permits(verdict) /\ gate = "escalate" THEN "escalate"
       ELSE verdict

\* Mutant: the operating mode's escalate replaces the verdict.
EvaluateLocallyModeLast(b, mandate, req) ==
    LET floor == EffectiveRiskFloor(mandate, req.target, AmountOf(req))
        risk == Higher(floor, RiskLevel(req.itinerary["riskLevel"]))
        gate == OperatingModeGate(b.mode, AmountOf(req), risk)
        verdict == Evaluate(b.standards, b.sops, mandate, req,
                            BuildRuleContext(Unsigned(req), Signed(req), Nothing, floor))
    IN IF b.contained # "no" THEN Containment(b)
       ELSE IF gate # "allow" THEN gate
       ELSE verdict

\* evaluateLocally: the mode's block comes before the rules, its escalate
\* only lifts a verdict that permits.
EvaluateLocally(b, mandate, req) ==
    LET floor == EffectiveRiskFloor(mandate, req.target, AmountOf(req))
        risk == Higher(floor, RiskLevel(req.itinerary["riskLevel"]))
        gate == OperatingModeGate(b.mode, AmountOf(req), risk)
        verdict == Evaluate(b.standards, b.sops, mandate, req,
                            BuildRuleContext(Unsigned(req), Signed(req), Nothing, floor))
    IN IF b.contained # "no" THEN Containment(b)
       ELSE IF gate = "block" THEN "block"
       ELSE IF /\ req.values[Jurisdiction] = NoValue
               /\ ~HardStop(verdict) /\ EnforcesJurisdiction(b)
       THEN "block"
       ELSE IF Permits(verdict) /\ gate = "escalate" THEN "escalate"
       ELSE verdict

\* authorizeLocalOn: an action that no mandate of the bundle is for.
LocalVerdict(b, mandate, req) ==
    IF req.target \in b.granted THEN EvaluateLocally(b, mandate, req)
    ELSE IF b.contained # "no" THEN Containment(b)
    ELSE "block"

\* verdictFromBundle, of either service: a jurisdiction it derived is as good
\* as a signed one.
VerdictFromBundle(b, mandate, req, derived) ==
    LET floor == EffectiveRiskFloor(mandate, req.target, AmountOf(req))
        verdict == Evaluate(b.standards, b.sops, mandate, req,
                            BuildRuleContext(Unsigned(req), Signed(req), derived, floor))
        jurisdiction == {req.values[Jurisdiction], derived["jurisdiction"]} \ {NoValue}
    IN IF req.target \notin b.granted THEN "block"
       ELSE IF jurisdiction = {} /\ ~HardStop(verdict) /\ EnforcesJurisdiction(b) THEN "block"
       ELSE verdict

\* verifyRequest up to `final`, once the request is known to be the agent's and
\* fresh, and the bundle to be the issuer's for an agent of the right owner.
FinalVerdict(b, mandate, req, derived) ==
    LET floor == IF req.target \in b.granted
                 THEN EffectiveRiskFloor(mandate, req.target, AmountOf(req)) ELSE 0
        risk == Higher(Higher(floor, RiskLevel(derived["riskLevel"])),
                       RiskLevel(req.itinerary["riskLevel"]))
        gate == OperatingModeGate(b.mode, AmountOf(req), risk)
        verdict == VerdictFromBundle(b, mandate, req, derived)
    IN IF b.contained # "no" THEN Containment(b)
       ELSE IF gate = "block" THEN "block"
       ELSE IF Permits(verdict) /\ gate = "escalate" THEN "escalate"
       ELSE verdict

\* What the argument policies of the mandate make of the arguments: nobody can
\* check what was not handed over, or hash without a key.
ArgumentsPass(mandate, action, service) ==
    LET policies == ArgumentPolicies(mandate, action)
    IN policies # {} =>
        /\ service.arguments # NoValue
        /\ CheckArguments(policies, service.arguments)
        /\ service.keyed \/ ~NeedsKey(policies, service.arguments)

MayStillRun(decision) == decision \in {"allow", "observe", "escalate"}

\* verifyRequest: the argument policy is judged last, where the call may run.
ServiceVerdict(b, mandate, req, service) ==
    LET final == FinalVerdict(b, mandate, req, service.derived)
    IN IF MayStillRun(final) /\ ~ArgumentsPass(mandate, req.target, service) THEN "block"
       ELSE final
-----------------------------------------------------------------------------
(***************************************************************************)
(* Properties.                                                             *)
(***************************************************************************)
Worker == chain[Len(chain)]
Verdict(req) == LocalVerdict(bundle, Worker, req)

Packs(b) == b.standards \cup b.sops
Molecules(b) == UNION Packs(b)

RuleContext(mandate, req) ==
    BuildRuleContext(Unsigned(req), Signed(req), Nothing,
                     EffectiveRiskFloor(mandate, req.target, AmountOf(req)))

Quiet(m, ctx) ==
    /\ MoleculeFires(m, ctx) => m.decision = "observe"
    /\ MoleculeUnverifiable(m, ctx) = {}

\* A request is executed only if every layer by itself lets it pass, whatever
\* the others say: containment, the grant, the operating mode at the risk the
\* owner and the agent state, the mandate, each molecule of each standard and
\* SOP, and the signed jurisdiction where any of them asks for one.  And
\* nothing else in the agent's own evaluation refuses it.
OnlyIfEveryLayerPermits ==
    \A req \in SignedRequest :
        LET ctx == RuleContext(Worker, req)
        IN Permits(Verdict(req)) <=>
            /\ bundle.contained = "no"
            /\ req.target \in bundle.granted
            /\ OperatingModeGate(bundle.mode, AmountOf(req), RiskLevel(ctx["riskLevel"].value)) = "allow"
            /\ Permits(EvaluateMandate(Worker, req).decision)
            /\ \A m \in Molecules(bundle) : Quiet(m, ctx)
            /\ EnforcesJurisdiction(bundle) => req.values[Jurisdiction] # NoValue

\* MODE_RANK
Autonomy(mode) ==
    CASE mode = "read_only" -> 0 [] mode = "restricted" -> 1 [] mode = "supervised" -> 2
      [] mode = "autonomous" -> 3

Tightens(b, c) ==
    /\ b.standards \subseteq c.standards /\ b.sops \subseteq c.sops
    /\ c.granted \subseteq b.granted
    /\ Autonomy(c.mode) <= Autonomy(b.mode)
    /\ b.contained = "no" \/ c.contained = b.contained

Refuses(decision) == Precedence[decision] >= Precedence["block"]

\* An issuer that binds one more document, withdraws a grant, lowers the mode
\* or contains the agent never softens the verdict on any request: no allow
\* where there was a flag, no escalate where there was a refusal.  (Which
\* refusal it is may change: a contained agent is not told what a rule says.)
TighteningNeverLoosens ==
    [][chain' = chain /\ Tightens(bundle, bundle') =>
        \A req \in SignedRequest :
            LET before == LocalVerdict(bundle, Worker, req)
                after == LocalVerdict(bundle', Worker, req)
            IN Precedence[before] <= Precedence[after] \/ Refuses(after)]_gvars

\* "so this local pre-check agrees with the gate": a service that derives
\* nothing of its own decides as the agent does, but that it blocks what might
\* still run where the owner's argument policy, of which the agent's evaluation
\* knows nothing, does not let the arguments pass.
SidesAgree ==
    \A req \in SignedRequest, service \in Service :
        service.derived = Nothing =>
            ServiceVerdict(bundle, Worker, req, service) =
                IF ArgumentsPass(Worker, req.target, service) \/ Refuses(Verdict(req))
                THEN Verdict(req) ELSE "block"

Claiming(req, level) ==
    [target |-> req.target, now |-> req.now, values |-> req.values,
     itinerary |-> [f \in Field |-> IF f = "riskLevel" THEN level ELSE req.itinerary[f]]]

\* Risk is not talked down: what an agent claims at or below the level that
\* the owner's tier, the share of the cap or the service states changes
\* nothing, not even by being absent or malformed; where none of them states
\* any, a rule about risk lets nothing pass that claims none.
RiskIsNotTalkedDown ==
    \A req \in SignedRequest, service \in Service :
        LET floor == EffectiveRiskFloor(Worker, req.target, AmountOf(req))
            trusted == Higher(floor, RiskLevel(service.derived["riskLevel"]))
            Says(level) == ServiceVerdict(bundle, Worker, Claiming(req, level), service)
            silent == Says(NoValue)
        IN /\ trusted > 0 =>
                \A c \in Claim : RiskLevel(c) <= trusted => Says(c) = silent
           /\ trusted = 0 /\ (\E m \in Molecules(bundle) : AsksForRisk(m)) =>
                \A c \in Claim : RiskLevel(c) = 0 => ~Permits(Says(c))

\* The floor at the end of a chain is no lower, and stated only if it was
\* above; delegationVerdict does not see to it where an action is granted
\* twice, where a child states the first tier or sets riskSignals.
FloorKeptFrom(i, req) ==
    LET floor(m) == EffectiveRiskFloor(m, req.target, AmountOf(req))
    IN floor(chain[i]) <= floor(Worker) /\ (floor(chain[i]) = 0 => floor(Worker) = 0)

\* A rule about risk fires no less when the risk is higher.
MindsRisk(m) == \A a \in m.atoms :
    a.field = "riskLevel" => a.predicate = "risk-at-or-above" /\ m.combinator # "none"

\* A worker bound by the same rules as its principal may do nothing that the
\* principal may not, if every hop kept units, prohibitions and the floor, and
\* no rule fires because the risk is low.
DelegatedAllowsNoMore ==
    \A i \in DOMAIN chain, req \in SignedRequest :
        /\ KeptFrom(i) /\ FloorKeptFrom(i, req)
        /\ \A m \in Molecules(bundle) : MindsRisk(m)
        /\ Verdict(req) = "allow"
        => LocalVerdict(bundle, chain[i], req) = "allow"
=============================================================================
