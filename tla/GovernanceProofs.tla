-------------------------- MODULE GovernanceProofs --------------------------
(***************************************************************************)
(* Proofs about Governance, for any mandates, documents, requests and      *)
(* bundles.  No property needs an induction of its own: each is about one  *)
(* state, or two bundles, once the chain consists of mandates and the      *)
(* bundle is one the issuer publishes.                                     *)
(***************************************************************************)
EXTENDS Governance, DelegationProofs

\* What the issuer serves.
Bound == bundle \in Bundle \cup {Unregulated}

\* A chain under rules is a chain.
LEMMA GovernedIsChain == GSpec => Spec
<1>1. GInit => Init
    BY DEF GInit
<1>2. [GNext]_gvars => [Next]_chain
    BY DEF GNext, Hand, Publish, Next, gvars
<1> QED BY <1>1, <1>2, PTL DEF GSpec, Spec

LEMMA AlwaysBound == GSpec => []Bound
<1>1. GInit => Bound
    BY DEF GInit, Bound
<1>2. Bound /\ [GNext]_gvars => Bound'
    BY DEF Bound, GNext, Hand, Publish, gvars
<1> QED BY <1>1, <1>2, PTL DEF GSpec

LEMMA BoundIsOK ==
    ASSUME NEW b \in Bundle \cup {Unregulated}
    PROVE  BundleOK(b)
BY BundleAssumption DEF Unregulated, BundleOK, OperatingMode

LEMMA WorkerIsMandate ==
    ASSUME TypeOK
    PROVE  Len(chain) \in DOMAIN chain /\ Worker \in Mandate
BY DEF TypeOK, Worker
-----------------------------------------------------------------------------
(***************************************************************************)
(* The most restrictive of some decisions.                                 *)
(***************************************************************************)
LEMMA PrecedenceIs ==
    /\ Precedence["allow"] = 0 /\ Precedence["observe"] = 1 /\ Precedence["escalate"] = 2
    /\ Precedence["block"] = 3 /\ Precedence["suspend"] = 4 /\ Precedence["quarantine"] = 5
    /\ Precedence["decommission"] = 6
BY DEF Precedence, Decision

LEMMA PrecedenceIsNat == \A d \in Decision : Precedence[d] \in 0..6
BY PrecedenceIs DEF Decision

LEMMA PermitsIsLow == \A d \in Decision : Permits(d) <=> Precedence[d] <= 1
BY PrecedenceIs DEF Decision, Permits

LEMMA MostRestrictiveIs ==
    ASSUME NEW S \in SUBSET Decision
    PROVE  /\ MostRestrictive(S) \in S \cup {"allow"}
           /\ MostRestrictive(S) \in Decision
           /\ \A e \in S : Precedence[e] <= Precedence[MostRestrictive(S)]
<1> DEFINE P(d) == \A e \in S : Precedence[e] <= Precedence[d]
<1>1. \E d \in S \cup {"allow"} : P(d)
    <2>1. CASE "decommission" \in S
        BY <2>1, PrecedenceIs, PrecedenceIsNat
    <2>2. CASE "decommission" \notin S /\ "quarantine" \in S
        BY <2>2, PrecedenceIs DEF Decision
    <2>3. CASE S \subseteq {"allow", "observe", "escalate", "block", "suspend"} /\ "suspend" \in S
        BY <2>3, PrecedenceIs
    <2>4. CASE S \subseteq {"allow", "observe", "escalate", "block"} /\ "block" \in S
        BY <2>4, PrecedenceIs
    <2>5. CASE S \subseteq {"allow", "observe", "escalate"} /\ "escalate" \in S
        BY <2>5, PrecedenceIs
    <2>6. CASE S \subseteq {"allow", "observe"} /\ "observe" \in S
        BY <2>6, PrecedenceIs
    <2>7. CASE S \subseteq {"allow"}
        BY <2>7, PrecedenceIs
    <2> QED BY <2>1, <2>2, <2>3, <2>4, <2>5, <2>6, <2>7 DEF Decision
<1>2. MostRestrictive(S) \in S \cup {"allow"} /\ P(MostRestrictive(S))
    BY <1>1 DEF MostRestrictive
<1> QED BY <1>2 DEF Decision

LEMMA PermitsAll ==
    ASSUME NEW S \in SUBSET Decision
    PROVE  Permits(MostRestrictive(S)) <=> \A e \in S : Permits(e)
BY MostRestrictiveIs, PermitsIsLow, PrecedenceIsNat DEF Permits, Decision

LEMMA AllowsAll ==
    ASSUME NEW S \in SUBSET Decision
    PROVE  MostRestrictive(S) = "allow" <=> S \subseteq {"allow"}
<1>1. ASSUME MostRestrictive(S) = "allow", NEW e \in S PROVE e = "allow"
    BY <1>1, MostRestrictiveIs, PrecedenceIs DEF Decision
<1>2. ASSUME S \subseteq {"allow"} PROVE MostRestrictive(S) = "allow"
    BY <1>2, MostRestrictiveIs
<1> QED BY <1>1, <1>2

\* One set is answered in the other by something no weaker.
LEMMA Dominated ==
    ASSUME NEW S \in SUBSET Decision, NEW T \in SUBSET Decision,
           \A d \in S : \E e \in T : Precedence[d] <= Precedence[e]
    PROVE  Precedence[MostRestrictive(S)] <= Precedence[MostRestrictive(T)]
<1>1. MostRestrictive(S) \in S \cup {"allow"} /\ MostRestrictive(T) \in Decision
    BY MostRestrictiveIs
<1>2. CASE MostRestrictive(S) \in S
    <2>1. PICK e \in T : Precedence[MostRestrictive(S)] <= Precedence[e]
        BY <1>2
    <2>2. Precedence[e] <= Precedence[MostRestrictive(T)]
        BY MostRestrictiveIs
    <2> QED BY <1>1, <1>2, <2>1, <2>2, PrecedenceIsNat
<1>3. CASE MostRestrictive(S) = "allow"
    BY <1>1, <1>3, PrecedenceIs, PrecedenceIsNat
<1> QED BY <1>1, <1>2, <1>3
-----------------------------------------------------------------------------
(***************************************************************************)
(* The layers decide with decisions.                                       *)
(***************************************************************************)
LEMMA MandateDecides ==
    ASSUME NEW m \in Mandate, NEW req
    PROVE  EvaluateMandate(m, req).decision \in Decision
<1> USE DEF EvaluateMandate
<1>0. MandateOK(m) /\ Refusal \subseteq Decision
    BY MandateAssumption DEF Refusal, Decision
<1>1. CASE OutsideWindow(m, req.now)
    BY <1>1 DEF Decision
<1>2. CASE ~OutsideWindow(m, req.now) /\ Firing(m, req) # {}
    <2>1. Firing(m, req) \in SUBSET Nat
        BY <1>0 DEF Firing, About, MandateOK
    <2>2. First(Firing(m, req)) \in DOMAIN m.prohibition
        BY <2>1, <1>2, FirstIsOneOfThem DEF Firing, About
    <2>3. m.prohibition[First(Firing(m, req))].enforcement \in Refusal
        BY <1>0, <2>2 DEF MandateOK
    <2> QED BY <1>0, <1>2, <2>3
<1>3. CASE /\ ~OutsideWindow(m, req.now) /\ Firing(m, req) = {}
           /\ PermissionsFor(m, req.target) # {} /\ Granting(m, req) = {}
    <2> DEFINE p == First(PermissionsFor(m, req.target))
               failing == {i \in DOMAIN m.permission[p].constraint :
                            ~ConstraintSatisfied(m.permission[p].constraint[i], req, TRUE)}
    <2>1. p \in PermissionsFor(m, req.target)
        BY <1>0, <1>3, FirstIsOneOfThem DEF PermissionsFor, About, MandateOK
    <2>2. p \in DOMAIN m.permission /\ RuleOK(m.permission[p])
        BY <1>0, <2>1 DEF PermissionsFor, About, MandateOK
    <2>3. failing # {}
        BY <1>3, <2>1 DEF Granting, AllSatisfied
    <2>4. failing \in SUBSET Nat
        BY <2>2 DEF RuleOK
    <2>5. First(failing) \in failing
        BY <2>3, <2>4, FirstIsOneOfThem
    <2>6. m.permission[p].constraint[First(failing)].onFail \in Refusal
        BY <2>2, <2>5 DEF RuleOK, ConstraintOK
    <2> QED BY <1>0, <1>3, <2>6 DEF FirstFailing
<1>4. CASE /\ ~OutsideWindow(m, req.now) /\ Firing(m, req) = {}
           /\ PermissionsFor(m, req.target) = {}
    BY <1>4 DEF Granting, Decision
<1>5. CASE /\ ~OutsideWindow(m, req.now) /\ Firing(m, req) = {}
           /\ PermissionsFor(m, req.target) # {} /\ Granting(m, req) # {}
    BY <1>5 DEF Granting, Decision
<1> QED BY <1>1, <1>2, <1>3, <1>4, <1>5

LEMMA MoleculeDecides ==
    ASSUME NEW m, MoleculeOK(m), NEW ctx
    PROVE  /\ JudgedBy(m, ctx) \in Decision
           /\ Permits(JudgedBy(m, ctx)) <=> Quiet(m, ctx)
           /\ JudgedBy(m, ctx) = "allow" <=>
                ~MoleculeFires(m, ctx) /\ MoleculeUnverifiable(m, ctx) = {}
<1> DEFINE fired == IF MoleculeFires(m, ctx) THEN {m.decision} ELSE {}
           unknown == IF MoleculeUnverifiable(m, ctx) # {} THEN {"escalate"} ELSE {}
<1>1. fired \cup unknown \in SUBSET Decision
    BY DEF MoleculeOK, Decision
<1>2. JudgedBy(m, ctx) = MostRestrictive(fired \cup unknown)
    BY DEF JudgedBy
<1>3. (\A e \in fired \cup unknown : Permits(e)) <=> Quiet(m, ctx)
    BY DEF MoleculeOK, Permits, Quiet
<1>4. fired \cup unknown \subseteq {"allow"} <=>
        ~MoleculeFires(m, ctx) /\ MoleculeUnverifiable(m, ctx) = {}
    BY DEF MoleculeOK
<1> HIDE DEF fired, unknown
<1> QED BY <1>1, <1>2, <1>3, <1>4, MostRestrictiveIs, PermitsAll, AllowsAll

LEMMA DocumentsDecide ==
    ASSUME NEW documents, \A d \in documents : \A m \in d : MoleculeOK(m), NEW ctx
    PROVE  /\ EvaluateBoundStandards(documents, ctx) \in Decision
           /\ Permits(EvaluateBoundStandards(documents, ctx)) <=>
                \A d \in documents : \A m \in d : Quiet(m, ctx)
           /\ EvaluateBoundStandards(documents, ctx) = "allow" <=>
                \A d \in documents : \A m \in d : JudgedBy(m, ctx) = "allow"
<1> DEFINE Judged(d) == {JudgedBy(m, ctx) : m \in d}
           All == {EvaluateStandardRules(d, ctx) : d \in documents}
<1>1. ASSUME NEW d \in documents
      PROVE  /\ EvaluateStandardRules(d, ctx) \in Decision
             /\ Permits(EvaluateStandardRules(d, ctx)) <=> \A m \in d : Quiet(m, ctx)
             /\ EvaluateStandardRules(d, ctx) = "allow" <=>
                    \A m \in d : JudgedBy(m, ctx) = "allow"
    <2>1. Judged(d) \in SUBSET Decision
        BY MoleculeDecides
    <2>2. EvaluateStandardRules(d, ctx) = MostRestrictive(Judged(d))
        BY DEF EvaluateStandardRules
    <2>3. (\A e \in Judged(d) : Permits(e)) <=> \A m \in d : Quiet(m, ctx)
        BY MoleculeDecides
    <2>4. Judged(d) \subseteq {"allow"} <=> \A m \in d : JudgedBy(m, ctx) = "allow"
        OBVIOUS
    <2> HIDE DEF Judged
    <2> QED BY <2>1, <2>2, <2>3, <2>4, MostRestrictiveIs, PermitsAll, AllowsAll
<1>2. All \in SUBSET Decision
    BY <1>1
<1>3. EvaluateBoundStandards(documents, ctx) = MostRestrictive(All)
    BY DEF EvaluateBoundStandards
<1>4. (\A e \in All : Permits(e)) <=> \A d \in documents : \A m \in d : Quiet(m, ctx)
    BY <1>1
<1>5. All \subseteq {"allow"} <=> \A d \in documents : \A m \in d : JudgedBy(m, ctx) = "allow"
    BY <1>1
<1> HIDE DEF All
<1> QED BY <1>2, <1>3, <1>4, <1>5, MostRestrictiveIs, PermitsAll, AllowsAll
-----------------------------------------------------------------------------
(***************************************************************************)
(* Risk is a level, wherever it comes from.                                *)
(***************************************************************************)
LEMMA RiskLevelIs == \A tier : RiskLevel(tier) \in 0..4 /\ (tier \in 0..4 => RiskLevel(tier) = tier)
BY DEF RiskLevel

LEMMA NothingIsNoRisk == RiskLevel(NoValue) = 0 /\ RiskLevel(Nothing["riskLevel"]) = 0
BY OperandAssumption DEF RiskLevel, Nothing, Field

LEMMA HighestLevel ==
    ASSUME NEW S \in SUBSET (0..4), 0 \in S
    PROVE  Max(S) \in 0..4
<1> DEFINE P(x) == \A y \in S : x >= y
<1>1. \E x \in S : P(x)
    <2>1. CASE 4 \in S BY <2>1
    <2>2. CASE 4 \notin S /\ 3 \in S BY <2>2
    <2>3. CASE S \subseteq {0, 1, 2} /\ 2 \in S BY <2>3
    <2>4. CASE S \subseteq {0, 1} BY <2>4
    <2> QED BY <2>1, <2>2, <2>3, <2>4
<1>2. Max(S) \in S
    BY <1>1 DEF Max
<1> QED BY <1>2

LEMMA FloorIsALevel ==
    ASSUME NEW m, NEW action, NEW amount
    PROVE  EffectiveRiskFloor(m, action, amount) \in 0..4
<1>1. RiskFloorFor(m, action) \in 0..4
    BY HighestLevel DEF RiskFloorFor
<1> QED BY <1>1 DEF EffectiveRiskFloor, Higher

\* The level in the context is the highest that anyone states.
LEMMA MergedRiskIs ==
    ASSUME NEW claimed, NEW derived, NEW floor \in 0..4
    PROVE  RiskLevel(MergedRisk(claimed, derived, floor).value)
            = Higher(Higher(floor, RiskLevel(derived)), RiskLevel(claimed))
<1> DEFINE trusted == Higher(floor, RiskLevel(derived))
<1>1. trusted \in 0..4 /\ RiskLevel(claimed) \in 0..4
    BY RiskLevelIs DEF Higher
<1>2. CASE trusted > 0
    <2>1. MergedRisk(claimed, derived, floor).value = Higher(trusted, RiskLevel(claimed))
        BY <1>2 DEF MergedRisk
    <2>2. Higher(trusted, RiskLevel(claimed)) \in 0..4
        BY <1>1 DEF Higher
    <2> QED BY <2>1, <2>2, RiskLevelIs
<1>3. CASE ~(trusted > 0)
    <2>1. MergedRisk(claimed, derived, floor).value = claimed
        BY <1>3 DEF MergedRisk
    <2>2. trusted = 0
        BY <1>1, <1>3
    <2>3. Higher(trusted, RiskLevel(claimed)) = RiskLevel(claimed)
        BY <1>1, <2>2 DEF Higher
    <2> QED BY <2>1, <2>3
<1> QED BY <1>2, <1>3

LEMMA GateIs ==
    \A mode, amount, risk : OperatingModeGate(mode, amount, risk) \in {"allow", "escalate", "block"}
BY DEF OperatingModeGate
-----------------------------------------------------------------------------
(***************************************************************************)
(* The rules and the mandate together.                                     *)
(***************************************************************************)
LEMMA RulesDecide ==
    ASSUME NEW b, BundleOK(b), NEW m \in Mandate, NEW req, NEW ctx
    PROVE  LET verdict == Evaluate(b.standards, b.sops, m, req, ctx)
           IN /\ verdict \in Decision
              /\ Permits(verdict) <=> /\ Permits(EvaluateMandate(m, req).decision)
                                      /\ \A q \in Molecules(b) : Quiet(q, ctx)
              /\ verdict = "allow" <=> /\ Allows(m, req)
                                       /\ \A q \in Molecules(b) : JudgedBy(q, ctx) = "allow"
<1> DEFINE layers == {EvaluateMandate(m, req).decision,
                      EvaluateBoundStandards(b.standards, ctx),
                      EvaluateBoundStandards(b.sops, ctx)}
<1>1. \A d \in b.standards \cup b.sops : \A q \in d : MoleculeOK(q)
    BY DEF BundleOK
<1>2. layers \in SUBSET Decision
    BY <1>1, MandateDecides, DocumentsDecide
<1>3. Evaluate(b.standards, b.sops, m, req, ctx) = MostRestrictive(layers)
    BY DEF Evaluate
<1>4. (\A e \in layers : Permits(e)) <=>
        /\ Permits(EvaluateMandate(m, req).decision)
        /\ \A q \in Molecules(b) : Quiet(q, ctx)
    BY <1>1, DocumentsDecide DEF Molecules, Packs
<1>5. layers \subseteq {"allow"} <=>
        /\ Allows(m, req)
        /\ \A q \in Molecules(b) : JudgedBy(q, ctx) = "allow"
    BY <1>1, DocumentsDecide DEF Molecules, Packs, Allows
<1> HIDE DEF layers
<1> QED BY <1>2, <1>3, <1>4, <1>5, MostRestrictiveIs, PermitsAll, AllowsAll

\* One state: what permits, permits in every layer.
LEMMA EveryLayer ==
    ASSUME TypeOK, Bound
    PROVE  OnlyIfEveryLayerPermits
<1> SUFFICES ASSUME NEW req \in SignedRequest
             PROVE  LET ctx == RuleContext(Worker, req)
                    IN Permits(Verdict(req)) <=>
                        /\ bundle.contained = "no"
                        /\ req.target \in bundle.granted
                        /\ OperatingModeGate(bundle.mode, AmountOf(req),
                                             RiskLevel(ctx["riskLevel"].value)) = "allow"
                        /\ Permits(EvaluateMandate(Worker, req).decision)
                        /\ \A m \in Molecules(bundle) : Quiet(m, ctx)
                        /\ EnforcesJurisdiction(bundle) => req.values[Jurisdiction] # NoValue
    BY DEF OnlyIfEveryLayerPermits
<1> DEFINE ctx == RuleContext(Worker, req)
           floor == EffectiveRiskFloor(Worker, req.target, AmountOf(req))
           risk == Higher(floor, RiskLevel(req.itinerary["riskLevel"]))
           gate == OperatingModeGate(bundle.mode, AmountOf(req), risk)
           verdict == Evaluate(bundle.standards, bundle.sops, Worker, req, ctx)
<1>1. BundleOK(bundle) /\ Worker \in Mandate /\ floor \in 0..4
    BY BoundIsOK, WorkerIsMandate, FloorIsALevel DEF Bound
<1>2. ctx["riskLevel"] = MergedRisk(req.itinerary["riskLevel"], Nothing["riskLevel"], floor)
    BY DEF RuleContext, BuildRuleContext, Unsigned, Field
<1>3. RiskLevel(ctx["riskLevel"].value) = risk
    <2>1. RiskLevel(ctx["riskLevel"].value)
            = Higher(Higher(floor, 0), RiskLevel(req.itinerary["riskLevel"]))
        BY <1>1, <1>2, MergedRiskIs, NothingIsNoRisk
    <2>2. Higher(floor, 0) = floor
        BY <1>1 DEF Higher
    <2> QED BY <2>1, <2>2
<1>4. /\ verdict \in Decision
      /\ Permits(verdict) <=> /\ Permits(EvaluateMandate(Worker, req).decision)
                              /\ \A m \in Molecules(bundle) : Quiet(m, ctx)
    BY <1>1, RulesDecide
<1>5. gate \in {"allow", "escalate", "block"}
    BY GateIs
<1>6. Verdict(req) =
        IF req.target \in bundle.granted
        THEN IF bundle.contained # "no" THEN Containment(bundle)
             ELSE IF gate = "block" THEN "block"
             ELSE IF /\ req.values[Jurisdiction] = NoValue
                     /\ ~HardStop(verdict) /\ EnforcesJurisdiction(bundle)
             THEN "block"
             ELSE IF Permits(verdict) /\ gate = "escalate" THEN "escalate"
             ELSE verdict
        ELSE IF bundle.contained # "no" THEN Containment(bundle)
        ELSE "block"
    BY DEF Verdict, LocalVerdict, EvaluateLocally, RuleContext
<1> HIDE DEF gate, verdict, ctx, risk
<1>7. Permits(Verdict(req)) <=>
        /\ bundle.contained = "no"
        /\ req.target \in bundle.granted
        /\ gate = "allow"
        /\ Permits(verdict)
        /\ EnforcesJurisdiction(bundle) => req.values[Jurisdiction] # NoValue
    BY <1>5, <1>6 DEF Permits, HardStop, Containment
<1>8. gate = OperatingModeGate(bundle.mode, AmountOf(req), RiskLevel(ctx["riskLevel"].value))
    BY <1>3 DEF gate
<1> QED BY <1>4, <1>7, <1>8 DEF ctx

\* A request is executed only where every layer lets it pass.
THEOREM EveryLayerPermits == GSpec => []OnlyIfEveryLayerPermits
<1>1. TypeOK /\ Bound => OnlyIfEveryLayerPermits
    BY EveryLayer
<1> QED BY <1>1, GovernedIsChain, ChainTypeCorrect, AlwaysBound, PTL
-----------------------------------------------------------------------------
(***************************************************************************)
(* Agent and service.                                                      *)
(***************************************************************************)
\* One state: the service that derives nothing decides as the agent does.
LEMMA SidesDecideAlike ==
    ASSUME NEW b, NEW m, NEW req
    PROVE  FinalVerdict(b, m, req, Nothing) = LocalVerdict(b, m, req)
<1> DEFINE floor == EffectiveRiskFloor(m, req.target, AmountOf(req))
           claimed == RiskLevel(req.itinerary["riskLevel"])
           verdict == Evaluate(b.standards, b.sops, m, req,
                               BuildRuleContext(Unsigned(req), Signed(req), Nothing, floor))
<1>1. floor \in 0..4 /\ claimed \in 0..4
    BY FloorIsALevel, RiskLevelIs
<1>2. Nothing["jurisdiction"] = NoValue /\ RiskLevel(Nothing["riskLevel"]) = 0
    BY NothingIsNoRisk DEF Nothing, Field
<1>3. Higher(Higher(floor, 0), claimed) = Higher(floor, claimed)
    BY <1>1 DEF Higher
<1>4. {req.values[Jurisdiction], NoValue} \ {NoValue} = {} <=> req.values[Jurisdiction] = NoValue
    OBVIOUS
<1>5. CASE req.target \in b.granted
    <2> DEFINE gate == OperatingModeGate(b.mode, AmountOf(req), Higher(floor, claimed))
               refused == /\ req.values[Jurisdiction] = NoValue
                          /\ ~HardStop(verdict) /\ EnforcesJurisdiction(b)
    <2>1. LocalVerdict(b, m, req) =
            IF b.contained # "no" THEN Containment(b)
            ELSE IF gate = "block" THEN "block"
            ELSE IF refused THEN "block"
            ELSE IF Permits(verdict) /\ gate = "escalate" THEN "escalate"
            ELSE verdict
        BY <1>5 DEF LocalVerdict, EvaluateLocally
    <2>2. VerdictFromBundle(b, m, req, Nothing) = IF refused THEN "block" ELSE verdict
        BY <1>2, <1>4, <1>5 DEF VerdictFromBundle
    <2>3. FinalVerdict(b, m, req, Nothing) =
            IF b.contained # "no" THEN Containment(b)
            ELSE IF gate = "block" THEN "block"
            ELSE IF Permits(VerdictFromBundle(b, m, req, Nothing)) /\ gate = "escalate"
            THEN "escalate"
            ELSE VerdictFromBundle(b, m, req, Nothing)
        BY <1>2, <1>3, <1>5 DEF FinalVerdict
    <2> HIDE DEF gate, refused, verdict
    <2> QED BY <2>1, <2>2, <2>3 DEF Permits
<1>6. CASE req.target \notin b.granted
    <2>1. VerdictFromBundle(b, m, req, Nothing) = "block"
        BY <1>6 DEF VerdictFromBundle
    <2> QED BY <1>6, <2>1 DEF FinalVerdict, LocalVerdict, Permits
<1> QED BY <1>5, <1>6

\* The agent's verdict is one of the decisions.
LEMMA VerdictDecides ==
    ASSUME TypeOK, Bound, NEW req
    PROVE  Verdict(req) \in Decision
<1> DEFINE ctx == RuleContext(Worker, req)
           verdict == Evaluate(bundle.standards, bundle.sops, Worker, req, ctx)
<1>1. BundleOK(bundle) /\ Worker \in Mandate
    BY BoundIsOK, WorkerIsMandate DEF Bound
<1>2. verdict \in Decision
    BY <1>1, RulesDecide
<1>3. Verdict(req) \in {verdict, "block", "escalate", "suspend", "quarantine"}
    BY DEF Verdict, LocalVerdict, EvaluateLocally, RuleContext, Containment
<1> QED BY <1>2, <1>3 DEF Decision

\* Agent and service agree on every request, for any bundle and any mandate,
\* but for the arguments that only the service looks at.
THEOREM AgentAndServiceAgree == GSpec => []SidesAgree
<1>1. TypeOK /\ Bound => SidesAgree
    <2> SUFFICES ASSUME TypeOK, Bound,
                        NEW req \in SignedRequest, NEW service \in Service, service.derived = Nothing
                 PROVE  ServiceVerdict(bundle, Worker, req, service) =
                            IF ArgumentsPass(Worker, req.target, service) \/ Refuses(Verdict(req))
                            THEN Verdict(req) ELSE "block"
        BY DEF SidesAgree
    <2>1. FinalVerdict(bundle, Worker, req, service.derived) = Verdict(req)
        BY SidesDecideAlike DEF Verdict
    <2>2. Verdict(req) \in Decision
        BY VerdictDecides
    <2>3. MayStillRun(Verdict(req)) <=> ~Refuses(Verdict(req))
        BY <2>2, PrecedenceIs DEF MayStillRun, Refuses, Decision
    <2> QED BY <2>1, <2>3 DEF ServiceVerdict
<1> QED BY <1>1, GovernedIsChain, ChainTypeCorrect, AlwaysBound, PTL
-----------------------------------------------------------------------------
(***************************************************************************)
(* A tighter bundle.                                                       *)
(***************************************************************************)
LEMMA StricterMode ==
    ASSUME NEW mode \in OperatingMode, NEW other \in OperatingMode, NEW amount, NEW risk,
           Autonomy(other) <= Autonomy(mode)
    PROVE  LET before == OperatingModeGate(mode, amount, risk)
               after == OperatingModeGate(other, amount, risk)
           IN /\ before = "block" => after = "block"
              /\ before = "escalate" => after \in {"escalate", "block"}
<1>1. /\ Autonomy("read_only") = 0 /\ Autonomy("restricted") = 1
      /\ Autonomy("supervised") = 2 /\ Autonomy("autonomous") = 3
    BY DEF Autonomy
<1>2. CASE mode = "autonomous"
    BY <1>2 DEF OperatingModeGate
<1>3. CASE mode = "supervised"
    <2>1. other \in {"read_only", "restricted", "supervised"}
        BY <1>1, <1>3 DEF OperatingMode
    <2> QED BY <1>3, <2>1 DEF OperatingModeGate
<1>4. CASE mode = "restricted"
    <2>1. other \in {"read_only", "restricted"}
        BY <1>1, <1>4 DEF OperatingMode
    <2> QED BY <1>4, <2>1 DEF OperatingModeGate
<1>5. CASE mode = "read_only"
    <2>1. other = "read_only"
        BY <1>1, <1>5 DEF OperatingMode
    <2> QED BY <1>5, <2>1
<1> QED BY <1>2, <1>3, <1>4, <1>5 DEF OperatingMode

LEMMA MoreDocuments ==
    ASSUME NEW S, NEW T, S \subseteq T, \A d \in T : \A m \in d : MoleculeOK(m), NEW ctx
    PROVE  Precedence[EvaluateBoundStandards(S, ctx)] <= Precedence[EvaluateBoundStandards(T, ctx)]
<1> DEFINE Of(D) == {EvaluateStandardRules(d, ctx) : d \in D}
<1>1. \A d \in T : EvaluateStandardRules(d, ctx) \in Decision
    <2> SUFFICES ASSUME NEW d \in T PROVE EvaluateStandardRules(d, ctx) \in Decision
        OBVIOUS
    <2>1. {JudgedBy(m, ctx) : m \in d} \in SUBSET Decision
        BY MoleculeDecides
    <2> QED BY <2>1, MostRestrictiveIs DEF EvaluateStandardRules
<1>2. Of(S) \in SUBSET Decision /\ Of(T) \in SUBSET Decision
    BY <1>1
<1>3. \A d \in Of(S) : \E e \in Of(T) : Precedence[d] <= Precedence[e]
    BY <1>1, PrecedenceIsNat
<1> HIDE DEF Of
<1>4. Precedence[MostRestrictive(Of(S))] <= Precedence[MostRestrictive(Of(T))]
    BY <1>2, <1>3, Dominated
<1> QED BY <1>4 DEF EvaluateBoundStandards, Of

LEMMA TighterRules ==
    ASSUME NEW b, BundleOK(b), NEW c, BundleOK(c), Tightens(b, c),
           NEW m \in Mandate, NEW req, NEW ctx
    PROVE  Precedence[Evaluate(b.standards, b.sops, m, req, ctx)]
            <= Precedence[Evaluate(c.standards, c.sops, m, req, ctx)]
<1> DEFINE D == EvaluateMandate(m, req).decision
           B(x) == EvaluateBoundStandards(x.standards, ctx)
           Q(x) == EvaluateBoundStandards(x.sops, ctx)
<1>1. D \in Decision /\ B(b) \in Decision /\ B(c) \in Decision /\ Q(b) \in Decision /\ Q(c) \in Decision
    BY MandateDecides, DocumentsDecide DEF BundleOK
<1>2. Precedence[B(b)] <= Precedence[B(c)] /\ Precedence[Q(b)] <= Precedence[Q(c)]
    BY MoreDocuments DEF Tightens, BundleOK
<1>3. /\ Evaluate(b.standards, b.sops, m, req, ctx) = MostRestrictive({D, B(b), Q(b)})
      /\ Evaluate(c.standards, c.sops, m, req, ctx) = MostRestrictive({D, B(c), Q(c)})
    BY DEF Evaluate
<1> HIDE DEF D, B, Q
<1>4. Precedence[D] <= Precedence[D]
    BY <1>1, PrecedenceIsNat
<1> QED BY <1>1, <1>2, <1>3, <1>4, Dominated

LEMMA TighterDecides ==
    ASSUME NEW b, BundleOK(b), NEW c, BundleOK(c), Tightens(b, c), NEW m \in Mandate, NEW req
    PROVE  \/ Precedence[LocalVerdict(b, m, req)] <= Precedence[LocalVerdict(c, m, req)]
           \/ Refuses(LocalVerdict(c, m, req))
<1> DEFINE ctx == RuleContext(m, req)
           floor == EffectiveRiskFloor(m, req.target, AmountOf(req))
           risk == Higher(floor, RiskLevel(req.itinerary["riskLevel"]))
           gate(x) == OperatingModeGate(x.mode, AmountOf(req), risk)
           rules(x) == Evaluate(x.standards, x.sops, m, req, ctx)
           refused(x) == /\ req.values[Jurisdiction] = NoValue
                         /\ ~HardStop(rules(x)) /\ EnforcesJurisdiction(x)
           decided(x) == IF gate(x) = "block" THEN "block"
                         ELSE IF refused(x) THEN "block"
                         ELSE IF Permits(rules(x)) /\ gate(x) = "escalate" THEN "escalate"
                         ELSE rules(x)
<1>1. ASSUME NEW x
      PROVE  LocalVerdict(x, m, req) = IF x.contained # "no" THEN Containment(x)
                                       ELSE IF req.target \in x.granted THEN decided(x)
                                       ELSE "block"
    BY DEF LocalVerdict, EvaluateLocally, RuleContext
<1>2. rules(b) \in Decision /\ rules(c) \in Decision
    BY RulesDecide
<1>3. Precedence[rules(b)] <= Precedence[rules(c)]
    BY TighterRules
<1>4. /\ gate(b) = "block" => gate(c) = "block"
      /\ gate(b) = "escalate" => gate(c) \in {"escalate", "block"}
    BY StricterMode DEF Tightens, BundleOK
<1>5. EnforcesJurisdiction(b) => EnforcesJurisdiction(c)
    BY DEF EnforcesJurisdiction, Tightens
<1>6. gate(b) \in {"allow", "escalate", "block"} /\ gate(c) \in {"allow", "escalate", "block"}
    BY GateIs
<1>7. Refuses("block") /\ Refuses(Containment(c))
    BY PrecedenceIs DEF Refuses, Containment
<1> HIDE DEF gate, rules
<1>8. Precedence[decided(b)] <= Precedence[decided(c)] \/ Refuses(decided(c))
    <2>1. CASE gate(c) = "block" \/ refused(c)
        BY <2>1, <1>7
    <2>2. CASE ~(gate(c) = "block" \/ refused(c))
        <3>1. decided(c) = IF Permits(rules(c)) /\ gate(c) = "escalate" THEN "escalate" ELSE rules(c)
            BY <2>2
        <3>2. CASE refused(b)
            <4>1. HardStop(rules(c))
                BY <1>5, <2>2, <3>2
            <4> QED BY <3>1, <4>1, PrecedenceIs DEF HardStop, Permits, Refuses
        <3>3. CASE ~refused(b)
            <4>1. decided(b) = IF Permits(rules(b)) /\ gate(b) = "escalate" THEN "escalate"
                               ELSE rules(b)
                BY <1>4, <2>2, <3>3
            <4>2. \A d \in Decision : Permits(d) <=> Precedence[d] <= 1
                BY PermitsIsLow
            <4>3. Precedence[rules(b)] \in 0..6 /\ Precedence[rules(c)] \in 0..6
                BY <1>2, PrecedenceIsNat
            <4>4. CASE Permits(rules(b)) /\ gate(b) = "escalate"
                <5>1. gate(c) = "escalate"
                    BY <1>4, <2>2, <4>4
                <5>2. Precedence[decided(b)] = 2
                    BY <4>1, <4>4, PrecedenceIs
                <5>3. Precedence[decided(c)] >= 2
                    BY <1>2, <3>1, <4>2, <4>3, <5>1, PrecedenceIs
                <5>4. Precedence[decided(c)] \in 0..6
                    BY <3>1, <4>3, PrecedenceIs
                <5> QED BY <5>2, <5>3, <5>4
            <4>5. CASE ~(Permits(rules(b)) /\ gate(b) = "escalate")
                <5>1. decided(b) = rules(b)
                    BY <4>1, <4>5
                <5>2. CASE Permits(rules(c)) /\ gate(c) = "escalate"
                    <6>1. Precedence[decided(c)] = 2 /\ Precedence[rules(c)] <= 1
                        BY <1>2, <3>1, <4>2, <5>2, PrecedenceIs
                    <6> QED BY <1>3, <4>3, <5>1, <6>1
                <5>3. CASE ~(Permits(rules(c)) /\ gate(c) = "escalate")
                    BY <1>3, <3>1, <5>1, <5>3
                <5> QED BY <5>2, <5>3
            <4> QED BY <4>4, <4>5
        <3> QED BY <3>2, <3>3
    <2> QED BY <2>1, <2>2
<1> HIDE DEF decided
<1>9. b.contained = "no" \/ c.contained = b.contained
    BY DEF Tightens
<1>10. req.target \in c.granted => req.target \in b.granted
    BY DEF Tightens
<1>11. LocalVerdict(c, m, req) = IF c.contained # "no" THEN Containment(c)
                                 ELSE IF req.target \in c.granted THEN decided(c)
                                 ELSE "block"
    BY <1>1
<1>12. LocalVerdict(b, m, req) = IF b.contained # "no" THEN Containment(b)
                                 ELSE IF req.target \in b.granted THEN decided(b)
                                 ELSE "block"
    BY <1>1
<1>13. CASE c.contained # "no" \/ req.target \notin c.granted
    BY <1>7, <1>11, <1>13
<1>14. CASE c.contained = "no" /\ req.target \in c.granted
    BY <1>8, <1>9, <1>10, <1>11, <1>12, <1>14
<1> QED BY <1>13, <1>14

\* Whatever the issuer tightens, no verdict gets softer.
THEOREM TighteningIsSafe == GSpec => TighteningNeverLoosens
<1> DEFINE Step == chain' = chain /\ Tightens(bundle, bundle') =>
        \A req \in SignedRequest :
            LET before == LocalVerdict(bundle, Worker, req)
                after == LocalVerdict(bundle', Worker, req)
            IN Precedence[before] <= Precedence[after] \/ Refuses(after)
<1>1. TypeOK /\ Bound /\ Bound' => Step
    <2> SUFFICES ASSUME TypeOK, Bound, Bound', chain' = chain, Tightens(bundle, bundle'),
                        NEW req \in SignedRequest
                 PROVE  \/ Precedence[LocalVerdict(bundle, Worker, req)]
                            <= Precedence[LocalVerdict(bundle', Worker, req)]
                        \/ Refuses(LocalVerdict(bundle', Worker, req))
        OBVIOUS
    <2>1. BundleOK(bundle) /\ BundleOK(bundle') /\ Worker \in Mandate
        BY BoundIsOK, WorkerIsMandate DEF Bound
    <2> QED BY <2>1, TighterDecides
<1>2. TypeOK /\ Bound /\ Bound' => [Step]_gvars
    BY <1>1
<1> QED BY <1>2, GovernedIsChain, ChainTypeCorrect, AlwaysBound, PTL DEF TighteningNeverLoosens
-----------------------------------------------------------------------------
(***************************************************************************)
(* What an agent claims about risk.                                        *)
(***************************************************************************)
LEMMA ClaimingKeeps ==
    ASSUME NEW req, NEW level
    PROVE  LET claiming == Claiming(req, level)
           IN /\ claiming.target = req.target /\ claiming.now = req.now
              /\ claiming.values = req.values
              /\ claiming.itinerary["riskLevel"] = level
              /\ AmountOf(claiming) = AmountOf(req)
              /\ Signed(claiming) = Signed(req)
              /\ \A f \in Field \ {"riskLevel"} : Unsigned(claiming)[f] = Unsigned(req)[f]
              /\ Unsigned(claiming)["riskLevel"] = level
BY DEF Claiming, AmountOf, Signed, Unsigned, Field

\* A mandate does not look at the unsigned context.
LEMMA MandateIgnoresContext ==
    ASSUME NEW m, NEW r, NEW s, r.target = s.target, r.now = s.now, r.values = s.values
    PROVE  EvaluateMandate(m, r) = EvaluateMandate(m, s)
<1>1. \A c, strict : ConstraintSatisfied(c, r, strict) = ConstraintSatisfied(c, s, strict)
    BY DEF ConstraintSatisfied, UnitMatches
<1>2. \A rule, strict : AllSatisfied(rule, r, strict) <=> AllSatisfied(rule, s, strict)
    BY <1>1 DEF AllSatisfied
<1>3. Firing(m, r) = Firing(m, s) /\ Granting(m, r) = Granting(m, s)
    BY <1>2 DEF Firing, Granting
<1>4. \A p : FirstFailing(p, r) = FirstFailing(p, s)
    BY <1>1 DEF FirstFailing
<1> QED BY <1>3, <1>4 DEF EvaluateMandate

\* Two claims at or below what is known make the same context.
LEMMA SameContext ==
    ASSUME NEW req, NEW derived, NEW floor \in 0..4, NEW c, NEW d,
           Higher(floor, RiskLevel(derived["riskLevel"])) > 0,
           RiskLevel(c) <= Higher(floor, RiskLevel(derived["riskLevel"])),
           RiskLevel(d) <= Higher(floor, RiskLevel(derived["riskLevel"]))
    PROVE  BuildRuleContext(Unsigned(Claiming(req, c)), Signed(Claiming(req, c)), derived, floor)
            = BuildRuleContext(Unsigned(Claiming(req, d)), Signed(Claiming(req, d)), derived, floor)
<1> DEFINE trusted == Higher(floor, RiskLevel(derived["riskLevel"]))
<1>1. trusted \in 0..4 /\ RiskLevel(c) \in 0..4 /\ RiskLevel(d) \in 0..4
    BY RiskLevelIs DEF Higher
<1>2. Higher(trusted, RiskLevel(c)) = trusted /\ Higher(trusted, RiskLevel(d)) = trusted
    BY <1>1 DEF Higher
<1>3. MergedRisk(c, derived["riskLevel"], floor) = MergedRisk(d, derived["riskLevel"], floor)
    BY <1>2 DEF MergedRisk
<1>4. /\ Unsigned(Claiming(req, c))["riskLevel"] = c
      /\ Unsigned(Claiming(req, d))["riskLevel"] = d
      /\ Signed(Claiming(req, c)) = Signed(Claiming(req, d))
      /\ \A f \in Field \ {"riskLevel"} :
            Unsigned(Claiming(req, c))[f] = Unsigned(Claiming(req, d))[f]
    BY ClaimingKeeps
<1> QED BY <1>3, <1>4 DEF BuildRuleContext

\* One bundle: a claim at or below what is known changes no verdict.
LEMMA LowClaimChangesNothing ==
    ASSUME NEW b, NEW m, NEW req, NEW derived, NEW c, NEW d,
           LET floor == EffectiveRiskFloor(m, req.target, AmountOf(req))
               trusted == Higher(floor, RiskLevel(derived["riskLevel"]))
           IN trusted > 0 /\ RiskLevel(c) <= trusted /\ RiskLevel(d) <= trusted
    PROVE  FinalVerdict(b, m, Claiming(req, c), derived)
            = FinalVerdict(b, m, Claiming(req, d), derived)
<1> DEFINE rc == Claiming(req, c)
           rd == Claiming(req, d)
           floor == EffectiveRiskFloor(m, req.target, AmountOf(req))
           trusted == Higher(floor, RiskLevel(derived["riskLevel"]))
<1>0. floor \in 0..4
    BY FloorIsALevel
<1>1. trusted \in 0..4 /\ RiskLevel(c) \in 0..4 /\ RiskLevel(d) \in 0..4
    BY <1>0, RiskLevelIs DEF Higher
<1>2. /\ rc.target = req.target /\ rd.target = req.target
      /\ rc.now = rd.now /\ rc.values = rd.values
      /\ AmountOf(rc) = AmountOf(req) /\ AmountOf(rd) = AmountOf(req)
      /\ rc.itinerary["riskLevel"] = c /\ rd.itinerary["riskLevel"] = d
    BY ClaimingKeeps
<1>3. EvaluateMandate(m, rc) = EvaluateMandate(m, rd)
    BY <1>2, MandateIgnoresContext
<1>4. BuildRuleContext(Unsigned(rc), Signed(rc), derived, floor)
        = BuildRuleContext(Unsigned(rd), Signed(rd), derived, floor)
    BY <1>0, SameContext
<1>5. Higher(trusted, RiskLevel(c)) = Higher(trusted, RiskLevel(d))
    BY <1>1 DEF Higher
<1> HIDE DEF rc, rd
<1>6. EffectiveRiskFloor(m, rc.target, AmountOf(rc)) = floor
      /\ EffectiveRiskFloor(m, rd.target, AmountOf(rd)) = floor
    BY <1>2
<1> HIDE DEF floor
<1>7. \A ctx : Evaluate(b.standards, b.sops, m, rc, ctx) = Evaluate(b.standards, b.sops, m, rd, ctx)
    BY <1>3 DEF Evaluate
<1>8. VerdictFromBundle(b, m, rc, derived) = VerdictFromBundle(b, m, rd, derived)
    BY <1>2, <1>4, <1>6, <1>7 DEF VerdictFromBundle
<1>9. CASE req.target \in b.granted
    <2> DEFINE gate(level) == OperatingModeGate(b.mode, AmountOf(req), Higher(trusted, level))
               with(g, verdict) == IF b.contained # "no" THEN Containment(b)
                                   ELSE IF g = "block" THEN "block"
                                   ELSE IF Permits(verdict) /\ g = "escalate" THEN "escalate"
                                   ELSE verdict
    <2>1. FinalVerdict(b, m, rc, derived) = with(gate(RiskLevel(c)), VerdictFromBundle(b, m, rc, derived))
        BY <1>2, <1>6, <1>9 DEF FinalVerdict
    <2>2. FinalVerdict(b, m, rd, derived) = with(gate(RiskLevel(d)), VerdictFromBundle(b, m, rd, derived))
        BY <1>2, <1>6, <1>9 DEF FinalVerdict
    <2>3. gate(RiskLevel(c)) = gate(RiskLevel(d))
        BY <1>5
    <2> HIDE DEF with, gate
    <2> QED BY <1>8, <2>1, <2>2, <2>3 DEF rc, rd
<1>10. CASE req.target \notin b.granted
    <2>1. \A r \in {rc, rd} : VerdictFromBundle(b, m, r, derived) = "block"
        BY <1>2, <1>10 DEF VerdictFromBundle
    <2>2. \A r \in {rc, rd} : FinalVerdict(b, m, r, derived)
                                = IF b.contained # "no" THEN Containment(b) ELSE "block"
        BY <2>1 DEF FinalVerdict, Permits
    <2> QED BY <2>2 DEF rc, rd
<1> QED BY <1>9, <1>10

\* One bundle: a rule about risk lets nothing pass where no risk is known.
LEMMA UnknownRiskIsNotLow ==
    ASSUME NEW b, BundleOK(b), NEW m \in Mandate, NEW req, NEW derived, NEW c,
           RiskLevel(c) = 0,
           Higher(EffectiveRiskFloor(m, req.target, AmountOf(req)),
                  RiskLevel(derived["riskLevel"])) = 0,
           NEW q \in Molecules(b), AsksForRisk(q)
    PROVE  ~Permits(FinalVerdict(b, m, Claiming(req, c), derived))
<1> DEFINE rc == Claiming(req, c)
           floor == EffectiveRiskFloor(m, req.target, AmountOf(req))
           ctx == BuildRuleContext(Unsigned(rc), Signed(rc), derived, floor)
           verdict == Evaluate(b.standards, b.sops, m, rc, ctx)
<1>1. /\ rc.target = req.target /\ AmountOf(rc) = AmountOf(req)
      /\ Unsigned(rc)["riskLevel"] = c
    BY ClaimingKeeps
<1>2. floor \in 0..4 /\ RiskLevel(derived["riskLevel"]) \in 0..4
    BY FloorIsALevel, RiskLevelIs
<1>3. ctx["riskLevel"] = MergedRisk(c, derived["riskLevel"], floor)
    BY <1>1 DEF BuildRuleContext, Field
<1>4. ctx["riskLevel"].value = c
    BY <1>2, <1>3 DEF MergedRisk, Higher
<1>5. "riskLevel" \in MoleculeUnverifiable(q, ctx)
    BY <1>4 DEF MoleculeUnverifiable, RequiredContextOf, ContextFieldProblem, Field
<1> HIDE DEF ctx
<1>6. ~Permits(verdict)
    <2>1. ~Quiet(q, ctx)
        BY <1>5 DEF Quiet
    <2> QED BY <2>1, RulesDecide
<1> HIDE DEF verdict, rc
<1>7. ~Permits(VerdictFromBundle(b, m, rc, derived))
    BY <1>1, <1>6 DEF VerdictFromBundle, Permits, verdict, ctx
<1>8. ~Permits(FinalVerdict(b, m, rc, derived))
    BY <1>7 DEF FinalVerdict, Containment, Permits
<1> QED BY <1>8 DEF rc

\* No agent talks the risk of its request down.
THEOREM RiskStands == GSpec => []RiskIsNotTalkedDown
<1>1. TypeOK /\ Bound => RiskIsNotTalkedDown
    <2> SUFFICES ASSUME TypeOK, Bound, NEW req \in SignedRequest, NEW service \in Service
                 PROVE
        LET floor == EffectiveRiskFloor(Worker, req.target, AmountOf(req))
            trusted == Higher(floor, RiskLevel(service.derived["riskLevel"]))
            Says(level) == ServiceVerdict(bundle, Worker, Claiming(req, level), service)
            silent == Says(NoValue)
        IN /\ trusted > 0 =>
                \A c \in Claim : RiskLevel(c) <= trusted => Says(c) = silent
           /\ trusted = 0 /\ (\E m \in Molecules(bundle) : AsksForRisk(m)) =>
                \A c \in Claim : RiskLevel(c) = 0 => ~Permits(Says(c))
        BY DEF RiskIsNotTalkedDown
    <2> DEFINE trusted == Higher(EffectiveRiskFloor(Worker, req.target, AmountOf(req)),
                                 RiskLevel(service.derived["riskLevel"]))
               Says(level) == ServiceVerdict(bundle, Worker, Claiming(req, level), service)
    <2>1. BundleOK(bundle) /\ Worker \in Mandate
        BY BoundIsOK, WorkerIsMandate DEF Bound
    <2>2. trusted \in 0..4 /\ RiskLevel(NoValue) = 0
        BY FloorIsALevel, RiskLevelIs, NothingIsNoRisk DEF Higher
    <2>3. ASSUME trusted > 0, NEW c \in Claim, RiskLevel(c) <= trusted
          PROVE  Says(c) = Says(NoValue)
        <3>1. FinalVerdict(bundle, Worker, Claiming(req, c), service.derived)
                = FinalVerdict(bundle, Worker, Claiming(req, NoValue), service.derived)
            BY <2>2, <2>3, LowClaimChangesNothing
        <3>2. Claiming(req, c).target = Claiming(req, NoValue).target
            BY ClaimingKeeps
        <3> QED BY <3>1, <3>2 DEF ServiceVerdict
    <2>4. ASSUME trusted = 0, NEW q \in Molecules(bundle), AsksForRisk(q),
                 NEW c \in Claim, RiskLevel(c) = 0
          PROVE  ~Permits(Says(c))
        <3>1. ~Permits(FinalVerdict(bundle, Worker, Claiming(req, c), service.derived))
            BY <2>1, <2>4, UnknownRiskIsNotLow
        <3> QED BY <3>1 DEF ServiceVerdict, Permits
    <2> HIDE DEF trusted, Says
    <2>5. /\ trusted > 0 => \A c \in Claim : RiskLevel(c) <= trusted => Says(c) = Says(NoValue)
          /\ trusted = 0 /\ (\E m \in Molecules(bundle) : AsksForRisk(m)) =>
                \A c \in Claim : RiskLevel(c) = 0 => ~Permits(Says(c))
        BY <2>3, <2>4
    <2> QED BY <2>5 DEF trusted, Says
<1> QED BY <1>1, GovernedIsChain, ChainTypeCorrect, AlwaysBound, PTL
-----------------------------------------------------------------------------
(***************************************************************************)
(* A worker and those above it.                                            *)
(***************************************************************************)
\* A molecule that minds the risk and is silent at the higher of two levels,
\* of equal provenance, is silent at the lower.
LEMMA SilentBelow ==
    ASSUME NEW q, MoleculeOK(q), MindsRisk(q), NEW high, NEW low,
           \A f \in Field \ {"riskLevel"} : low[f] = high[f],
           low["riskLevel"].source = high["riskLevel"].source,
           \/ low["riskLevel"].value = high["riskLevel"].value
           \/ /\ low["riskLevel"].value \in 1..4 /\ high["riskLevel"].value \in 1..4
              /\ low["riskLevel"].value <= high["riskLevel"].value,
           ~MoleculeFires(q, high), MoleculeUnverifiable(q, high) = {}
    PROVE  ~MoleculeFires(q, low) /\ MoleculeUnverifiable(q, low) = {}
<1>0. /\ "amount" \in Field \ {"riskLevel"} /\ "currency" \in Field \ {"riskLevel"}
      /\ "riskLevel" \notin NumberField
    BY FieldAssumption DEF Field
<1>1. ASSUME NEW a \in q.atoms, AtomFires(a, low)
      PROVE  AtomFires(a, high)
    <2>1. CASE a.field # "riskLevel"
        <3>1. low[a.field] = high[a.field] /\ low["amount"] = high["amount"]
              /\ low["currency"] = high["currency"]
            BY <1>0, <2>1 DEF MoleculeOK
        <3>2. a.predicate # "risk-at-or-above"
            BY <2>1 DEF MoleculeOK
        <3> QED BY <1>1, <3>1, <3>2 DEF AtomFires, CurrencyOutOfScope
    <2>2. CASE a.field = "riskLevel"
        <3>1. a.predicate = "risk-at-or-above"
            BY <2>2 DEF MindsRisk
        <3>2. RiskAtOrAbove(low["riskLevel"].value, a.level)
            BY <1>1, <2>2, <3>1 DEF AtomFires
        <3>3. CASE low["riskLevel"].value = high["riskLevel"].value
            BY <2>2, <3>1, <3>2, <3>3 DEF AtomFires
        <3>4. CASE /\ low["riskLevel"].value \in 1..4 /\ high["riskLevel"].value \in 1..4
                   /\ low["riskLevel"].value <= high["riskLevel"].value
            <4>1. RiskLevel(low["riskLevel"].value) <= RiskLevel(high["riskLevel"].value)
                BY <3>4 DEF RiskLevel
            <4>2. RiskAtOrAbove(high["riskLevel"].value, a.level)
                BY <3>2, <3>4, <4>1 DEF RiskAtOrAbove, RiskLevel
            <4> QED BY <2>2, <3>1, <4>2 DEF AtomFires
        <3> QED BY <3>3, <3>4
    <2> QED BY <2>1, <2>2
<1>2. ~MoleculeFires(q, low)
    <2>1. CASE q.combinator = "none" /\ \E a \in q.atoms : a.field = "riskLevel"
        BY <2>1 DEF MindsRisk
    <2>2. CASE q.combinator = "none" /\ ~\E a \in q.atoms : a.field = "riskLevel"
        <3>1. \A a \in q.atoms : AtomFires(a, high) => AtomFires(a, low)
            <4>1. SUFFICES ASSUME NEW a \in q.atoms, AtomFires(a, high) PROVE AtomFires(a, low)
                OBVIOUS
            <4>2. /\ a.field # "riskLevel" /\ low[a.field] = high[a.field]
                  /\ low["amount"] = high["amount"] /\ low["currency"] = high["currency"]
                BY <1>0, <2>2 DEF MoleculeOK
            <4>3. a.predicate # "risk-at-or-above"
                BY <4>2 DEF MoleculeOK
            <4> QED BY <4>1, <4>2, <4>3 DEF AtomFires, CurrencyOutOfScope
        <3> QED BY <2>2, <3>1 DEF MoleculeFires
    <2>3. CASE q.combinator # "none"
        BY <1>1, <2>3 DEF MoleculeFires
    <2> QED BY <2>1, <2>2, <2>3
<1>3. MoleculeUnverifiable(q, low) = {}
    <2> SUFFICES ASSUME NEW f \in Field, NEW least \in RequiredContextOf(q, f),
                        ContextFieldProblem(low, f) \/ low[f].source < least
                 PROVE  FALSE
        BY DEF MoleculeUnverifiable
    <2>1. ~ContextFieldProblem(high, f) /\ ~(high[f].source < least)
        BY DEF MoleculeUnverifiable
    <2>2. CASE f # "riskLevel"
        BY <2>1, <2>2 DEF ContextFieldProblem
    <2>3. CASE f = "riskLevel"
        <3>1. ContextFieldProblem(low, "riskLevel")
            BY <2>1, <2>3
        <3>2. low["riskLevel"].value \in 1..4 => ~ContextFieldProblem(low, "riskLevel")
            BY <1>0, OperandAssumption DEF ContextFieldProblem, RiskLevel
        <3>3. low["riskLevel"].value = high["riskLevel"].value => ~ContextFieldProblem(low, "riskLevel")
            BY <2>1, <2>3 DEF ContextFieldProblem
        <3> QED BY <3>1, <3>2, <3>3
    <2> QED BY <2>2, <2>3
<1> QED BY <1>2, <1>3

\* Two mandates with floors in order, both stated or neither: the context of
\* the lower has no more risk, at equal provenance.
LEMMA LowerFloor ==
    ASSUME NEW m, NEW n, NEW req,
           EffectiveRiskFloor(m, req.target, AmountOf(req))
                <= EffectiveRiskFloor(n, req.target, AmountOf(req)),
           EffectiveRiskFloor(m, req.target, AmountOf(req)) = 0 =>
                EffectiveRiskFloor(n, req.target, AmountOf(req)) = 0
    PROVE  LET low == RuleContext(m, req)["riskLevel"]
               high == RuleContext(n, req)["riskLevel"]
           IN /\ \A f \in Field \ {"riskLevel"} : RuleContext(m, req)[f] = RuleContext(n, req)[f]
              /\ low.source = high.source
              /\ \/ low.value = high.value
                 \/ low.value \in 1..4 /\ high.value \in 1..4 /\ low.value <= high.value
<1> DEFINE claimed == req.itinerary["riskLevel"]
           lower == EffectiveRiskFloor(m, req.target, AmountOf(req))
           higher == EffectiveRiskFloor(n, req.target, AmountOf(req))
<1>1. lower \in 0..4 /\ higher \in 0..4 /\ RiskLevel(claimed) \in 0..4
    BY FloorIsALevel, RiskLevelIs
<1>2. \A f \in Field \ {"riskLevel"} : RuleContext(m, req)[f] = RuleContext(n, req)[f]
    BY DEF RuleContext, BuildRuleContext
<1>3. /\ RuleContext(m, req)["riskLevel"] = MergedRisk(claimed, Nothing["riskLevel"], lower)
      /\ RuleContext(n, req)["riskLevel"] = MergedRisk(claimed, Nothing["riskLevel"], higher)
    BY DEF RuleContext, BuildRuleContext, Unsigned, Field
<1> HIDE DEF lower, higher
<1>4. CASE lower = 0
    <2>1. higher = 0
        BY <1>4 DEF lower, higher
    <2> QED BY <1>2, <1>3, <1>4, <2>1
<1>5. CASE lower # 0
    <2>1. lower \in 1..4 /\ higher \in 1..4 /\ lower <= higher
        BY <1>1, <1>5 DEF lower, higher
    <2>2. ASSUME NEW floor \in 1..4
          PROVE  MergedRisk(claimed, Nothing["riskLevel"], floor)
                    = [value |-> Higher(floor, RiskLevel(claimed)), source |-> Authoritative]
        <3>1. Higher(floor, RiskLevel(Nothing["riskLevel"])) = floor
            BY NothingIsNoRisk DEF Higher
        <3> QED BY <3>1 DEF MergedRisk
    <2>3. /\ Higher(lower, RiskLevel(claimed)) \in 1..4
          /\ Higher(higher, RiskLevel(claimed)) \in 1..4
          /\ Higher(lower, RiskLevel(claimed)) <= Higher(higher, RiskLevel(claimed))
        BY <1>1, <2>1 DEF Higher
    <2> QED BY <1>2, <1>3, <2>1, <2>2, <2>3
<1> QED BY <1>4, <1>5

LEMMA LowerRiskGate ==
    ASSUME NEW mode, NEW amount, NEW low \in 0..4, NEW high \in 0..4, low <= high,
           OperatingModeGate(mode, amount, high) = "allow"
    PROVE  OperatingModeGate(mode, amount, low) = "allow"
BY DEF OperatingModeGate

\* A mandate that allows, with a floor no higher, allows under the same bundle.
LEMMA AllowedBelow ==
    ASSUME NEW b, BundleOK(b), NEW m \in Mandate, NEW n \in Mandate, NEW req,
           EffectiveRiskFloor(m, req.target, AmountOf(req))
                <= EffectiveRiskFloor(n, req.target, AmountOf(req)),
           EffectiveRiskFloor(m, req.target, AmountOf(req)) = 0 =>
                EffectiveRiskFloor(n, req.target, AmountOf(req)) = 0,
           \A q \in Molecules(b) : MindsRisk(q),
           Allows(n, req) => Allows(m, req),
           LocalVerdict(b, n, req) = "allow"
    PROVE  LocalVerdict(b, m, req) = "allow"
<1> DEFINE risk(x) == Higher(EffectiveRiskFloor(x, req.target, AmountOf(req)),
                             RiskLevel(req.itinerary["riskLevel"]))
           gate(x) == OperatingModeGate(b.mode, AmountOf(req), risk(x))
           rules(x) == Evaluate(b.standards, b.sops, x, req, RuleContext(x, req))
           refused(x) == /\ req.values[Jurisdiction] = NoValue
                         /\ ~HardStop(rules(x)) /\ EnforcesJurisdiction(b)
<1>1. ASSUME NEW x
      PROVE  LocalVerdict(b, x, req) =
                IF req.target \in b.granted
                THEN IF b.contained # "no" THEN Containment(b)
                     ELSE IF gate(x) = "block" THEN "block"
                     ELSE IF refused(x) THEN "block"
                     ELSE IF Permits(rules(x)) /\ gate(x) = "escalate" THEN "escalate"
                     ELSE rules(x)
                ELSE IF b.contained # "no" THEN Containment(b)
                ELSE "block"
    BY DEF LocalVerdict, EvaluateLocally, RuleContext
<1>2. gate(n) \in {"allow", "escalate", "block"}
    BY GateIs
<1>3. risk(m) \in 0..4 /\ risk(n) \in 0..4 /\ risk(m) <= risk(n)
    BY FloorIsALevel, RiskLevelIs DEF Higher
<1>4. gate(n) = "allow" => gate(m) = "allow"
    BY <1>3, LowerRiskGate
<1>5. ASSUME rules(n) = "allow"
      PROVE  rules(m) = "allow"
    <2>1. Allows(n, req) /\ \A q \in Molecules(b) : JudgedBy(q, RuleContext(n, req)) = "allow"
        BY <1>5, RulesDecide
    <2>2. ASSUME NEW q \in Molecules(b)
          PROVE  JudgedBy(q, RuleContext(m, req)) = "allow"
        <3>1. MoleculeOK(q)
            BY <2>2 DEF BundleOK, Molecules, Packs
        <3>2. ~MoleculeFires(q, RuleContext(n, req)) /\ MoleculeUnverifiable(q, RuleContext(n, req)) = {}
            BY <2>1, <2>2, <3>1, MoleculeDecides
        <3>3. /\ \A f \in Field \ {"riskLevel"} : RuleContext(m, req)[f] = RuleContext(n, req)[f]
              /\ RuleContext(m, req)["riskLevel"].source = RuleContext(n, req)["riskLevel"].source
              /\ \/ RuleContext(m, req)["riskLevel"].value = RuleContext(n, req)["riskLevel"].value
                 \/ /\ RuleContext(m, req)["riskLevel"].value \in 1..4
                    /\ RuleContext(n, req)["riskLevel"].value \in 1..4
                    /\ RuleContext(m, req)["riskLevel"].value <= RuleContext(n, req)["riskLevel"].value
            BY LowerFloor
        <3>4. /\ ~MoleculeFires(q, RuleContext(m, req))
              /\ MoleculeUnverifiable(q, RuleContext(m, req)) = {}
            BY <2>2, <3>1, <3>2, <3>3, SilentBelow
        <3> QED BY <3>1, <3>4, MoleculeDecides
    <2>3. Allows(m, req)
        BY <2>1
    <2> QED BY <2>2, <2>3, RulesDecide
<1> HIDE DEF gate, rules
<1>6. /\ b.contained = "no" /\ req.target \in b.granted /\ gate(n) = "allow"
      /\ rules(n) = "allow" /\ ~refused(n)
    <2>1. LocalVerdict(b, n, req) =
                IF req.target \in b.granted
                THEN IF b.contained # "no" THEN Containment(b)
                     ELSE IF gate(n) = "block" THEN "block"
                     ELSE IF refused(n) THEN "block"
                     ELSE IF Permits(rules(n)) /\ gate(n) = "escalate" THEN "escalate"
                     ELSE rules(n)
                ELSE IF b.contained # "no" THEN Containment(b)
                ELSE "block"
        BY <1>1
    <2> QED BY <1>2, <2>1 DEF Containment, Permits
<1>7. rules(m) = "allow" /\ gate(m) = "allow"
    BY <1>4, <1>5, <1>6
<1>8. ~refused(m)
    BY <1>6, <1>7
<1>9. LocalVerdict(b, m, req) =
                IF req.target \in b.granted
                THEN IF b.contained # "no" THEN Containment(b)
                     ELSE IF gate(m) = "block" THEN "block"
                     ELSE IF refused(m) THEN "block"
                     ELSE IF Permits(rules(m)) /\ gate(m) = "escalate" THEN "escalate"
                     ELSE rules(m)
                ELSE IF b.contained # "no" THEN Containment(b)
                ELSE "block"
    BY <1>1
<1> QED BY <1>6, <1>7, <1>8, <1>9

\* Under one bundle, no worker does what an agent above it may not.
THEOREM WorkersDoNoMore == GSpec => []DelegatedAllowsNoMore
<1>1. TypeOK /\ Bound /\ DelegatedGrantsNoMore => DelegatedAllowsNoMore
    <2> SUFFICES ASSUME TypeOK, Bound, DelegatedGrantsNoMore,
                        NEW i \in DOMAIN chain, NEW req \in SignedRequest,
                        KeptFrom(i), FloorKeptFrom(i, req),
                        \A m \in Molecules(bundle) : MindsRisk(m),
                        Verdict(req) = "allow"
                 PROVE  LocalVerdict(bundle, chain[i], req) = "allow"
        BY DEF DelegatedAllowsNoMore
    <2>1. BundleOK(bundle) /\ Worker \in Mandate /\ chain[i] \in Mandate
        BY BoundIsOK, WorkerIsMandate DEF Bound, TypeOK
    <2>2. Allows(Worker, req) => Allows(chain[i], req)
        BY SignedAssumption DEF DelegatedGrantsNoMore, Worker
    <2> QED BY <2>1, <2>2, AllowedBelow DEF FloorKeptFrom, Verdict
<1> QED BY <1>1, GovernedIsChain, ChainTypeCorrect, ChainGrantsNoMore, AlwaysBound, PTL
=============================================================================
