------------------------------- MODULE Rules -------------------------------
(***************************************************************************)
(* The rules a request is judged by beside its mandate (standards-rules.ts,*)
(* atom-registry.ts, provenance.ts, operating-mode.ts, evaluate.ts).  A    *)
(* document is a set of molecules [combinator, atoms, decision, require],  *)
(* a molecule a set of atoms combined, and a context gives every field     *)
(* [value, source]: source says how far the value can be relied on.        *)
(* Reason codes, and so the order of documents and molecules, are left out.*)
(* Risk levels are 1..4 as in Delegation, amounts integers, a share of a   *)
(* cap is in percent, and what cannot be read as either is another value.  *)
(***************************************************************************)
EXTENDS Delegation

CONSTANTS
    Amount, Merchant, Jurisdiction,  \* operands mm:payAmount, mm:merchant, mm:jurisdiction
    NumberField,         \* fields of kind number (FIELD_KINDS)
    PlainField,          \* the other fields an atom reads, none of them signed
    ElementsOf,          \* [value that is a list -> set of its elements]
    Malformed,           \* a value, or an element, that is an object or a list
    SupervisedAmountCap  \* SUPERVISED_AMOUNT_CAP

ASSUME FieldAssumption ==
    {"riskLevel", "jurisdiction", "currency"} \cap NumberField = {} /\ "amount" \in NumberField

Field == {"riskLevel", "jurisdiction", "currency", "merchant"} \cup NumberField \cup PlainField

\* PRECEDENCE
Decision == {"allow", "observe", "escalate", "block", "suspend", "quarantine", "decommission"}
Precedence ==
    [d \in Decision |->
        CASE d = "allow" -> 0 [] d = "observe" -> 1 [] d = "escalate" -> 2 [] d = "block" -> 3
          [] d = "suspend" -> 4 [] d = "quarantine" -> 5 [] d = "decommission" -> 6]

\* The most restrictive decision of a set, "allow" if there is none.
MostRestrictive(decisions) ==
    CHOOSE d \in decisions \cup {"allow"} :
        \A e \in decisions : Precedence[e] <= Precedence[d]

\* The request may be executed, be it under monitoring.
Permits(decision) == decision \in {"allow", "observe"}

\* PROVENANCE_RANK
AgentAsserted == 0
AgentSigned == 1
GatewayDerived == 2
Authoritative == 3
Attested == 4

\* maxRisk
Higher(level, other) == IF level >= other THEN level ELSE other
-----------------------------------------------------------------------------
(***************************************************************************)
(* The context (buildRuleContext).                                         *)
(***************************************************************************)
\* riskFloorFor: the highest tier of the grants of an action; 0 is none.
RiskFloorFor(mandate, action) ==
    Max({level \in 0..4 : level = 0 \/ RiskFloorAtLeast(mandate, action, level)})

\* riskSignalSettings: the shares of a cap the owner wants reviewed.  An
\* unusable share counts as none.
AmountShares(mandate, action) ==
    {IF signals = NoValue THEN 70 ELSE signals :
        signals \in {mandate.permission[i].riskSignals : i \in PermissionsFor(mandate, action)}}
    \cap 1..100

\* perTxnCapFor
PerTxnCaps(mandate, action) ==
    LET constraints == UNION {ToSet(mandate.permission[i].constraint) :
                                i \in PermissionsFor(mandate, action)}
        amounts == {The(c.rightOperand) : c \in {d \in constraints : d.leftOperand = Amount}}
    IN {cap \in amounts : cap \in Int /\ cap > 0}

\* riskSignalsFor: the smallest share of the tightest cap, so any of them.
IsLargeShare(mandate, action, amount) ==
    \E share \in AmountShares(mandate, action), cap \in PerTxnCaps(mandate, action) :
        amount > 0 /\ 100 * amount >= share * cap

\* effectiveRiskFloor
EffectiveRiskFloor(mandate, action, amount) ==
    Higher(RiskFloorFor(mandate, action),
           IF IsLargeShare(mandate, action, amount) THEN 3 ELSE 0)

\* Mutant: what the agent claims comes first.
RiskClaimFirst(claimed, derived, floor) ==
    IF RiskLevel(claimed) > 0
    THEN [value |-> claimed, source |-> AgentAsserted]
    ELSE [value |-> Higher(floor, RiskLevel(derived)), source |-> Authoritative]

\* riskLevel is merged: the agent may raise what is known, never lower it.
MergedRisk(claimed, derived, floor) ==
    LET trusted == Higher(floor, RiskLevel(derived))
    IN IF trusted > 0
       THEN [value |-> Higher(trusted, RiskLevel(claimed)),
             source |-> IF floor > 0 THEN Authoritative ELSE GatewayDerived]
       ELSE [value |-> claimed, source |-> AgentAsserted]

\* Any other field is what the most trusted layer says of it.
BuildRuleContext(unsigned, signed, derived, floor) ==
    [f \in Field |->
        IF f = "riskLevel" THEN MergedRisk(unsigned[f], derived[f], floor)
        ELSE IF derived[f] # NoValue THEN [value |-> derived[f], source |-> GatewayDerived]
        ELSE IF signed[f] # NoValue THEN [value |-> signed[f], source |-> AgentSigned]
        ELSE [value |-> unsigned[f], source |-> AgentAsserted]]
-----------------------------------------------------------------------------
(***************************************************************************)
(* Atoms and molecules.                                                    *)
(***************************************************************************)
CurrencyOutOfScope(ctx, scope) == scope # {} /\ ctx["currency"].value \notin scope

\* Number(v ?? 0) + Number(w ?? 0) > limit; what is no number compares false.
SumExceeds(v, w, limit) ==
    LET Num(u) == IF u = NoValue THEN 0 ELSE u
    IN Num(v) \in Int /\ Num(w) \in Int /\ Num(v) + Num(w) > limit

\* Mutant: only that very level.
RiskIsExactly(value, level) == RiskLevel(value) = level

\* risk-at-or-above: what is no level fires nothing, asked for or claimed.
RiskAtOrAbove(value, level) == level \in 1..4 /\ RiskLevel(value) >= level

\* contextValueMatch: a list is judged by its elements.
Elements(value) ==
    IF value = NoValue THEN {}
    ELSE IF value \in DOMAIN ElementsOf THEN ElementsOf[value] ELSE {value}

\* ATOM_REGISTRY.  The allow-list atoms are "not-allowed" of their field, and
\* context-value-in and -not-in say what a missing field means; what
\* cannot be compared fires either.
AtomFires(a, ctx) ==
    LET value == ctx[a.field].value
    IN \/ a.predicate = "risk-at-or-above" /\ RiskAtOrAbove(value, a.level)
       \/ a.predicate = "amount-over"
          /\ value \in Int /\ (CurrencyOutOfScope(ctx, a.scope) \/ value > a.limit)
       \/ a.predicate = "cumulative-over"
          /\ (CurrencyOutOfScope(ctx, a.scope) \/ SumExceeds(value, ctx["amount"].value, a.limit))
       \/ a.predicate = "amount-unknown" /\ value \notin Nat
       \/ a.predicate = "not-allowed" /\ value \notin a.allowed \cup {NoValue}
       \/ a.predicate = "context-value-in"
          /\ IF Elements(value) = {} THEN a.missing
             ELSE \E e \in Elements(value) : e = Malformed \/ e \in a.values
       \/ a.predicate = "context-value-not-in"
          /\ IF Elements(value) = {} THEN a.missing
             ELSE \E e \in Elements(value) : e = Malformed \/ e \notin a.values
       \/ a.predicate = "evidence-confidence-below"
          /\ a.min > 0 /\ (value \in Int => value < a.min)

MoleculeFires(m, ctx) ==
    /\ m.atoms # {}
    /\ \/ m.combinator = "all" /\ \A a \in m.atoms : AtomFires(a, ctx)
       \/ m.combinator = "any" /\ \E a \in m.atoms : AtomFires(a, ctx)
       \/ m.combinator = "none" /\ \A a \in m.atoms : ~AtomFires(a, ctx)

AsksForRisk(m) == \E a \in m.atoms : a.predicate = "risk-at-or-above"

\* requiredContextOf: the levels of trust a field must meet, all of them.  A
\* level that is none reads as the strictest.
RequiredContextOf(m, f) ==
    (IF f = "riskLevel" /\ AsksForRisk(m) THEN {AgentAsserted} ELSE {})
    \cup (IF f \in DOMAIN m.require
          THEN {IF m.require[f] \in 0..4 THEN m.require[f] ELSE Attested}
          ELSE {})

\* contextFieldProblem
ContextFieldProblem(ctx, f) ==
    \/ ctx[f].value = NoValue
    \/ f = "riskLevel" /\ RiskLevel(ctx[f].value) = 0
    \/ f \in NumberField /\ ctx[f].value \notin Int

MoleculeUnverifiable(m, ctx) ==
    {f \in Field : \E least \in RequiredContextOf(m, f) :
        ContextFieldProblem(ctx, f) \/ ctx[f].source < least}

\* What a molecule says: one that cannot be judged counts as an escalate.
JudgedBy(m, ctx) ==
    MostRestrictive((IF MoleculeFires(m, ctx) THEN {m.decision} ELSE {})
                    \cup (IF MoleculeUnverifiable(m, ctx) # {} THEN {"escalate"} ELSE {}))

EvaluateStandardRules(document, ctx) ==
    MostRestrictive({JudgedBy(m, ctx) : m \in document})

\* Mutant: any standard that permits is enough.
EvaluateBoundStandardsLenient(documents, ctx) ==
    IF \E d \in documents : EvaluateStandardRules(d, ctx) = "allow" THEN "allow"
    ELSE MostRestrictive({EvaluateStandardRules(d, ctx) : d \in documents})

EvaluateBoundStandards(documents, ctx) ==
    MostRestrictive({EvaluateStandardRules(d, ctx) : d \in documents})

\* Authority, standards, SOPs and mandate: only the reason depends on the order.
Evaluate(standards, sops, mandate, req, ctx) ==
    MostRestrictive({EvaluateMandate(mandate, req).decision,
                     EvaluateBoundStandards(standards, ctx),
                     EvaluateBoundStandards(sops, ctx)})

\* documentEnforcesJurisdiction
DocumentEnforcesJurisdiction(document) ==
    \E m \in document : m.decision # "observe" /\ \E a \in m.atoms :
        a.predicate = "not-allowed" /\ a.field = "jurisdiction"
-----------------------------------------------------------------------------
\* The bias of an operating mode; a mode that is none is autonomous.
OperatingModeGate(mode, amount, risk) ==
    IF amount <= 0 THEN "allow"
    ELSE IF mode = "read_only" THEN "block"
    ELSE IF mode = "restricted" THEN "escalate"
    ELSE IF mode = "supervised" /\ (risk >= 3 \/ amount >= SupervisedAmountCap) THEN "escalate"
    ELSE "allow"
=============================================================================
