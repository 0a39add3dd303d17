----------------------------- MODULE Delegation -----------------------------
(***************************************************************************)
(* A chain of delegated mandates (delegation.ts): the principal issues the *)
(* first, and each agent may hand a narrower one to the next.              *)
(***************************************************************************)
EXTENDS Mandates, Arguments

CONSTANTS
    Mandate,    \* the documents an agent may try to delegate
    Action,     \* actions a request may name
    Request,    \* requests: [target, now, values]
    Money,      \* currencies
    Leaves,     \* sets of paths that the arguments of a call may carry
    MaxDelegationDepth  \* MAX_DELEGATION_DEPTH

ASSUME DepthAssumption == MaxDelegationDepth \in Nat
ASSUME MandateAssumption == \A m \in Mandate :
    MandateOK(m) /\ \A i \in DOMAIN m.permission : PolicyOK(m.permission[i].arguments)
ASSUME LeavesAssumption == \A leaves \in Leaves : \A leaf \in leaves : leaf \in Seq(Segment)

VARIABLE chain  \* the mandates from the principal's down

Init == chain \in {<<m>> : m \in Mandate}
-----------------------------------------------------------------------------
\* Mutant: a smaller deny-list narrows, like a smaller allow-list.
ConstraintNarrowsInverted(parent, child) ==
    /\ parent.operator = child.operator
    /\ \/ /\ parent.operator \in {"lteq", "lt", "before"}
          /\ LessEq(The(child.rightOperand), The(parent.rightOperand))
       \/ /\ parent.operator \in {"gteq", "gt", "after"}
          /\ LessEq(The(parent.rightOperand), The(child.rightOperand))
       \/ /\ parent.operator \in {"isAnyOf", "isPartOf", "isNoneOf"}
          /\ child.rightOperand \subseteq parent.rightOperand
       \/ /\ parent.operator \in {"eq", "neq"}
          /\ parent.rightOperand = child.rightOperand

\* constraintNarrows: TRUE where the code says true; false and null (cannot
\* be compared) refuse alike.
ConstraintNarrows(parent, child) ==
    /\ parent.operator = child.operator
    /\ \/ /\ parent.operator \in {"lteq", "lt", "before"}
          /\ LessEq(The(child.rightOperand), The(parent.rightOperand))
       \/ /\ parent.operator \in {"gteq", "gt", "after"}
          /\ LessEq(The(parent.rightOperand), The(child.rightOperand))
       \/ /\ parent.operator \in {"isAnyOf", "isPartOf"}
          /\ child.rightOperand \subseteq parent.rightOperand
       \/ /\ parent.operator = "isNoneOf"
          /\ parent.rightOperand \subseteq child.rightOperand
       \/ /\ parent.operator \in {"eq", "neq"}
          /\ parent.rightOperand = child.rightOperand

\* Every constraint of the parent is met by one of the child on its operand.
ConstraintsNarrow(parent, child) ==
    \A i \in DOMAIN parent.constraint : \E j \in DOMAIN child.constraint :
        /\ child.constraint[j].leftOperand = parent.constraint[i].leftOperand
        /\ ConstraintNarrows(parent.constraint[i], child.constraint[j])

\* normalizeRiskLevel: a tier that is no level is no floor (0 is below all).
RiskLevel(tier) == IF tier \in 1..4 THEN tier ELSE 0

\* Mutant: a tier the parent set may be dropped.
RiskTierNarrowsLax(parent, child) ==
    child.riskTier # NoValue => RiskLevel(parent.riskTier) <= RiskLevel(child.riskTier)

RiskTierNarrows(parent, child) ==
    /\ child.riskTier = NoValue \/ RiskLevel(child.riskTier) > 0
    /\ RiskLevel(parent.riskTier) <= RiskLevel(child.riskTier)

BindingNarrows(parent, child) ==
    /\ child.requirePayloadBinding \in {NoValue, TRUE, FALSE}
    /\ parent.requirePayloadBinding = TRUE => child.requirePayloadBinding = TRUE

PermissionNarrows(parent, child) ==
    /\ ConstraintsNarrow(parent, child)
    /\ RiskTierNarrows(parent, child)
    /\ BindingNarrows(parent, child)
    /\ ArgumentsNarrow(parent.arguments, child.arguments)

WindowNarrows(parent, child) ==
    /\ parent.validFrom \in Int => LessEq(parent.validFrom, child.validFrom)
    /\ parent.validUntil \in Int => LessEq(child.validUntil, parent.validUntil)

\* Any one permission of the parent may cover the child's, but the argument
\* policy of every one of them binds.
CoveredBy(parent, cp, action) ==
    LET candidates == {parent.permission[i] : i \in PermissionsFor(parent, action)}
    IN /\ action # NoValue
       /\ \E pp \in candidates : PermissionNarrows(pp, cp)
       /\ \A pp \in candidates : ArgumentsNarrow(pp.arguments, cp.arguments)

\* A prohibition is kept by any prohibition of the child on its target.
ProhibitionsNarrow(parent, child) ==
    \A i \in DOMAIN parent.prohibition :
        About(child.prohibition, child, TargetOf(parent.prohibition[i], parent)) # {}

\* Mutant: the depth is that of the parent, one less than the child's.
DelegationVerdictOneDeeper(parent, child, depth) ==
    /\ depth - 1 \in 0..MaxDelegationDepth
    /\ WindowNarrows(parent, child)
    /\ child.permission # <<>> =>
        /\ \A i \in DOMAIN child.permission :
            CoveredBy(parent, child.permission[i], TargetOf(child.permission[i], child))
        /\ ProhibitionsNarrow(parent, child)

\* delegationVerdict(parent, child, depth).ok
DelegationVerdict(parent, child, depth) ==
    /\ depth \in 1..MaxDelegationDepth
    /\ WindowNarrows(parent, child)
    /\ child.permission # <<>> =>
        /\ \A i \in DOMAIN child.permission :
            CoveredBy(parent, child.permission[i], TargetOf(child.permission[i], child))
        /\ ProhibitionsNarrow(parent, child)

\* The agent at the end of the chain delegates to one more.
Delegate(child) ==
    /\ DelegationVerdict(chain[Len(chain)], child, Len(chain))
    /\ chain' = Append(chain, child)

Next == \E child \in Mandate : Delegate(child)

Spec == Init /\ [][Next]_chain
-----------------------------------------------------------------------------
\* A chain of mandates that ends: the principal's and MaxDelegationDepth more.
TypeOK == chain \in Seq(Mandate) /\ Len(chain) \in 1..(MaxDelegationDepth + 1)

\* riskFloorFor and requiresPayloadBindingFor: the strictest grant counts.
RiskFloorAtLeast(mandate, action, level) ==
    \E i \in PermissionsFor(mandate, action) :
        RiskLevel(mandate.permission[i].riskTier) >= level
RequiresPayloadBinding(mandate, action) ==
    \E i \in PermissionsFor(mandate, action) :
        mandate.permission[i].requirePayloadBinding = TRUE

\* argumentPoliciesFor: all of them bind.
ArgumentPolicies(mandate, action) ==
    {mandate.permission[i].arguments : i \in PermissionsFor(mandate, action)} \ {NoPolicy}

Constraints(rules) == UNION {ToSet(rules[i].constraint) : i \in DOMAIN rules}

\* What delegationVerdict does not compare: the units of constraints on one
\* operand, and the constraints of a prohibition that is kept.
UnitsKept(parent, child) ==
    \A pc \in Constraints(parent.permission), cc \in Constraints(child.permission) :
        pc.leftOperand = cc.leftOperand /\ pc.unit # {} =>
            cc.unit # {} /\ cc.unit \subseteq pc.unit
ProhibitionsKept(parent, child) ==
    \A i \in DOMAIN parent.prohibition :
        \E j \in About(child.prohibition, child, TargetOf(parent.prohibition[i], parent)) :
            ToSet(child.prohibition[j].constraint) \subseteq ToSet(parent.prohibition[i].constraint)

\* From one mandate of the chain to its end, every hop kept both.
KeptFrom(i) == \A k \in i..(Len(chain) - 1) :
    UnitsKept(chain[k], chain[k + 1]) /\ ProhibitionsKept(chain[k], chain[k + 1])

\* Whatever an agent at the end of a chain is allowed was allowed to every
\* agent above it, for each operator, absent value, currency and time, if no
\* hop drops a unit or adds to a prohibition's conditions (delegationVerdict).
DelegatedGrantsNoMore ==
    \A i \in DOMAIN chain : KeptFrom(i) =>
        \A req \in Request : Allows(chain[Len(chain)], req) => Allows(chain[i], req)

Weakly(mode) == IF mode = "redact" THEN {"redact"}
                ELSE IF mode = "hmac" THEN {"redact", "hmac"}
                ELSE {"redact", "hmac", "clear"}

\* Arguments that the policies at the end of the chain let through are let
\* through by those of every agent above, and no value an owner above wanted
\* hidden leaves in the clear, or linkable where it was to be redacted.
DelegatedArgumentsFit ==
    \A i \in DOMAIN chain, action \in Action, leaves \in Leaves :
        LET above == ArgumentPolicies(chain[i], action)
            here == ArgumentPolicies(chain[Len(chain)], action)
        IN PermissionsFor(chain[Len(chain)], action) # {} /\ CheckArguments(here, leaves) =>
            /\ CheckArguments(above, leaves)
            /\ \A leaf \in leaves : HiddenAs(here, leaf) \in Weakly(HiddenAs(above, leaf))

\* An action granted by one permission per mandate keeps the scrutiny of
\* every owner above: the risk floor is not lowered and the payload binding
\* not dropped.  (Granted by several, it may lose both: any one of them may
\* cover the child, while the strictest counts in riskFloorFor.)
ScrutinyNeverFalls ==
    \A i \in DOMAIN chain, action \in Action :
        LET end == chain[Len(chain)]
            once == \A k \in i..Len(chain) :
                \A p, q \in PermissionsFor(chain[k], action) : p = q
        IN once /\ PermissionsFor(end, action) # {} =>
            /\ \A level \in 1..4 : RiskFloorAtLeast(chain[i], action, level) =>
                                   RiskFloorAtLeast(end, action, level)
            /\ RequiresPayloadBinding(chain[i], action) => RequiresPayloadBinding(end, action)

Naming(req, money) ==
    [target |-> req.target, now |-> req.now,
     values |-> [o \in Operand |-> IF o = Currency THEN money ELSE req.values[o]]]

\* A request that names no currency is never allowed where the same request
\* in some currency is refused, as long as currencies are stated by units:
\* leaving the currency out dodges neither a cap nor a prohibition.
NoCurrencyNeverHelps ==
    LET end == chain[Len(chain)]
        byUnits == \A c \in Constraints(end.permission) \cup Constraints(end.prohibition) :
            c.leftOperand # Currency
    IN byUnits => \A req \in Request, money \in Money :
        req.values[Currency] = NoValue /\ Allows(end, req) => Allows(end, Naming(req, money))
=============================================================================
