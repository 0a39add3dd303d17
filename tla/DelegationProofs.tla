-------------------------- MODULE DelegationProofs --------------------------
(***************************************************************************)
(* Proofs about Delegation, for any mandates, requests and depth.  Each    *)
(* property is inductive on the chain beside the types: the last mandate   *)
(* is compared with every one above it, and a hop is compared with the     *)
(* last mandate alone.                                                     *)
(***************************************************************************)
EXTENDS Delegation, WellFoundedInduction, TLAPS

\* A set of places has a first one.
LEMMA FirstIsOneOfThem ==
    ASSUME NEW S \in SUBSET Nat, S # {}
    PROVE  First(S) \in S
<1> DEFINE R == OpToRel(<, Nat)
<1>1. IsWellFoundedOn(R, Nat)
    BY NatLessThanWellFounded
<1>2. \A i, j \in Nat : j < i => <<j, i>> \in R
    BY DEF OpToRel
<1> HIDE DEF R
<1>3. PICK i \in S : \A j \in S : <<j, i>> \notin R
    BY <1>1, WFMin, Zenon
<1>4. \A j \in S : ~(j < i)
    BY <1>2, <1>3
<1>5. \A j \in S : i <= j
    BY <1>4
<1> QED BY <1>5 DEF First

\* A mandate allows a request in one way only: no refusal reads "allow".
LEMMA AllowedMeans ==
    ASSUME NEW m \in Mandate, NEW req
    PROVE  Allows(m, req) <=> /\ ~OutsideWindow(m, req.now)
                              /\ Firing(m, req) = {}
                              /\ Granting(m, req) # {}
<1> USE DEF Allows, EvaluateMandate
<1>0. MandateOK(m)
    BY MandateAssumption
<1>1. CASE OutsideWindow(m, req.now)
    BY <1>1
<1>2. CASE ~OutsideWindow(m, req.now) /\ Firing(m, req) # {}
    <2>1. Firing(m, req) \in SUBSET Nat
        BY <1>0 DEF Firing, About, MandateOK
    <2>2. First(Firing(m, req)) \in DOMAIN m.prohibition
        BY <2>1, <1>2, FirstIsOneOfThem DEF Firing, About
    <2> QED BY <1>0, <1>2, <2>2 DEF MandateOK, Refusal
<1>3. CASE /\ ~OutsideWindow(m, req.now) /\ Firing(m, req) = {}
           /\ PermissionsFor(m, req.target) # {} /\ Granting(m, req) = {}
    <2> DEFINE p == First(PermissionsFor(m, req.target))
               failing == {i \in DOMAIN m.permission[p].constraint :
                            ~ConstraintSatisfied(m.permission[p].constraint[i], req, TRUE)}
    <2>1. p \in PermissionsFor(m, req.target)
        BY <1>0, <1>3, FirstIsOneOfThem DEF PermissionsFor, About, MandateOK
    <2>2. p \in DOMAIN m.permission /\ RuleOK(m.permission[p])
        BY <1>0, <2>1 DEF PermissionsFor, About, MandateOK
    <2>3. failing # {}
        BY <1>3, <2>1 DEF Granting, AllSatisfied
    <2>4. failing \in SUBSET Nat
        BY <2>2 DEF RuleOK
    <2>5. First(failing) \in failing
        BY <2>3, <2>4, FirstIsOneOfThem
    <2>6. m.permission[p].constraint[First(failing)].onFail # "allow"
        BY <2>2, <2>5 DEF RuleOK, ConstraintOK, Refusal
    <2> QED BY <1>3, <2>6 DEF FirstFailing
<1>4. CASE /\ ~OutsideWindow(m, req.now) /\ Firing(m, req) = {}
           /\ PermissionsFor(m, req.target) = {}
    BY <1>4 DEF Granting
<1>5. CASE /\ ~OutsideWindow(m, req.now) /\ Firing(m, req) = {}
           /\ Granting(m, req) # {}
    BY <1>5 DEF Granting
<1> QED BY <1>1, <1>2, <1>3, <1>4, <1>5
-----------------------------------------------------------------------------
\* What passes the narrower constraint passes the wider one.
LEMMA NarrowerHolds ==
    ASSUME NEW pc, NEW cc, NEW v, ConstraintNarrows(pc, cc),
           Holds(cc.operator, v, cc.rightOperand)
    PROVE  Holds(pc.operator, v, pc.rightOperand)
BY DEF ConstraintNarrows, Holds, Less, LessEq

LEMMA NarrowerSatisfies ==
    ASSUME NEW pc, NEW cc, NEW req, ConstraintNarrows(pc, cc),
           pc.leftOperand = cc.leftOperand,
           pc.unit # {} => cc.unit # {} /\ cc.unit \subseteq pc.unit,
           ConstraintSatisfied(cc, req, TRUE)
    PROVE  ConstraintSatisfied(pc, req, TRUE)
<1>1. Holds(cc.operator, req.values[cc.leftOperand], cc.rightOperand)
    BY DEF ConstraintSatisfied
<1>2. Holds(pc.operator, req.values[pc.leftOperand], pc.rightOperand)
    BY <1>1, NarrowerHolds
<1>3. cc.unit # {} => UnitMatches(cc, req)
    BY DEF ConstraintSatisfied
<1>4. pc.operator \in Operators
    BY DEF ConstraintNarrows, ConstraintSatisfied
<1> QED BY <1>2, <1>3, <1>4 DEF ConstraintSatisfied, UnitMatches

\* One hop: the child is allowed no more than its parent.
LEMMA HopGrantsNoMore ==
    ASSUME NEW p \in Mandate, NEW c \in Mandate, NEW depth, NEW req,
           DelegationVerdict(p, c, depth), UnitsKept(p, c), ProhibitionsKept(p, c),
           Allows(c, req)
    PROVE  Allows(p, req)
<1>1. ~OutsideWindow(c, req.now) /\ Firing(c, req) = {} /\ Granting(c, req) # {}
    BY AllowedMeans
<1>2. ~OutsideWindow(p, req.now)
    BY <1>1 DEF OutsideWindow, DelegationVerdict, WindowNarrows, Less, LessEq
<1>3. Firing(p, req) = {}
    <2> SUFFICES ASSUME NEW i \in Firing(p, req) PROVE FALSE
        OBVIOUS
    <2>1. /\ i \in DOMAIN p.prohibition
          /\ TargetOf(p.prohibition[i], p) = req.target
          /\ \A k \in DOMAIN p.prohibition[i].constraint :
                ConstraintSatisfied(p.prohibition[i].constraint[k], req, FALSE)
        BY DEF Firing, About, AllSatisfied
    <2>2. PICK j \in About(c.prohibition, c, req.target) :
            ToSet(c.prohibition[j].constraint) \subseteq ToSet(p.prohibition[i].constraint)
        BY <2>1 DEF ProhibitionsKept
    <2>3. AllSatisfied(c.prohibition[j], req, FALSE)
        BY <2>1, <2>2 DEF AllSatisfied, ToSet
    <2>4. j \in Firing(c, req)
        BY <2>2, <2>3 DEF Firing
    <2> QED BY <1>1, <2>4
<1>4. PICK j \in Granting(c, req) : TRUE
    BY <1>1
<1>5. /\ j \in DOMAIN c.permission
      /\ TargetOf(c.permission[j], c) = req.target
      /\ AllSatisfied(c.permission[j], req, TRUE)
    BY <1>4 DEF Granting, PermissionsFor, About
<1>6. c.permission # <<>>
    BY <1>5
<1>7. CoveredBy(p, c.permission[j], req.target)
    BY <1>5, <1>6 DEF DelegationVerdict
<1>8. PICK i \in PermissionsFor(p, req.target) :
        PermissionNarrows(p.permission[i], c.permission[j])
    BY <1>7 DEF CoveredBy
<1>9. i \in DOMAIN p.permission
    BY <1>8 DEF PermissionsFor, About
<1>10. AllSatisfied(p.permission[i], req, TRUE)
    <2> SUFFICES ASSUME NEW k \in DOMAIN p.permission[i].constraint
                 PROVE  ConstraintSatisfied(p.permission[i].constraint[k], req, TRUE)
        BY DEF AllSatisfied
    <2> DEFINE pc == p.permission[i].constraint[k]
    <2>1. PICK l \in DOMAIN c.permission[j].constraint :
            /\ c.permission[j].constraint[l].leftOperand = pc.leftOperand
            /\ ConstraintNarrows(pc, c.permission[j].constraint[l])
        BY <1>8 DEF PermissionNarrows, ConstraintsNarrow
    <2> DEFINE cc == c.permission[j].constraint[l]
    <2>2. pc \in Constraints(p.permission) /\ cc \in Constraints(c.permission)
        BY <1>5, <1>9, <2>1 DEF Constraints, ToSet
    <2>3. pc.unit # {} => cc.unit # {} /\ cc.unit \subseteq pc.unit
        BY <2>1, <2>2 DEF UnitsKept
    <2>4. ConstraintSatisfied(cc, req, TRUE)
        BY <1>5, <2>1 DEF AllSatisfied
    <2> HIDE DEF pc, cc
    <2>5. ConstraintSatisfied(pc, req, TRUE)
        BY <2>1, <2>3, <2>4, NarrowerSatisfies DEF pc, cc
    <2> QED BY <2>5 DEF pc
<1>11. Granting(p, req) # {}
    BY <1>8, <1>10 DEF Granting
<1> QED BY <1>2, <1>3, <1>11, AllowedMeans
-----------------------------------------------------------------------------
\* A step appends one mandate, and leaves the rest of the chain alone.
LEMMA ChainGrows ==
    ASSUME TypeOK, NEW child \in Mandate, Delegate(child)
    PROVE  /\ Len(chain) \in Nat \ {0}
           /\ chain' \in Seq(Mandate)
           /\ Len(chain') = Len(chain) + 1
           /\ chain'[Len(chain')] = child
           /\ \A i \in 1..Len(chain) : chain'[i] = chain[i] /\ chain[i] \in Mandate
           /\ DOMAIN chain = 1..Len(chain)
           /\ DOMAIN chain' = 1..(Len(chain) + 1)
           /\ DelegationVerdict(chain[Len(chain)], child, Len(chain))
           /\ Len(chain) \in 1..MaxDelegationDepth
BY DEF TypeOK, Delegate, DelegationVerdict

\* Every chain is a sequence of mandates, no deeper than allowed.
THEOREM ChainTypeCorrect == Spec => []TypeOK
<1>1. Init => TypeOK
    <2> SUFFICES ASSUME NEW m \in Mandate, chain = <<m>> PROVE TypeOK
        BY DEF Init
    <2>1. chain \in Seq(Mandate) /\ Len(chain) = 1
        OBVIOUS
    <2> QED BY <2>1, DepthAssumption DEF TypeOK
<1>2. TypeOK /\ [Next]_chain => TypeOK'
    <2>1. ASSUME TypeOK, NEW child \in Mandate, Delegate(child)
          PROVE  TypeOK'
        BY <2>1, ChainGrows, DepthAssumption DEF TypeOK
    <2>2. CASE UNCHANGED chain
        BY <2>2 DEF TypeOK
    <2> QED BY <2>1, <2>2 DEF Next
<1> QED BY <1>1, <1>2, PTL DEF Spec

\* No agent down a chain is allowed what its mandate's ancestors refuse.
THEOREM ChainGrantsNoMore == Spec => []DelegatedGrantsNoMore
<1>1. Init => DelegatedGrantsNoMore
    BY DEF Init, DelegatedGrantsNoMore
<1>2. TypeOK /\ DelegatedGrantsNoMore /\ [Next]_chain => DelegatedGrantsNoMore'
    <2>1. ASSUME TypeOK, DelegatedGrantsNoMore, NEW child \in Mandate, Delegate(child)
          PROVE  DelegatedGrantsNoMore'
        <3> DEFINE n == Len(chain)
        <3>1. SUFFICES ASSUME NEW i \in DOMAIN chain', KeptFrom(i)',
                              NEW req \in Request, Allows(chain'[Len(chain')], req)
                       PROVE  Allows(chain'[i], req)
            BY DEF DelegatedGrantsNoMore
        <3>2. Allows(child, req)
            BY <2>1, <3>1, ChainGrows
        <3>3. CASE i = n + 1
            BY <2>1, <3>1, <3>3, ChainGrows
        <3>4. CASE i \in 1..n
            <4>1. UnitsKept(chain[n], child) /\ ProhibitionsKept(chain[n], child)
                BY <2>1, <3>1, <3>4, ChainGrows DEF KeptFrom
            <4>2. Allows(chain[n], req)
                BY <2>1, <3>2, <4>1, ChainGrows, HopGrantsNoMore
            <4>3. \A k \in i..(n - 1) :
                    UnitsKept(chain[k], chain[k + 1]) /\ ProhibitionsKept(chain[k], chain[k + 1])
                <5>1. SUFFICES ASSUME NEW k \in i..(n - 1)
                               PROVE  /\ UnitsKept(chain[k], chain[k + 1])
                                      /\ ProhibitionsKept(chain[k], chain[k + 1])
                    OBVIOUS
                <5>2. /\ k \in 1..n /\ k + 1 \in 1..n /\ k \in i..(Len(chain') - 1)
                    BY <2>1, <3>4, <5>1, ChainGrows
                <5>3. chain'[k] = chain[k] /\ chain'[k + 1] = chain[k + 1]
                    BY <2>1, <5>2, ChainGrows
                <5> QED BY <3>1, <5>2, <5>3 DEF KeptFrom
            <4>4. Allows(chain[i], req)
                BY <2>1, <3>4, <4>2, <4>3, ChainGrows DEF DelegatedGrantsNoMore, KeptFrom
            <4> QED BY <2>1, <3>4, <4>4, ChainGrows
        <3>5. i \in 1..(n + 1)
            BY <2>1, <3>1, ChainGrows
        <3> QED BY <2>1, <3>3, <3>4, <3>5, ChainGrows
    <2>2. CASE UNCHANGED chain
        BY <2>2 DEF DelegatedGrantsNoMore, KeptFrom
    <2> QED BY <2>1, <2>2 DEF Next
<1> QED BY <1>1, <1>2, ChainTypeCorrect, PTL DEF Spec
-----------------------------------------------------------------------------
\* A pattern below a pattern covers no more.
LEMMA CoversIsTransitive ==
    ASSUME NEW S, NEW a \in Seq(S), NEW b \in Seq(S), NEW c \in Seq(S),
           Covers(a, b), Covers(b, c)
    PROVE  Covers(a, c)
<1>1. Len(a) <= Len(c)
    BY DEF Covers
<1>2. ASSUME NEW i \in DOMAIN a, a[i] # Wildcard PROVE a[i] = c[i]
    <2>1. i \in DOMAIN b /\ a[i] = b[i]
        BY <1>2 DEF Covers
    <2> QED BY <1>2, <2>1 DEF Covers
<1> QED BY <1>1, <1>2 DEF Covers

\* One policy that narrows another lets less through and hides as much.
LEMMA NarrowerPolicy ==
    ASSUME NEW above, NEW here, NEW leaf \in Seq(Segment),
           above # NoPolicy, PolicyOK(above), PolicyOK(here), ArgumentsNarrow(above, here)
    PROVE  /\ above # Unusable
           /\ (\E a \in here.allow : Covers(a, leaf)) => (\E a \in above.allow : Covers(a, leaf))
           /\ \A s \in above.sensitive : Covers(s.path, leaf) =>
                \E t \in here.sensitive : Covers(t.path, leaf) /\ t.mode \in {s.mode, "redact"}
<1>1. above # Unusable /\ here # NoPolicy /\ here # Unusable /\ KeepsSensitive(above, here)
    BY DEF ArgumentsNarrow
<1>2. ASSUME NEW a \in here.allow, Covers(a, leaf)
      PROVE  \E b \in above.allow : Covers(b, leaf)
    <2>1. PICK b \in above.allow : Covers(b, a)
        BY DEF ArgumentsNarrow
    <2>2. a \in Seq(Segment) /\ b \in Seq(Segment)
        BY <1>1 DEF PolicyOK
    <2>3. Covers(b, leaf)
        BY <1>2, <2>1, <2>2, CoversIsTransitive
    <2> QED BY <2>3
<1> QED BY <1>1, <1>2 DEF KeepsSensitive

\* One hop: every policy of the parent is narrowed by a policy of the child.
LEMMA HopNarrowsPolicies ==
    ASSUME NEW p \in Mandate, NEW c \in Mandate, NEW depth, NEW action,
           DelegationVerdict(p, c, depth), PermissionsFor(c, action) # {}
    PROVE  /\ PermissionsFor(p, action) # {}
           /\ \A above \in ArgumentPolicies(p, action) :
                /\ above # NoPolicy /\ PolicyOK(above) /\ above # Unusable
                /\ \E here \in ArgumentPolicies(c, action) :
                    PolicyOK(here) /\ ArgumentsNarrow(above, here)
<1>1. PICK j \in PermissionsFor(c, action) : TRUE
    OBVIOUS
<1>2. j \in DOMAIN c.permission /\ TargetOf(c.permission[j], c) = action
    BY <1>1 DEF PermissionsFor, About
<1>3. c.permission # <<>>
    BY <1>2
<1>4. CoveredBy(p, c.permission[j], action)
    BY <1>2, <1>3 DEF DelegationVerdict
<1>5. PermissionsFor(p, action) # {}
    BY <1>4 DEF CoveredBy
<1>6. ASSUME NEW above \in ArgumentPolicies(p, action)
      PROVE  /\ above # NoPolicy /\ PolicyOK(above) /\ above # Unusable
             /\ \E here \in ArgumentPolicies(c, action) :
                    PolicyOK(here) /\ ArgumentsNarrow(above, here)
    <2>1. PICK i \in PermissionsFor(p, action) : above = p.permission[i].arguments
        BY DEF ArgumentPolicies
    <2>2. above # NoPolicy /\ PolicyOK(above)
        BY <2>1, MandateAssumption DEF ArgumentPolicies, PermissionsFor, About
    <2> DEFINE here == c.permission[j].arguments
    <2>3. ArgumentsNarrow(above, here)
        BY <1>4, <2>1 DEF CoveredBy
    <2>4. above # Unusable /\ here # NoPolicy
        BY <2>2, <2>3 DEF ArgumentsNarrow
    <2>5. PolicyOK(here)
        BY <1>2, MandateAssumption
    <2>6. here \in ArgumentPolicies(c, action)
        BY <1>1, <2>4 DEF ArgumentPolicies
    <2> QED BY <2>2, <2>3, <2>4, <2>5, <2>6
<1> QED BY <1>5, <1>6

LEMMA HopArgumentsFit ==
    ASSUME NEW p \in Mandate, NEW c \in Mandate, NEW depth, NEW action,
           DelegationVerdict(p, c, depth), PermissionsFor(c, action) # {},
           NEW leaves \in Leaves, CheckArguments(ArgumentPolicies(c, action), leaves)
    PROVE  /\ CheckArguments(ArgumentPolicies(p, action), leaves)
           /\ \A leaf \in leaves : HiddenAs(ArgumentPolicies(c, action), leaf)
                                    \in Weakly(HiddenAs(ArgumentPolicies(p, action), leaf))
<1> DEFINE AP == ArgumentPolicies(p, action)
           AC == ArgumentPolicies(c, action)
<1>1. \A above \in AP : /\ above # NoPolicy /\ above # Unusable /\ PolicyOK(above)
                       /\ \E here \in AC : PolicyOK(here) /\ ArgumentsNarrow(above, here)
    BY HopNarrowsPolicies
<1> HIDE DEF AP, AC
<1>2. CheckArguments(AC, leaves)
    BY DEF AC
<1>3. CheckArguments(AP, leaves)
    <2> SUFFICES ASSUME NEW above \in AP, NEW leaf \in leaves
                 PROVE  \E a \in above.allow : Covers(a, leaf)
        BY <1>1 DEF CheckArguments
    <2>1. PICK here \in AC : PolicyOK(here) /\ ArgumentsNarrow(above, here)
        BY <1>1
    <2>2. leaf \in Seq(Segment)
        BY LeavesAssumption
    <2>3. \E a \in here.allow : Covers(a, leaf)
        BY <1>2 DEF CheckArguments
    <2> QED BY <1>1, <2>1, <2>2, <2>3, NarrowerPolicy
<1>4. ASSUME NEW leaf \in leaves
      PROVE  HiddenAs(AC, leaf) \in Weakly(HiddenAs(AP, leaf))
    <2>1. ASSUME NEW mode \in Modes(AP, leaf)
          PROVE  mode \in Modes(AC, leaf) \/ "redact" \in Modes(AC, leaf)
        <3>0. PICK above \in AP : \E s \in above.sensitive : Covers(s.path, leaf) /\ s.mode = mode
            BY <2>1 DEF Modes
        <3>1. PICK s \in above.sensitive : Covers(s.path, leaf) /\ s.mode = mode
            BY <3>0
        <3>2. PICK here \in AC : PolicyOK(here) /\ ArgumentsNarrow(above, here)
            BY <1>1
        <3>3. leaf \in Seq(Segment)
            BY LeavesAssumption
        <3>4. PICK t \in here.sensitive : Covers(t.path, leaf) /\ t.mode \in {s.mode, "redact"}
            BY <1>1, <3>1, <3>2, <3>3, NarrowerPolicy
        <3> QED BY <3>1, <3>4 DEF Modes
    <2> QED BY <2>1 DEF HiddenAs, Weakly
<1> QED BY <1>3, <1>4 DEF AP, AC

\* The argument policies of a chain only ever narrow.
THEOREM ChainArgumentsFit == Spec => []DelegatedArgumentsFit
<1>0. \A policies, leaf : HiddenAs(policies, leaf) \in Weakly(HiddenAs(policies, leaf))
    BY DEF HiddenAs, Weakly
<1>1. Init => DelegatedArgumentsFit
    BY <1>0 DEF Init, DelegatedArgumentsFit
<1>2. TypeOK /\ DelegatedArgumentsFit /\ [Next]_chain => DelegatedArgumentsFit'
    <2>1. ASSUME TypeOK, DelegatedArgumentsFit, NEW child \in Mandate, Delegate(child)
          PROVE  DelegatedArgumentsFit'
        <3> DEFINE n == Len(chain)
        <3>1. SUFFICES ASSUME NEW i \in 1..(n + 1), NEW action \in Action, NEW leaves \in Leaves,
                              PermissionsFor(child, action) # {},
                              CheckArguments(ArgumentPolicies(child, action), leaves)
                       PROVE  /\ CheckArguments(ArgumentPolicies(chain'[i], action), leaves)
                              /\ \A leaf \in leaves :
                                    HiddenAs(ArgumentPolicies(child, action), leaf)
                                    \in Weakly(HiddenAs(ArgumentPolicies(chain'[i], action), leaf))
            BY <2>1, ChainGrows DEF DelegatedArgumentsFit
        <3>2. CASE i = n + 1
            BY <1>0, <2>1, <3>1, <3>2, ChainGrows
        <3>3. CASE i \in 1..n
            <4>1. /\ chain[n] \in Mandate /\ chain[i] \in Mandate /\ chain'[i] = chain[i]
                  /\ i \in DOMAIN chain
                  /\ DelegationVerdict(chain[n], child, n)
                BY <2>1, <3>3, ChainGrows
            <4>2. PermissionsFor(chain[n], action) # {}
                BY <3>1, <4>1, HopNarrowsPolicies
            <4>3. /\ CheckArguments(ArgumentPolicies(chain[n], action), leaves)
                  /\ \A leaf \in leaves : HiddenAs(ArgumentPolicies(child, action), leaf)
                        \in Weakly(HiddenAs(ArgumentPolicies(chain[n], action), leaf))
                BY <3>1, <4>1, HopArgumentsFit
            <4>4. /\ CheckArguments(ArgumentPolicies(chain[i], action), leaves)
                  /\ \A leaf \in leaves : HiddenAs(ArgumentPolicies(chain[n], action), leaf)
                        \in Weakly(HiddenAs(ArgumentPolicies(chain[i], action), leaf))
                BY <2>1, <4>1, <4>2, <4>3 DEF DelegatedArgumentsFit
            <4>5. \A x, y, z : x \in Weakly(y) /\ y \in Weakly(z) => x \in Weakly(z)
                BY DEF Weakly
            <4> QED BY <4>1, <4>3, <4>4, <4>5
        <3> QED BY <3>2, <3>3, <2>1, ChainGrows
    <2>2. CASE UNCHANGED chain
        BY <2>2 DEF DelegatedArgumentsFit
    <2> QED BY <2>1, <2>2 DEF Next
<1> QED BY <1>1, <1>2, ChainTypeCorrect, PTL DEF Spec
-----------------------------------------------------------------------------
GrantedOnce(mandate, action) == \A p, q \in PermissionsFor(mandate, action) : p = q

\* One hop: the only permission of the parent is the one that covers.
LEMMA HopKeepsScrutiny ==
    ASSUME NEW p \in Mandate, NEW c \in Mandate, NEW depth, NEW action,
           DelegationVerdict(p, c, depth), PermissionsFor(c, action) # {},
           GrantedOnce(p, action)
    PROVE  /\ PermissionsFor(p, action) # {}
           /\ \A level \in 1..4 : RiskFloorAtLeast(p, action, level) => RiskFloorAtLeast(c, action, level)
           /\ RequiresPayloadBinding(p, action) => RequiresPayloadBinding(c, action)
<1>1. PICK j \in PermissionsFor(c, action) : TRUE
    OBVIOUS
<1>2. j \in DOMAIN c.permission /\ TargetOf(c.permission[j], c) = action
    BY <1>1 DEF PermissionsFor, About
<1>3. c.permission # <<>>
    BY <1>2
<1>4. PICK i \in PermissionsFor(p, action) : PermissionNarrows(p.permission[i], c.permission[j])
    BY <1>2, <1>3 DEF DelegationVerdict, CoveredBy
<1>5. \A k \in PermissionsFor(p, action) : k = i
    BY <1>4 DEF GrantedOnce
<1>6. RiskLevel(p.permission[i].riskTier) <= RiskLevel(c.permission[j].riskTier)
    BY <1>4 DEF PermissionNarrows, RiskTierNarrows
<1>7. ASSUME NEW level \in 1..4, RiskFloorAtLeast(p, action, level)
      PROVE  RiskFloorAtLeast(c, action, level)
    <2>1. RiskLevel(p.permission[i].riskTier) >= level
        BY <1>5, <1>7 DEF RiskFloorAtLeast
    <2>2. RiskLevel(c.permission[j].riskTier) >= level
        BY <1>6, <2>1 DEF RiskLevel
    <2> QED BY <1>1, <2>2 DEF RiskFloorAtLeast
<1>8. RequiresPayloadBinding(p, action) => RequiresPayloadBinding(c, action)
    BY <1>1, <1>4, <1>5 DEF RequiresPayloadBinding, PermissionNarrows, BindingNarrows
<1> QED BY <1>4, <1>7, <1>8

\* The risk floor and the payload binding of an action survive a chain that
\* grants it once.
THEOREM ChainKeepsScrutiny == Spec => []ScrutinyNeverFalls
<1>1. Init => ScrutinyNeverFalls
    BY DEF Init, ScrutinyNeverFalls
<1>2. TypeOK /\ ScrutinyNeverFalls /\ [Next]_chain => ScrutinyNeverFalls'
    <2>1. ASSUME TypeOK, ScrutinyNeverFalls, NEW child \in Mandate, Delegate(child)
          PROVE  ScrutinyNeverFalls'
        <3> DEFINE n == Len(chain)
        <3>1. SUFFICES ASSUME NEW i \in DOMAIN chain', NEW action \in Action,
                              \A k \in i..Len(chain') :
                                \A p, q \in PermissionsFor(chain'[k], action) : p = q,
                              PermissionsFor(chain'[Len(chain')], action) # {}
                       PROVE  /\ \A level \in 1..4 :
                                    RiskFloorAtLeast(chain'[i], action, level) =>
                                        RiskFloorAtLeast(chain'[Len(chain')], action, level)
                              /\ RequiresPayloadBinding(chain'[i], action) =>
                                    RequiresPayloadBinding(chain'[Len(chain')], action)
            BY DEF ScrutinyNeverFalls
        <3>2. Len(chain') = n + 1 /\ chain'[n + 1] = child /\ i \in 1..(n + 1)
            BY <2>1, ChainGrows
        <3>3. CASE i = n + 1
            BY <3>2, <3>3
        <3>4. CASE i \in 1..n
            <4>1. /\ chain[n] \in Mandate /\ chain'[i] = chain[i] /\ i \in DOMAIN chain
                  /\ DelegationVerdict(chain[n], child, n)
                BY <2>1, <3>4, ChainGrows
            <4>2. \A k \in i..n : GrantedOnce(chain[k], action)
                <5>1. SUFFICES ASSUME NEW k \in i..n PROVE GrantedOnce(chain[k], action)
                    OBVIOUS
                <5>2. k \in 1..n /\ k \in i..(n + 1)
                    BY <2>1, <3>4, <5>1, ChainGrows
                <5> QED BY <2>1, <3>2, <3>1, <5>2, ChainGrows DEF GrantedOnce
            <4>3. GrantedOnce(chain[n], action)
                BY <2>1, <3>4, <4>2, ChainGrows
            <4>4. /\ PermissionsFor(chain[n], action) # {}
                  /\ \A level \in 1..4 : RiskFloorAtLeast(chain[n], action, level) =>
                                         RiskFloorAtLeast(child, action, level)
                  /\ RequiresPayloadBinding(chain[n], action) => RequiresPayloadBinding(child, action)
                BY <3>2, <3>1, <4>1, <4>3, HopKeepsScrutiny
            <4>5. /\ \A level \in 1..4 : RiskFloorAtLeast(chain[i], action, level) =>
                                         RiskFloorAtLeast(chain[n], action, level)
                  /\ RequiresPayloadBinding(chain[i], action) =>
                        RequiresPayloadBinding(chain[n], action)
                BY <2>1, <4>1, <4>2, <4>4 DEF ScrutinyNeverFalls, GrantedOnce
            <4> QED BY <3>2, <4>1, <4>4, <4>5
        <3> QED BY <3>2, <3>3, <3>4, <2>1, ChainGrows
    <2>2. CASE UNCHANGED chain
        BY <2>2 DEF ScrutinyNeverFalls
    <2> QED BY <2>1, <2>2 DEF Next
<1> QED BY <1>1, <1>2, ChainTypeCorrect, PTL DEF Spec
-----------------------------------------------------------------------------
\* A constraint on another operand reads the same whatever the currency; one
\* with a unit is proven only by a currency, and ruled out only by one.
LEMMA NamingACurrency ==
    ASSUME NEW c, c.leftOperand \in Operand, c.leftOperand # Currency, NEW req, NEW money,
           req.values[Currency] = NoValue
    PROVE  /\ ConstraintSatisfied(c, req, TRUE) => ConstraintSatisfied(c, Naming(req, money), TRUE)
           /\ ConstraintSatisfied(c, Naming(req, money), FALSE) => ConstraintSatisfied(c, req, FALSE)
<1>1. Naming(req, money).values[c.leftOperand] = req.values[c.leftOperand]
    BY DEF Naming
<1>2. ~UnitMatches(c, req)
    BY DEF UnitMatches
<1> QED BY <1>1, <1>2 DEF ConstraintSatisfied

LEMMA NoCurrencyIsNoBetter ==
    ASSUME NEW m \in Mandate, NEW req, NEW money, req.values[Currency] = NoValue,
           \A c \in Constraints(m.permission) \cup Constraints(m.prohibition) : c.leftOperand # Currency,
           Allows(m, req)
    PROVE  Allows(m, Naming(req, money))
<1> DEFINE named == Naming(req, money)
<1>1. ~OutsideWindow(m, req.now) /\ Firing(m, req) = {} /\ Granting(m, req) # {}
    BY AllowedMeans
<1>2. named.now = req.now /\ named.target = req.target
    BY DEF Naming
<1>3. MandateOK(m)
    BY MandateAssumption
<1>4. ASSUME NEW i \in DOMAIN m.permission, NEW k \in DOMAIN m.permission[i].constraint,
             ConstraintSatisfied(m.permission[i].constraint[k], req, TRUE)
      PROVE  ConstraintSatisfied(m.permission[i].constraint[k], named, TRUE)
    <2>1. m.permission[i].constraint[k].leftOperand \in Operand
        BY <1>3 DEF MandateOK, RuleOK, ConstraintOK
    <2>2. m.permission[i].constraint[k].leftOperand # Currency
        BY DEF Constraints, ToSet
    <2> QED BY <1>4, <2>1, <2>2, NamingACurrency
<1>5. ASSUME NEW i \in DOMAIN m.prohibition, NEW k \in DOMAIN m.prohibition[i].constraint,
             ConstraintSatisfied(m.prohibition[i].constraint[k], named, FALSE)
      PROVE  ConstraintSatisfied(m.prohibition[i].constraint[k], req, FALSE)
    <2>1. m.prohibition[i].constraint[k].leftOperand \in Operand
        BY <1>3 DEF MandateOK, RuleOK, ConstraintOK
    <2>2. m.prohibition[i].constraint[k].leftOperand # Currency
        BY DEF Constraints, ToSet
    <2> QED BY <1>5, <2>1, <2>2, NamingACurrency
<1> HIDE DEF named
<1>6. Firing(m, named) \subseteq Firing(m, req)
    BY <1>2, <1>5 DEF Firing, About, AllSatisfied
<1>7. Granting(m, req) \subseteq Granting(m, named)
    BY <1>2, <1>4 DEF Granting, PermissionsFor, About, AllSatisfied
<1>8. Allows(m, named)
    BY <1>1, <1>2, <1>6, <1>7, AllowedMeans
<1> QED BY <1>8 DEF named

\* Leaving the currency out of a request never gets it allowed.
THEOREM CurrencyCannotBeDodged == Spec => []NoCurrencyNeverHelps
<1>1. TypeOK => NoCurrencyNeverHelps
    <2> SUFFICES ASSUME TypeOK PROVE NoCurrencyNeverHelps
        OBVIOUS
    <2>1. chain[Len(chain)] \in Mandate
        BY DEF TypeOK
    <2> QED BY <2>1, NoCurrencyIsNoBetter DEF NoCurrencyNeverHelps
<1> QED BY <1>1, ChainTypeCorrect, PTL
=============================================================================
