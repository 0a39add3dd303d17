------------------------------ MODULE Mandates ------------------------------
(***************************************************************************)
(* The evaluation of one request against one mandate (mandate-eval.ts): a  *)
(* window of validity, prohibitions that win, permissions that grant when  *)
(* all their constraints are proven.                                       *)
(*                                                                         *)
(* A mandate is [target, permission, prohibition, validFrom, validUntil],  *)
(* a rule [target, constraint, ...] and a constraint [leftOperand,         *)
(* operator, rightOperand, unit, onFail], as in mandate.types.ts.  Amounts *)
(* and times are integers, what is absent is NoValue, and a word or an     *)
(* unreadable date is any other value.  A right operand is the set of its  *)
(* values (toArray); documents give the list operators lists and the other *)
(* operators one value.  A unit is the set of currencies it names ({}:     *)
(* none), and `enforcement` and `onFail` hold their default where the      *)
(* document has none.  Wording (reasonCode) is left out.                   *)
(***************************************************************************)
EXTENDS Integers, Sequences, SequencesExt

CONSTANTS
    Operand,    \* operands a request has, or lacks, a value for
    Currency,   \* the operand mm:currency
    NoValue     \* undefined: absent from the request or the document

ASSUME OperandAssumption == Currency \in Operand /\ NoValue \notin Int

\* MandateDecision without "allow".
Refusal == {"observe", "escalate", "block", "suspend", "quarantine", "decommission"}

ConstraintOK(c) == c.leftOperand \in Operand /\ c.onFail \in Refusal
RuleOK(rule) ==
    DOMAIN rule.constraint \subseteq Nat /\ \A i \in DOMAIN rule.constraint : ConstraintOK(rule.constraint[i])

\* What the types of a mandate rule out: a refusal that reads "allow".
MandateOK(m) ==
    /\ DOMAIN m.permission \subseteq Nat /\ DOMAIN m.prohibition \subseteq Nat
    /\ \A i \in DOMAIN m.permission : RuleOK(m.permission[i])
    /\ \A i \in DOMAIN m.prohibition :
        RuleOK(m.prohibition[i]) /\ m.prohibition[i].enforcement \in Refusal

\* `<` of JavaScript after toNum or toTime: what is no number compares false.
Less(l, r) == l \in Int /\ r \in Int /\ l < r
LessEq(l, r) == l \in Int /\ r \in Int /\ l <= r

\* The one value of a right operand that is no list.
The(r) == CHOOSE v \in r : TRUE

\* OPERATORS
Operators == {"eq", "neq", "lt", "lteq", "gt", "gteq", "before", "after",
              "isAnyOf", "isPartOf", "isNoneOf"}
Holds(operator, l, r) ==
    \/ operator = "eq" /\ r = {l}
    \/ operator = "neq" /\ r # {l}
    \/ operator \in {"lt", "before"} /\ Less(l, The(r))
    \/ operator = "lteq" /\ LessEq(l, The(r))
    \/ operator \in {"gt", "after"} /\ Less(The(r), l)
    \/ operator = "gteq" /\ LessEq(The(r), l)
    \/ operator \in {"isAnyOf", "isPartOf"} /\ l \in r
    \/ operator = "isNoneOf" /\ l \notin r

\* The currency of the request is one of the constraint's units.
UnitMatches(c, req) == req.values[Currency] \in c.unit \ {NoValue}

\* Mutant: a currency that cannot be verified satisfies nothing, whoever asks.
ConstraintSatisfiedLax(c, req, strict) ==
    IF c.unit = {} \/ UnitMatches(c, req)
    THEN Holds(c.operator, req.values[c.leftOperand], c.rightOperand)
    ELSE FALSE

\* A foreign currency proves nothing for a permission and rules nothing out
\* for a prohibition; an unknown operator is never satisfied.
ConstraintSatisfied(c, req, strict) ==
    /\ c.operator \in Operators
    /\ IF c.unit = {} \/ UnitMatches(c, req)
       THEN Holds(c.operator, req.values[c.leftOperand], c.rightOperand)
       ELSE ~strict

AllSatisfied(rule, req, strict) ==
    \A i \in DOMAIN rule.constraint : ConstraintSatisfied(rule.constraint[i], req, strict)

TargetOf(rule, mandate) ==
    IF rule.target # NoValue THEN rule.target ELSE mandate.target

\* The rules of a list that are about an action, by their place.
About(rules, mandate, action) ==
    {i \in DOMAIN rules : TargetOf(rules[i], mandate) = action}

PermissionsFor(mandate, action) == About(mandate.permission, mandate, action)

OutsideWindow(mandate, now) ==
    Less(now, mandate.validFrom) \/ Less(mandate.validUntil, now)

Firing(mandate, req) ==
    {i \in About(mandate.prohibition, mandate, req.target) :
        AllSatisfied(mandate.prohibition[i], req, FALSE)}

Granting(mandate, req) ==
    {i \in PermissionsFor(mandate, req.target) :
        AllSatisfied(mandate.permission[i], req, TRUE)}

First(places) == CHOOSE i \in places : \A j \in places : i <= j

\* The first failing constraint of a permission that did not grant.
FirstFailing(permission, req) ==
    permission.constraint[First({i \in DOMAIN permission.constraint :
        ~ConstraintSatisfied(permission.constraint[i], req, TRUE)})]

EvaluateMandate(mandate, req) ==
    IF OutsideWindow(mandate, req.now)
    THEN [decision |-> "block", kind |-> "expiry"]
    ELSE IF Firing(mandate, req) # {}
    THEN [decision |-> mandate.prohibition[First(Firing(mandate, req))].enforcement,
          kind |-> "prohibition"]
    ELSE IF PermissionsFor(mandate, req.target) = {}
    THEN [decision |-> "block", kind |-> "no-permission"]
    ELSE IF Granting(mandate, req) # {}
    THEN [decision |-> "allow", kind |-> "permission"]
    ELSE [decision |-> FirstFailing(mandate.permission[First(PermissionsFor(mandate, req.target))], req).onFail,
          kind |-> "permission"]

\* The request is allowed, not merely flagged or put before a reviewer.
Allows(mandate, req) == EvaluateMandate(mandate, req).decision = "allow"
=============================================================================
