---------------------------- MODULE MCGovernance ----------------------------
(***************************************************************************)
(* Instance of Governance for TLC: families of mandates that differ in one *)
(* thing a child may narrow or widen, bundles that differ in one layer, and*)
(* requests on both sides of every bound.                                  *)
(***************************************************************************)
EXTENDS Governance

CONSTANTS
    pay, read,                  \* actions
    usd, eur, shop, other, word, \* currencies, merchants, and no number
    body, to,                   \* segments of argument paths
    home, abroad,               \* jurisdictions
    off,                        \* riskSignals: false
    delete, list,               \* what the field op may say
    both, object                \* a list of the two, and what is no plain value

Cap(value, unit) ==
    [leftOperand |-> Amount, operator |-> "lteq", rightOperand |-> {value},
     unit |-> unit, onFail |-> "block"]
Floor(value, unit) == [Cap(value, unit) EXCEPT !.operator = "gteq"]
Only(merchants) ==
    [leftOperand |-> Merchant, operator |-> "isAnyOf", rightOperand |-> merchants,
     unit |-> {}, onFail |-> "escalate"]
Never(merchants) == [Only(merchants) EXCEPT !.operator = "isNoneOf"]
NotIn(currencies) == [Never(currencies) EXCEPT !.leftOperand = Currency]

Grant(constraints) ==
    [target |-> pay, constraint |-> constraints, riskTier |-> NoValue,
     requirePayloadBinding |-> NoValue, riskSignals |-> NoValue,
     arguments |-> NoPolicy]
Ban(constraints) ==
    [target |-> pay, constraint |-> constraints, enforcement |-> "block"]

Doc(grants, bans) ==
    [target |-> read, permission |-> grants, prohibition |-> bans,
     validFrom |-> NoValue, validUntil |-> NoValue]

\* What a request may do.
ConstraintLists ==
    {<<>>, <<Cap(word, {})>>, <<Cap(2, {})>>, <<Cap(1, {usd})>>, <<Cap(2, {usd})>>,
     <<Cap(1, {usd, eur})>>, <<Cap(2, {usd}), Only({shop})>>, <<NotIn({eur})>>}
    \cup {<<Only(ms)>> : ms \in {{shop}, {shop, other}}}
    \cup {<<Never(ms)>> : ms \in {{shop}, {shop, other}}}
Bans == {<<Ban(<<>>)>>, <<Ban(<<Floor(2, {usd})>>)>>,
         <<Ban(<<Floor(2, {usd}), Only({shop})>>)>>}
Granted ==
    {Doc(<<Grant(cs)>>, <<>>) : cs \in ConstraintLists}
    \cup {Doc(<<Grant(cs)>>, bans) : cs \in {<<>>, <<Cap(2, {usd})>>}, bans \in Bans}
    \cup {Doc(<<>>, <<>>),
          Doc(<<[Grant(<<>>) EXCEPT !.target = NoValue], Grant(<<Cap(1, {usd})>>)>>, <<>>)}

\* When it may be made.
Within(from, until) ==
    [Doc(<<Grant(<<>>)>>, <<>>) EXCEPT !.validFrom = from, !.validUntil = until]
Windowed == {Within(NoValue, word), Within(word, 1)}
            \cup {Within(from, until) : from \in {NoValue, 1, 2}, until \in {1, 2}}

\* How closely it is looked at.
Tiered(tier, binding) ==
    [Grant(<<>>) EXCEPT !.riskTier = tier, !.requirePayloadBinding = binding]
Scrutinised ==
    {Doc(<<Tiered(t, b)>>, <<>>) : t \in {NoValue, 1, 3}, b \in {NoValue, TRUE}}
    \cup {Doc(<<Tiered(word, TRUE)>>, <<>>), Doc(<<Tiered(3, word)>>, <<>>),
          Doc(<<Tiered(NoValue, NoValue), Tiered(3, TRUE)>>, <<>>)}

\* What the arguments may carry.
Policy(allow, sensitive) == [allow |-> allow, sensitive |-> sensitive]
Sensitive(path, mode) == [path |-> path, mode |-> mode]
With(policy) == [Grant(<<>>) EXCEPT !.arguments = policy]
Limited ==
    {Doc(<<With(p)>>, <<>>) : p \in
        {Unusable,
         Policy({<<Wildcard>>}, {}),
         Policy({<<body>>}, {Sensitive(<<body, to>>, "hmac")}),
         Policy({<<body>>}, {Sensitive(<<body, to>>, "redact")}),
         Policy({<<body, Wildcard>>}, {Sensitive(<<body, Wildcard>>, "redact")}),
         Policy({<<body, to>>, <<to>>},
                {Sensitive(<<body, Wildcard>>, "redact"), Sensitive(<<body, to>>, "hmac")})}}
    \cup {Doc(<<With(Policy({<<body>>}, {})), Grant(<<>>)>>, <<>>)}

\* What the rules see.
Rated(tier, signals, policy, bans) ==
    Doc(<<[Grant(<<[Cap(2, {usd}) EXCEPT !.onFail = "observe"]>>)
            EXCEPT !.riskTier = tier, !.riskSignals = signals, !.requirePayloadBinding = TRUE,
                   !.arguments = policy]>>, bans)
Rateds ==
    {Rated(NoValue, NoValue, NoPolicy, <<>>), Rated(2, NoValue, NoPolicy, <<>>),
     Rated(NoValue, 40, Policy({<<body>>}, {Sensitive(<<body, to>>, "hmac")}), <<>>),
     Rated(3, off, NoPolicy, <<[Ban(<<Only({other})>>) EXCEPT !.enforcement = "quarantine"]>>)}

MCMandate == Granted \cup Windowed \cup Scrutinised \cup Limited \cup Rateds
MCRegulated == Rateds
MCOperand == {Amount, Merchant, Currency, Jurisdiction}
MCSegment == {Wildcard, body, to}
MCAction == {pay, read}
MCMoney == {usd, eur}
Values(a, m, c, j) == (Amount :> a) @@ (Merchant :> m) @@ (Currency :> c) @@ (Jurisdiction :> j)
MCLeaves == {{<<body>>}, {<<body, body>>}, {<<body, to>>}, {<<body, to>>, <<to>>}}
-----------------------------------------------------------------------------
MCNumberField == {"amount", "cumulativeSpend", "evidenceConfidence"}
MCPlainField == {"op"}
MCElementsOf == both :> {list, delete}

Atom(predicate, field) == [predicate |-> predicate, field |-> field]
RiskAtom(level) == Atom("risk-at-or-above", "riskLevel") @@ [level |-> level]
AmountOver(limit, scope) == Atom("amount-over", "amount") @@ [limit |-> limit, scope |-> scope]
CumulativeOver(limit) ==
    Atom("cumulative-over", "cumulativeSpend") @@ [limit |-> limit, scope |-> {}]
AmountUnknown == Atom("amount-unknown", "amount")
OnlyIn(places) == Atom("not-allowed", "jurisdiction") @@ [allowed |-> places]
OpIn(ops, missing) == Atom("context-value-in", "op") @@ [values |-> ops, missing |-> missing]
OpNotIn(ops, missing) ==
    Atom("context-value-not-in", "op") @@ [values |-> ops, missing |-> missing]
ConfidenceBelow(min) ==
    Atom("evidence-confidence-below", "evidenceConfidence") @@ [min |-> min]

Molecule(combinator, atoms, decision) ==
    [combinator |-> combinator, atoms |-> atoms, decision |-> decision, require |-> <<>>]
Requiring(m, field, level) == [m EXCEPT !.require = field :> level]

RiskyNeedsReview == Molecule("all", {RiskAtom(2)}, "escalate")
CalmIsObserved == Molecule("none", {RiskAtom(3)}, "observe")
Documents ==
    {{RiskyNeedsReview},
     {Requiring(RiskyNeedsReview, "riskLevel", GatewayDerived)},
     {CalmIsObserved, Requiring(Molecule("all", {}, "block"), "op", word)},
     {Molecule("any", {AmountOver(1, {usd}), AmountUnknown}, "block")},
     {Molecule("all", {OnlyIn({home})}, "block"),
      Molecule("none", {OpNotIn({list}, FALSE)}, "observe")},
     {Molecule("any", {OpIn({delete}, TRUE)}, "quarantine"),
      Molecule("all", {ConfidenceBelow(1), CumulativeOver(1)}, "suspend")}}

Binding(standards, sops) == [Unregulated EXCEPT !.standards = standards, !.sops = sops]
MCBundle ==
    {Binding({d}, {}) : d \in Documents} \cup {Binding({{RiskyNeedsReview}}, {d}) : d \in Documents}
    \cup {[Binding({{CalmIsObserved}}, {}) EXCEPT !.mode = m] : m \in OperatingMode}
    \cup {Binding(Documents, {}), [Binding({}, Documents) EXCEPT !.granted = {read}],
          [Binding({}, Documents) EXCEPT !.contained = "suspended", !.granted = {}],
          [Unregulated EXCEPT !.contained = "quarantined"]}

MCClaim == {word, 1, 2, 3}
Asks(a, m, c, j, itinerary) ==
    [target |-> pay, now |-> 1, values |-> Values(a, m, c, j), itinerary |-> itinerary]
Stating(f, v) == [Nothing EXCEPT ![f] = v]
MCSignedRequest ==
    {Asks(a, shop, usd, home, Stating("riskLevel", 1)) : a \in 0..3}
    \cup {Asks(1, shop, eur, abroad, Nothing), Asks(1, other, usd, home, Stating("riskLevel", 3)),
          Asks(1, shop, usd, NoValue, Stating("jurisdiction", home)),
          Asks(1, shop, usd, NoValue, Stating("op", list)),
          [Asks(1, shop, usd, home, Nothing) EXCEPT !.target = read]}
    \cup {Asks(1, shop, usd, home, [Stating("op", o) EXCEPT !["riskLevel"] = 1,
            !["evidenceConfidence"] = e, !["cumulativeSpend"] = 1]) :
            o \in {list, delete}, e \in 0..1}
    \cup {Asks(1, shop, usd, home, [Stating("op", o) EXCEPT !["riskLevel"] = 1]) : o \in {both, object}}
Knows(derived, arguments, keyed) == [derived |-> derived, arguments |-> arguments, keyed |-> keyed]
MCService ==
    {Knows(Nothing, NoValue, TRUE), Knows(Nothing, {<<body>>}, FALSE)}
    \cup {Knows(Nothing, {<<body, to>>}, keyed) : keyed \in BOOLEAN}
    \cup {Knows(Stating("riskLevel", 3), {<<to>>, <<body>>}, TRUE),
          Knows([Stating("jurisdiction", home) EXCEPT !["op"] = list], {<<body>>}, TRUE)}
MCRequest ==
    {[target |-> pay, now |-> n, values |-> Values(a, m, c, NoValue)] :
        n \in {word, 1, 2}, a \in {NoValue, 1, 2}, m \in {NoValue, shop, other},
        c \in MCMoney \cup {NoValue}}
    \cup {[target |-> read, now |-> 1, values |-> Values(2, shop, usd, NoValue)]} \cup MCSignedRequest
=============================================================================
