------------------------------ MODULE Arguments -----------------------------
(***************************************************************************)
(* The argument policy of a permission (argument-policy.ts): the paths the *)
(* arguments of a tool may carry, and the values that are rewritten before *)
(* the call leaves the guard.                                              *)
(*                                                                         *)
(* A pointer is the sequence of its segments.  Arguments are the set of    *)
(* the paths of their values; a policy is NoValue (none), Unusable (not    *)
(* well formed, or arguments that cannot be walked), or [allow |-> set of  *)
(* patterns, sensitive |-> set of [path, mode]].                           *)
(***************************************************************************)
EXTENDS Naturals, Sequences

CONSTANTS
    Segment,    \* keys and indices, and the wildcard
    NoPolicy,   \* a permission without `arguments`
    Unusable,   \* one whose `arguments` are not well formed
    Wildcard    \* the segment `*`

\* argumentPolicyProblem is null.
PolicyOK(policy) ==
    policy \notin {NoPolicy, Unusable} =>
        /\ \A a \in policy.allow : a \in Seq(Segment)
        /\ \A s \in policy.sensitive : s.path \in Seq(Segment) /\ s.mode \in {"redact", "hmac"}

\* covers, and patternCovers: `*` stands for any one segment.
Covers(pattern, path) ==
    /\ Len(pattern) <= Len(path)
    /\ \A i \in DOMAIN pattern : pattern[i] = Wildcard \/ pattern[i] = path[i]

\* checkArguments: every value at or below an allowed path of every policy.
CheckArguments(policies, leaves) ==
    /\ Unusable \notin policies
    /\ \A p \in policies : \A leaf \in leaves : \E a \in p.allow : Covers(a, leaf)

\* sanitizeArguments: how the value at a path leaves the guard.  It is
\* rewritten with every value above it, the deepest first, so that the
\* strongest mode of those that cover it is what is left of it.
Modes(policies, path) ==
    {s.mode : s \in {s \in UNION {p.sensitive : p \in policies} : Covers(s.path, path)}}

HiddenAs(policies, path) ==
    IF "redact" \in Modes(policies, path) THEN "redact"
    ELSE IF "hmac" \in Modes(policies, path) THEN "hmac" ELSE "clear"

\* sanitizeArguments is refused without a key for the hash where a value, a
\* leaf or one above, is to be hashed and no policy has it redacted.
ModesAt(policies, path) ==
    {s.mode : s \in {s \in UNION {p.sensitive : p \in policies} :
                        Len(s.path) = Len(path) /\ Covers(s.path, path)}}
NeedsKey(policies, leaves) ==
    \E leaf \in leaves : \E n \in 1..Len(leaf) : ModesAt(policies, SubSeq(leaf, 1, n)) = {"hmac"}

KeepsSensitive(parent, child) ==
    \A ps \in parent.sensitive : \E cs \in child.sensitive :
        cs.path = ps.path /\ (cs.mode = ps.mode \/ cs.mode = "redact")

\* Mutant: the policy of the parent may be dropped.
ArgumentsNarrowIfAny(parent, child) ==
    /\ child # Unusable
    /\ parent # NoPolicy /\ child # NoPolicy =>
        /\ parent # Unusable
        /\ \A a \in child.allow : \E pa \in parent.allow : Covers(pa, a)
        /\ KeepsSensitive(parent, child)

\* argumentPolicyNarrowing.
ArgumentsNarrow(parent, child) ==
    /\ child # Unusable
    /\ parent # NoPolicy =>
        /\ parent # Unusable /\ child # NoPolicy
        /\ \A a \in child.allow : \E pa \in parent.allow : Covers(pa, a)
        /\ KeepsSensitive(parent, child)
=============================================================================
