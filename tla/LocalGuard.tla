----------------------------- MODULE LocalGuard ------------------------------
(***************************************************************************)
(* The local-first decision of agentsafe-guard (authorizeLocalOn) and the  *)
(* state it shares between the calls of a process: the signed bundle, the  *)
(* one refresh that calls share, and the policy anchored on the ledger.    *)
(* The gate changes the policy, and may push the change, at any moment.    *)
(*                                                                         *)
(* A policy is a version.  What matters of a version is the verdict the    *)
(* rules give on it (evaluateLocally, or no mandate) and the sequence      *)
(* number of its anchor: containment and operating mode travel beside the  *)
(* signed bundle, so two versions may share one anchor.                    *)
(*                                                                         *)
(* Between two awaits on the network the code runs without a break, so a   *)
(* step here goes from one answer to the next wait.  A request sees the    *)
(* policy of some moment between its sending and its answer.  No request   *)
(* has a time limit (keepAliveFetch sets none, the guard passes no signal):*)
(* it may take any time, and it may never be answered at all.              *)
(***************************************************************************)
EXTENDS Integers

CONSTANTS
    Call,            \* calls of authorizeLocal
    Valued,          \* calls with an amount above 0
    MaxVersion,      \* bound: policy changes
    VerdictOf,       \* the local verdict on each version
    AnchorOf,        \* the anchor each version's compiled signature is in
    LifecycleMaxAge, \* lifecycleMaxAgeMs
    MaxStaleness,    \* the bundle's maxStaleness
    AnchorTtl,       \* anchorTtlMs
    MaxClock,        \* bound: time
    SilenceUntil,    \* bound: requests fall silent before this time
    None             \* nothing cached, nothing asked

Version == 0..MaxVersion

ASSUME CallAssumption == Valued \subseteq Call
ASSUME VersionAssumption == MaxVersion \in Nat
ASSUME VerdictAssumption ==
    VerdictOf \in [Version -> {"permit", "escalate", "block", "contain"}]
ASSUME AnchorAssumption == AnchorOf \in [Version -> Nat]
ASSUME TimeAssumption ==
    {LifecycleMaxAge, MaxStaleness, AnchorTtl, MaxClock, SilenceUntil} \subseteq Nat

\* A copy of the bundle is as old as the request that fetched it.
Copy == [version : Version, start : Nat]
Anchor == [seq : Nat, start : Nat]
Request == [start : Nat, oldest : Version, silent : BOOLEAN]

ASSUME NoneAssumption == None \notin Copy \cup Request

VARIABLES
    opts,    \* verifyOnChain and sealValueActions, set at construction
    clock,   \* Date.now()
    policy,  \* the version in force at the gate
    since,   \* when each version came into force
    pushes,  \* policy:changed events on their way (watchPolicy)
    told,    \* the newest version pushed while no bundle was being fetched
    bundle,  \* _bundle with _bundleAt
    refresh, \* _bundleRefresh
    anchor,  \* _anchor with _anchorAt
    highest, \* _highestSeq
    call     \* where each call stands

gateVars == <<clock, policy, since, pushes>>
vars == <<opts, gateVars, told, bundle, refresh, anchor, highest, call>>

\* `again` is the parameter `refreshed`; `owed`, `slow` and `at` record what the
\* call was owed when it began, how long the slowest request it waited for took,
\* and when it was decided.
CallState == [st : {"idle", "loading", "anchoring", "refreshing", "local", "gate"},
              again : BOOLEAN, copy : Copy \cup {None},
              asked : Request \cup {None}, owed : Version, slow : Nat, at : Nat]

\* Types of the state, and that a call waits for a shared refresh only while
\* there is one (onFreshBundle).
TypeOK ==
    /\ opts \in [verifyOnChain : BOOLEAN, sealValueActions : BOOLEAN]
    /\ clock \in Nat
    /\ policy \in Version
    /\ since \in [Version -> Nat]
    /\ pushes \subseteq Version
    /\ told \in Version
    /\ bundle \in Copy \cup {None}
    /\ refresh \in Request \cup {None}
    /\ anchor \in Anchor \cup {None}
    /\ highest \in Nat
    /\ call \in [Call -> CallState]
    /\ \A c \in Call : call[c].st = "refreshing" => refresh # None

Init ==
    /\ opts \in [verifyOnChain : BOOLEAN, sealValueActions : BOOLEAN]
    /\ clock = 0 /\ policy = 0 /\ told = 0 /\ highest = 0
    /\ since = [v \in Version |-> 0]
    /\ pushes = {}
    /\ bundle = None /\ refresh = None /\ anchor = None
    /\ call = [c \in Call |-> [st |-> "idle", again |-> FALSE, copy |-> None,
                               asked |-> None, owed |-> 0, slow |-> 0, at |-> 0]]
-----------------------------------------------------------------------------
MaxOf(m, n) == IF m >= n THEN m ELSE n

Ask == [start |-> clock, oldest |-> policy, silent |-> FALSE]

\* What the environment lets happen to a request: that nothing ever answers it.
Silent(q) == q # None /\ q.silent
Waited(r, q) == [r EXCEPT !.slow = MaxOf(@, clock - q.start)]

\* A cached answer may be used again for a while.
Fresh(b) == b # None /\ clock - b.start < MaxStaleness
Current(a) == a # None /\ clock - a.start < AnchorTtl

\* The age test of onFreshBundle, on the bundle that is cached by now.
Young(b) == b # None /\ clock - b.start <= LifecycleMaxAge

\* The verdict of a call: an outcome that the gate has to seal or to park goes
\* there, a refusal by the rules is given at once, and a permit or a refusal
\* for containment waits for a fresh bundle.
Decided(r) == [r EXCEPT !.st = "local", !.at = clock]
ToGate(r) == [r EXCEPT !.st = "gate", !.asked = None, !.copy = None, !.slow = 0]
Refreshing(r) == [r EXCEPT !.st = "refreshing"]

OnFreshBundle(r, b) == IF r.again \/ Young(b) THEN Decided(r) ELSE Refreshing(r)

Anchored(r, a) == a # None /\ AnchorOf[r.copy.version] = a.seq

Judged(c, r, b, a) ==
    LET verdict == VerdictOf[r.copy.version]
        sealed == \/ verdict = "escalate"
                  \/ verdict = "permit" /\ c \in Valued
    IN  IF \/ opts.verifyOnChain /\ ~ Anchored(r, a)
           \/ opts.sealValueActions /\ sealed
        THEN ToGate(r)
        ELSE IF verdict \in {"permit", "contain"} THEN OnFreshBundle(r, b) ELSE Decided(r)

\* The copy is at hand; with verifyOnChain the anchor may have to be read.
Loaded(c, r, b, a) ==
    LET q == [r EXCEPT !.copy = b, !.asked = None]
    IN  IF opts.verifyOnChain /\ ~ Current(a)
        THEN [q EXCEPT !.st = "anchoring", !.asked = Ask]
        ELSE Judged(c, q, b, a)

\* authorizeLocalOn, up to its first wait.
Entered(c, r, b, a) ==
    IF Fresh(b) THEN Loaded(c, r, b, a) ELSE [r EXCEPT !.st = "loading", !.asked = Ask]

\* Mutant: the refresh a call starts is not remembered.
BecomesUnshared(c, r) ==
    /\ call' = [call EXCEPT ![c] = r]
    /\ UNCHANGED refresh

\* A call that has to wait for a fresh bundle starts the shared refresh or
\* joins the one under way.
Becomes(c, r) ==
    /\ call' = [call EXCEPT ![c] = r]
    /\ refresh' = IF r.st = "refreshing" /\ refresh = None THEN Ask ELSE refresh
-----------------------------------------------------------------------------
Begin(c) ==
    /\ call[c].st = "idle"
    /\ Becomes(c, Entered(c, [call[c] EXCEPT !.owed = told], bundle, anchor))
    /\ UNCHANGED <<opts, gateVars, told, bundle, anchor, highest>>

\* What a request may have seen when it is answered.
Seen(q) == {v \in Version : q.oldest <= v /\ v <= policy}

\* Mutant: the age of a bundle is counted from its arrival.
BundleArrivesStampedLate(c) ==
    /\ call[c].st = "loading" /\ ~ Silent(call[c].asked)
    /\ \E v \in Seen(call[c].asked) :
         LET b == [version |-> v, start |-> clock]
         IN  /\ bundle' = b
             /\ Becomes(c, Loaded(c, Waited(call[c], call[c].asked), b, anchor))
    /\ UNCHANGED <<opts, gateVars, told, anchor, highest>>

\* loadBundle: the last answer to arrive is kept, whenever it was asked for.
BundleArrives(c) ==
    /\ call[c].st = "loading" /\ ~ Silent(call[c].asked)
    /\ \E v \in Seen(call[c].asked) :
         LET b == [version |-> v, start |-> call[c].asked.start]
         IN  /\ bundle' = b
             /\ Becomes(c, Loaded(c, Waited(call[c], call[c].asked), b, anchor))
    /\ UNCHANGED <<opts, gateVars, told, anchor, highest>>

BundleFails(c) ==
    /\ call[c].st = "loading" /\ ~ Silent(call[c].asked)
    /\ Becomes(c, ToGate(call[c]))
    /\ UNCHANGED <<opts, gateVars, told, bundle, anchor, highest>>

\* Every call that waits for the refresh starts over, with `refreshed` set.
RefreshArrives ==
    /\ refresh # None /\ ~ Silent(refresh)
    /\ \E v \in Seen(refresh) :
         LET b == [version |-> v, start |-> refresh.start]
         IN  /\ bundle' = b
             /\ call' = [c \in Call |->
                  IF call[c].st = "refreshing"
                  THEN Entered(c, [Waited(call[c], refresh) EXCEPT !.again = TRUE], b, anchor)
                  ELSE call[c]]
    /\ refresh' = None
    /\ UNCHANGED <<opts, gateVars, told, anchor, highest>>

\* Mutant: the calls that joined a refresh that fails are left waiting.
RefreshFailsUnheard ==
    /\ refresh # None /\ ~ Silent(refresh)
    /\ refresh' = None
    /\ UNCHANGED <<opts, gateVars, told, bundle, anchor, highest, call>>

RefreshFails ==
    /\ refresh # None /\ ~ Silent(refresh)
    /\ call' = [c \in Call |->
         IF call[c].st = "refreshing" THEN ToGate(call[c]) ELSE call[c]]
    /\ refresh' = None
    /\ UNCHANGED <<opts, gateVars, told, bundle, anchor, highest>>

\* The mirror was read, with or without a result.
Read(r) == [Waited(r, r.asked) EXCEPT !.asked = None]

\* Mutant: an earlier anchor is taken.
AnchorArrivesUnordered(c) ==
    /\ call[c].st = "anchoring" /\ ~ Silent(call[c].asked)
    /\ \E v \in 0..policy :
         /\ anchor' = [seq |-> AnchorOf[v], start |-> call[c].asked.start]
         /\ highest' = AnchorOf[v]
    /\ Becomes(c, Judged(c, Read(call[c]), bundle, anchor'))
    /\ UNCHANGED <<opts, gateVars, told, bundle>>

\* _currentAnchor: a mirror may show an earlier anchor, which is not taken, or
\* none at all; the call goes on with the anchor that is cached then.
AnchorArrives(c) ==
    /\ call[c].st = "anchoring" /\ ~ Silent(call[c].asked)
    /\ \E v \in 0..policy :
         /\ AnchorOf[v] >= highest
         /\ anchor' = [seq |-> AnchorOf[v], start |-> call[c].asked.start]
         /\ highest' = AnchorOf[v]
    /\ Becomes(c, Judged(c, Read(call[c]), bundle, anchor'))
    /\ UNCHANGED <<opts, gateVars, told, bundle>>

AnchorMissed(c) ==
    /\ call[c].st = "anchoring" /\ ~ Silent(call[c].asked)
    /\ Becomes(c, Judged(c, Read(call[c]), bundle, anchor))
    /\ UNCHANGED <<opts, gateVars, told, bundle, anchor, highest>>
-----------------------------------------------------------------------------
\* The policy or the agent's state changes; an open stream is sent the change.
Change ==
    /\ policy < MaxVersion
    /\ policy' = policy + 1
    /\ since' = [since EXCEPT ![policy + 1] = clock]
    /\ pushes' \in {pushes, pushes \cup {policy + 1}}
    /\ UNCHANGED <<opts, clock, told, bundle, refresh, anchor, highest, call>>

InFlight == refresh # None \/ \E c \in Call : call[c].st = "loading"

\* Mutant: a push drops the anchor and keeps the bundle.
PushKeepsBundle(v) ==
    /\ v \in pushes
    /\ pushes' = pushes \ {v}
    /\ anchor' = None
    /\ told' = IF ~ InFlight /\ v > told THEN v ELSE told
    /\ UNCHANGED <<opts, clock, policy, since, bundle, refresh, highest, call>>

\* watchPolicy: what is cached is dropped, what is in flight is not.
Push(v) ==
    /\ v \in pushes
    /\ pushes' = pushes \ {v}
    /\ bundle' = None /\ anchor' = None
    /\ told' = IF ~ InFlight /\ v > told THEN v ELSE told
    /\ UNCHANGED <<opts, clock, policy, since, refresh, highest, call>>

Tick ==
    /\ clock < MaxClock
    /\ clock' = clock + 1
    /\ UNCHANGED <<opts, policy, since, pushes, told, bundle, refresh, anchor, highest, call>>

\* A request is never answered: the call that sent it waits for ever, and so do
\* all that wait for the shared refresh, because nothing clears _bundleRefresh.
FallsSilent(c) ==
    /\ clock < SilenceUntil
    /\ call[c].st \in {"loading", "anchoring"}
    /\ call' = [call EXCEPT ![c].asked.silent = TRUE]
    /\ UNCHANGED <<opts, gateVars, told, bundle, refresh, anchor, highest>>

RefreshFallsSilent ==
    /\ clock < SilenceUntil
    /\ refresh # None
    /\ refresh' = [refresh EXCEPT !.silent = TRUE]
    /\ UNCHANGED <<opts, gateVars, told, bundle, anchor, highest, call>>

Answer(c) == BundleArrives(c) \/ BundleFails(c) \/ AnchorArrives(c) \/ AnchorMissed(c)
Refresh == RefreshArrives \/ RefreshFails

Next ==
    \/ \E c \in Call : Begin(c) \/ Answer(c) \/ FallsSilent(c)
    \/ Refresh \/ RefreshFallsSilent
    \/ Change \/ Tick
    \/ \E v \in Version : Push(v)

\* A request that has not fallen silent is answered or fails; nothing makes the
\* gate push.
Fairness == WF_vars(Refresh) /\ \A c \in Call : WF_vars(Answer(c))

Spec == Init /\ [][Next]_vars /\ Fairness
-----------------------------------------------------------------------------
\* How long ago the version a verdict rests on may have been replaced: an age
\* limit, or the time the call itself spent waiting for an answer.  With
\* verifyOnChain the age test looks at the bundle that is cached after the
\* anchor was read, which need not be the copy the call judges.
Grace(r) ==
    IF opts.verifyOnChain THEN MaxOf(MaxStaleness, r.slow) + r.slow
    ELSE IF VerdictOf[r.copy.version] \in {"permit", "contain"}
         THEN MaxOf(LifecycleMaxAge, r.slow)
         ELSE MaxOf(MaxStaleness, r.slow)

\* A policy that was replaced, an agent that was suspended or reinstated, is
\* decided on no longer than the age limits and the call's own waiting allow,
\* however requests of other calls, shared refreshes and pushes fall in between
\* (onFreshBundle).
Recent(r) ==
    r.copy.version < policy => since[r.copy.version + 1] + Grace(r) >= r.at
VerdictIsRecent == \A c \in Call : call[c].st = "local" => Recent(call[c])

\* After a push that met no bundle in flight, every call that begins is decided
\* on the pushed policy or a later one ("the NEXT call re-fetches", watchPolicy).
PushIsHeeded ==
    \A c \in Call : call[c].st = "local" => call[c].copy.version >= call[c].owed

\* With verifyOnChain no verdict rests on rules anchored before those of an
\* earlier verdict, whatever mirrors, pushes and late answers show
\* (_highestSeq).
NoRollback ==
    [][\A c, d \in Call :
          /\ opts.verifyOnChain
          /\ call[c].st # "local" /\ call'[c].st = "local"
          /\ call[d].st = "local"
          => AnchorOf[call'[c].copy.version] >= AnchorOf[call[d].copy.version]]_vars

\* Every call that begins is decided or handed to the gate, for good, unless the
\* very request it waits for, its own or the shared refresh, is never answered: a
\* call refreshes once, and a shared refresh that fails wakes all that wait for it.
WaitsInVain(c) ==
    Silent(call[c].asked) \/ (call[c].st = "refreshing" /\ Silent(refresh))
CallsEnd ==
    <>[](\A c \in Call : call[c].st \in {"idle", "local", "gate"} \/ WaitsInVain(c))
=============================================================================
