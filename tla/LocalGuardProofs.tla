-------------------------- MODULE LocalGuardProofs ---------------------------
(***************************************************************************)
(* Safety of the local-first decision, for any calls, policies, anchors    *)
(* and time limits.  The invariant dates every copy of the bundle and      *)
(* every request: a copy's version was in force no earlier than the        *)
(* request that fetched it was sent, and that is never longer ago than the *)
(* limits, or the waiting of the call itself, say at the place where the   *)
(* copy is used.                                                           *)
(***************************************************************************)
EXTENDS LocalGuard, TLAPS

USE VersionAssumption DEF Version

Limit(r) == MaxOf(MaxStaleness, r.slow)

LEMMA Times ==
    /\ LifecycleMaxAge \in Nat /\ MaxStaleness \in Nat
    /\ \A r : r.slow \in Nat =>
         Limit(r) \in Nat /\ MaxStaleness <= Limit(r) /\ r.slow <= Limit(r)
BY TimeAssumption DEF Limit, MaxOf

\* Version v was in force at some moment not before t.
InForce(v, t) == v <= policy /\ (v < policy => since[v + 1] >= t)

RequestOK(q) == q.start <= clock /\ InForce(q.oldest, q.start)

CopyOK(b) == b.start <= clock /\ InForce(b.version, b.start)

\* The gate's own variables.
GateOK ==
    /\ \A v \in Version : v <= policy => since[v] <= clock
    /\ \A v, w \in Version : v <= w /\ w <= policy => since[v] <= since[w]
    /\ \A v \in pushes : v <= policy
    /\ told <= policy

\* What is cached or being fetched is not older than the last push it met.
BundleOK == bundle # None => CopyOK(bundle) /\ bundle.version >= told
RefreshOK == refresh # None => RequestOK(refresh) /\ refresh.oldest >= told
AnchorOK == anchor # None => anchor.seq = highest

\* Where a call stands, with the highest anchor seen so far.
HoldsCopy(r) == r.st \in {"anchoring", "refreshing", "local"}
CallOK(r, h) ==
    /\ r \in CallState
    /\ r.owed <= told
    /\ r.st = "idle" => ~ r.again
    /\ r.st = "loading" =>
         r.asked \in Request /\ RequestOK(r.asked) /\ r.asked.oldest >= told
    /\ HoldsCopy(r) => r.copy \in Copy /\ CopyOK(r.copy) /\ r.copy.version >= r.owed
    /\ r.st = "anchoring" =>
         /\ opts.verifyOnChain
         /\ r.asked \in Request
         /\ r.asked.start <= clock
         /\ r.asked.start <= r.copy.start + Limit(r)
    /\ r.st = "local" =>
         /\ r.at <= r.copy.start + Grace(r)
         /\ opts.verifyOnChain => AnchorOf[r.copy.version] <= h

CallsOK == \A c \in Call : CallOK(call[c], highest)

IInv == TypeOK /\ GateOK /\ BundleOK /\ RefreshOK /\ AnchorOK /\ CallsOK
-----------------------------------------------------------------------------
LEMMA ToGateType ==
    ASSUME NEW r \in CallState
    PROVE  ToGate(r) \in CallState /\ ToGate(r).st = "gate" /\ ToGate(r).owed = r.owed
BY DEF ToGate, CallState

\* A verdict is given, or waited for, on a copy that is young enough for it.
LEMMA JudgedOK ==
    ASSUME TypeOK, NEW c \in Call, NEW r \in CallState,
           r.st # "idle" \/ ~ r.again,
           r.asked = None, r.owed <= told,
           r.copy \in Copy, CopyOK(r.copy), r.copy.version >= r.owed,
           NEW b \in Copy \cup {None}, NEW a \in Anchor \cup {None}, NEW h \in Nat,
           a # None => a.seq = h,
           opts.verifyOnChain => clock <= r.copy.start + Limit(r) + r.slow,
           ~ opts.verifyOnChain => b = r.copy /\ clock <= r.copy.start + Limit(r),
           ~ opts.verifyOnChain /\ r.again => clock <= r.copy.start + r.slow
    PROVE  /\ CallOK(Judged(c, r, b, a), h)
           /\ Judged(c, r, b, a).st \in {"local", "gate", "refreshing"}
           /\ r.again => Judged(c, r, b, a).st # "refreshing"
           /\ Judged(c, r, b, a).st = "local" =>
                /\ Judged(c, r, b, a).copy = r.copy
                /\ opts.verifyOnChain => AnchorOf[r.copy.version] = h
<1>. DEFINE j == Judged(c, r, b, a)
<1>1. r.copy.version \in Version /\ r.copy.start \in Nat /\ clock \in Nat /\ r.slow \in Nat
  BY DEF Copy, TypeOK, CallState
<1>2. CASE j = ToGate(r)
  <2>1. j \in CallState /\ j.st = "gate" /\ j.owed = r.owed
    BY <1>2, ToGateType
  <2>2. QED
    BY <2>1 DEF CallOK, HoldsCopy
<1>3. CASE j = Decided(r) /\ j # ToGate(r)
  <2>1. /\ j \in CallState /\ j.st = "local" /\ j.owed = r.owed
        /\ j.copy = r.copy /\ j.at = clock /\ j.slow = r.slow
    BY <1>1, <1>3 DEF Decided, CallState
  <2>2. opts.verifyOnChain => a # None /\ AnchorOf[r.copy.version] = a.seq
    BY <1>3 DEF Judged, Anchored
  <2>3. ~ opts.verifyOnChain /\ VerdictOf[r.copy.version] \in {"permit", "contain"} =>
            r.again \/ Young(r.copy)
    <3> SUFFICES ASSUME ~ opts.verifyOnChain, VerdictOf[r.copy.version] \in {"permit", "contain"},
                        ~ r.again, ~ Young(r.copy)
                 PROVE  FALSE
      OBVIOUS
    <3>1. j = Refreshing(r)
      BY <1>3 DEF Judged, OnFreshBundle
    <3>2. QED
      BY <2>1, <3>1 DEF Refreshing, CallState
  <2>4. clock <= r.copy.start + Grace(j)
    BY <1>1, <2>1, <2>3, Times DEF Grace, Young, Limit, MaxOf
  <2>5. QED
    BY <2>1, <2>2, <2>4 DEF CallOK, HoldsCopy
<1>4. CASE j = Refreshing(r) /\ j # ToGate(r) /\ j # Decided(r)
  <2>1. j \in CallState /\ j.st = "refreshing" /\ j.owed = r.owed /\ j.copy = r.copy
    BY <1>4 DEF Refreshing, CallState
  <2>2. ~ r.again
    BY <1>4 DEF Judged, OnFreshBundle
  <2>3. QED
    BY <2>1, <2>2 DEF CallOK, HoldsCopy
<1>5. j = ToGate(r) \/ j = Decided(r) \/ j = Refreshing(r)
  BY DEF Judged, OnFreshBundle
<1>6. QED
  BY <1>2, <1>3, <1>4, <1>5

\* With verifyOnChain a verdict rests on rules with the anchor h.
RestsOn(r, h) == r.st = "local" /\ opts.verifyOnChain => AnchorOf[r.copy.version] = h

LEMMA LoadedOK ==
    ASSUME TypeOK, NEW c \in Call, NEW r \in CallState,
           r.st # "idle" \/ ~ r.again,
           r.owed <= told,
           NEW b \in Copy, CopyOK(b), b.version >= r.owed,
           NEW a \in Anchor \cup {None}, a # None => a.seq = highest,
           clock <= b.start + Limit(r),
           r.again /\ ~ opts.verifyOnChain => clock <= b.start + r.slow
    PROVE  /\ CallOK(Loaded(c, r, b, a), highest)
           /\ Loaded(c, r, b, a).st \in {"anchoring", "local", "gate", "refreshing"}
           /\ r.again => Loaded(c, r, b, a).st # "refreshing"
           /\ RestsOn(Loaded(c, r, b, a), highest)
<1>. DEFINE q == [r EXCEPT !.copy = b, !.asked = None]
<1>1. /\ q \in CallState /\ q.st = r.st /\ q.again = r.again /\ q.owed = r.owed
      /\ q.copy = b /\ q.asked = None /\ q.slow = r.slow /\ Limit(q) = Limit(r)
  BY DEF CallState, Limit
<1>2. /\ clock \in Nat /\ highest \in Nat /\ policy \in Version /\ b.start \in Nat
      /\ r.slow \in Nat /\ Limit(r) \in Nat
  BY Times DEF TypeOK, Copy, CallState
<1>3. CASE opts.verifyOnChain /\ ~ Current(a)
  <2>. DEFINE p == [q EXCEPT !.st = "anchoring", !.asked = Ask]
  <2>1. Ask \in Request /\ Ask.start = clock
    BY <1>2 DEF Ask, Request
  <2>2. /\ p \in CallState /\ p.st = "anchoring" /\ p.copy = b /\ p.asked = Ask
        /\ p.owed = r.owed /\ Limit(p) = Limit(r)
    BY <1>1, <2>1 DEF CallState, Limit
  <2>4. Loaded(c, r, b, a) = p
    BY <1>3 DEF Loaded
  <2>. HIDE DEF p, q
  <2>3. CallOK(p, highest)
    BY <1>2, <1>3, <2>1, <2>2 DEF CallOK, HoldsCopy
  <2>5. QED
    BY <2>2, <2>3, <2>4 DEF RestsOn
<1>4. CASE ~ (opts.verifyOnChain /\ ~ Current(a))
  <2>1. Loaded(c, r, b, a) = Judged(c, q, b, a)
    BY <1>4 DEF Loaded
  <2>. HIDE DEF q
  <2>2. clock <= b.start + Limit(q) + q.slow
    BY <1>1, <1>2
  <2>3. /\ CallOK(Judged(c, q, b, a), highest)
        /\ Judged(c, q, b, a).st \in {"local", "gate", "refreshing"}
        /\ q.again => Judged(c, q, b, a).st # "refreshing"
        /\ Judged(c, q, b, a).st = "local" =>
             /\ Judged(c, q, b, a).copy = q.copy
             /\ opts.verifyOnChain => AnchorOf[q.copy.version] = highest
    BY <1>1, <1>2, <2>2, JudgedOK
  <2>4. QED
    BY <1>1, <2>1, <2>3 DEF RestsOn
<1>5. QED
  BY <1>3, <1>4

LEMMA EnteredOK ==
    ASSUME TypeOK, GateOK, NEW c \in Call, NEW r \in CallState,
           r.st # "idle" \/ ~ r.again,
           r.owed <= told,
           NEW b \in Copy \cup {None}, b # None => CopyOK(b) /\ b.version >= told,
           NEW a \in Anchor \cup {None}, a # None => a.seq = highest,
           r.again => b # None /\ clock <= b.start + r.slow
    PROVE  /\ CallOK(Entered(c, r, b, a), highest)
           /\ Entered(c, r, b, a).st # "idle"
           /\ r.again => Entered(c, r, b, a).st # "refreshing"
           /\ RestsOn(Entered(c, r, b, a), highest)
<1>1. /\ clock \in Nat /\ policy \in Version /\ told \in Version
      /\ r.slow \in Nat /\ MaxStaleness \in Nat /\ r.owed \in Version
  BY Times DEF TypeOK, CallState
<1>2. CASE Fresh(b)
  <2>1. b \in Copy /\ b.start \in Nat /\ b.version \in Version
    BY <1>2 DEF Fresh, Copy
  <2>2. clock <= b.start + Limit(r)
    BY <1>1, <1>2, <2>1, Times DEF Fresh
  <2>3. b.version >= r.owed /\ CopyOK(b)
    BY <1>1, <1>2, <2>1 DEF Fresh
  <2>4. Entered(c, r, b, a) = Loaded(c, r, b, a)
    BY <1>2 DEF Entered
  <2>5. QED
    BY <2>1, <2>2, <2>3, <2>4, LoadedOK
<1>3. CASE ~ Fresh(b)
  <2>. DEFINE p == [r EXCEPT !.st = "loading", !.asked = Ask]
  <2>1. Ask \in Request /\ Ask.start = clock /\ Ask.oldest = policy
    BY <1>1 DEF Ask, Request
  <2>2. p \in CallState /\ p.st = "loading" /\ p.asked = Ask /\ p.owed = r.owed
    BY <2>1 DEF CallState
  <2>3. RequestOK(Ask) /\ Ask.oldest >= told
    BY <1>1, <2>1, Times DEF RequestOK, InForce, GateOK
  <2>4. Entered(c, r, b, a) = p
    BY <1>3 DEF Entered
  <2>. HIDE DEF p
  <2>5. QED
    BY <2>1, <2>2, <2>3, <2>4 DEF CallOK, HoldsCopy, RestsOn
<1>4. QED
  BY <1>2, <1>3

\* A request sent now sees the policy in force.
LEMMA AskOK ==
    ASSUME TypeOK, GateOK
    PROVE  Ask \in Request /\ Ask # None /\ RequestOK(Ask) /\ Ask.oldest >= told
<1>1. Ask \in Request /\ Ask.start = clock /\ Ask.oldest = policy
  BY DEF TypeOK, Ask, Request
<1>. QED
  BY <1>1, NoneAssumption DEF TypeOK, GateOK, RequestOK, InForce

\* The time a call has waited counts what it waited for just now.
LEMMA WaitedOK ==
    ASSUME TypeOK, NEW r \in CallState, NEW q \in Request, q.start <= clock
    PROVE  LET w == Waited(r, q)
           IN  /\ w \in CallState /\ w.st = r.st /\ w.owed = r.owed /\ w.copy = r.copy
               /\ w.asked = r.asked /\ w.again = r.again
               /\ w.slow >= r.slow /\ clock <= q.start + w.slow
<1>1. clock \in Nat /\ q.start \in Nat /\ r.slow \in Nat /\ clock - q.start \in Nat
  BY DEF TypeOK, Request, CallState
<1>2. Waited(r, q) = [r EXCEPT !.slow = MaxOf(r.slow, clock - q.start)]
  BY DEF Waited
<1>3. /\ MaxOf(r.slow, clock - q.start) \in Nat /\ MaxOf(r.slow, clock - q.start) >= r.slow
      /\ clock <= q.start + MaxOf(r.slow, clock - q.start)
  BY <1>1 DEF MaxOf
<1>. HIDE DEF MaxOf
<1>. QED
  BY <1>2, <1>3 DEF CallState

\* What a request may bring back was in force when it was sent, or later.
LEMMA ArrivalOK ==
    ASSUME TypeOK, GateOK, NEW q \in Request, RequestOK(q), q.oldest >= told,
           NEW v \in Seen(q)
    PROVE  LET b == [version |-> v, start |-> q.start]
           IN  /\ b \in Copy /\ CopyOK(b) /\ b.version >= told
<1>1. /\ v \in Version /\ q.oldest \in Version /\ q.start \in Nat /\ clock \in Nat
      /\ policy \in Version /\ told \in Version /\ since \in [Version -> Nat]
      /\ q.oldest <= v /\ v <= policy
  BY DEF Seen, TypeOK, Request
<1>2. v < policy => since[v + 1] >= q.start
  <2> SUFFICES ASSUME v < policy PROVE since[v + 1] >= q.start
    OBVIOUS
  <2>1. q.oldest < policy /\ since[q.oldest + 1] >= q.start
    BY <1>1 DEF RequestOK, InForce, Version
  <2>2. q.oldest + 1 \in Version /\ v + 1 \in Version /\ v + 1 <= policy
    BY <1>1, <2>1 DEF Version
  <2>3. since[q.oldest + 1] <= since[v + 1]
    BY <1>1, <2>2 DEF GateOK, Version
  <2>4. since[q.oldest + 1] \in Nat /\ since[v + 1] \in Nat /\ q.start \in Nat
    BY <1>1, <2>2
  <2>5. QED
    BY <2>1, <2>3, <2>4
<1>3. QED
  BY <1>1, <1>2 DEF Copy, CopyOK, InForce, RequestOK, Version
-----------------------------------------------------------------------------
LEMMA InitSafe == Init => IInv
BY Times DEF Init, IInv, TypeOK, GateOK, BundleOK, RefreshOK, AnchorOK, CallsOK, CallOK,
   CallState, HoldsCopy

\* What is known of a call stays true while the gate and the clock stand still
\* and the highest anchor only grows.
LEMMA CallStaysOK ==
    ASSUME TypeOK, UNCHANGED <<opts, clock, policy, since, told>>,
           NEW h \in Nat, NEW k \in Nat, h <= k, NEW r, CallOK(r, h)
    PROVE  CallOK(r, k)'
<1>1. CASE r.st # "local"
  BY <1>1 DEF CallOK, HoldsCopy, CopyOK, RequestOK, InForce
<1>2. CASE r.st = "local"
  <2>1. r.copy \in Copy /\ r.copy.version \in Version /\ AnchorOf[r.copy.version] \in Nat
    BY <1>2, AnchorAssumption DEF CallOK, HoldsCopy, Copy
  <2>2. Grace(r)' = Grace(r)
    BY DEF Grace
  <2>3. QED
    BY <1>2, <2>1, <2>2 DEF CallOK, HoldsCopy, CopyOK, InForce
<1>3. QED
  BY <1>1, <1>2

\* One call moves on; bundle and anchor may be replaced.
LEMMA BecomesSafe ==
    ASSUME IInv, NEW c \in Call, NEW r, Becomes(c, r),
           UNCHANGED <<opts, gateVars, told>>,
           bundle' \in Copy \cup {None},
           bundle' # None => CopyOK(bundle') /\ bundle'.version >= told,
           anchor' \in Anchor \cup {None}, AnchorOK',
           highest' \in Nat, highest <= highest',
           CallOK(r, highest')
    PROVE  IInv'
<1>. USE DEF IInv
<1>1. /\ opts' = opts /\ clock' = clock /\ policy' = policy /\ since' = since
      /\ pushes' = pushes /\ told' = told
  BY DEF gateVars
<1>2. highest \in Nat
  BY DEF TypeOK
<1>3. call' = [call EXCEPT ![c] = r] /\ r \in CallState
  BY DEF Becomes, CallOK
<1>4. RefreshOK' /\ refresh' \in Request \cup {None}
      /\ (refresh # None => refresh' # None) /\ (r.st = "refreshing" => refresh' # None)
  BY <1>1, AskOK DEF Becomes, RefreshOK, RequestOK, InForce, TypeOK
<1>5. TypeOK'
  BY <1>1, <1>3, <1>4 DEF TypeOK
<1>6. CallsOK'
  <2> SUFFICES ASSUME NEW d \in Call PROVE CallOK(call[d], highest)'
    BY DEF CallsOK
  <2>1. PICK k \in Nat : k = highest'
    OBVIOUS
  <2>2. PICK w : w = call'[d]
    OBVIOUS
  <2>3. CallOK(w, k)'
    <3>1. CASE d = c
      <4>1. w = r
        BY <1>3, <2>2, <3>1 DEF TypeOK
      <4>2. CallOK(w, k)
        BY <2>1, <4>1
      <4>3. QED
        BY <1>1, <4>2, CallStaysOK
    <3>2. CASE d # c
      <4>1. w = call[d]
        BY <1>3, <2>2, <3>2 DEF TypeOK
      <4>2. CallOK(w, highest)
        BY <4>1 DEF CallsOK
      <4>3. QED
        BY <1>1, <1>2, <2>1, <4>2, CallStaysOK
    <3>3. QED
      BY <3>1, <3>2
  <2>4. QED
    BY <2>1, <2>2, <2>3 DEF CallOK, HoldsCopy, CopyOK, RequestOK, InForce, Grace, Limit
<1>7. GateOK' /\ BundleOK'
  BY <1>1 DEF GateOK, BundleOK, CopyOK, InForce
<1>8. QED
  BY <1>4, <1>5, <1>6, <1>7

\* What the invariant says of the shared answers and of one call.
LEMMA CachesOK ==
    ASSUME IInv
    PROVE  /\ TypeOK /\ GateOK
           /\ bundle \in Copy \cup {None}
           /\ bundle # None => CopyOK(bundle) /\ bundle.version >= told
           /\ anchor \in Anchor \cup {None} /\ (anchor # None => anchor.seq = highest)
           /\ highest \in Nat /\ told \in Version
BY DEF IInv, TypeOK, BundleOK, AnchorOK

LEMMA BeginSafe ==
    ASSUME IInv, NEW c \in Call, Begin(c)
    PROVE  IInv' /\ RestsOn(call'[c], highest')
<1>. DEFINE q == [call[c] EXCEPT !.owed = told]
            r == Entered(c, q, bundle, anchor)
<1>1. call[c] \in CallState /\ CallOK(call[c], highest) /\ call[c].st = "idle"
  BY DEF IInv, TypeOK, CallsOK, Begin
<1>2. q \in CallState /\ q.owed = told /\ ~ q.again
  BY <1>1, CachesOK DEF CallOK, CallState
<1>. HIDE DEF q
<1>3. CallOK(r, highest) /\ RestsOn(r, highest)
  BY <1>2, CachesOK, EnteredOK
<1>4. /\ Becomes(c, r)
      /\ UNCHANGED <<opts, gateVars, told, bundle, anchor, highest>>
  BY DEF Begin, q
<1>. HIDE DEF r
<1>5. IInv'
  BY <1>3, <1>4, CachesOK, BecomesSafe DEF AnchorOK, IInv
<1>6. call'[c] = r
  BY <1>4 DEF Becomes, IInv, TypeOK
<1>7. QED
  BY <1>3, <1>4, <1>5, <1>6 DEF RestsOn

LEMMA BundleArrivesSafe ==
    ASSUME IInv, NEW c \in Call, BundleArrives(c)
    PROVE  IInv' /\ RestsOn(call'[c], highest')
<1>1. call[c] \in CallState /\ CallOK(call[c], highest) /\ call[c].st = "loading"
  BY DEF IInv, TypeOK, CallsOK, BundleArrives
<1>2. PICK v \in Seen(call[c].asked) :
         LET b == [version |-> v, start |-> call[c].asked.start]
         IN  /\ bundle' = b
             /\ Becomes(c, Loaded(c, Waited(call[c], call[c].asked), b, anchor))
  BY DEF BundleArrives
<1>. DEFINE b == [version |-> v, start |-> call[c].asked.start]
            q == Waited(call[c], call[c].asked)
            r == Loaded(c, q, b, anchor)
<1>3. b \in Copy /\ CopyOK(b) /\ b.version >= told
  BY <1>1, CachesOK, ArrivalOK DEF CallOK
<1>waited. /\ q \in CallState /\ q.st = "loading" /\ q.owed = call[c].owed
      /\ clock <= b.start + q.slow
  BY <1>1, CachesOK, WaitedOK DEF CallOK, RequestOK
<1>4. bundle' = b /\ Becomes(c, r) /\ UNCHANGED <<opts, gateVars, told, anchor, highest>>
  BY <1>2 DEF BundleArrives
<1>. HIDE DEF b, q
<1>5. b.version >= q.owed /\ q.owed <= told
  BY <1>1, <1>3, <1>waited, CachesOK DEF CallOK, CallState, Copy
<1>limit. clock <= b.start + Limit(q)
  <2>1. q.slow \in Nat /\ b.start \in Nat /\ clock \in Nat
    BY <1>3, <1>waited, CachesOK DEF CallState, Copy, TypeOK
  <2>2. Limit(q) \in Nat /\ q.slow <= Limit(q)
    BY <2>1, Times
  <2>. QED
    BY <1>waited, <2>1, <2>2
<1>6. CallOK(r, highest) /\ RestsOn(r, highest)
  BY <1>3, <1>5, <1>waited, <1>limit, CachesOK, LoadedOK
<1>. HIDE DEF r
<1>7. IInv'
  BY <1>3, <1>4, <1>6, CachesOK, BecomesSafe DEF AnchorOK, IInv
<1>8. call'[c] = r
  BY <1>4 DEF Becomes, IInv, TypeOK
<1>9. QED
  BY <1>4, <1>6, <1>7, <1>8 DEF RestsOn

\* A call that goes to the gate keeps nothing.
LEMMA ToGateOK ==
    ASSUME IInv, NEW c \in Call
    PROVE  CallOK(ToGate(call[c]), highest) /\ ToGate(call[c]).st = "gate"
<1>1. call[c] \in CallState /\ CallOK(call[c], highest)
  BY DEF IInv, TypeOK, CallsOK
<1>2. /\ ToGate(call[c]) \in CallState /\ ToGate(call[c]).st = "gate"
      /\ ToGate(call[c]).owed = call[c].owed
  BY <1>1 DEF ToGate, CallState
<1>3. QED
  BY <1>1, <1>2 DEF CallOK, HoldsCopy

LEMMA BundleFailsSafe ==
    ASSUME IInv, NEW c \in Call, BundleFails(c)
    PROVE  IInv' /\ RestsOn(call'[c], highest')
<1>. DEFINE r == ToGate(call[c])
<1>1. CallOK(r, highest) /\ r.st = "gate"
  BY ToGateOK
<1>2. Becomes(c, r) /\ UNCHANGED <<opts, gateVars, told, bundle, anchor, highest>>
  BY DEF BundleFails
<1>. HIDE DEF r
<1>3. IInv'
  BY <1>1, <1>2, CachesOK, BecomesSafe DEF AnchorOK, IInv
<1>4. call'[c] = r
  BY <1>2 DEF Becomes, IInv, TypeOK
<1>5. QED
  BY <1>1, <1>3, <1>4 DEF RestsOn

\* A call that has read the anchor, or what is left of it.
LEMMA AnchoredOK ==
    ASSUME IInv, NEW c \in Call, call[c].st = "anchoring",
           NEW a \in Anchor \cup {None}, NEW h \in Nat, a # None => a.seq = h
    PROVE  LET r == Judged(c, Read(call[c]), bundle, a)
           IN  CallOK(r, h) /\ RestsOn(r, h)
<1>. DEFINE w == Waited(call[c], call[c].asked)
            q == Read(call[c])
<1>1. call[c] \in CallState /\ CallOK(call[c], highest)
  BY DEF IInv, TypeOK, CallsOK
<1>waited. /\ w \in CallState /\ w.st = "anchoring" /\ w.copy = call[c].copy
      /\ w.owed = call[c].owed /\ w.slow >= call[c].slow
      /\ clock <= call[c].asked.start + w.slow
  BY <1>1, CachesOK, WaitedOK DEF CallOK
<1>read. q = [w EXCEPT !.asked = None]
  BY DEF Read
<1>. HIDE DEF w
<1>2. /\ q \in CallState /\ q.st = "anchoring" /\ q.copy = call[c].copy
      /\ q.asked = None /\ q.owed = call[c].owed /\ q.slow = w.slow
  BY <1>waited, <1>read DEF CallState
<1>3. /\ call[c].copy \in Copy /\ CopyOK(call[c].copy)
      /\ call[c].copy.version >= call[c].owed /\ call[c].owed <= told
      /\ opts.verifyOnChain
  BY <1>1 DEF CallOK, HoldsCopy
<1>4. clock <= call[c].copy.start + Limit(q) + q.slow
  <2>1. /\ call[c].asked.start \in Nat /\ call[c].copy.start \in Nat /\ clock \in Nat
        /\ call[c].slow \in Nat /\ q.slow \in Nat
        /\ call[c].asked.start <= call[c].copy.start + Limit(call[c])
    BY <1>1, <1>2, <1>3 DEF CallOK, Request, Copy, CallState, IInv, TypeOK
  <2>2. Limit(call[c]) \in Nat /\ Limit(q) \in Nat /\ Limit(call[c]) <= Limit(q)
    BY <1>waited, <1>2, <2>1, Times DEF Limit, MaxOf
  <2>3. QED
    BY <1>waited, <1>2, <2>1, <2>2
<1>. HIDE DEF q
<1>5. /\ CallOK(Judged(c, q, bundle, a), h)
      /\ Judged(c, q, bundle, a).st = "local" =>
           /\ Judged(c, q, bundle, a).copy = q.copy
           /\ opts.verifyOnChain => AnchorOf[q.copy.version] = h
  <2>1. /\ q.owed <= told /\ q.copy \in Copy /\ CopyOK(q.copy)
        /\ q.copy.version >= q.owed /\ clock <= q.copy.start + Limit(q) + q.slow
    BY <1>2, <1>3, <1>4
  <2>2. q.st # "idle"
    BY <1>2
  <2>3. TypeOK /\ bundle \in Copy \cup {None}
    BY CachesOK
  <2>4. QED
    BY <1>2, <1>3, <2>1, <2>2, <2>3, JudgedOK
<1>6. QED
  BY <1>5 DEF RestsOn, q

LEMMA AnchorArrivesSafe ==
    ASSUME IInv, NEW c \in Call, AnchorArrives(c)
    PROVE  IInv' /\ RestsOn(call'[c], highest')
<1>1. call[c] \in CallState /\ CallOK(call[c], highest) /\ call[c].st = "anchoring"
  BY DEF IInv, TypeOK, CallsOK, AnchorArrives
<1>2. PICK v \in 0..policy :
         /\ AnchorOf[v] >= highest
         /\ anchor' = [seq |-> AnchorOf[v], start |-> call[c].asked.start]
         /\ highest' = AnchorOf[v]
  BY DEF AnchorArrives
<1>3. v \in Version /\ AnchorOf[v] \in Nat /\ call[c].asked.start \in Nat
  <2>1. policy \in Version
    BY DEF IInv, TypeOK
  <2>2. v \in Version
    BY <2>1
  <2>3. AnchorOf[v] \in Nat
    BY <2>2, AnchorAssumption
  <2>4. call[c].asked.start \in Nat
    BY <1>1 DEF CallOK, Request
  <2>5. QED
    BY <2>2, <2>3, <2>4
<1>4. anchor' \in Anchor /\ anchor'.seq = highest' /\ highest' \in Nat /\ highest <= highest'
  BY <1>2, <1>3, CachesOK DEF Anchor
<1>5. PICK a \in Anchor : a = anchor'
  BY <1>4
<1>6. PICK h \in Nat : h = highest'
  BY <1>4
<1>. DEFINE r == Judged(c, Read(call[c]), bundle, a)
<1>7. CallOK(r, h) /\ RestsOn(r, h)
  BY <1>1, <1>4, <1>5, <1>6, AnchoredOK
<1>8. Becomes(c, r) /\ UNCHANGED <<opts, gateVars, told, bundle>>
  BY <1>5 DEF AnchorArrives
<1>. HIDE DEF r
<1>9. IInv'
  BY <1>4, <1>6, <1>7, <1>8, CachesOK, BecomesSafe DEF AnchorOK
<1>10. call'[c] = r
  BY <1>8 DEF Becomes, IInv, TypeOK
<1>11. QED
  BY <1>6, <1>7, <1>8, <1>9, <1>10 DEF RestsOn

LEMMA AnchorMissedSafe ==
    ASSUME IInv, NEW c \in Call, AnchorMissed(c)
    PROVE  IInv' /\ RestsOn(call'[c], highest')
<1>. DEFINE r == Judged(c, Read(call[c]), bundle, anchor)
<1>1. CallOK(r, highest) /\ RestsOn(r, highest)
  BY CachesOK, AnchoredOK DEF AnchorMissed
<1>2. Becomes(c, r) /\ UNCHANGED <<opts, gateVars, told, bundle, anchor, highest>>
  BY DEF AnchorMissed
<1>. HIDE DEF r
<1>3. IInv'
  BY <1>1, <1>2, CachesOK, BecomesSafe DEF AnchorOK, IInv
<1>4. call'[c] = r
  BY <1>2 DEF Becomes, IInv, TypeOK
<1>5. QED
  BY <1>1, <1>2, <1>3, <1>4 DEF RestsOn

LEMMA RefreshArrivesSafe ==
    ASSUME IInv, RefreshArrives
    PROVE  IInv' /\ \A c \in Call : call[c].st = "local" \/ RestsOn(call'[c], highest')
<1>1. /\ refresh \in Request /\ RequestOK(refresh) /\ refresh.oldest >= told
      /\ refresh' = None /\ UNCHANGED <<opts, gateVars, told, anchor, highest>>
  BY DEF RefreshArrives, IInv, TypeOK, RefreshOK
<1>2. PICK v \in Seen(refresh) :
         LET b == [version |-> v, start |-> refresh.start]
         IN  /\ bundle' = b
             /\ call' = [c \in Call |->
                  IF call[c].st = "refreshing"
                  THEN Entered(c, [Waited(call[c], refresh) EXCEPT !.again = TRUE], b, anchor)
                  ELSE call[c]]
  BY DEF RefreshArrives
<1>. DEFINE b == [version |-> v, start |-> refresh.start]
<1>3. b \in Copy /\ CopyOK(b) /\ b.version >= told /\ b.start = refresh.start
  BY <1>1, CachesOK, ArrivalOK
<1>4. /\ bundle' = b
      /\ call' = [c \in Call |->
           IF call[c].st = "refreshing"
           THEN Entered(c, [Waited(call[c], refresh) EXCEPT !.again = TRUE], b, anchor)
           ELSE call[c]]
  BY <1>2
<1>. HIDE DEF b
<1>5. \A c \in Call : /\ CallOK(call'[c], highest) /\ call'[c].st # "refreshing"
                      /\ call[c].st = "local" \/ RestsOn(call'[c], highest)
  <2> SUFFICES ASSUME NEW c \in Call
               PROVE  /\ CallOK(call'[c], highest) /\ call'[c].st # "refreshing"
                      /\ call[c].st = "local" \/ RestsOn(call'[c], highest)
    OBVIOUS
  <2>1. call[c] \in CallState /\ CallOK(call[c], highest)
    BY DEF IInv, TypeOK, CallsOK
  <2>2. CASE call[c].st = "refreshing"
    <3>. DEFINE w == Waited(call[c], refresh)
                q == [w EXCEPT !.again = TRUE]
    <3>waited. /\ w \in CallState /\ w.st = "refreshing" /\ w.owed = call[c].owed
          /\ clock <= refresh.start + w.slow
      BY <1>1, <2>1, <2>2, CachesOK, WaitedOK DEF RequestOK
    <3>. HIDE DEF w
    <3>1. /\ q \in CallState /\ q.again /\ q.st = "refreshing" /\ q.owed = call[c].owed
          /\ clock <= b.start + q.slow
      BY <1>3, <3>waited DEF CallState
    <3>2. call'[c] = Entered(c, q, b, anchor)
      BY <1>4, <2>2 DEF w
    <3>3. q.owed <= told /\ b # None
      BY <1>3, <2>1, <3>1, NoneAssumption DEF CallOK
    <3>. HIDE DEF q
    <3>4. QED
      BY <1>3, <3>1, <3>2, <3>3, CachesOK, EnteredOK
  <2>3. CASE call[c].st # "refreshing"
    <3>1. call'[c] = call[c]
      BY <1>4, <2>3
    <3>2. QED
      BY <2>1, <2>3, <3>1 DEF RestsOn, CallOK
  <2>4. QED
    BY <2>2, <2>3
<1>6. IInv'
  <2>1. TypeOK'
    BY <1>1, <1>3, <1>4, <1>5 DEF IInv, TypeOK, CallOK, gateVars
  <2>2. GateOK' /\ BundleOK' /\ RefreshOK' /\ AnchorOK'
    BY <1>1, <1>3, <1>4
       DEF IInv, GateOK, BundleOK, RefreshOK, AnchorOK, CopyOK, InForce, gateVars
  <2>3. CallsOK'
    BY <1>1, <1>5 DEF CallsOK, CallOK, HoldsCopy, CopyOK, RequestOK, InForce, Grace, Limit, gateVars
  <2>4. QED
    BY <2>1, <2>2, <2>3 DEF IInv
<1>7. QED
  BY <1>1, <1>5, <1>6 DEF RestsOn

LEMMA RefreshFailsSafe ==
    ASSUME IInv, RefreshFails
    PROVE  IInv' /\ \A c \in Call : call[c].st = "local" \/ RestsOn(call'[c], highest')
<1>1. /\ refresh' = None /\ UNCHANGED <<opts, gateVars, told, bundle, anchor, highest>>
      /\ call' = [c \in Call |->
           IF call[c].st = "refreshing" THEN ToGate(call[c]) ELSE call[c]]
  BY DEF RefreshFails
<1>2. \A c \in Call : /\ CallOK(call'[c], highest) /\ call'[c].st # "refreshing"
                      /\ call[c].st = "local" \/ RestsOn(call'[c], highest)
  <2> SUFFICES ASSUME NEW c \in Call
               PROVE  /\ CallOK(call'[c], highest) /\ call'[c].st # "refreshing"
                      /\ call[c].st = "local" \/ RestsOn(call'[c], highest)
    OBVIOUS
  <2>1. CallOK(call[c], highest)
    BY DEF IInv, CallsOK
  <2>2. call'[c] = IF call[c].st = "refreshing" THEN ToGate(call[c]) ELSE call[c]
    BY <1>1
  <2>3. CASE call[c].st = "refreshing"
    BY <2>2, <2>3, ToGateOK DEF RestsOn
  <2>4. CASE call[c].st # "refreshing"
    <3>1. call'[c] = call[c]
      BY <2>2, <2>4
    <3>2. QED
      BY <2>1, <2>4, <3>1 DEF CallOK, RestsOn
  <2>5. QED
    BY <2>3, <2>4
<1>3. IInv'
  <2>1. TypeOK'
    BY <1>1, <1>2 DEF IInv, TypeOK, CallOK, gateVars
  <2>2. GateOK' /\ BundleOK' /\ RefreshOK' /\ AnchorOK'
    BY <1>1
       DEF IInv, GateOK, BundleOK, RefreshOK, AnchorOK, CopyOK, InForce, gateVars
  <2>3. CallsOK'
    BY <1>1, <1>2 DEF CallsOK, CallOK, HoldsCopy, CopyOK, RequestOK, InForce, Grace, Limit, gateVars
  <2>4. QED
    BY <2>1, <2>2, <2>3 DEF IInv
<1>4. QED
  BY <1>1, <1>2, <1>3 DEF RestsOn
-----------------------------------------------------------------------------
LEMMA ChangeSafe ==
    ASSUME IInv, Change
    PROVE  IInv'
<1>1. /\ policy < MaxVersion /\ policy' = policy + 1
      /\ since' = [since EXCEPT ![policy + 1] = clock]
      /\ pushes' \in {pushes, pushes \cup {policy + 1}}
      /\ UNCHANGED <<opts, clock, told, bundle, refresh, anchor, highest, call>>
  BY DEF Change
<1>2. TypeOK /\ GateOK /\ policy \in Version /\ clock \in Nat /\ since \in [Version -> Nat]
  BY DEF IInv, TypeOK
<1>3. /\ policy' \in Version /\ since'[policy'] = clock
      /\ \A w \in Version : w # policy' => since'[w] = since[w]
      /\ since' \in [Version -> Nat]
  BY <1>1, <1>2
<1>4. ASSUME NEW v \in Version, NEW t \in Nat, t <= clock, InForce(v, t)
      PROVE  InForce(v, t)'
  <2>1. v <= policy' /\ (v < policy' => v + 1 \in Version)
    BY <1>1, <1>2, <1>4 DEF InForce
  <2>2. CASE v < policy
    BY <1>1, <1>2, <1>3, <1>4, <2>1, <2>2 DEF InForce
  <2>3. CASE v = policy
    BY <1>1, <1>2, <1>3, <1>4, <2>1, <2>3 DEF InForce
  <2>4. QED
    BY <1>2, <1>4, <2>2, <2>3 DEF InForce
<1>5. TypeOK'
  BY <1>1, <1>2, <1>3 DEF TypeOK
<1>6. GateOK'
  BY <1>1, <1>2, <1>3 DEF GateOK, TypeOK
<1>7. BundleOK'
  <2>1. bundle # None => CopyOK(bundle) /\ bundle.version >= told /\ bundle \in Copy
    BY CachesOK
  <2>2. bundle # None => CopyOK(bundle)'
    BY <1>1, <1>4, <2>1 DEF CopyOK, Copy
  <2>3. QED
    BY <1>1, <2>1, <2>2 DEF BundleOK, CopyOK
<1>8. RefreshOK'
  <2>1. refresh # None =>
          RequestOK(refresh) /\ refresh.oldest >= told /\ refresh \in Request
    BY DEF IInv, RefreshOK, TypeOK
  <2>2. refresh # None => RequestOK(refresh)'
    BY <1>1, <1>4, <2>1 DEF RequestOK, Request
  <2>3. QED
    BY <1>1, <2>1, <2>2 DEF RefreshOK, RequestOK
<1>9. CallsOK'
  <2> SUFFICES ASSUME NEW c \in Call PROVE CallOK(call[c], highest)'
    BY DEF CallsOK
  <2>. DEFINE r == call[c]
  <2>1. CallOK(r, highest)
    BY DEF IInv, CallsOK
  <2>2. r.st = "loading" => RequestOK(r.asked)'
    BY <1>1, <1>4, <2>1 DEF CallOK, RequestOK, Request
  <2>3. HoldsCopy(r) => CopyOK(r.copy)'
    BY <1>1, <1>4, <2>1 DEF CallOK, CopyOK, Copy
  <2>4. Grace(r)' = Grace(r)
    BY <1>1 DEF Grace
  <2>5. QED
    BY <1>1, <2>1, <2>2, <2>3, <2>4 DEF CallOK, HoldsCopy, CopyOK, RequestOK, InForce, Grace, Limit
<1>10. AnchorOK'
  BY <1>1 DEF IInv, AnchorOK
<1>11. QED
  BY <1>5, <1>6, <1>7, <1>8, <1>9, <1>10 DEF IInv

LEMMA PushSafe ==
    ASSUME IInv, NEW v \in Version, Push(v)
    PROVE  IInv'
<1>1. /\ v \in pushes /\ bundle' = None /\ anchor' = None
      /\ pushes' = pushes \ {v}
      /\ told' = IF ~ InFlight /\ v > told THEN v ELSE told
      /\ UNCHANGED <<opts, clock, policy, since, refresh, highest, call>>
  BY DEF Push
<1>2. /\ TypeOK /\ GateOK /\ told \in Version /\ told' \in Version
      /\ told <= told' /\ told' <= policy
      /\ told' # told => ~ InFlight
  BY <1>1 DEF IInv, TypeOK, GateOK
<1>3. TypeOK' /\ GateOK' /\ BundleOK' /\ AnchorOK'
  BY <1>1, <1>2 DEF TypeOK, GateOK, BundleOK, AnchorOK
<1>4. RefreshOK'
  BY <1>1, <1>2 DEF IInv, RefreshOK, RequestOK, InForce, InFlight
<1>5. CallsOK'
  <2> SUFFICES ASSUME NEW c \in Call PROVE CallOK(call[c], highest)'
    BY DEF CallsOK
  <2>1. CallOK(call[c], highest) /\ (call[c].st = "loading" => told' = told)
    BY <1>2 DEF IInv, CallsOK, InFlight
  <2>2. call[c].owed \in Version
    BY <2>1 DEF CallOK, CallState
  <2>3. call[c].owed <= told'
    BY <1>2, <2>1, <2>2 DEF CallOK
  <2>4. QED
    BY <1>1, <2>1, <2>3 DEF CallOK, HoldsCopy, CopyOK, RequestOK, InForce, Grace, Limit
<1>6. QED
  BY <1>3, <1>4, <1>5 DEF IInv

LEMMA TickSafe ==
    ASSUME IInv, Tick
    PROVE  IInv'
<1>1. /\ clock' = clock + 1
      /\ UNCHANGED <<opts, policy, since, pushes, told, bundle, refresh, anchor, highest, call>>
  BY DEF Tick
<1>2. clock \in Nat
  BY DEF IInv, TypeOK
<1>3. TypeOK' /\ AnchorOK'
  BY <1>1, <1>2 DEF IInv, TypeOK, AnchorOK
<1>4. GateOK'
  BY <1>1, <1>2 DEF IInv, TypeOK, GateOK
<1>5. BundleOK'
  BY <1>1, <1>2, CachesOK DEF BundleOK, CopyOK, Copy, InForce
<1>6. RefreshOK'
  BY <1>1, <1>2 DEF IInv, TypeOK, RefreshOK, RequestOK, Request, InForce
<1>7. CallsOK'
  <2> SUFFICES ASSUME NEW c \in Call PROVE CallOK(call[c], highest)'
    BY DEF CallsOK
  <2>. DEFINE r == call[c]
  <2>1. CallOK(r, highest)
    BY DEF IInv, CallsOK
  <2>2. r.asked \in Request =>
          r.asked.start \in Nat /\ (r.asked.start <= clock => r.asked.start <= clock')
    BY <1>1, <1>2 DEF Request
  <2>3. r.st = "loading" => RequestOK(r.asked)'
    BY <1>1, <2>1, <2>2 DEF CallOK, RequestOK, InForce
  <2>4. HoldsCopy(r) => CopyOK(r.copy)'
    BY <1>1, <1>2, <2>1 DEF CallOK, CopyOK, Copy, InForce
  <2>5. r.st = "anchoring" =>
          r.asked \in Request /\ r.asked.start <= clock'
    BY <2>1, <2>2 DEF CallOK
  <2>6. QED
    BY <1>1, <2>1, <2>3, <2>4, <2>5
       DEF CallOK, HoldsCopy, CopyOK, RequestOK, InForce, Grace, Limit
<1>8. QED
  BY <1>3, <1>4, <1>5, <1>6, <1>7 DEF IInv

\* That a request is never answered changes nothing of what is known of it.
LEMMA FallsSilentSafe ==
    ASSUME IInv, NEW c \in Call, FallsSilent(c)
    PROVE  IInv' /\ RestsOn(call'[c], highest') /\ \A d \in Call : d # c => call'[d] = call[d]
<1>1. /\ call[c].st \in {"loading", "anchoring"}
      /\ UNCHANGED <<opts, gateVars, told, bundle, refresh, anchor, highest>>
      /\ call' = [call EXCEPT ![c].asked.silent = TRUE]
  BY DEF FallsSilent
<1>. DEFINE q == [call[c].asked EXCEPT !.silent = TRUE]
            r == [call[c] EXCEPT !.asked = q]
<1>2. call[c] \in CallState /\ CallOK(call[c], highest) /\ call[c].asked \in Request
  BY <1>1 DEF IInv, TypeOK, CallsOK, CallOK
<1>3. q \in Request /\ q.start = call[c].asked.start /\ q.oldest = call[c].asked.oldest
  BY <1>2 DEF Request
<1>4. call' = [call EXCEPT ![c] = r]
  BY <1>1
<1>. HIDE DEF q
<1>5. /\ r \in CallState /\ r.asked = q /\ r.st = call[c].st /\ r.again = call[c].again
      /\ r.copy = call[c].copy /\ r.owed = call[c].owed /\ r.slow = call[c].slow
      /\ r.at = call[c].at
  BY <1>2, <1>3 DEF CallState
<1>. HIDE DEF r
<1>6. CallOK(r, highest)
  BY <1>2, <1>3, <1>5 DEF CallOK, HoldsCopy, RequestOK, Grace, Limit
<1>7. /\ call'[c] = r /\ \A d \in Call : d # c => call'[d] = call[d]
      /\ call' \in [Call -> CallState]
  BY <1>4, <1>5 DEF IInv, TypeOK
<1>8. TypeOK'
  BY <1>1, <1>5, <1>7 DEF IInv, TypeOK, gateVars
<1>9. CallsOK'
  <2> SUFFICES ASSUME NEW d \in Call PROVE CallOK(call[d], highest)'
    BY DEF CallsOK
  <2>1. CallOK(call'[d], highest)
    BY <1>6, <1>7 DEF IInv, CallsOK
  <2>. QED
    BY <1>1, <2>1 DEF CallOK, HoldsCopy, CopyOK, RequestOK, InForce, Grace, Limit, gateVars
<1>10. GateOK' /\ BundleOK' /\ RefreshOK' /\ AnchorOK'
  BY <1>1 DEF IInv, GateOK, BundleOK, RefreshOK, AnchorOK, CopyOK, RequestOK, InForce, gateVars
<1>11. RestsOn(call'[c], highest')
  BY <1>1, <1>5, <1>7 DEF RestsOn
<1>. QED
  BY <1>7, <1>8, <1>9, <1>10, <1>11 DEF IInv

LEMMA RefreshFallsSilentSafe ==
    ASSUME IInv, RefreshFallsSilent
    PROVE  IInv'
<1>1. /\ refresh # None /\ refresh' = [refresh EXCEPT !.silent = TRUE]
      /\ UNCHANGED <<opts, gateVars, told, bundle, anchor, highest, call>>
  BY DEF RefreshFallsSilent
<1>2. /\ refresh' \in Request /\ refresh'.start = refresh.start
      /\ refresh'.oldest = refresh.oldest
  BY <1>1 DEF IInv, TypeOK, Request
<1>3. TypeOK'
  BY <1>1, <1>2, NoneAssumption DEF IInv, TypeOK, gateVars
<1>4. RefreshOK'
  BY <1>1, <1>2 DEF IInv, RefreshOK, RequestOK, InForce, gateVars
<1>5. GateOK' /\ BundleOK' /\ AnchorOK'
  BY <1>1 DEF IInv, GateOK, BundleOK, AnchorOK, CopyOK, InForce, gateVars
<1>6. CallsOK'
  BY <1>1
     DEF IInv, CallsOK, CallOK, HoldsCopy, CopyOK, RequestOK, InForce, Grace, Limit, gateVars
<1>. QED
  BY <1>3, <1>4, <1>5, <1>6 DEF IInv
-----------------------------------------------------------------------------
\* A verdict given in this step rests on the highest anchor seen.
VerdictsRest == \A c \in Call : call[c].st = "local" \/ RestsOn(call'[c], highest')

\* One call's step leaves the others where they were.
LEMMA OthersStay ==
    ASSUME IInv, NEW c \in Call, NEW r, Becomes(c, r), RestsOn(call'[c], highest')
    PROVE  VerdictsRest
BY DEF Becomes, IInv, TypeOK, RestsOn, VerdictsRest

LEMMA CallStepSafe ==
    ASSUME IInv, NEW c \in Call, Begin(c) \/ Answer(c)
    PROVE  IInv' /\ highest' >= highest /\ VerdictsRest
<1>1. highest \in Nat /\ AnchorOf \in [Version -> Nat]
  BY AnchorAssumption, CachesOK
<1>2. CASE Begin(c)
  BY <1>1, <1>2, BeginSafe, OthersStay DEF Begin
<1>3. CASE BundleArrives(c)
  <2>1. IInv' /\ RestsOn(call'[c], highest') /\ highest' = highest
    BY <1>3, BundleArrivesSafe DEF BundleArrives
  <2>2. PICK r : Becomes(c, r)
    BY <1>3 DEF BundleArrives
  <2>3. VerdictsRest
    BY <2>1, <2>2, OthersStay
  <2>4. QED
    BY <1>1, <2>1, <2>3
<1>4. CASE BundleFails(c)
  BY <1>1, <1>4, BundleFailsSafe, OthersStay DEF BundleFails
<1>5. CASE AnchorArrives(c)
  BY <1>5, AnchorArrivesSafe, OthersStay DEF AnchorArrives
<1>6. CASE AnchorMissed(c)
  BY <1>1, <1>6, AnchorMissedSafe, OthersStay DEF AnchorMissed
<1>7. QED
  BY <1>2, <1>3, <1>4, <1>5, <1>6 DEF Answer

LEMMA StepSafe ==
    ASSUME IInv, [Next]_vars
    PROVE  IInv' /\ highest' >= highest /\ VerdictsRest
<1>1. highest \in Nat
  BY CachesOK
<1>2. CASE \E c \in Call : Begin(c) \/ Answer(c)
  BY <1>2, CallStepSafe
<1>3. CASE RefreshArrives
  BY <1>1, <1>3, RefreshArrivesSafe DEF RefreshArrives, VerdictsRest
<1>4. CASE RefreshFails
  BY <1>1, <1>4, RefreshFailsSafe DEF RefreshFails, VerdictsRest
<1>5. CASE Change
  BY <1>1, <1>5, ChangeSafe DEF Change, VerdictsRest, RestsOn
<1>6. CASE Tick
  BY <1>1, <1>6, TickSafe DEF Tick, VerdictsRest, RestsOn
<1>7. CASE \E v \in Version : Push(v)
  BY <1>1, <1>7, PushSafe DEF Push, VerdictsRest, RestsOn
<1>8. CASE UNCHANGED vars
  <2>1. VerdictsRest /\ highest' >= highest
    BY <1>1, <1>8 DEF vars, VerdictsRest, RestsOn
  <2>2. IInv'
    <3>1. TypeOK' /\ GateOK' /\ AnchorOK'
      BY <1>8 DEF vars, gateVars, IInv, TypeOK, GateOK, AnchorOK
    <3>2. BundleOK' /\ RefreshOK'
      BY <1>8 DEF vars, gateVars, IInv, BundleOK, RefreshOK, CopyOK, RequestOK, InForce
    <3>3. CallsOK'
      BY <1>8 DEF vars, gateVars, IInv, CallsOK, CallOK, HoldsCopy, CopyOK, RequestOK,
         InForce, Grace, Limit
    <3>. QED
      BY <3>1, <3>2, <3>3 DEF IInv
  <2>3. QED
    BY <2>1, <2>2
<1>silent. CASE \E c \in Call : FallsSilent(c)
  <2>1. PICK c \in Call : FallsSilent(c)
    BY <1>silent
  <2>2. /\ IInv' /\ RestsOn(call'[c], highest') /\ \A d \in Call : d # c => call'[d] = call[d]
        /\ highest' = highest /\ opts' = opts
    BY <2>1, FallsSilentSafe DEF FallsSilent
  <2>3. VerdictsRest
    BY <2>2 DEF VerdictsRest, RestsOn
  <2>. QED
    BY <1>1, <2>2, <2>3
<1>shared. CASE RefreshFallsSilent
  BY <1>1, <1>shared, RefreshFallsSilentSafe DEF RefreshFallsSilent, VerdictsRest, RestsOn
<1>9. \/ \E c \in Call : Begin(c) \/ Answer(c)
      \/ (\E c \in Call : FallsSilent(c)) \/ RefreshFallsSilent
      \/ RefreshArrives \/ RefreshFails \/ Change \/ Tick
      \/ \E v \in Version : Push(v)
      \/ UNCHANGED vars
  BY DEF Next, Refresh
<1>10. QED
  BY <1>2, <1>3, <1>4, <1>5, <1>6, <1>7, <1>8, <1>9, <1>silent, <1>shared

LEMMA AlwaysSafe == Spec => []IInv
<1>1. IInv /\ [Next]_vars => IInv'
  BY StepSafe
<1>2. QED
  BY InitSafe, <1>1, PTL DEF Spec

\* A call waits for a shared refresh only while there is one (onFreshBundle).
THEOREM LocalTypeCorrect == Spec => []TypeOK
<1>1. IInv => TypeOK
  BY DEF IInv
<1>2. QED
  BY <1>1, AlwaysSafe, PTL

\* A verdict rests on no older policy than the age limits allow, however the
\* requests of other calls, shared refreshes and pushes fall in between.
THEOREM VerdictsAreRecent == Spec => []VerdictIsRecent
<1>1. IInv => VerdictIsRecent
  <2> SUFFICES ASSUME IInv, NEW c \in Call, call[c].st = "local",
                      call[c].copy.version < policy
               PROVE  since[call[c].copy.version + 1] + Grace(call[c]) >= call[c].at
    BY DEF VerdictIsRecent, Recent
  <2>. DEFINE r == call[c]
              v == call[c].copy.version
  <2>1. /\ r \in CallState /\ r.copy \in Copy /\ CopyOK(r.copy)
        /\ r.at <= r.copy.start + Grace(r)
    BY DEF IInv, CallsOK, CallOK, HoldsCopy
  <2>2. /\ r.at \in Nat /\ r.copy.start \in Nat /\ v + 1 \in Version
        /\ since[v + 1] \in Nat /\ Grace(r) \in Nat
    <3>1. r.at \in Nat /\ r.copy.start \in Nat
      BY <2>1 DEF CallState, Copy
    <3>2. v \in Version /\ policy \in Version /\ since \in [Version -> Nat]
      BY <2>1 DEF Copy, IInv, TypeOK
    <3>3. v + 1 \in Version
      <4>1. v < policy
        OBVIOUS
      <4>. HIDE DEF v
      <4>2. QED
        BY <3>2, <4>1
    <3>4. Grace(r) \in Nat
      BY <2>1, Times DEF Grace, MaxOf, CallState
    <3>5. QED
      BY <3>1, <3>2, <3>3, <3>4
  <2>3. since[v + 1] >= r.copy.start
    BY <2>1 DEF CopyOK, InForce
  <2>4. QED
    BY <2>1, <2>2, <2>3
<1>2. QED
  BY <1>1, AlwaysSafe, PTL

\* A push that met no bundle in flight is heeded by every later call.
THEOREM PushesAreHeeded == Spec => []PushIsHeeded
<1>1. IInv => PushIsHeeded
  BY DEF IInv, CallsOK, CallOK, HoldsCopy, PushIsHeeded
<1>2. QED
  BY <1>1, AlwaysSafe, PTL

\* With verifyOnChain the anchors that verdicts rest on never go back.
THEOREM AnchorsNeverRollBack == Spec => NoRollback
<1>. DEFINE Forward ==
       \A c, d \in Call :
          /\ opts.verifyOnChain
          /\ call[c].st # "local" /\ call'[c].st = "local"
          /\ call[d].st = "local"
          => AnchorOf[call'[c].copy.version] >= AnchorOf[call[d].copy.version]
<1>1. ASSUME IInv, [Next]_vars PROVE Forward
  <2> SUFFICES ASSUME NEW c \in Call, NEW d \in Call, opts.verifyOnChain,
                      call[c].st # "local", call'[c].st = "local", call[d].st = "local"
               PROVE  AnchorOf[call'[c].copy.version] >= AnchorOf[call[d].copy.version]
    OBVIOUS
  <2>1. IInv' /\ highest' >= highest /\ RestsOn(call'[c], highest')
    BY <1>1, StepSafe DEF VerdictsRest
  <2>2. /\ AnchorOf[call[d].copy.version] <= highest /\ call[d].copy \in Copy
        /\ highest \in Nat /\ highest' \in Nat
    BY <1>1, <2>1 DEF IInv, TypeOK, CallsOK, CallOK, HoldsCopy
  <2>3. opts' = opts
    BY <1>1 DEF Next, vars, Begin, Answer, BundleArrives, BundleFails, AnchorArrives,
       AnchorMissed, Refresh, RefreshArrives, RefreshFails, Change, Tick, Push,
       FallsSilent, RefreshFallsSilent
  <2>4. AnchorOf[call'[c].copy.version] = highest'
    BY <2>1, <2>3 DEF RestsOn
  <2>5. AnchorOf[call[d].copy.version] \in Nat
    BY <2>2, AnchorAssumption DEF Copy
  <2>6. QED
    BY <2>1, <2>2, <2>4, <2>5
<1>2. QED
  BY <1>1, AlwaysSafe, PTL DEF Spec, NoRollback
=============================================================================
