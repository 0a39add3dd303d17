------------------------- MODULE BundleCacheProofs --------------------------
(***************************************************************************)
(* Safety of the bundle cache for any agents, calls, limits and number of  *)
(* changes and drops.  The invariant says whose load an entry is, and ties *)
(* the version of every cached bundle to the pushes still on their way     *)
(* while both ends of the stream are open; recency does not appear in it.  A second one  *)
(* says that recency is short and names every agent that holds something,  *)
(* so that eviction finds it.                                              *)
(***************************************************************************)
EXTENDS BundleCache, FiniteSetTheorems, TLAPS

Types ==
    /\ issuer \in [Agent -> Nat]
    /\ pushes \in [Agent -> Nat]
    /\ stream \in [Agent -> {"none", "connecting", "accepted", "open", "waiting"}]
    /\ dead \subseteq {a \in Agent : stream[a] \in {"accepted", "open"}}
    /\ entry \in [Agent -> Call \cup {NoCall}]
    /\ load \in [Call -> {"none", "asked", "read", "failed"}]
    /\ version \in [Call -> Nat]

\* A cached load is one of the agent's own, and it has not failed.
EntriesMatch ==
    \A a \in Agent : entry[a] # NoCall =>
        AgentOf[entry[a]] = a /\ load[entry[a]] # "failed"

\* Whatever its age, what is cached beside an open stream is current or
\* about to be forgotten, unless the issuer's end of the stream is gone.
PushesCover ==
    \A a \in Agent \ dead : stream[a] = "open" /\ Outdated(a) => pushes[a] > 0

IInv == Types /\ EntriesMatch /\ PushesCover

\* Forgetting entries, and closing the streams of agents whose entry is
\* forgotten, keeps the invariant while loads and policies stand still.
LEMMA ForgettingIsSafe ==
    ASSUME IInv, NEW E \in SUBSET Agent,
           ForgetAll(E),
           stream' \in [Agent -> {"none", "connecting", "accepted", "open", "waiting"}],
           dead' = dead \/ dead' = dead \ E,
           dead' \subseteq {a \in Agent : stream'[a] \in {"accepted", "open"}},
           pushes' \in [Agent -> Nat],
           \A a \in Agent \ E : stream'[a] = "open" =>
               stream[a] = "open" /\ pushes'[a] >= pushes[a],
           UNCHANGED <<issuer, load, version>>
    PROVE  IInv'
<1>. USE NoCallAssumption, AgentOfAssumption
<1>1. \A a \in Agent : entry'[a] = IF a \in E THEN NoCall ELSE entry[a]
  BY DEF ForgetAll
<1>2. Types'
  BY DEF IInv, Types, ForgetAll
<1>3. EntriesMatch'
  BY <1>1 DEF IInv, EntriesMatch
<1>4. PushesCover'
  <2> SUFFICES ASSUME NEW a \in Agent \ dead', stream'[a] = "open", Outdated(a)'
               PROVE  pushes'[a] > 0
    BY DEF PushesCover
  <2>1. a \notin E /\ entry'[a] = entry[a] /\ a \notin dead
    BY <1>1 DEF Outdated
  <2>2. stream[a] = "open" /\ pushes'[a] >= pushes[a]
    BY <2>1
  <2>3. Outdated(a)
    BY <2>1 DEF Outdated
  <2>4. pushes[a] > 0 /\ pushes[a] \in Nat /\ pushes'[a] \in Nat
    BY <2>1, <2>2, <2>3 DEF IInv, PushesCover, Types
  <2>5. QED
    BY <2>2, <2>4
<1>5. QED
  BY <1>2, <1>3, <1>4 DEF IInv

\* Steps that leave entries, pushes and policies alone and open no stream.
LEMMA QuietStepIsSafe ==
    ASSUME IInv,
           stream' \in [Agent -> {"none", "connecting", "accepted", "open", "waiting"}],
           \A a \in Agent : /\ stream'[a] = "open" => stream[a] = "open"
                            /\ stream[a] \in {"accepted", "open"} => stream'[a] = stream[a],
           UNCHANGED <<issuer, dead, pushes, entry, load, version>>
    PROVE  IInv'
<1>1. Types'
  BY DEF IInv, Types
<1>2. EntriesMatch' /\ PushesCover'
  BY DEF IInv, EntriesMatch, PushesCover, Outdated
<1>3. QED
  BY <1>1, <1>2 DEF IInv

LEMMA InitSafe == Init => IInv
BY DEF Init, IInv, Types, EntriesMatch, PushesCover, Outdated

LEMMA HitSafe ==
    ASSUME IInv, NEW c \in Call, NEW a \in Agent, Hit(c, a)
    PROVE  IInv'
<1>. DEFINE E == Evicted(a) \cap Agent
<1>1. ForgetAll(E)
  BY DEF Hit, ForgetAll
<1>2. /\ stream' = [b \in Agent |-> IF b \in E THEN "none" ELSE stream[b]]
      /\ pushes' = [b \in Agent |-> IF b \in E THEN 0 ELSE pushes[b]]
      /\ dead' = dead \ E
      /\ UNCHANGED <<issuer, load, version>>
  BY DEF Hit, Unwatch, IInv, Types
<1>. HIDE DEF E
<1>3. /\ stream' \in [Agent -> {"none", "connecting", "accepted", "open", "waiting"}]
      /\ pushes' \in [Agent -> Nat]
      /\ dead' \subseteq {b \in Agent : stream'[b] \in {"accepted", "open"}}
  BY <1>2 DEF IInv, Types
<1>4. \A b \in Agent \ E : stream'[b] = stream[b] /\ pushes'[b] = pushes[b]
  BY <1>2
<1>5. \A b \in Agent : pushes[b] \in Nat
  BY DEF IInv, Types
<1>6. \A b \in Agent \ E : stream'[b] = "open" =>
        stream[b] = "open" /\ pushes'[b] >= pushes[b]
  BY <1>4, <1>5
<1>7. E \in SUBSET Agent
  BY DEF E
<1>8. QED
  BY <1>1, <1>2, <1>3, <1>6, <1>7, ForgettingIsSafe

LEMMA MissSafe ==
    ASSUME IInv, NEW c \in Call, NEW a \in Agent, Miss(c, a)
    PROVE  IInv'
<1>. USE NoCallAssumption, AgentOfAssumption
<1>. DEFINE E == Evicted(a)
<1>1. /\ a = AgentOf[c]
      /\ load' = [load EXCEPT ![c] = "asked"]
      /\ entry' = [b \in Agent |->
            IF b = a THEN c ELSE IF b \in E THEN NoCall ELSE entry[b]]
      /\ stream' = [b \in Agent |->
            IF b = a
            THEN IF Watch /\ stream[a] = "none" THEN "connecting" ELSE stream[a]
            ELSE IF b \in E THEN "none" ELSE stream[b]]
      /\ dead' = dead \ E
      /\ pushes' = [b \in Agent |-> IF b \in E THEN 0 ELSE pushes[b]]
      /\ UNCHANGED <<issuer, version>>
  BY DEF Miss, Asked
<1>. HIDE DEF E
<1>2. Types'
  BY <1>1 DEF IInv, Types
<1>3. EntriesMatch'
  <2> SUFFICES ASSUME NEW b \in Agent, entry'[b] # NoCall
               PROVE  AgentOf[entry'[b]] = b /\ load'[entry'[b]] # "failed"
    BY DEF EntriesMatch
  <2>1. CASE b = a
    BY <2>1, <1>1 DEF IInv, Types
  <2>2. CASE b # a
    <3>1. entry'[b] = entry[b] /\ entry[b] \in Call
      BY <2>2, <1>1 DEF IInv, Types
    <3>2. AgentOf[entry[b]] = b /\ load[entry[b]] # "failed"
      BY <3>1 DEF IInv, EntriesMatch
    <3>3. load'[entry[b]] = IF entry[b] = c THEN "asked" ELSE load[entry[b]]
      BY <3>1, <1>1 DEF IInv, Types
    <3>4. QED
      BY <3>1, <3>2, <3>3
  <2>3. QED
    BY <2>1, <2>2
<1>4. PushesCover'
  <2> SUFFICES ASSUME NEW b \in Agent \ dead', stream'[b] = "open", Outdated(b)'
               PROVE  pushes'[b] > 0
    BY DEF PushesCover
  <2>1. b # a
    BY <1>1 DEF Outdated, IInv, Types
  <2>2. /\ b \notin E /\ entry'[b] = entry[b] /\ pushes'[b] = pushes[b] /\ stream[b] = "open"
        /\ b \notin dead
    BY <2>1, <1>1 DEF Outdated
  <2>3. entry[b] \in Call /\ AgentOf[entry[b]] = b
    BY <2>2 DEF Outdated, IInv, Types, EntriesMatch
  <2>4. entry[b] # c
    BY <2>1, <2>3, <1>1
  <2>5. Outdated(b)
    BY <2>2, <2>3, <2>4, <1>1 DEF Outdated, IInv, Types
  <2>6. QED
    BY <2>2, <2>5 DEF IInv, PushesCover
<1>5. QED
  BY <1>2, <1>3, <1>4 DEF IInv

LEMMA LoadSafe ==
    ASSUME IInv, NEW c \in Call, IssuerReads(c) \/ LoadFails(c)
    PROVE  IInv'
<1>. USE NoCallAssumption, AgentOfAssumption
<1>1. CASE IssuerReads(c)
  <2>1. Types'
    BY <1>1 DEF IssuerReads, IInv, Types, streamVars
  <2>2. EntriesMatch'
    BY <1>1 DEF IssuerReads, IInv, Types, EntriesMatch
  <2>3. PushesCover'
    <3> SUFFICES ASSUME NEW a \in Agent \ dead', stream'[a] = "open", Outdated(a)'
                 PROVE  pushes'[a] > 0
      BY DEF PushesCover
    <3>1. /\ entry'[a] = entry[a] /\ entry[a] \in Call /\ AgentOf[entry[a]] = a
          /\ issuer' = issuer /\ pushes' = pushes /\ stream' = stream /\ dead' = dead
      BY <1>1 DEF IssuerReads, Outdated, IInv, Types, EntriesMatch, streamVars
    <3>2. entry[a] # c
      BY <1>1, <3>1 DEF IssuerReads, Outdated, IInv, Types
    <3>3. Outdated(a)
      BY <1>1, <3>1, <3>2 DEF IssuerReads, Outdated, IInv, Types
    <3>4. QED
      BY <3>1, <3>3 DEF IInv, PushesCover
  <2>4. QED
    BY <2>1, <2>2, <2>3 DEF IInv
<1>2. CASE LoadFails(c)
  <2>1. /\ load' = [load EXCEPT ![c] = "failed"]
        /\ entry' = [a \in Agent |-> IF entry[a] = c THEN NoCall ELSE entry[a]]
        /\ UNCHANGED <<issuer, dead, pushes, stream, version>>
    BY <1>2 DEF LoadFails, Forget, ForgetAll, IInv, Types, EntriesMatch, streamVars
  <2>2. Types'
    BY <2>1 DEF IInv, Types
  <2>3. EntriesMatch'
    BY <2>1 DEF IInv, Types, EntriesMatch
  <2>4. PushesCover'
    BY <2>1 DEF IInv, Types, PushesCover, Outdated
  <2>5. QED
    BY <2>2, <2>3, <2>4 DEF IInv
<1>3. QED
  BY <1>1, <1>2

LEMMA StreamSafe ==
    ASSUME IInv, NEW a \in Agent,
           \/ Age(a) \/ Invalidate({a}) \/ Change(a) \/ IssuerEnds(a)
           \/ Accept(a) \/ OnOpen(a) \/ OnEvent(a) \/ OnDrop(a)
           \/ Reconnect(a) \/ ClosedDrop(a)
    PROVE  IInv'
<1>0. \A b \in Agent : pushes[b] \in Nat
  BY DEF IInv, Types
<1>1. CASE Age(a) \/ Accept(a) \/ Reconnect(a)
  <2>1. /\ stream' \in [Agent -> {"none", "connecting", "accepted", "open", "waiting"}]
        /\ \A b \in Agent : /\ stream'[b] = "open" => stream[b] = "open"
                            /\ stream[b] \in {"accepted", "open"} => stream'[b] = stream[b]
        /\ UNCHANGED <<issuer, dead, pushes, entry, load, version>>
    BY <1>1 DEF Age, Accept, Reconnect, IInv, Types, streamVars, callVars
  <2>2. QED
    BY <2>1, QuietStepIsSafe
<1>2. CASE Invalidate({a}) \/ OnOpen(a) \/ OnEvent(a) \/ OnDrop(a) \/ ClosedDrop(a)
  <2>1. /\ stream' \in [Agent -> {"none", "connecting", "accepted", "open", "waiting"}]
        /\ pushes' \in [Agent -> Nat]
        /\ dead' = dead \/ dead' = dead \ {a}
        /\ dead' \subseteq {b \in Agent : stream'[b] \in {"accepted", "open"}}
        /\ UNCHANGED <<issuer, load, version>>
    BY <1>2 DEF Invalidate, OnOpen, OnEvent, OnDrop, ClosedDrop, IInv, Types,
                streamVars, callVars
  <2>2. \A b \in Agent \ {a} : stream'[b] = stream[b] /\ pushes'[b] = pushes[b]
    BY <1>2 DEF Invalidate, OnOpen, OnEvent, OnDrop, ClosedDrop, IInv, Types,
                streamVars
  <2>3. \A b \in Agent \ {a} : stream'[b] = "open" =>
            stream[b] = "open" /\ pushes'[b] >= pushes[b]
    BY <2>2, <1>0
  <2>4. ForgetAll({a})
    BY <1>2 DEF Invalidate, OnOpen, OnEvent, OnDrop, ClosedDrop, Forget
  <2>5. QED
    BY <2>1, <2>3, <2>4, ForgettingIsSafe
<1>3. CASE Change(a)
  <2>1. Types'
    BY <1>3 DEF Change, IInv, Types, callVars
  <2>2. EntriesMatch'
    BY <1>3 DEF Change, IInv, EntriesMatch, callVars
  <2>3. PushesCover'
    <3> SUFFICES ASSUME NEW b \in Agent \ dead', stream'[b] = "open", Outdated(b)'
                 PROVE  pushes'[b] > 0
      BY DEF PushesCover
    <3>0. dead' = dead
      BY <1>3 DEF Change
    <3>1. CASE b = a
      BY <3>0, <3>1, <1>0, <1>3 DEF Change, IInv, Types
    <3>2. CASE b # a
      <4>1. Outdated(b) /\ stream[b] = "open" /\ pushes'[b] = pushes[b]
        BY <3>0, <3>2, <1>3 DEF Change, Outdated, IInv, Types, callVars
      <4>2. QED
        BY <3>0, <4>1 DEF IInv, PushesCover
    <3>3. QED
      BY <3>1, <3>2
  <2>4. QED
    BY <2>1, <2>2, <2>3 DEF IInv
<1>4. CASE IssuerEnds(a)
  <2>1. /\ dead' = dead \cup {a} /\ stream[a] \in {"accepted", "open"}
        /\ UNCHANGED <<issuer, stream, entry, load, version>>
        /\ \A b \in Agent \ {a} : pushes'[b] = pushes[b]
    BY <1>4 DEF IssuerEnds, IInv, Types, callVars
  <2>2. pushes' \in [Agent -> Nat]
    BY <1>0, <1>4 DEF IssuerEnds, IInv, Types
  <2>3. Types'
    BY <2>1, <2>2 DEF IInv, Types
  <2>4. EntriesMatch' /\ PushesCover'
    BY <2>1 DEF IInv, EntriesMatch, PushesCover, Outdated
  <2>5. QED
    BY <2>3, <2>4 DEF IInv
<1>5. QED
  BY <1>1, <1>2, <1>3, <1>4

LEMMA InvalidateAllSafe == ASSUME IInv, Invalidate(Agent) PROVE IInv'
<1>1. /\ stream' = stream /\ pushes' = pushes /\ dead' = dead
      /\ ForgetAll(Agent)
      /\ UNCHANGED <<issuer, load, version>>
  BY DEF Invalidate, streamVars, callVars
<1>2. QED
  BY <1>1, ForgettingIsSafe DEF IInv, Types

LEMMA CloseSafe == ASSUME IInv, Close PROVE IInv'
<1>1. /\ stream' = [a \in Agent |-> "none"]
      /\ pushes' = [a \in Agent |-> 0]
      /\ dead' = dead \ Agent /\ dead' = {}
      /\ ForgetAll(Agent)
      /\ UNCHANGED <<issuer, load, version>>
  BY DEF Close, Unwatch, callVars, IInv, Types
<1>2. QED
  BY <1>1, ForgettingIsSafe

LEMMA StutterSafe == ASSUME IInv, UNCHANGED vars PROVE IInv'
BY DEF IInv, Types, EntriesMatch, PushesCover, Outdated, vars, streamVars, callVars

LEMMA StepSafe == IInv /\ [Next]_vars => IInv'
<1> SUFFICES ASSUME IInv, [Next]_vars PROVE IInv'
  OBVIOUS
<1>1. ASSUME NEW c \in Call, NEW a \in Agent, Hit(c, a) PROVE IInv'
  BY <1>1, HitSafe
<1>2. ASSUME NEW c \in Call, NEW a \in Agent, Miss(c, a) PROVE IInv'
  BY <1>2, MissSafe
<1>3. ASSUME NEW c \in Call, IssuerReads(c) \/ LoadFails(c)
      PROVE  IInv'
  BY <1>3, LoadSafe
<1>4. ASSUME NEW a \in Agent,
             \/ Age(a) \/ Invalidate({a}) \/ Change(a) \/ IssuerEnds(a)
             \/ Accept(a) \/ OnOpen(a) \/ OnEvent(a) \/ OnDrop(a)
             \/ Reconnect(a) \/ ClosedDrop(a)
      PROVE  IInv'
  BY <1>4, StreamSafe
<1>5. CASE Invalidate(Agent) \/ Close
  BY <1>5, InvalidateAllSafe, CloseSafe
<1>6. CASE UNCHANGED vars
  BY <1>6, StutterSafe
<1>7. QED
  BY <1>1, <1>2, <1>3, <1>4, <1>5, <1>6 DEF Next

LEMMA Safe == Spec => []IInv
BY InitSafe, StepSafe, PTL DEF Spec

\* A bundle that would be served although its policy has changed has a push
\* on its way on the open stream, or the issuer's end of it is gone (createBundleCache: onOpen, onEvent, onDrop
\* and get), for any agents, calls and limits.
THEOREM PushCoversOutdated == Spec => []OutdatedOnlyBehindAPush
<1>1. IInv => OutdatedOnlyBehindAPush
  BY DEF IInv, PushesCover, OutdatedOnlyBehindAPush, Servable
<1>2. QED
  BY <1>1, Safe, PTL

\* No get is handed a load that has failed (get: the rejection handler).
THEOREM FailureIsForgotten == Spec => []FailureIsNotCached
<1>1. IInv => FailureIsNotCached
  BY DEF IInv, EntriesMatch, FailureIsNotCached
<1>2. QED
  BY <1>1, Safe, PTL
-----------------------------------------------------------------------------
Held(a) == entry[a] # NoCall \/ stream[a] # "none"

Counters ==
    /\ closing \in [Agent -> Nat]
    /\ drops \in Nat
    /\ aged \in [Agent -> BOOLEAN]
    /\ asked \subseteq Call

\* recency is short, and whoever holds a bundle or a stream is in it.
Places ==
    /\ recency \in Seq(Agent)
    /\ Len(recency) <= MaxAgents
    /\ \A a \in Agent : Held(a) => a \in ToSet(recency)

LInv == IInv /\ Counters /\ Places

LEMMA Members ==
    ASSUME NEW s \in Seq(Agent)
    PROVE  /\ \A x \in ToSet(s) : \E i \in 1..Len(s) : s[i] = x
           /\ \A i \in 1..Len(s) : s[i] \in ToSet(s)
<1>1. DOMAIN s = 1..Len(s)
  OBVIOUS
<1>2. QED
  BY <1>1 DEF ToSet

\* Taking an agent out of recency keeps every other one.
LEMMA OthersStay ==
    ASSUME recency \in Seq(Agent), NEW a \in Agent
    PROVE  /\ Others(a) \in Seq(Agent)
           /\ Len(Others(a)) <= Len(recency)
           /\ \A b \in ToSet(recency) : b # a => b \in ToSet(Others(a))
<1>1. CASE a \notin ToSet(recency)
  BY <1>1 DEF Others
<1>2. CASE a \in ToSet(recency)
  <2>. DEFINE i == Place(a)
              n == Len(recency)
              s == SubSeq(recency, 1, i - 1)
              t == SubSeq(recency, i + 1, n)
  <2>1. i \in 1..n /\ recency[i] = a
    <3>1. \E j \in DOMAIN recency : recency[j] = a
      BY <1>2 DEF ToSet
    <3>2. QED
      BY <3>1 DEF Place
  <2>2. Others(a) = s \o t
    BY <1>2 DEF Others, RemoveAt
  <2>. HIDE DEF i
  <2>3. s \in Seq(Agent) /\ Len(s) = i - 1 /\ \A j \in 1..(i - 1) : s[j] = recency[j]
    BY <2>1
  <2>4. t \in Seq(Agent) /\ Len(t) = n - i /\ \A j \in 1..(n - i) : t[j] = recency[i + j]
    BY <2>1
  <2>. HIDE DEF s, t
  <2>5. s \o t \in Seq(Agent) /\ Len(s \o t) = n - 1
    BY <2>1, <2>3, <2>4
  <2>6. ASSUME NEW b \in ToSet(recency), b # a PROVE b \in ToSet(s \o t)
    <3>1. PICK j \in 1..n : recency[j] = b
      BY Members
    <3>2. CASE j < i
      <4>1. (s \o t)[j] = b /\ j \in 1..(n - 1)
        BY <2>1, <2>3, <2>4, <3>1, <3>2
      <4>2. QED
        BY <4>1, <2>5, Members
    <3>3. CASE j > i
      <4>1. j - i \in 1..(n - i) /\ j - 1 \in 1..(n - 1) /\ j - 1 > Len(s)
        BY <2>1, <2>3, <3>1, <3>3
      <4>2. (s \o t)[j - 1] = t[j - 1 - Len(s)]
        BY <2>3, <2>4, <2>5, <4>1
      <4>3. (s \o t)[j - 1] = b
        BY <2>1, <2>3, <2>4, <3>1, <4>1, <4>2
      <4>4. QED
        BY <4>1, <4>3, <2>5, Members
    <3>4. QED
      BY <2>1, <2>6, <3>1, <3>2, <3>3
  <2>7. QED
    BY <2>1, <2>2, <2>5, <2>6
<1>3. QED
  BY <1>1, <1>2

\* After a request its agent is in recency, and so is every other one that
\* was and is not evicted.
LEMMA RequestKeepsPlaces ==
    ASSUME recency \in Seq(Agent), Len(recency) <= MaxAgents, NEW a \in Agent
    PROVE  /\ Kept(a) \in Seq(Agent)
           /\ Len(Kept(a)) <= MaxAgents
           /\ a \in ToSet(Kept(a))
           /\ \A b \in ToSet(recency) : b \in ToSet(Kept(a)) \/ b \in Evicted(a)
<1>. USE MaxAgentsAssumption
<1>. DEFINE o == Others(a)
            r == Append(o, a)
<1>1. /\ o \in Seq(Agent) /\ Len(o) <= MaxAgents
      /\ \A b \in ToSet(recency) : b # a => b \in ToSet(o)
  BY OthersStay
<1>. HIDE DEF o
<1>2. /\ r \in Seq(Agent) /\ Len(r) = Len(o) + 1 /\ r[Len(r)] = a
      /\ \A j \in 1..Len(o) : r[j] = o[j]
  BY <1>1
<1>3. \A b \in ToSet(recency) : \E j \in 1..Len(r) : r[j] = b
  BY <1>1, <1>2, Members
<1>4. Requested(a) = r
  BY DEF Requested, o
<1>. HIDE DEF r
<1>5. CASE Len(r) <= MaxAgents
  <2>1. Evicted(a) = {} /\ Kept(a) = r
    BY <1>2, <1>4, <1>5 DEF Evicted, Kept
  <2>2. QED
    BY <2>1, <1>1, <1>2, <1>3, <1>5, Members
<1>6. CASE Len(r) > MaxAgents
  <2>1. Evicted(a) = {Head(r)} /\ Kept(a) = Tail(r)
    BY <1>2, <1>4, <1>6 DEF Evicted, Kept
  <2>2. r # <<>> /\ Head(r) = r[1]
    BY <1>2, <1>1
  <2>3. /\ Tail(r) \in Seq(Agent) /\ Len(Tail(r)) = Len(r) - 1
        /\ \A j \in 1..(Len(r) - 1) : Tail(r)[j] = r[j + 1]
    BY <1>2, <2>2
  <2>4. Len(r) \in Nat /\ Len(r) >= 2 /\ Len(r) - 1 <= MaxAgents
    BY <1>1, <1>2, <1>6
  <2>5. \A j \in 2..Len(r) : r[j] \in ToSet(Tail(r))
    <3>1. SUFFICES ASSUME NEW j \in 2..Len(r) PROVE r[j] \in ToSet(Tail(r))
      OBVIOUS
    <3>2. j - 1 \in 1..Len(Tail(r)) /\ Tail(r)[j - 1] = r[j]
      BY <2>3, <2>4
    <3>3. QED
      BY <3>2, <2>3, Members
  <2>6. a \in ToSet(Tail(r))
    BY <1>2, <2>4, <2>5
  <2>7. ASSUME NEW b \in ToSet(recency) PROVE b \in ToSet(Tail(r)) \/ b = Head(r)
    <3>1. PICK j \in 1..Len(r) : r[j] = b
      BY <1>3
    <3>2. CASE j = 1
      BY <3>1, <3>2, <2>2
    <3>3. CASE j \in 2..Len(r)
      BY <3>1, <3>3, <2>5
    <3>4. QED
      BY <3>2, <3>3, <2>4
  <2>8. QED
    BY <2>1, <2>3, <2>4, <2>6, <2>7
<1>7. QED
  BY <1>1, <1>2, <1>5, <1>6

LEMMA PlacesInit == Init => Counters /\ Places
BY MaxAgentsAssumption DEF Init, Counters, Places, Held

\* A request: what is held afterwards was held before, or is the caller's.
LEMMA RequestSafe ==
    ASSUME LInv, NEW c \in Call, NEW a \in Agent, Hit(c, a) \/ Miss(c, a)
    PROVE  Counters' /\ Places'
<1>. USE NoCallAssumption, AgentOfAssumption
<1>1. /\ asked' = asked \cup {c} /\ recency' = Kept(a)
      /\ drops' = drops
  BY DEF Hit, Miss, Asked, Unwatch
<1>. DEFINE E == Evicted(a)
<1>2. /\ Kept(a) \in Seq(Agent) /\ Len(Kept(a)) <= MaxAgents
      /\ a \in ToSet(Kept(a))
      /\ \A b \in ToSet(recency) : b \in ToSet(Kept(a)) \/ b \in E
  BY RequestKeepsPlaces DEF LInv, Places
<1>. HIDE DEF E
<1>3. \A b \in Agent : Held(b)' => b = a \/ (Held(b) /\ b \notin E)
  <2>1. CASE Hit(c, a)
    <3>1. \A b \in Agent : /\ entry'[b] = IF b \in E THEN NoCall ELSE entry[b]
                           /\ stream'[b] = IF b \in E THEN "none" ELSE stream[b]
      BY <2>1 DEF Hit, ForgetAll, Unwatch, E
    <3>2. QED
      BY <3>1 DEF Held
  <2>2. CASE Miss(c, a)
    <3>1. \A b \in Agent : b # a =>
             /\ entry'[b] = IF b \in E THEN NoCall ELSE entry[b]
             /\ stream'[b] = IF b \in E THEN "none" ELSE stream[b]
      BY <2>2 DEF Miss, E
    <3>2. QED
      BY <3>1 DEF Held
  <2>3. QED
    BY <2>1, <2>2
<1>4. Places'
  BY <1>1, <1>2, <1>3 DEF LInv, Places
<1>5. closing' \in [Agent -> Nat]
  <2>1. closing' = [b \in Agent |-> IF b \in E /\ Connected(b)
                                    THEN closing[b] + 1 ELSE closing[b]]
    BY DEF Hit, Miss, Unwatch, E
  <2>2. QED
    BY <2>1 DEF LInv, Counters
<1>6. aged' \in [Agent -> BOOLEAN]
  BY DEF Hit, Miss, ForgetAll, LInv, Counters
<1>7. QED
  BY <1>1, <1>4, <1>5, <1>6 DEF LInv, Counters

\* Every other step leaves recency alone, or empties it with the cache, and
\* gives nothing to an agent that held nothing.
LEMMA OtherSafe ==
    ASSUME LInv, [Next]_vars,
           ~ \E c \in Call, a \in Agent : Hit(c, a) \/ Miss(c, a)
    PROVE  Counters' /\ Places'
<1>. USE NoCallAssumption, AgentOfAssumption DEF LInv, Counters
<1>. DEFINE Still == /\ recency' = recency /\ asked' = asked
                     /\ \A b \in Agent : Held(b)' => Held(b)
                     /\ closing' \in [Agent -> Nat] /\ drops' \in Nat
                     /\ aged' \in [Agent -> BOOLEAN]
<1>1. ASSUME Still PROVE Counters' /\ Places'
  BY <1>1 DEF Places
<1>2. ASSUME NEW c \in Call, IssuerReads(c) \/ LoadFails(c) PROVE Still
  BY <1>2 DEF IssuerReads, LoadFails, Forget, ForgetAll, Held, streamVars
<1>3. ASSUME NEW a \in Agent, Age(a) \/ Invalidate({a}) PROVE Still
  BY <1>3 DEF Age, Invalidate, ForgetAll, Held, streamVars, callVars
<1>9. ASSUME NEW a \in Agent, Change(a) \/ IssuerEnds(a) PROVE Still
  BY <1>9 DEF Change, IssuerEnds, Held, callVars
<1>4. ASSUME NEW a \in Agent, Accept(a) \/ OnOpen(a) \/ OnEvent(a) PROVE Still
  BY <1>4 DEF Accept, OnOpen, OnEvent, Forget, ForgetAll, Held, callVars, IInv, Types
<1>5. ASSUME NEW a \in Agent, OnDrop(a) \/ Reconnect(a) \/ ClosedDrop(a) PROVE Still
  <2>1. \A b \in Agent : stream'[b] # "none" => stream[b] # "none"
    BY <1>5 DEF OnDrop, Reconnect, ClosedDrop, Connected, IInv, Types
  <2>2. \A b \in Agent : entry'[b] # NoCall => entry[b] # NoCall
    BY <1>5 DEF OnDrop, Reconnect, ClosedDrop, Forget, ForgetAll
  <2>3. \A b \in Agent : Held(b)' => Held(b)
    BY <2>1, <2>2 DEF Held
  <2>4. closing' \in [Agent -> Nat] /\ drops' \in Nat
    BY <1>5 DEF OnDrop, Reconnect, ClosedDrop
  <2>5. aged' \in [Agent -> BOOLEAN]
    BY <1>5 DEF OnDrop, Reconnect, ClosedDrop, Forget, ForgetAll
  <2>6. recency' = recency /\ asked' = asked
    BY <1>5 DEF OnDrop, Reconnect, ClosedDrop, callVars
  <2>7. QED
    BY <2>3, <2>4, <2>5, <2>6
<1>6. ASSUME Invalidate(Agent) PROVE Still
  BY <1>6 DEF Invalidate, ForgetAll, Held, streamVars, callVars
<1>7. ASSUME Close PROVE Counters' /\ Places'
  <2>1. /\ recency' = <<>> /\ asked' = asked /\ drops' = drops
        /\ \A b \in Agent : entry'[b] = NoCall /\ stream'[b] = "none"
    BY <1>7 DEF Close, Unwatch, ForgetAll, callVars
  <2>2. closing' \in [Agent -> Nat] /\ aged' \in [Agent -> BOOLEAN]
    BY <1>7 DEF Close, Unwatch, ForgetAll
  <2>3. QED
    BY <2>1, <2>2, MaxAgentsAssumption DEF Places, Held
<1>8. ASSUME UNCHANGED vars PROVE Still
  BY <1>8 DEF vars, streamVars, callVars, Held
<1>. HIDE DEF Still
<1>. QED
  BY <1>1, <1>2, <1>3, <1>4, <1>5, <1>6, <1>7, <1>8, <1>9 DEF Next

LEMMA Listed == Spec => []LInv
<1>1. Init => LInv
  BY InitSafe, PlacesInit DEF LInv
<1>2. LInv /\ [Next]_vars => LInv'
  <2> SUFFICES ASSUME LInv, [Next]_vars PROVE LInv'
    OBVIOUS
  <2>1. IInv'
    BY StepSafe DEF LInv
  <2>2. Counters' /\ Places'
    BY RequestSafe, OtherSafe
  <2>3. QED
    BY <2>1, <2>2 DEF LInv
<1>3. QED
  BY <1>1, <1>2, PTL DEF Spec

\* The state keeps its types, whatever the limits and the number of calls.
THEOREM CacheTypeCorrect == Spec => []TypeOK
<1>1. LInv => TypeOK
  BY DEF LInv, IInv, Types, Counters, Places, TypeOK
<1>2. QED
  BY <1>1, Listed, PTL

\* No more than maxAgents agents hold a bundle or a stream, each of them in
\* recency (get: eviction, unwatch, close), for any number of agents.
THEOREM EvictionLeavesNothing == Spec => []NothingLeaks
<1>1. ASSUME LInv PROVE NothingLeaks
  <2>. DEFINE held == {a \in Agent : entry[a] # NoCall \/ stream[a] # "none"}
              n == Len(recency)
  <2>1. n \in Nat /\ n <= MaxAgents /\ recency \in Seq(Agent)
    BY <1>1 DEF LInv, Places
  <2>2. held \subseteq ToSet(recency)
    BY <1>1 DEF LInv, Places, Held
  <2>3. recency \in Surjection(1..n, ToSet(recency))
    BY <2>1 DEF Surjection, ToSet
  <2>4. ExistsSurjection(1..n, ToSet(recency))
    BY <2>3 DEF ExistsSurjection
  <2>5. IsFiniteSet(1..n)
    BY <2>1, FS_Interval
  <2>6. IsFiniteSet(ToSet(recency)) /\ Cardinality(ToSet(recency)) <= n
    BY <2>1, <2>3, <2>4, <2>5, FS_SurjCardinalityBound, FS_Surjection
  <2>7. /\ Cardinality(held) <= Cardinality(ToSet(recency))
        /\ Cardinality(held) \in Nat /\ Cardinality(ToSet(recency)) \in Nat
    BY <2>2, <2>6, FS_Subset, FS_CardinalityType
  <2>8. Cardinality(held) <= MaxAgents
    BY <2>1, <2>6, <2>7, MaxAgentsAssumption
  <2>9. QED
    BY <2>2, <2>8 DEF NothingLeaks
<1>2. QED
  BY <1>1, Listed, PTL
=============================================================================
