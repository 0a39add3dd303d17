---------------------------- MODULE BundleCache -----------------------------
(***************************************************************************)
(* The cache of signed policy bundles inside the MCP guard                 *)
(* (bundle-cache.mjs).  The bundle of an agent is reused only while the    *)
(* event stream of that agent is open, because the issuer pushes every     *)
(* change of a policy to the streams open at that moment and never again.  *)
(* Loads, streams, pushes and evictions interleave freely.  A stream has   *)
(* two ends: the issuer may have ended or lost its own while the client    *)
(* still takes the stream for open, for as long as it reads nothing.       *)
(*                                                                         *)
(* A bundle is the version of the policy it was read at.  The age limit is *)
(* one flag, raised at any moment: the time to live, and its half of       *)
(* maxStaleness, are not told apart.                                       *)
(***************************************************************************)
EXTENDS Naturals, FiniteSetsExt, Sequences, SequencesExt

CONSTANTS
    Agent,      \* agents whose bundles are asked for
    Call,       \* calls of get(agentDid); a call that misses loads the bundle
    AgentOf,    \* the agent each call asks for
    NoCall,     \* no call
    MaxAgents,  \* maxAgents
    Watch,      \* whether streams are watched (`watch`)
    MaxChanges, \* bound: changes of policies
    MaxDrops    \* bound: streams that fail or drop

ASSUME NoCallAssumption == NoCall \notin Call
ASSUME AgentOfAssumption == AgentOf \in [Call -> Agent]
ASSUME MaxAgentsAssumption == MaxAgents \in Nat \ {0}
ASSUME WatchAssumption == Watch \in BOOLEAN
ASSUME BoundsAssumption == MaxChanges \in Nat /\ MaxDrops \in Nat

VARIABLES
    issuer,  \* the version of each agent's policy at the issuer
    pushes,  \* policy:changed events on their way to the stream
    stream,  \* the stream of each agent, as the client has it (watchers)
    dead,    \* streams whose end at the issuer is gone
    closing, \* closed streams whose close event is still to come
    drops,   \* streams that failed so far
    entry,   \* entries: the load that is cached for each agent
    aged,    \* entries past their time to live
    recency, \* agents in order of their last request
    asked,   \* calls made so far
    load,    \* how far the load of each call is
    version  \* the version the load of each call read

streamVars == <<stream, dead, pushes, closing, drops>>
callVars == <<asked, load, version>>
vars == <<issuer, streamVars, entry, aged, recency, callVars>>

\* Types of the state: no push is handled that was never sent (onEvent), and
\* the client has not yet dropped a stream it takes for open (onDrop).
TypeOK ==
    /\ issuer \in [Agent -> Nat]
    /\ pushes \in [Agent -> Nat]
    /\ stream \in [Agent -> {"none", "connecting", "accepted", "open", "waiting"}]
    /\ dead \subseteq {a \in Agent : stream[a] \in {"accepted", "open"}}
    /\ closing \in [Agent -> Nat]
    /\ drops \in Nat
    /\ entry \in [Agent -> Call \cup {NoCall}]
    /\ aged \in [Agent -> BOOLEAN]
    /\ recency \in Seq(Agent)
    /\ asked \subseteq Call
    /\ load \in [Call -> {"none", "asked", "read", "failed"}]
    /\ version \in [Call -> Nat]

Init ==
    /\ issuer = [a \in Agent |-> 0]
    /\ pushes = [a \in Agent |-> 0]
    /\ stream = [a \in Agent |-> "none"]
    /\ dead = {}
    /\ closing = [a \in Agent |-> 0]
    /\ drops = 0
    /\ entry = [a \in Agent |-> NoCall]
    /\ aged = [a \in Agent |-> FALSE]
    /\ recency = <<>>
    /\ asked = {}
    /\ load = [c \in Call |-> "none"]
    /\ version = [c \in Call |-> 0]
-----------------------------------------------------------------------------
\* The request of the stream is under way or up: closing it raises an event.
Connected(a) == stream[a] \in {"connecting", "accepted", "open"}

\* The entries of a set of agents are deleted, with the age they had.
ForgetAll(agents) ==
    /\ entry' = [a \in Agent |-> IF a \in agents THEN NoCall ELSE entry[a]]
    /\ aged' = [a \in Agent |-> a \notin agents /\ aged[a]]

Forget(a) == ForgetAll({a})

\* unwatch, for every agent of a set.
Unwatch(agents) ==
    /\ stream' = [a \in Agent |-> IF a \in agents THEN "none" ELSE stream[a]]
    /\ dead' = dead \ agents
    /\ pushes' = [a \in Agent |-> IF a \in agents THEN 0 ELSE pushes[a]]
    /\ closing' = [a \in Agent |-> IF a \in agents /\ Connected(a)
                                   THEN closing[a] + 1 ELSE closing[a]]
    /\ UNCHANGED drops

\* Mutant: the age of an entry is not looked at.
ServableAtAnyAge(a) ==
    /\ entry[a] # NoCall
    /\ Watch => stream[a] = "open"

Servable(a) ==
    /\ entry[a] # NoCall /\ ~aged[a]
    /\ Watch => stream[a] = "open"

\* recency after a request of a: a is taken out and put last, and the oldest
\* is out if there is one too many.
Place(a) == CHOOSE i \in DOMAIN recency : recency[i] = a
Others(a) == IF a \in ToSet(recency) THEN RemoveAt(recency, Place(a)) ELSE recency
Requested(a) == Append(Others(a), a)
Evicted(a) == IF Len(Requested(a)) > MaxAgents
              THEN {Head(Requested(a))} ELSE {}
Kept(a) == IF Evicted(a) = {} THEN Requested(a) ELSE Tail(Requested(a))

Asked(c, a) ==
    /\ c \notin asked /\ a = AgentOf[c]
    /\ asked' = asked \cup {c}
    /\ recency' = Kept(a)

\* get: the promise of a servable entry is handed out, loaded or not.
Hit(c, a) ==
    /\ Asked(c, a)
    /\ Servable(a)
    /\ ForgetAll(Evicted(a))
    /\ Unwatch(Evicted(a))
    /\ UNCHANGED <<issuer, load, version>>

\* Mutant: eviction forgets the bundle and leaves the stream open.
MissLeavingStream(c, a) ==
    /\ Asked(c, a)
    /\ ~Servable(a)
    /\ load' = [load EXCEPT ![c] = "asked"]
    /\ entry' = [b \in Agent |->
        IF b = a THEN c ELSE IF b \in Evicted(a) THEN NoCall ELSE entry[b]]
    /\ aged' = [b \in Agent |-> b # a /\ b \notin Evicted(a) /\ aged[b]]
    /\ stream' = [stream EXCEPT ![a] =
        IF Watch /\ @ = "none" THEN "connecting" ELSE @]
    /\ UNCHANGED <<issuer, dead, pushes, closing, drops, version>>

\* get: otherwise the agent is watched and the call loads the bundle.
Miss(c, a) ==
    /\ Asked(c, a)
    /\ ~Servable(a)
    /\ load' = [load EXCEPT ![c] = "asked"]
    /\ entry' = [b \in Agent |->
        IF b = a THEN c ELSE IF b \in Evicted(a) THEN NoCall ELSE entry[b]]
    /\ aged' = [b \in Agent |-> b # a /\ b \notin Evicted(a) /\ aged[b]]
    /\ stream' = [b \in Agent |->
        IF b = a
        THEN IF Watch /\ stream[a] = "none" THEN "connecting" ELSE stream[a]
        ELSE IF b \in Evicted(a) THEN "none" ELSE stream[b]]
    /\ dead' = dead \ Evicted(a)
    /\ pushes' = [b \in Agent |-> IF b \in Evicted(a) THEN 0 ELSE pushes[b]]
    /\ closing' = [b \in Agent |-> IF b \in Evicted(a) /\ Connected(b)
                                   THEN closing[b] + 1 ELSE closing[b]]
    /\ UNCHANGED <<issuer, drops, version>>
-----------------------------------------------------------------------------
\* The issuer answers the load of c with the policy of this moment.  That the
\* answer arrives later changes nothing here: the promise is handed out
\* before it is settled.  A load whose answer is lost is one that fails.
IssuerReads(c) ==
    /\ load[c] = "asked"
    /\ load' = [load EXCEPT ![c] = "read"]
    /\ version' = [version EXCEPT ![c] = issuer[AgentOf[c]]]
    /\ UNCHANGED <<issuer, streamVars, entry, aged, recency, asked>>

\* Mutant: a failed load stays cached.
LoadFailsKept(c) ==
    /\ load[c] = "asked"
    /\ load' = [load EXCEPT ![c] = "failed"]
    /\ UNCHANGED <<issuer, streamVars, entry, aged, recency, asked, version>>

\* A failure is never cached; it may not take a newer entry with it.
LoadFails(c) ==
    /\ load[c] = "asked"
    /\ load' = [load EXCEPT ![c] = "failed"]
    /\ IF entry[AgentOf[c]] = c THEN Forget(AgentOf[c]) ELSE UNCHANGED <<entry, aged>>
    /\ UNCHANGED <<issuer, streamVars, recency, asked, version>>

\* Time passes: the entry reaches its time to live.
Age(a) ==
    /\ entry[a] # NoCall /\ ~aged[a]
    /\ aged' = [aged EXCEPT ![a] = TRUE]
    /\ UNCHANGED <<issuer, streamVars, entry, recency, callVars>>

\* invalidate: one agent's entry, or all of them.
Invalidate(agents) ==
    /\ \E a \in agents : entry[a] # NoCall
    /\ ForgetAll(agents)
    /\ UNCHANGED <<issuer, streamVars, recency, callVars>>

\* close: it does not keep the cache from being used again.
Close ==
    /\ recency # <<>>
    /\ Unwatch(Agent)
    /\ ForgetAll(Agent)
    /\ recency' = <<>>
    /\ UNCHANGED <<issuer, callVars>>
-----------------------------------------------------------------------------
\* The issuer publishes a change to the streams it has accepted and not lost.
Change(a) ==
    /\ MapThenSumSet(LAMBDA b : issuer[b], Agent) < MaxChanges
    /\ issuer' = [issuer EXCEPT ![a] = @ + 1]
    /\ pushes' = [pushes EXCEPT ![a] =
        IF stream[a] \in {"accepted", "open"} /\ a \notin dead THEN @ + 1 ELSE @]
    /\ UNCHANGED <<stream, dead, closing, drops, entry, aged, recency, callVars>>

\* The issuer restarts, ends the stream or loses it: the client is told by an
\* end of the stream that is still on its way, or not at all.  What was pushed
\* before may still arrive.
IssuerEnds(a) ==
    /\ stream[a] \in {"accepted", "open"} /\ a \notin dead
    /\ drops < MaxDrops
    /\ drops' = drops + 1
    /\ dead' = dead \cup {a}
    /\ \E k \in 0..pushes[a] : pushes' = [pushes EXCEPT ![a] = k]
    /\ UNCHANGED <<issuer, stream, closing, entry, aged, recency, callVars>>

Accept(a) ==
    /\ stream[a] = "connecting"
    /\ stream' = [stream EXCEPT ![a] = "accepted"]
    /\ UNCHANGED <<issuer, dead, pushes, closing, drops, entry, aged, recency, callVars>>

\* Mutant: what was cached before the stream opened stays.
OnOpenKeeping(a) ==
    /\ stream[a] = "accepted"
    /\ stream' = [stream EXCEPT ![a] = "open"]
    /\ UNCHANGED <<issuer, dead, pushes, closing, drops, entry, aged, recency, callVars>>

OnOpen(a) ==
    /\ stream[a] = "accepted"
    /\ stream' = [stream EXCEPT ![a] = "open"]
    /\ Forget(a)
    /\ UNCHANGED <<issuer, dead, pushes, closing, drops, recency, callVars>>

OnEvent(a) ==
    /\ stream[a] = "open" /\ pushes[a] > 0
    /\ pushes' = [pushes EXCEPT ![a] = @ - 1]
    /\ Forget(a)
    /\ UNCHANGED <<issuer, stream, dead, closing, drops, recency, callVars>>

\* The client learns that the stream ended, or its own end fails or is refused:
\* what was on its way is lost.
OnDrop(a) ==
    /\ Connected(a)
    /\ a \notin dead => drops < MaxDrops
    /\ drops' = IF a \in dead THEN drops ELSE drops + 1
    /\ stream' = [stream EXCEPT ![a] = "waiting"]
    /\ dead' = dead \ {a}
    /\ pushes' = [pushes EXCEPT ![a] = 0]
    /\ Forget(a)
    /\ UNCHANGED <<issuer, closing, recency, callVars>>

Reconnect(a) ==
    /\ stream[a] = "waiting"
    /\ stream' = [stream EXCEPT ![a] = "connecting"]
    /\ UNCHANGED <<issuer, dead, pushes, closing, drops, entry, aged, recency, callVars>>

\* The close event of a stream that was closed before: its drop handler
\* still runs, and forgets whatever is cached for the agent by then.
ClosedDrop(a) ==
    /\ closing[a] > 0
    /\ closing' = [closing EXCEPT ![a] = @ - 1]
    /\ Forget(a)
    /\ UNCHANGED <<issuer, stream, dead, pushes, drops, recency, callVars>>
-----------------------------------------------------------------------------
Next ==
    \/ \E c \in Call, a \in Agent : Hit(c, a) \/ Miss(c, a)
    \/ \E c \in Call : IssuerReads(c) \/ LoadFails(c)
    \/ \E a \in Agent :
        \/ Age(a) \/ Invalidate({a}) \/ Change(a) \/ IssuerEnds(a)
        \/ Accept(a) \/ OnOpen(a) \/ OnEvent(a) \/ OnDrop(a)
        \/ Reconnect(a) \/ ClosedDrop(a)
    \/ Invalidate(Agent)
    \/ Close

\* Only the clock is fair: a stream may never connect, and a push may stay
\* on its way for ever.
Spec == Init /\ [][Next]_vars /\ \A a \in Agent : WF_vars(Age(a))
-----------------------------------------------------------------------------
\* The bundle cached for a was read before the policy's last change.
Outdated(a) ==
    /\ entry[a] # NoCall
    /\ load[entry[a]] = "read"
    /\ version[entry[a]] < issuer[a]

\* With streams watched, a bundle that would be served although its policy
\* has changed has a push on its way on the open stream, or the issuer's end of
\* the stream is gone and the client does not know yet: no change is missed by
\* a load in flight, a stream that opens late, one that drops and comes back,
\* or an entry that was loaded before (onOpen, onEvent, onDrop).
OutdatedOnlyBehindAPush ==
    Watch => \A a \in Agent :
        Servable(a) /\ Outdated(a) => pushes[a] > 0 \/ a \in dead

\* Whatever happens to streams and pushes, a bundle whose policy changed is
\* not served for ever: the age limit is the floor under the push (servable).
OutdatedBundleIsRetired ==
    \A a \in Agent :
        (Servable(a) /\ Outdated(a)) ~> ~(Servable(a) /\ Outdated(a))

\* No get is handed the promise of a load that has already failed, however
\* the failure falls among newer loads of the agent.
FailureIsNotCached ==
    \A a \in Agent : entry[a] # NoCall => load[entry[a]] # "failed"

\* At most maxAgents agents hold a bundle or a stream, and every one of them
\* is in recency, so that eviction finds it.
NothingLeaks ==
    LET held == {a \in Agent : entry[a] # NoCall \/ stream[a] # "none"}
    IN /\ Cardinality(held) <= MaxAgents
       /\ held \subseteq ToSet(recency)
=============================================================================
