------------------------------- MODULE Issuer -------------------------------
(***************************************************************************)
(* The hosted gate that issues authorizations.  Its code is not in this    *)
(* repository: what is written here is what the clients rely on, as the    *)
(* guards call it (agentsafe-guard.mjs, agentsafe-mcp-guard.mjs) and as    *)
(* their test double plays it (metamynd-client/tests/fake_gate.py).        *)
(*                                                                         *)
(* An authorization is a HOLD on the mandate's budget.  The gate processes *)
(* one message at a time, and every message has a definite effect on the   *)
(* ledger, whether or not its sender ever hears the answer.                *)
(***************************************************************************)
EXTENDS Naturals, FiniteSets

CONSTANTS
    Call,     \* guarded tool calls; each signs one request and gets one hold
    Req,      \* requests a tool hands to a service, replays included
    CallOf,   \* the call whose authorization a request presents
    NoReq,    \* "not a service": the agent itself, or nobody
    Valued,   \* the calls that move value (each one unit of the budget)
    Cap       \* the mandate's cumulative cap, in those units

ASSUME CallOfAssumption == CallOf \in [Req -> Call]
ASSUME NoReqAssumption == NoReq \notin Req
ASSUME ValuedAssumption == Valued \subseteq Call
ASSUME CapAssumption == Cap \in Nat
ASSUME FiniteAssumption == IsFiniteSet(Call)

VARIABLES
    hold,     \* the status of each call's hold
    claimer   \* the service request whose claim was granted, by idempotency key

ledger == <<hold, claimer>>

HoldStatus == {"none", "held", "claimed", "captured", "unknown", "voided", "expired"}

\* The statuses that count against the cap.
Committed == {"held", "claimed", "captured", "unknown"}

\* A message to the gate: an agent's own (req = NoReq) or a service's.
Message == [op : {"authorize", "claim", "capture", "void", "unknown"},
            call : Call, req : Req \cup {NoReq}]

AgentMsg(op, c) == [op |-> op, call |-> c, req |-> NoReq]
ServiceMsg(op, r) == [op |-> op, call |-> CallOf[r], req |-> r]

IssuerTypeOK ==
    /\ hold \in [Call -> HoldStatus]
    /\ claimer \in [Call -> Req \cup {NoReq}]

IssuerInit ==
    /\ hold = [c \in Call |-> "none"]
    /\ claimer = [c \in Call |-> NoReq]

CommittedSpend == {c \in Valued : hold[c] \in Committed}

\* A value-bearing hold is minted only under the cap.
CanMint(c) ==
    /\ hold[c] = "none"
    /\ c \in Valued => Cardinality(CommittedSpend) < Cap

(***************************************************************************)
(* Who may settle what (MAGP 8.7.4): an unclaimed hold is its own agent's  *)
(* to capture or release; a claimed one is its claimer's, except that the  *)
(* agent may still capture it in full.                                     *)
(***************************************************************************)
MayClaim(m) ==
    m.op = "claim" /\ hold[m.call] = "held" /\ m.req # NoReq

MayCapture(m) ==
    /\ m.op = "capture"
    /\ \/ hold[m.call] = "held" /\ m.req = NoReq
       \/ hold[m.call] = "claimed" /\ m.req \in {NoReq, claimer[m.call]}

MayVoid(m) ==
    /\ m.op = "void"
    /\ \/ hold[m.call] = "held" /\ m.req = NoReq
       \/ hold[m.call] = "claimed" /\ m.req # NoReq /\ m.req = claimer[m.call]

MayMarkUnknown(m) ==
    /\ m.op = "unknown"
    /\ hold[m.call] = "claimed" /\ m.req # NoReq /\ m.req = claimer[m.call]

MayMint(m) == m.op = "authorize" /\ CanMint(m.call)

Applies(m) ==
    MayMint(m) \/ MayClaim(m) \/ MayCapture(m) \/ MayVoid(m) \/ MayMarkUnknown(m)

Becomes(m, status) == hold' = [hold EXCEPT ![m.call] = status]

\* The gate's whole answer to a message: what does not apply is refused.
Process(m) ==
    \/ MayMint(m) /\ Becomes(m, "held") /\ UNCHANGED claimer
    \/ MayClaim(m) /\ Becomes(m, "claimed") /\ claimer' = [claimer EXCEPT ![m.call] = m.req]
    \/ MayCapture(m) /\ Becomes(m, "captured") /\ UNCHANGED claimer
    \/ MayVoid(m) /\ Becomes(m, "voided") /\ UNCHANGED claimer
    \/ MayMarkUnknown(m) /\ Becomes(m, "unknown") /\ UNCHANGED claimer
    \/ ~ Applies(m) /\ UNCHANGED ledger

\* An unclaimed hold lapses with its TTL; a claimed one never does.
Expire(c) ==
    /\ hold[c] = "held"
    /\ hold' = [hold EXCEPT ![c] = "expired"]
    /\ UNCHANGED claimer

\* What GET .../effect says of a hold: nobody has used it yet, or it has been
\* claimed, settled, released or has lapsed.
EffectOf(c) == IF hold[c] = "held" THEN "unclaimed" ELSE "busy"
=============================================================================
