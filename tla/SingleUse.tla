------------------------------ MODULE SingleUse ------------------------------
(***************************************************************************)
(* What an authorization promises the owner of a mandate, with no word of  *)
(* how agent, services and gate arrange it: money is reserved under the    *)
(* cap, a service executes at most once and only against money that is     *)
(* committed, and money a service has spent is never handed back.          *)
(***************************************************************************)
EXTENDS Naturals, FiniteSets

CONSTANTS Call, Valued, Cap

VARIABLES
    money,  \* what became of each call's share of the budget
    spent   \* the calls a service has executed

InUse == {c \in Valued : money[c] \in {"reserved", "committed"}}

Init ==
    /\ money = [c \in Call |-> "free"]
    /\ spent = {}

Reserve(c) ==
    /\ money[c] = "free"
    /\ c \in Valued => Cardinality(InUse) < Cap
    /\ money' = [money EXCEPT ![c] = "reserved"]
    /\ UNCHANGED spent

Commit(c) ==
    /\ money[c] = "reserved"
    /\ money' = [money EXCEPT ![c] = "committed"]
    /\ UNCHANGED spent

Execute(c) ==
    /\ money[c] = "committed"
    /\ c \notin spent
    /\ spent' = spent \cup {c}
    /\ UNCHANGED money

Return(c) ==
    /\ money[c] \in {"reserved", "committed"}
    /\ c \notin spent
    /\ money' = [money EXCEPT ![c] = "returned"]
    /\ UNCHANGED spent

Next == \E c \in Call : Reserve(c) \/ Commit(c) \/ Execute(c) \/ Return(c)

Spec == Init /\ [][Next]_<<money, spent>>
=============================================================================
