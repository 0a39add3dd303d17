------------------------- MODULE ResumeClaimProofs --------------------------
(***************************************************************************)
(* Proofs about ResumeClaim, for any number of processes and calls.        *)
(***************************************************************************)
EXTENDS ResumeClaim, FiniteSetTheorems, TLAPS

\* Calls that run, or ran, with the claim.
Running == {a \in Claiming : a \in ran \/ at[a] \in {"running", "settling"}}

\* They are one more than the re-openings when the resume is taken, and the one
\* more is who took it; they are as many as the re-openings when it is free.
RunningIsCounted ==
    /\ IsFiniteSet(Running)
    /\ Cardinality(Running \ {taken}) <= opened

\* A call claims only if it is the approved one as far as the digests tell.
ClaimsMatch == \A a \in Attempt : at[a] = "claiming" \/ a \in net => SameAsApproved(a)

\* Only calls of the Python client that were made lose their lock.
LooseIsPython ==
    \A a \in Attempt : loose[a] # "no" => ProcOf[a] \in Python /\ at[a] # "idle"

\* The calls of one process that hold its lock are one, so freeing the lock
\* uncovers none.
LockExclusive ==
    \A a, b \in Attempt :
        /\ at[a] \in InProgress /\ loose[a] = "no"
        /\ at[b] \in InProgress /\ loose[b] = "no"
        /\ ProcOf[a] = ProcOf[b]
        => a = b

\* And a lock that is taken is held by some call.
LockIsHeld ==
    \A p \in locked : \E a \in Attempt :
        ProcOf[a] = p /\ at[a] \in InProgress /\ loose[a] = "no"

\* A call runs after the permit and settles after the run.
RunsThenSettles ==
    \A a \in Attempt :
        /\ at[a] = "settling" => a \in ran
        /\ at[a] \notin {"settling", "done", "crashed"} => a \notin ran

\* A hold some run settled is not held again, and no call of the process that
\* settled it, if it keeps its lock, is past its look at the hold.
SettledIsOver ==
    /\ settled # {} => hold \in {"used", "voided"}
    /\ \A p \in settled : \E b \in ran : ProcOf[b] = p
    /\ \A a \in Attempt :
          /\ at[a] \in {"matching", "claiming", "running", "settling"}
          /\ ProcOf[a] \notin Python
          => ProcOf[a] \notin settled

\* The approval mints the hold.
HoldIsApproved == escalation # "approved" => hold = "none"

Known ==
    /\ HoldIsApproved
    /\ TypeOK /\ ClaimsMatch /\ SpentOnTheApproved
    /\ LooseIsPython /\ LockExclusive /\ LockIsHeld
    /\ RunsThenSettles /\ SettledIsOver

IInv == Known /\ RunningIsCounted

LEMMA InitIInv == Init => IInv
<1>1. Init => Known
    BY NobodyAssumption DEF Init, Known, TypeOK, InProgress, ClaimsMatch,
        SpentOnTheApproved, LooseIsPython, LockExclusive, LockIsHeld, RunsThenSettles,
        SettledIsOver, HoldIsApproved
<1>2. ASSUME Init PROVE RunningIsCounted
    <2>1. Running = {} /\ Running \ {taken} = {}
        BY <1>2 DEF Init, Running, Claiming
    <2> QED BY <1>2, <2>1, FS_EmptySet DEF Init, RunningIsCounted
<1> QED BY <1>1, <1>2 DEF IInv

\* The parts that do not count are inductive: one step per action of Next.
LEMMA StepKnown == Known /\ [Next]_vars => Known'
<1> SUFFICES ASSUME Known, [Next]_vars PROVE Known'
    OBVIOUS
<1> USE ProcOfAssumption, SameAssumption, LegacyAssumption, PythonAssumption, NobodyAssumption
    DEF Known, TypeOK, InProgress, ClaimsMatch, SpentOnTheApproved, SameAsApproved,
        LooseIsPython, LockExclusive, LockIsHeld, RunsThenSettles, SettledIsOver,
        HoldIsApproved, gateVars, Step, Leaves
<1>1. ASSUME NEW a \in Attempt, Enter(a) PROVE Known'
    BY <1>1 DEF Enter
<1>2. ASSUME NEW a \in Attempt, InUse(a) PROVE Known'
    BY <1>2 DEF InUse
<1>3. ASSUME NEW a \in Attempt, ResumeStep(a) PROVE Known'
    <2>1. CASE Approval(a) BY <2>1 DEF Approval
    <2>2. CASE NoApproval(a) BY <2>2 DEF NoApproval
    <2>3. CASE NotStarted(a) BY <2>3 DEF NotStarted
    <2>4. CASE Unavailable(a) BY <2>4 DEF Unavailable
    <2>5. CASE Matches(a) BY <2>5 DEF Matches
    <2>6. CASE Mismatch(a) BY <2>6 DEF Mismatch
    <2>7. CASE ClaimGranted(a) BY <2>7 DEF ClaimGranted, Claims, Takes
    <2>8. CASE ClaimRefused(a) BY <2>8 DEF ClaimRefused, Claims
    <2>9. CASE ClaimLost(a) BY <2>9 DEF ClaimLost, Claims
    <2>10. CASE Unsupported(a) BY <2>10 DEF Unsupported
    <2>11. CASE Run(a) BY <2>11 DEF Run
    <2>12. CASE Settle(a) BY <2>12 DEF Settle
    <2>13. CASE SettleNothing(a) BY <2>13 DEF SettleNothing
    <2>14. CASE Cancel(a) BY <2>14 DEF Cancel
    <2>15. CASE GiveBack(a) BY <2>15 DEF GiveBack
    <2>16. CASE Defer(a) BY <2>16 DEF Defer
    <2> QED BY <1>3, <2>1, <2>2, <2>3, <2>4, <2>5, <2>6, <2>7, <2>8, <2>9, <2>10,
               <2>11, <2>12, <2>13, <2>14, <2>15, <2>16 DEF ResumeStep
<1>4. ASSUME NEW a \in Attempt, ClaimLands(a) PROVE Known'
    BY <1>4 DEF ClaimLands, Takes
<1>5. ASSUME NEW p \in Process, Crash(p) PROVE Known'
    BY <1>5 DEF Crash
<1>6. CASE Decide
    BY <1>6 DEF Decide
<1>7. CASE Withdrawn
    BY <1>7 DEF Withdrawn
<1>8. CASE Reopens
    BY <1>8 DEF Reopens
<1>9. CASE UNCHANGED vars
    BY <1>9 DEF vars
<1> QED BY <1>1, <1>2, <1>3, <1>4, <1>5, <1>6, <1>7, <1>8, <1>9 DEF Next

\* A step that adds nobody, but for the one who takes the free resume, keeps
\* the count.
LEMMA KeepsCount ==
    ASSUME RunningIsCounted, TypeOK, opened' = opened,
           IsFiniteSet(Running'), (Running \ {taken})' \subseteq Running \ {taken}
    PROVE  RunningIsCounted'
<1>1. IsFiniteSet(Running \ {taken})
    BY FS_Subset DEF RunningIsCounted
<1>2. Cardinality((Running \ {taken})') <= Cardinality(Running \ {taken})
    BY <1>1, FS_Subset
<1>3. Cardinality((Running \ {taken})') \in Nat /\ Cardinality(Running \ {taken}) \in Nat
    BY <1>1, FS_Subset, FS_CardinalityType
<1> QED BY <1>2, <1>3 DEF RunningIsCounted, TypeOK

\* The calls that run with the claim stay counted: a claim takes the resume
\* while it is free, and it becomes free only by a re-opening.
LEMMA StepCount == IInv /\ [Next]_vars => RunningIsCounted'
<1> SUFFICES ASSUME IInv, [Next]_vars PROVE RunningIsCounted'
    OBVIOUS
<1>0. RunningIsCounted /\ TypeOK
    BY DEF IInv, Known
<1>1. ASSUME NEW a \in Attempt, ClaimGranted(a) PROVE RunningIsCounted'
    <2>1. Running' \subseteq Running \cup {a}
        BY <1>0, <1>1 DEF ClaimGranted, Claims, Step, Running, Claiming, TypeOK
    <2>2. IsFiniteSet(Running')
        BY <1>0, <2>1, FS_AddElement, FS_Subset DEF RunningIsCounted
    <2>3. taken = Nobody /\ taken' = a /\ opened' = opened
        BY <1>1 DEF ClaimGranted, Takes
    <2>4. (Running \ {taken})' \subseteq Running \ {taken}
        BY <2>1, <2>3, NobodyAssumption DEF Running, Claiming
    <2> QED BY <1>0, <2>2, <2>3, <2>4, KeepsCount
<1>2. CASE Reopens
    <2>1. Running' = Running /\ taken' = Nobody /\ opened' = opened + 1
        BY <1>2 DEF Reopens, Running, Claiming
    <2>2. IsFiniteSet(Running \ {taken})
        BY <1>0, FS_Subset DEF RunningIsCounted
    <2>3. Running' \ {taken'} \subseteq (Running \ {taken}) \cup {taken}
        BY <2>1
    <2>4. /\ IsFiniteSet((Running \ {taken}) \cup {taken})
          /\ Cardinality((Running \ {taken}) \cup {taken}) = Cardinality(Running \ {taken}) + 1
        BY <2>2, FS_AddElement
    <2>5. Cardinality(Running' \ {taken'}) <= Cardinality(Running \ {taken}) + 1
        BY <2>3, <2>4, FS_Subset
    <2>6. Cardinality(Running' \ {taken'}) \in Nat /\ Cardinality(Running \ {taken}) \in Nat
        BY <2>2, <2>3, <2>4, FS_Subset, FS_CardinalityType
    <2> QED BY <1>0, <2>1, <2>5, <2>6 DEF RunningIsCounted, TypeOK
<1>3. ASSUME NEW a \in Attempt, ClaimLands(a) PROVE RunningIsCounted'
    <2>1. Running' = Running /\ taken = Nobody /\ opened' = opened
        BY <1>3 DEF ClaimLands, Takes, Running, Claiming
    <2>2. (Running \ {taken})' \subseteq Running \ {taken}
        BY <2>1, NobodyAssumption DEF Running, Claiming
    <2> QED BY <1>0, <2>1, <2>2, KeepsCount DEF RunningIsCounted
<1>4. ASSUME taken' = taken, opened' = opened, Running' \subseteq Running
      PROVE  RunningIsCounted'
    <2>1. IsFiniteSet(Running') /\ (Running \ {taken})' \subseteq Running \ {taken}
        BY <1>0, <1>4, FS_Subset DEF RunningIsCounted
    <2> QED BY <1>0, <1>4, <2>1, KeepsCount
<1>5. ASSUME NEW a \in Attempt, Enter(a) \/ InUse(a) PROVE RunningIsCounted'
    BY <1>0, <1>4, <1>5 DEF Enter, InUse, Step, gateVars, Running, Claiming, TypeOK
<1>6. ASSUME NEW a \in Attempt, ResumeStep(a) PROVE RunningIsCounted'
    <2> USE <1>0 DEF Step, Leaves, gateVars, Running, Claiming, TypeOK
    <2>1. CASE Approval(a) \/ NoApproval(a) \/ NotStarted(a) \/ Unavailable(a)
        BY <1>4, <2>1 DEF Approval, NoApproval, NotStarted, Unavailable
    <2>2. CASE Matches(a) \/ Mismatch(a) \/ ClaimRefused(a) \/ ClaimLost(a)
        BY <1>4, <2>2 DEF Matches, Mismatch, ClaimRefused, ClaimLost
    <2>3. CASE Unsupported(a)
        BY <1>4, <2>3 DEF Unsupported
    <2>4. CASE Run(a) \/ Settle(a) \/ SettleNothing(a)
        BY <1>4, <2>4 DEF Run, Settle, SettleNothing
    <2>5. CASE Cancel(a) \/ GiveBack(a) \/ Defer(a)
        BY <1>4, <2>5 DEF Cancel, GiveBack, Defer
    <2> QED BY <1>1, <1>6, <2>1, <2>2, <2>3, <2>4, <2>5 DEF ResumeStep
<1>7. ASSUME NEW p \in Process, Crash(p) PROVE RunningIsCounted'
    BY <1>0, <1>4, <1>7 DEF Crash, gateVars, Running, Claiming, TypeOK
<1>8. CASE Decide \/ Withdrawn \/ UNCHANGED vars
    BY <1>4, <1>8 DEF Decide, Withdrawn, vars, gateVars, Running, Claiming
<1> QED BY <1>1, <1>2, <1>3, <1>5, <1>6, <1>7, <1>8 DEF Next

LEMMA StepIInv == IInv /\ [Next]_vars => IInv'
BY StepKnown, StepCount DEF IInv

LEMMA Inductive == Spec => []IInv
BY InitIInv, StepIInv, PTL DEF Spec

\* Every variable keeps its type, and a call in progress holds its process's
\* lock unless it was set loose.
THEOREM ResumeTypeCorrect == Spec => []TypeOK
BY Inductive, PTL DEF IInv, Known

\* The runs with the claim are some of those counted.
LEMMA RunsAreCounted ==
    ASSUME IInv
    PROVE  /\ ran \cap Claiming \subseteq Running
           /\ IsFiniteSet(ran \cap Claiming)
           /\ Cardinality(ran \cap Claiming) \in Nat
           /\ opened \in Nat
<1>1. ran \cap Claiming \subseteq Running /\ opened \in Nat
    BY DEF IInv, Known, TypeOK, Running, Claiming
<1> QED BY <1>1, FS_Subset, FS_CardinalityType DEF IInv, RunningIsCounted

\* Any number of processes that take the claim run an approval once between
\* them, and once more for each re-opening, through every crash, lost claim and
\* cancelled task.
THEOREM ApprovalRunsOnce == Spec => []AtMostOnce
<1>1. ASSUME IInv PROVE AtMostOnce
    <2>1. IsFiniteSet(Running \ {taken}) /\ Cardinality(Running \ {taken}) <= opened
        BY <1>1, FS_Subset DEF IInv, RunningIsCounted
    <2>2. /\ IsFiniteSet((Running \ {taken}) \cup {taken})
          /\ Cardinality((Running \ {taken}) \cup {taken}) = Cardinality(Running \ {taken}) + 1
        BY <2>1, FS_AddElement
    <2>3. ran \cap Claiming \subseteq (Running \ {taken}) \cup {taken}
        BY <1>1, RunsAreCounted
    <2>4. Cardinality(ran \cap Claiming) <= Cardinality((Running \ {taken}) \cup {taken})
        BY <2>2, <2>3, FS_Subset
    <2>5. Cardinality(Running \ {taken}) \in Nat
        BY <2>1, FS_CardinalityType
    <2> QED BY <1>1, <2>1, <2>2, <2>4, <2>5, RunsAreCounted DEF AtMostOnce
<1> QED BY <1>1, Inductive, PTL

\* The approval's one resume is only ever taken by a call that is the approved
\* one, as far as the gate's digests tell.
THEOREM ResumeIsForTheApproved == Spec => []SpentOnTheApproved
BY Inductive, PTL DEF IInv, Known

\* Where nothing was re-opened, no two calls that run with the claim differ.
LEMMA OneWithoutReopening ==
    ASSUME IInv, opened = 0 PROVE \A a, b \in Running : a = b
<1>1. IsFiniteSet(Running \ {taken}) /\ Cardinality(Running \ {taken}) <= 0
    BY FS_Subset DEF IInv, RunningIsCounted
<1>2. Cardinality(Running \ {taken}) = 0
    BY <1>1, FS_CardinalityType
<1>3. Running \ {taken} = {}
    BY <1>1, <1>2, FS_EmptySet
<1> QED BY <1>3

\* A process that settled its run does not run the tool again: its lock keeps
\* its other calls from the hold, or the claim does.
THEOREM SettledRunIsLast == Spec => SettledIsNotRerun
<1>1. IInv /\ [Next]_vars => [\A a \in Attempt :
                /\ a \notin ran /\ a \in ran'
                /\ ProcOf[a] \in Python => ProcOf[a] \notin Legacy /\ opened = 0
                => ProcOf[a] \notin settled]_vars
    <2> SUFFICES ASSUME IInv, Next, NEW a \in Attempt, a \notin ran, a \in ran',
                        ProcOf[a] \in Python => ProcOf[a] \notin Legacy /\ opened = 0
                 PROVE ProcOf[a] \notin settled
        OBVIOUS
    <2>1. at[a] = "running"
        BY DEF Next, ResumeStep, Enter, InUse, Approval, NoApproval, NotStarted, Unavailable,
               Matches, Mismatch, ClaimGranted, ClaimRefused, ClaimLost, Unsupported, Run,
               Settle, SettleNothing, Cancel, GiveBack, Defer, ClaimLands, Crash, Decide,
               Withdrawn, Reopens, Step
    <2>2. CASE ProcOf[a] \notin Python
        BY <2>1, <2>2 DEF IInv, Known, SettledIsOver
    <2>3. CASE ProcOf[a] \notin Legacy /\ opened = 0
        <3>1. a \in Running
            BY <2>1, <2>3 DEF Running, Claiming
        <3>2. \A b \in ran : ProcOf[b] # ProcOf[a]
            <4> SUFFICES ASSUME NEW b \in ran, ProcOf[b] = ProcOf[a] PROVE FALSE
                OBVIOUS
            <4>1. b \in Running
                BY <2>3 DEF IInv, Known, TypeOK, Running, Claiming
            <4> QED BY <2>3, <3>1, <4>1, OneWithoutReopening
        <3> QED BY <3>2 DEF IInv, Known, SettledIsOver
    <2> QED BY <2>2, <2>3
<1> QED BY <1>1, Inductive, PTL DEF Spec, SettledIsNotRerun

\* The hold a cancelled call gives back was run with the claim only by calls
\* whose resume was re-opened after them.
THEOREM CancelledRunsNothing == Spec => GivenBackNeverRan
<1>1. IInv => [\A a \in Claiming :
                /\ loose[a] = "cancelled" /\ at[a] = "running" /\ at'[a] = "done"
                /\ hold # hold'
                => Cardinality(ran \cap Claiming) <= opened]_vars
    <2> SUFFICES ASSUME IInv, NEW a \in Claiming, at[a] = "running"
                 PROVE Cardinality(ran \cap Claiming) <= opened
        OBVIOUS
    <2> DEFINE R == ran \cap Claiming
    <2>1. a \in Running /\ a \notin R
        BY DEF IInv, Known, RunsThenSettles, Running, Claiming
    <2>2. IsFiniteSet(R) /\ Cardinality(R) \in Nat /\ R \subseteq Running /\ opened \in Nat
        BY RunsAreCounted
    <2>3. IsFiniteSet(Running \ {taken}) /\ Cardinality(Running \ {taken}) <= opened
        BY FS_Subset DEF IInv, RunningIsCounted
    <2>4. Cardinality(Running \ {taken}) \in Nat
        BY <2>3, FS_CardinalityType
    <2>5. CASE taken \notin R
        <3>1. R \subseteq Running \ {taken}
            BY <2>2, <2>5
        <3> QED BY <2>2, <2>3, <2>4, <3>1, FS_Subset
    <2>6. CASE taken \in R
        <3>1. IsFiniteSet(R \ {taken}) /\ Cardinality(R \ {taken}) = Cardinality(R) - 1
            BY <2>2, <2>6, FS_RemoveElement
        <3>2. /\ IsFiniteSet((R \ {taken}) \cup {a})
              /\ Cardinality((R \ {taken}) \cup {a}) = Cardinality(R \ {taken}) + 1
            BY <2>1, <3>1, FS_AddElement
        <3>3. (R \ {taken}) \cup {a} \subseteq Running \ {taken}
            BY <2>1, <2>2, <2>6
        <3>4. Cardinality((R \ {taken}) \cup {a}) <= Cardinality(Running \ {taken})
            BY <2>3, <3>3, FS_Subset
        <3> HIDE DEF R
        <3> QED BY <2>2, <2>3, <2>4, <3>1, <3>2, <3>4 DEF R
    <2> QED BY <2>5, <2>6
<1> QED BY <1>1, Inductive, PTL DEF GivenBackNeverRan

\* A refusal for a resume in use is told only while another one is under way.
THEOREM InUseIsTrue == Spec => InUseMeansInUse
<1>1. IInv /\ [Next]_vars => [\A a \in Attempt :
                at[a] = "idle" /\ at'[a] = "done" => Busy(ProcOf[a])]_vars
    <2> SUFFICES ASSUME IInv, Next, NEW a \in Attempt, at[a] = "idle", at'[a] = "done"
                 PROVE Busy(ProcOf[a])
        OBVIOUS
    <2>1. ProcOf[a] \in locked
        BY DEF Next, ResumeStep, Enter, InUse, Approval, NoApproval, NotStarted, Unavailable,
               Matches, Mismatch, ClaimGranted, ClaimRefused, ClaimLost, Unsupported, Run,
               Settle, SettleNothing, Cancel, GiveBack, Defer, ClaimLands, Crash, Decide,
               Withdrawn, Reopens, Step, Leaves, IInv, Known, TypeOK, InProgress
    <2> QED BY <2>1 DEF IInv, Known, LockIsHeld, Busy
<1> QED BY <1>1, Inductive, PTL DEF Spec, InUseMeansInUse

\* Past the look at the hold there is an approval, and past the comparison of
\* the digests the call is the approved one as far as they tell, with or without the claim.
OnTheWay == {"checking", "matching", "claiming", "running", "settling"}
WayIsApproved ==
    \A a \in Attempt :
        /\ at[a] \in OnTheWay \/ a \in ran => escalation = "approved"
        /\ at[a] \in {"claiming", "running", "settling"} \/ a \in ran => SameAsApproved(a)

LEMMA StepWayIsApproved == IInv /\ WayIsApproved /\ [Next]_vars => WayIsApproved'
<1> SUFFICES ASSUME IInv, WayIsApproved, [Next]_vars PROVE WayIsApproved'
    OBVIOUS
<1> USE DEF IInv, Known, TypeOK, SameAsApproved, InProgress, WayIsApproved, OnTheWay, gateVars, Step, Leaves
<1>1. ASSUME NEW a \in Attempt, ResumeStep(a) PROVE WayIsApproved'
    <2>1. CASE Approval(a) \/ NoApproval(a) \/ NotStarted(a) \/ Unavailable(a)
        BY <2>1 DEF Approval, NoApproval, NotStarted, Unavailable
    <2>2. CASE Matches(a) \/ Mismatch(a)
        BY <2>2 DEF Matches, Mismatch
    <2>3. CASE ClaimGranted(a) \/ ClaimRefused(a) \/ ClaimLost(a) \/ Unsupported(a)
        BY <2>3 DEF ClaimGranted, ClaimRefused, ClaimLost, Unsupported
    <2>4. CASE Run(a) \/ Settle(a) \/ SettleNothing(a)
        BY <2>4 DEF Run, Settle, SettleNothing
    <2>5. CASE Cancel(a) \/ GiveBack(a) \/ Defer(a)
        BY <2>5 DEF Cancel, GiveBack, Defer
    <2> QED BY <1>1, <2>1, <2>2, <2>3, <2>4, <2>5 DEF ResumeStep
<1>2. ASSUME NEW a \in Attempt, Enter(a) \/ InUse(a) \/ ClaimLands(a) PROVE WayIsApproved'
    BY <1>2 DEF Enter, InUse, ClaimLands
<1>3. ASSUME NEW p \in Process, Crash(p) PROVE WayIsApproved'
    BY <1>3 DEF Crash
<1>4. CASE Decide \/ Withdrawn \/ Reopens \/ UNCHANGED vars
    BY <1>4 DEF Decide, Withdrawn, Reopens, vars
<1> QED BY <1>1, <1>2, <1>3, <1>4 DEF Next

\* No process, with the claim or without, runs anything but the approved
\* request and context, where the gate returned their digests, nor anything
\* before its owner approved it.
RunsTheApproved ==
    /\ \A a \in ran : SameAsApproved(a)
    /\ ran # {} => escalation = "approved"
THEOREM OnlyTheApprovedRuns == Spec => []RunsTheApproved
<1>1. Init => WayIsApproved
    BY DEF Init, WayIsApproved, OnTheWay
<1>2. IInv /\ WayIsApproved => RunsTheApproved
    BY DEF IInv, Known, TypeOK, WayIsApproved, RunsTheApproved
<1> QED BY <1>1, <1>2, StepWayIsApproved, Inductive, PTL DEF Spec

\* Two calls of one process are never both past the lock, unless one of them is
\* a Python call that was set loose.
OneInProgress ==
    \A a, b \in Attempt :
        /\ at[a] \in InProgress /\ at[b] \in InProgress
        /\ ProcOf[a] = ProcOf[b] /\ ProcOf[a] \notin Python
        => a = b
THEOREM OneResumeAtATime == Spec => []OneInProgress
<1>1. IInv => OneInProgress
    BY DEF IInv, Known, TypeOK, LooseIsPython, LockExclusive, OneInProgress
<1> QED BY <1>1, Inductive, PTL
=============================================================================
