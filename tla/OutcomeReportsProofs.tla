------------------------ MODULE OutcomeReportsProofs ------------------------
(***************************************************************************)
(* Proofs about OutcomeReports, for any callers, bounds and capacities:    *)
(* reports and windows account for every request, the gate books none of   *)
(* those spooled by name twice, what is spooled is kept unless a crash or  *)
(* a rename during its append loses it, and a drain that resolves 0 leaves *)
(* nothing in memory.  The counts are sums over finite sets, so the lemmas *)
(* about those come first.                                                 *)
(***************************************************************************)
EXTENDS OutcomeReports, FiniteSetTheorems, TLAPS

(***************************************************************************)
(* Sums of a function over a finite set.                                   *)
(***************************************************************************)

\* The element SumFunctionOnSet takes out of a set first.
Pick(T) == CHOOSE x \in T : TRUE

\* The function on the subsets of S that it computes.
IsSum(f, S, g) ==
    g = [T \in SUBSET S |-> IF T = {} THEN 0 ELSE f[Pick(T)] + g[T \ {Pick(T)}]]

Iter(f, S) == CHOOSE g : IsSum(f, S, g)

LEMMA PickIsElement ==
    ASSUME NEW T, T # {}
    PROVE  Pick(T) \in T
BY DEF Pick

\* A family of subsets that holds each set whose sets less one element it holds
\* is the family of all subsets.
LEMMA SubsetInduction ==
    ASSUME NEW S, IsFiniteSet(S), NEW P,
           \A T \in SUBSET S : (\A x \in T : T \ {x} \in P) => T \in P
    PROVE  \A T \in SUBSET S : T \in P
<1> DEFINE B == {T \in SUBSET S : T \notin P}
           R == StrictSubsetOrdering(S)
<1> SUFFICES ASSUME B # {} PROVE FALSE
    OBVIOUS
<1>1. IsWellFoundedOn(R, SUBSET S)
    <2>1. FiniteSubsetsOf(S) = SUBSET S
        BY FS_FiniteSubsetsOfFinite
    <2>2. IsWellFoundedOn(R, FiniteSubsetsOf(S))
        BY FS_StrictSubsetOrderingWellFounded
    <2> QED BY <2>1, <2>2
<1>2. \A T, U \in SUBSET S : U \subseteq T /\ U # T => <<U, T>> \in R
    BY DEF StrictSubsetOrdering
<1>3. B \subseteq SUBSET S
    OBVIOUS
<1> HIDE DEF R
<1>4. PICK T \in B : \A U \in B : <<U, T>> \notin R
    <2> HIDE DEF B
    <2> QED BY <1>1, <1>3, WFMin, Zenon
<1>5. ASSUME NEW x \in T PROVE T \ {x} \in P
    <2>1. T \ {x} \in SUBSET S /\ T \in SUBSET S /\ T \ {x} # T
        OBVIOUS
    <2>2. <<T \ {x}, T>> \in R
        BY <1>2, <2>1
    <2> QED BY <1>4, <2>1, <2>2
<1> QED BY <1>4, <1>5

LEMMA SumIsIter ==
    ASSUME NEW f, NEW S
    PROVE  SumFunctionOnSet(f, S) = Iter(f, S)[S]
BY DEF SumFunctionOnSet, FoldFunctionOnSet, MapThenFoldSet, IsSum, Pick, Iter

\* It is the same whichever set it is computed for, and whatever the summands
\* are outside that set.
LEMMA SumUnique ==
    ASSUME NEW S, IsFiniteSet(S), NEW U, S \subseteq U, NEW f, NEW h,
           \A x \in S : f[x] = h[x],
           NEW g, IsSum(f, S, g), NEW k, IsSum(h, U, k)
    PROVE  g[S] = k[S]
<1> DEFINE P == {T \in SUBSET S : g[T] = k[T]}
<1>1. ASSUME NEW T \in SUBSET S, \A x \in T : T \ {x} \in P PROVE T \in P
    <2>1. CASE T = {}
        BY <2>1 DEF IsSum
    <2>2. CASE T # {}
        <3>1. Pick(T) \in T
            BY <2>2, PickIsElement
        <3>2. g[T] = f[Pick(T)] + g[T \ {Pick(T)}]
            BY <2>2 DEF IsSum
        <3>3. k[T] = h[Pick(T)] + k[T \ {Pick(T)}]
            BY <2>2 DEF IsSum
        <3> QED BY <1>1, <3>1, <3>2, <3>3
    <2> QED BY <2>1, <2>2
<1> HIDE DEF P
<1>2. \A T \in SUBSET S : T \in P
    BY <1>1, SubsetInduction
<1> QED BY <1>2 DEF P

\* One element taken out, for the sets whose subsets have a sum.
LEMMA SumStep ==
    ASSUME NEW f, NEW V, IsFiniteSet(V), V # {},
           \A W \in SUBSET V : \E g : IsSum(f, W, g)
    PROVE  SumFunctionOnSet(f, V) = f[Pick(V)] + SumFunctionOnSet(f, V \ {Pick(V)})
<1> DEFINE W == V \ {Pick(V)}
<1>1. IsSum(f, V, Iter(f, V)) /\ IsSum(f, W, Iter(f, W))
    BY DEF Iter
<1>2. W \subseteq V /\ IsFiniteSet(W)
    BY FS_Subset
<1>3. Iter(f, W)[W] = Iter(f, V)[W]
    <2> HIDE DEF W
    <2> QED BY <1>1, <1>2, SumUnique
<1>4. Iter(f, V)[V] = f[Pick(V)] + Iter(f, V)[W]
    BY <1>1 DEF IsSum
<1> HIDE DEF W
<1>5. SumFunctionOnSet(f, V) = Iter(f, V)[V] /\ SumFunctionOnSet(f, W) = Iter(f, W)[W]
    BY SumIsIter DEF Iter
<1> QED BY <1>3, <1>4, <1>5 DEF W

\* It exists for every finite set: no library theorem about recursive functions
\* is needed, the sums of the smaller sets give the function.
LEMMA SumExists ==
    ASSUME NEW f, NEW S, IsFiniteSet(S)
    PROVE  \A T \in SUBSET S : \E g : IsSum(f, T, g)
<1> DEFINE P == {T \in SUBSET S : \A V \in SUBSET T : \E g : IsSum(f, V, g)}
<1>1. ASSUME NEW T \in SUBSET S, \A x \in T : T \ {x} \in P PROVE T \in P
    <2>1. ASSUME NEW V \in SUBSET T, V # T PROVE \E g : IsSum(f, V, g)
        <3>1. PICK x \in T : x \notin V
            BY <2>1
        <3>2. T \ {x} \in P /\ V \in SUBSET (T \ {x})
            BY <1>1, <3>1
        <3> QED BY <3>2
    <2> DEFINE rest(U) == U \ {Pick(U)}
               g == [U \in SUBSET T |->
                       IF U = {} THEN 0
                       ELSE f[Pick(U)] + SumFunctionOnSet(f, U \ {Pick(U)})]
    <2>2. ASSUME NEW V \in SUBSET T, V # T PROVE g[V] = SumFunctionOnSet(f, V)
        <3>1. CASE V = {}
            <4>1. IsSum(f, {}, Iter(f, {}))
                BY <2>1, <2>2, <3>1 DEF Iter
            <4>2. Iter(f, {})[{}] = 0
                BY <4>1 DEF IsSum
            <4> QED BY <3>1, <4>2, SumIsIter DEF Iter
        <3>2. CASE V # {}
            <4>1. IsFiniteSet(V) /\ \A W \in SUBSET V : W # T
                BY <2>2, FS_Subset
            <4> QED BY <2>1, <3>2, <4>1, SumStep
        <3> QED BY <3>1, <3>2
    <2>3. ASSUME NEW U \in SUBSET T, U # {} PROVE g[U] = f[Pick(U)] + g[U \ {Pick(U)}]
        <3>1. Pick(U) \in U
            BY <2>3, PickIsElement
        <3>2. U \ {Pick(U)} \in SUBSET T /\ U \ {Pick(U)} # T
            BY <3>1
        <3>3. g[U \ {Pick(U)}] = SumFunctionOnSet(f, U \ {Pick(U)})
            BY <2>2, <3>2
        <3> QED BY <2>3, <3>3
    <2>4. g = [U \in SUBSET T |-> IF U = {} THEN 0 ELSE f[Pick(U)] + g[U \ {Pick(U)}]]
        <3> DEFINE h == [U \in SUBSET T |-> IF U = {} THEN 0 ELSE f[Pick(U)] + g[U \ {Pick(U)}]]
        <3>1. ASSUME NEW U \in SUBSET T PROVE g[U] = h[U]
            BY <2>3
        <3>2. /\ g = [U \in SUBSET T |-> g[U]]
              /\ h = [U \in SUBSET T |-> h[U]]
            OBVIOUS
        <3> HIDE DEF g, h
        <3>3. g = h
            BY <3>1, <3>2, Zenon
        <3> QED BY <3>3 DEF h
    <2>5. IsSum(f, T, g)
        BY <2>4 DEF IsSum
    <2> HIDE DEF g
    <2> QED BY <2>1, <2>5
<1> HIDE DEF P
<1>2. \A T \in SUBSET S : T \in P
    BY <1>1, SubsetInduction
<1> QED BY <1>2 DEF P

LEMMA SumOfNone ==
    ASSUME NEW f
    PROVE  SumFunctionOnSet(f, {}) = 0
<1>1. IsSum(f, {}, Iter(f, {}))
    BY SumExists, FS_EmptySet DEF Iter
<1>2. Iter(f, {})[{}] = 0
    BY <1>1 DEF IsSum
<1> QED BY <1>2, SumIsIter DEF Iter

LEMMA SumPicks ==
    ASSUME NEW f, NEW S, IsFiniteSet(S), S # {}
    PROVE  /\ Pick(S) \in S
           /\ SumFunctionOnSet(f, S) = f[Pick(S)] + SumFunctionOnSet(f, S \ {Pick(S)})
BY SumStep, SumExists, PickIsElement

LEMMA SumSame ==
    ASSUME NEW S, IsFiniteSet(S), NEW f, NEW h, \A x \in S : f[x] = h[x]
    PROVE  SumFunctionOnSet(f, S) = SumFunctionOnSet(h, S)
<1>1. IsSum(f, S, Iter(f, S)) /\ IsSum(h, S, Iter(h, S))
    BY SumExists DEF Iter
<1>2. Iter(f, S)[S] = Iter(h, S)[S]
    BY <1>1, SumUnique
<1> QED BY <1>2, SumIsIter DEF Iter

LEMMA SumIsNat ==
    ASSUME NEW S, IsFiniteSet(S), NEW f, \A x \in S : f[x] \in Nat
    PROVE  SumFunctionOnSet(f, S) \in Nat
<1> DEFINE P == {T \in SUBSET S : SumFunctionOnSet(f, T) \in Nat}
<1>1. ASSUME NEW T \in SUBSET S, \A x \in T : T \ {x} \in P PROVE T \in P
    <2>1. CASE T = {}
        BY <2>1, SumOfNone
    <2>2. CASE T # {}
        <3>1. IsFiniteSet(T)
            BY FS_Subset
        <3>2. Pick(T) \in T
            BY <2>2, PickIsElement
        <3>3. SumFunctionOnSet(f, T) = f[Pick(T)] + SumFunctionOnSet(f, T \ {Pick(T)})
            BY <2>2, <3>1, SumPicks
        <3>4. f[Pick(T)] \in Nat /\ SumFunctionOnSet(f, T \ {Pick(T)}) \in Nat
            BY <1>1, <3>2
        <3> QED BY <3>3, <3>4
    <2> QED BY <2>1, <2>2
<1> HIDE DEF P
<1>2. \A T \in SUBSET S : T \in P
    BY <1>1, SubsetInduction
<1> QED BY <1>2 DEF P

\* The order does not matter: any element may be taken out.
LEMMA SumLessOne ==
    ASSUME NEW S, IsFiniteSet(S), NEW f, \A x \in S : f[x] \in Nat, NEW e \in S
    PROVE  SumFunctionOnSet(f, S) = f[e] + SumFunctionOnSet(f, S \ {e})
<1> DEFINE sum(T) == SumFunctionOnSet(f, T)
           P == {T \in SUBSET S : \A x \in T : sum(T) = f[x] + sum(T \ {x})}
<1>1. ASSUME NEW T \in SUBSET S, \A x \in T : T \ {x} \in P PROVE T \in P
    <2> SUFFICES ASSUME NEW x \in T PROVE sum(T) = f[x] + sum(T \ {x})
        BY DEF P
    <2> DEFINE y == Pick(T)
               rest == T \ {x, y}
    <2>1. IsFiniteSet(T) /\ IsFiniteSet(T \ {x}) /\ IsFiniteSet(rest)
        BY FS_Subset
    <2>2. y \in T /\ sum(T) = f[y] + sum(T \ {y})
        BY <2>1, SumPicks
    <2>3. CASE x # y
        <3>1. sum(T \ {y}) = f[x] + sum((T \ {y}) \ {x})
            BY <1>1, <2>2, <2>3
        <3>2. sum(T \ {x}) = f[y] + sum((T \ {x}) \ {y})
            BY <1>1, <2>2, <2>3
        <3>3. (T \ {y}) \ {x} = rest /\ (T \ {x}) \ {y} = rest
            OBVIOUS
        <3>4. sum(rest) \in Nat
            BY <2>1, SumIsNat
        <3>5. f[x] \in Nat /\ f[y] \in Nat
            BY <2>2
        <3> HIDE DEF sum, y, rest
        <3> QED BY <2>2, <3>1, <3>2, <3>3, <3>4, <3>5
    <2>4. CASE x = y
        <3> HIDE DEF y
        <3> QED BY <2>2, <2>4
    <2> QED BY <2>3, <2>4
<1> HIDE DEF P
<1>2. \A T \in SUBSET S : T \in P
    BY <1>1, SubsetInduction
<1> QED BY <1>2 DEF P

\* A sum grows with its summands ...
LEMMA SumGrows ==
    ASSUME NEW S, IsFiniteSet(S), NEW f, \A x \in S : f[x] \in Nat,
           NEW h, \A x \in S : h[x] \in Nat /\ f[x] <= h[x]
    PROVE  SumFunctionOnSet(f, S) <= SumFunctionOnSet(h, S)
<1> DEFINE P == {T \in SUBSET S : SumFunctionOnSet(f, T) <= SumFunctionOnSet(h, T)}
<1>1. ASSUME NEW T \in SUBSET S, \A x \in T : T \ {x} \in P PROVE T \in P
    <2>1. CASE T = {}
        BY <2>1, SumOfNone
    <2>2. CASE T # {}
        <3> DEFINE y == Pick(T)
                   m == SumFunctionOnSet(f, T \ {y})
                   n == SumFunctionOnSet(h, T \ {y})
        <3>1. IsFiniteSet(T) /\ IsFiniteSet(T \ {y})
            BY FS_Subset
        <3>2. y \in T /\ SumFunctionOnSet(f, T) = f[y] + m /\ SumFunctionOnSet(h, T) = h[y] + n
            BY <2>2, <3>1, SumPicks
        <3>3. m \in Nat /\ n \in Nat
            BY <3>1, SumIsNat
        <3>4. m <= n /\ f[y] \in Nat /\ h[y] \in Nat /\ f[y] <= h[y]
            BY <1>1, <3>2
        <3> HIDE DEF y, m, n
        <3>5. SumFunctionOnSet(f, T) <= SumFunctionOnSet(h, T)
            BY <3>2, <3>3, <3>4
        <3> QED BY <3>5
    <2> QED BY <2>1, <2>2
<1> HIDE DEF P
<1>2. \A T \in SUBSET S : T \in P
    BY <1>1, SubsetInduction
<1> QED BY <1>2 DEF P

\* ... and with its set.
LEMMA SumOfSubset ==
    ASSUME NEW S, IsFiniteSet(S), NEW f, \A x \in S : f[x] \in Nat, NEW R \in SUBSET S
    PROVE  SumFunctionOnSet(f, R) <= SumFunctionOnSet(f, S)
<1> DEFINE sum(T) == SumFunctionOnSet(f, T)
           P == {T \in SUBSET S : \A U \in SUBSET T : sum(U) <= sum(T)}
<1>0. \A T \in SUBSET S : sum(T) \in Nat
    BY FS_Subset, SumIsNat
<1>1. ASSUME NEW T \in SUBSET S, \A x \in T : T \ {x} \in P PROVE T \in P
    <2> SUFFICES ASSUME NEW U \in SUBSET T, U # T PROVE sum(U) <= sum(T)
        BY <1>0
    <2>1. PICK x \in T : x \notin U
        OBVIOUS
    <2>2. sum(U) <= sum(T \ {x})
        BY <1>1, <2>1
    <2>3. IsFiniteSet(T)
        BY FS_Subset
    <2>4. sum(T) = f[x] + sum(T \ {x})
        BY <2>3, SumLessOne
    <2>5. f[x] \in Nat /\ sum(T \ {x}) \in Nat /\ sum(U) \in Nat
        BY <1>0
    <2> HIDE DEF sum
    <2> QED BY <2>2, <2>4, <2>5
<1> HIDE DEF P
<1>2. \A T \in SUBSET S : T \in P
    BY <1>1, SubsetInduction
<1> QED BY <1>2 DEF P

LEMMA SumOfZeros ==
    ASSUME NEW S, IsFiniteSet(S), NEW f, \A x \in S : f[x] = 0
    PROVE  SumFunctionOnSet(f, S) = 0
<1> DEFINE P == {T \in SUBSET S : SumFunctionOnSet(f, T) = 0}
<1>1. ASSUME NEW T \in SUBSET S, \A x \in T : T \ {x} \in P PROVE T \in P
    <2>1. CASE T = {}
        BY <2>1, SumOfNone
    <2>2. CASE T # {}
        <3>1. IsFiniteSet(T)
            BY FS_Subset
        <3>2. Pick(T) \in T
            BY <2>2, PickIsElement
        <3>3. SumFunctionOnSet(f, T) = f[Pick(T)] + SumFunctionOnSet(f, T \ {Pick(T)})
            BY <2>2, <3>1, SumPicks
        <3>4. f[Pick(T)] = 0 /\ SumFunctionOnSet(f, T \ {Pick(T)}) = 0
            BY <1>1, <3>2
        <3> QED BY <3>3, <3>4
    <2> QED BY <2>1, <2>2
<1> HIDE DEF P
<1>2. \A T \in SUBSET S : T \in P
    BY <1>1, SubsetInduction
<1> QED BY <1>2 DEF P

Report == [subject : Subject, count : Nat \ {0}]

\* Where a report stands, and every line of the files, is about one made.
OfMade ==
    /\ \A i \in Ids : at[i] # "none" => i \in DOMAIN made
    /\ Reports(spool \cup work) \subseteq DOMAIN made

MadeIsSent == \A i \in Ids : i \in DOMAIN made => at[i] # "none"

\* A line names its report to the gate, unless it never had a reportId.
NamesIt(l) == l.id \in {0, l.report} /\ (l.id = 0 => l.report \in nameless)
Named == \A l \in spool \cup work : NamesIt(l)

\* An append under way has a file open, the work file only during a flush.
OpenHasFile ==
    \A i \in Ids : /\ at[i] = "open" <=> handle[i] # "none"
                   /\ handle[i] = "work" => flusher # "idle"

\* A flush that has read the work file has dealt with the lines it is done
\* with; a work file that no flush reads was left by a crash.
WorkDone ==
    /\ flusher = "idle" => Reports(work) \subseteq stranded
    /\ flusher = "sending" =>
         \A l \in work \ todo :
            l.report \in Reports(spool) \cup known \cup refused \cup torn

TodoIsSending == flusher # "sending" => todo = {}

\* A report that is done with is at the gate or was dropped.
DoneIsTold == \A i \in Ids : at[i] = "done" => i \in known \cup refused \cup dropped

StoppedIsQuiet == process = "stopped" => ~ Pending

\* The files hold what was spooled.
FilesHold == OpenHasFile /\ WorkDone /\ SpooledIsKept

IInv ==
    /\ TypeOK /\ OfMade /\ MadeIsSent /\ Named
    /\ TodoIsSending /\ DoneIsTold /\ StoppedIsQuiet /\ FilesHold

(***************************************************************************)
(* The reports a handler makes are a sequence of reports.                  *)
(***************************************************************************)
\* SetToSeq lists every element of a finite set once.
LEMMA SetToSeqFacts ==
    ASSUME NEW S, IsFiniteSet(S)
    PROVE  /\ SetToSeq(S) \in Seq(S)
           /\ Len(SetToSeq(S)) = Cardinality(S)
           /\ \A x \in S : \E i \in DOMAIN SetToSeq(S) : SetToSeq(S)[i] = x
           /\ \A i, j \in DOMAIN SetToSeq(S) : SetToSeq(S)[i] = SetToSeq(S)[j] => i = j
<1> DEFINE n == Cardinality(S)
           q == SetToSeq(S)
<1>1. n \in Nat /\ ExistsBijection(1..n, S)
    BY FS_CardinalityType
<1>2. PICK f \in Bijection(1..n, S) : TRUE
    BY <1>1 DEF ExistsBijection
<1>3. f \in [1..n -> S] /\ IsInjective(f)
    BY <1>2 DEF Bijection, Injection
<1>4. q \in [1..n -> S] /\ IsInjective(q)
    BY <1>3 DEF SetToSeq
<1> HIDE DEF n, q
<1>5. q \in Injection(1..n, S)
    BY <1>4 DEF Injection
<1>6. IsFiniteSet(1..n) /\ Cardinality(1..n) = n
    BY <1>1, FS_Interval
<1>7. q \in Surjection(1..n, S)
    BY <1>5, <1>6, FS_Injection DEF n
<1>8. q \in Seq(S) /\ Len(q) = n /\ DOMAIN q = 1..n
    BY <1>1, <1>4
<1>9. \A x \in S : \E i \in DOMAIN q : q[i] = x
    BY <1>7, <1>8 DEF Surjection
<1>10. \A i, j \in DOMAIN q : q[i] = q[j] => i = j
    BY <1>4 DEF IsInjective
<1> QED BY <1>8, <1>9, <1>10 DEF n, q

LEMMA WindowReportsType ==
    ASSUME TypeOK, NEW ks \in SUBSET Key
    PROVE  WindowReports(ks) \in Seq(Report)
<1> DEFINE repeated == {k \in ks : extra[k] > 0}
           S == {[subject |-> k, count |-> extra[k]] : k \in repeated}
<1>1. IsFiniteSet(repeated)
    BY KeyAssumption, FS_Subset
<1>2. IsFiniteSet(S)
    <2> DEFINE f == [k \in repeated |-> [subject |-> k, count |-> extra[k]]]
    <2>1. f \in Surjection(repeated, S)
        BY DEF Surjection
    <2> HIDE DEF repeated, S, f
    <2> QED BY <1>1, <2>1, FS_Surjection DEF ExistsSurjection
<1>3. SetToSeq(S) \in Seq(S)
    BY <1>2, SetToSeqFacts
<1>4. S \subseteq Report
    BY DEF TypeOK, Report, Subject
<1> HIDE DEF S
<1>5. SetToSeq(S) \in Seq(Report)
    BY <1>3, <1>4
<1> QED BY <1>5 DEF S, WindowReports

LEMMA OneType ==
    ASSUME NEW s \in Subject
    PROVE  One(s) \in Seq(Report)
BY DEF One, Report

LEMMA InitIInv == Init => IInv
<1> SUFFICES ASSUME Init PROVE IInv
    OBVIOUS
<1>1. made \in Seq(Report) /\ DOMAIN made = {}
    BY DEF Init
<1>2. TypeOK
    BY <1>1, BoundsAssumption DEF Init, TypeOK, Report
<1>3. OfMade /\ MadeIsSent /\ Named /\ OpenHasFile
    BY <1>1 DEF Init, OfMade, MadeIsSent, Named, NamesIt, OpenHasFile, Reports
<1>4. WorkDone /\ SpooledIsKept /\ TodoIsSending /\ DoneIsTold /\ StoppedIsQuiet
    BY DEF Init, WorkDone, SpooledIsKept, Kept, TodoIsSending, DoneIsTold, StoppedIsQuiet,
           Reports
<1> QED BY <1>2, <1>3, <1>4 DEF IInv, FilesHold

(***************************************************************************)
(* A handler that makes reports and sends them in the background.          *)
(***************************************************************************)
LEMMA SendKeeps ==
    ASSUME IInv, NEW reports \in Seq(Report), Send(reports), process # "stopped",
           UNCHANGED <<files, flushing, recorded, dropped, stranded>>,
           process' # "stopped"
    PROVE  /\ made' \in Seq(Report)
           /\ at' \in [Ids -> {"none", "done", "spooled", "killed"} \cup Active]
           /\ OfMade' /\ MadeIsSent' /\ Named'
           /\ TodoIsSending' /\ DoneIsTold' /\ StoppedIsQuiet'
           /\ FilesHold'
<1> USE DEF IInv
<1>1. made \in Seq(Report) /\ made' = made \o reports
    BY DEF TypeOK, Report, Send
<1>2. made' \in Seq(Report) /\ DOMAIN made \subseteq DOMAIN made'
    BY <1>1
<1>3. /\ at' = [i \in Ids |-> IF i \in DOMAIN made' \ DOMAIN made THEN "sending" ELSE at[i]]
      /\ at \in [Ids -> {"none", "done", "spooled", "killed"} \cup Active]
    BY DEF Send, TypeOK
<1>4. at' \in [Ids -> {"none", "done", "spooled", "killed"} \cup Active]
    BY <1>3 DEF Active
<1>5. \A i \in Ids : i \in DOMAIN made' \ DOMAIN made => at[i] = "none"
    BY DEF OfMade
<1>6. OfMade' /\ MadeIsSent'
    BY <1>2, <1>3 DEF OfMade, MadeIsSent, files, Reports
<1>7. Named' /\ TodoIsSending' /\ (WorkDone => WorkDone')
    BY DEF Named, NamesIt, TodoIsSending, WorkDone, files, flushing, recorded, Reports
<1>8. OpenHasFile'
    BY <1>3, <1>5 DEF FilesHold, OpenHasFile, files, flushing
<1>9. DoneIsTold' /\ (SpooledIsKept => SpooledIsKept')
    BY <1>3 DEF SpooledIsKept, Kept, DoneIsTold, files, recorded, Reports
<1>10. StoppedIsQuiet'
    BY DEF StoppedIsQuiet
<1> QED BY <1>2, <1>4, <1>6, <1>7, <1>8, <1>9, <1>10 DEF FilesHold

(***************************************************************************)
(* What the gate's answer does to what it knows.                           *)
(***************************************************************************)
LEMMA RecordKeeps ==
    ASSUME TypeOK, NEW l \in Line, l.report \in DOMAIN made, NamesIt(l), Record(l)
    PROVE  /\ known' \subseteq Ids /\ known \subseteq known' /\ l.report \in known'
           /\ tally' \in [Subject -> Nat]
<1>1. l.report \in Ids
    BY DEF Line
<1>2. made \in Seq(Report)
    BY DEF TypeOK, Report
<1>3. made[l.report] \in Report
    BY <1>2
<1>4. made[l.report].subject \in Subject /\ made[l.report].count \in Nat
    BY <1>3 DEF Report
<1> DEFINE s == made[l.report].subject
           n == made[l.report].count
<1>5. UNCHANGED tally \/ tally' = [tally EXCEPT ![s] = @ + n]
    BY DEF Record
<1>6. tally \in [Subject -> Nat]
    BY DEF TypeOK
<1> HIDE DEF s, n
<1>7. [tally EXCEPT ![s] = @ + n] \in [Subject -> Nat]
    BY <1>4, <1>6 DEF s, n
<1>8. tally' \in [Subject -> Nat]
    BY <1>5, <1>6, <1>7
<1>9. known \subseteq Ids /\ (known' = known \/ known' = known \cup {l.report})
    BY DEF TypeOK, Record
<1>10. l.report \in known'
    BY <1>9, BoundsAssumption DEF Record, NamesIt, Ids
<1> QED BY <1>1, <1>8, <1>9, <1>10

LEMMA AnsweredKeeps ==
    ASSUME TypeOK, NEW l \in Line, l.report \in DOMAIN made, NamesIt(l), Answered(l)
    PROVE  /\ known' \cup refused' \subseteq Ids
           /\ known \subseteq known' /\ refused \subseteq refused'
           /\ l.report \in known' \cup refused'
           /\ tally' \in [Subject -> Nat]
<1>1. CASE Record(l) /\ UNCHANGED refused
    BY <1>1, RecordKeeps DEF TypeOK
<1>2. CASE refused' = refused \cup {l.report} /\ UNCHANGED <<known, tally>>
    BY <1>2 DEF TypeOK, Line
<1> QED BY <1>1, <1>2 DEF Answered

LEMMA TransientKeeps ==
    ASSUME TypeOK, NEW l \in Line, l.report \in DOMAIN made, NamesIt(l), Transient(l)
    PROVE  /\ known' \subseteq Ids /\ known \subseteq known' /\ UNCHANGED refused
           /\ tally' \in [Subject -> Nat]
<1>1. CASE Record(l)
    BY <1>1, RecordKeeps DEF Transient
<1>2. CASE UNCHANGED <<known, tally>>
    BY <1>2 DEF Transient, TypeOK
<1> QED BY <1>1, <1>2 DEF Transient

(***************************************************************************)
(* The handlers that count requests and make reports.                      *)
(***************************************************************************)
LEMMA CountedKeeps ==
    ASSUME IInv, NEW s \in Subject, Counted(s)
    PROVE  /\ process # "stopped" /\ process' # "stopped"
           /\ seen' \in [Subject -> Nat] /\ late' \in Nat
           /\ UNCHANGED <<files, flushing, recorded, dropped, gates>>
           /\ UNCHANGED <<process, crashes, forgotten, stranded>>
BY DEF Counted, IInv, TypeOK, files, flushing, recorded, gates

LEMMA RequestSteps ==
    ASSUME IInv, \/ Execute
                 \/ \E k \in Key : RefuseFirst(k) \/ RefuseAgain(k) \/ CloseWindow(k)
    PROVE  IInv'
<1>1. ASSUME NEW k \in Key, RefuseFirst(k) PROVE IInv'
    <2>1. k \in Subject /\ Counted(k)
        BY <1>1 DEF RefuseFirst, Subject
    <2>2. PICK out \in Evictions(windows \ {k}) :
              /\ Send(WindowReports(out \cup (windows \cap {k})) \o One(k))
              /\ windows' = (windows \ out) \cup {k}
              /\ extra' = [j \in Key |-> IF j \in out \cup {k} THEN 0 ELSE extra[j]]
        BY <1>1 DEF RefuseFirst
    <2>3. out \cup (windows \cap {k}) \in SUBSET Key
        BY DEF Evictions, kSubset, IInv, TypeOK
    <2> DEFINE reports == WindowReports(out \cup (windows \cap {k})) \o One(k)
    <2>4. reports \in Seq(Report)
        BY <2>1, <2>3, WindowReportsType, OneType DEF IInv
    <2>5. Send(reports)
        BY <2>2
    <2> HIDE DEF reports
    <2> QED BY <2>1, <2>2, <2>4, <2>5, CountedKeeps, SendKeeps
            DEF IInv, TypeOK, files, flushing, recorded, gates, Report
<1>2. ASSUME NEW k \in Key, RefuseAgain(k) PROVE IInv'
    <2>1. k \in Subject /\ Counted(k)
        BY <1>2 DEF RefuseAgain, Subject
    <2>2. /\ windows' \subseteq Key /\ extra' \in [Key -> Nat]
          /\ \A j \in Key \ windows' : extra'[j] = 0
        BY <1>2 DEF RefuseAgain, IInv, TypeOK
    <2>3. TypeOK'
        BY <1>2, <2>1, <2>2, CountedKeeps
           DEF RefuseAgain, IInv, TypeOK, files, flushing, recorded, gates
    <2>4. OfMade' /\ MadeIsSent' /\ Named' /\ TodoIsSending' /\ DoneIsTold' /\ StoppedIsQuiet'
        BY <1>2, <2>1, CountedKeeps
           DEF RefuseAgain, IInv, OfMade, MadeIsSent, Named, NamesIt, TodoIsSending, DoneIsTold,
               StoppedIsQuiet, Reports, files, flushing, recorded
    <2>5. FilesHold'
        BY <1>2, <2>1, CountedKeeps
           DEF RefuseAgain, IInv, FilesHold, OpenHasFile, WorkDone, SpooledIsKept, Kept, Reports,
               files, flushing, recorded
    <2> QED BY <2>3, <2>4, <2>5 DEF IInv
<1>3. ASSUME NEW k \in Key, CloseWindow(k) PROVE IInv'
    <2>1. WindowReports({k}) \in Seq(Report)
        BY WindowReportsType DEF IInv
    <2> QED BY <1>3, <2>1, SendKeeps
            DEF CloseWindow, IInv, TypeOK, files, flushing, recorded, gates, running, Report
<1>4. CASE Execute
    <2>1. "executed" \in Subject /\ Counted("executed")
        BY <1>4 DEF Execute, Subject
    <2> QED BY <1>4, <2>1, OneType, CountedKeeps, SendKeeps
            DEF Execute, IInv, TypeOK, files, flushing, recorded, gates, Report
<1> QED BY <1>1, <1>2, <1>3, <1>4

(***************************************************************************)
(* One step of a report sent in the background, and of the flush.          *)
(***************************************************************************)
LEMMA SendSteps ==
    ASSUME IInv, NEW i \in Ids, SendStep(i)
    PROVE  IInv'
<1> USE DEF IInv
<1>1. /\ process # "stopped" /\ at[i] # "none" /\ i \in DOMAIN made
      /\ UNCHANGED <<sending, flushing, gates, running>>
    BY DEF SendStep, SendAnswered, SendFails, SpoolHasRoom, SpoolFull, AppendOpens,
           AppendWrites, Moves, OfMade
<1>2. /\ SpoolLine(i) \in Line /\ SpoolLine(i).report = i /\ NamesIt(SpoolLine(i))
      /\ FirstLine(i) \in Line /\ FirstLine(i).report = i /\ NamesIt(FirstLine(i))
    BY BoundsAssumption DEF SpoolLine, FirstLine, Line, NamesIt, Ids
<1>3. StoppedIsQuiet' /\ at \in [Ids -> {"none", "done", "spooled", "killed"} \cup Active]
    BY <1>1 DEF StoppedIsQuiet, running, TypeOK
<1> USE DEF sending, flushing, gates, running, files, recorded, Moves, Active
<1>4. CASE SendAnswered(i)
    <2>1. /\ known' \cup refused' \subseteq Ids
          /\ known \subseteq known' /\ refused \subseteq refused'
          /\ i \in known' \cup refused' /\ tally' \in [Subject -> Nat]
        BY <1>1, <1>2, <1>4, AnsweredKeeps DEF SendAnswered
    <2>2. TypeOK'
        BY <1>1, <1>3, <1>4, <2>1 DEF SendAnswered, Answered, TypeOK
    <2>3. OfMade' /\ MadeIsSent' /\ Named' /\ TodoIsSending' /\ DoneIsTold'
        BY <1>1, <1>3, <1>4, <2>1
           DEF SendAnswered, Answered, OfMade, MadeIsSent, Named, NamesIt, TodoIsSending, DoneIsTold, Reports
    <2>4. FilesHold'
        BY <1>1, <1>3, <1>4, <2>1
           DEF SendAnswered, FilesHold, OpenHasFile, WorkDone, SpooledIsKept, Kept, Reports
    <2> QED BY <1>3, <2>2, <2>3, <2>4
<1>5. CASE SendFails(i)
    <2>1. /\ known' \subseteq Ids /\ known \subseteq known' /\ UNCHANGED refused
          /\ tally' \in [Subject -> Nat]
        BY <1>1, <1>2, <1>5, TransientKeeps DEF SendFails
    <2>2. TypeOK'
        BY <1>1, <1>3, <1>5, <2>1 DEF SendFails, TypeOK
    <2>3. OfMade' /\ MadeIsSent' /\ Named' /\ TodoIsSending' /\ DoneIsTold'
        BY <1>1, <1>3, <1>5, <2>1
           DEF SendFails, OfMade, MadeIsSent, Named, NamesIt, TodoIsSending, DoneIsTold, Reports
    <2>4. FilesHold'
        BY <1>1, <1>3, <1>5, <2>1
           DEF SendFails, FilesHold, OpenHasFile, WorkDone, SpooledIsKept, Kept, Reports
    <2> QED BY <1>3, <2>2, <2>3, <2>4
<1>6. CASE SpoolHasRoom(i) \/ SpoolFull(i) \/ AppendOpens(i)
    <2>1. TypeOK'
        <3>1. CASE SpoolHasRoom(i)
            BY <1>1, <1>3, <3>1 DEF SpoolHasRoom, TypeOK
        <3>2. CASE SpoolFull(i)
            BY <1>1, <1>3, <3>2 DEF SpoolFull, TypeOK
        <3>3. CASE AppendOpens(i)
            BY <1>1, <1>3, <3>3 DEF AppendOpens, TypeOK
        <3> QED BY <1>6, <3>1, <3>2, <3>3
    <2>2. OfMade' /\ MadeIsSent' /\ Named' /\ TodoIsSending' /\ DoneIsTold'
        BY <1>1, <1>3, <1>6
           DEF SpoolHasRoom, SpoolFull, AppendOpens, OfMade, MadeIsSent, Named, NamesIt, TodoIsSending,
               DoneIsTold, Reports
    <2>3. OpenHasFile'
        <3>1. CASE SpoolHasRoom(i) \/ SpoolFull(i)
            BY <1>1, <1>3, <3>1 DEF SpoolHasRoom, SpoolFull, FilesHold, OpenHasFile
        <3>2. CASE AppendOpens(i)
            BY <1>1, <1>3, <3>2 DEF AppendOpens, FilesHold, OpenHasFile, TypeOK
        <3> QED BY <1>6, <3>1, <3>2
    <2>4. /\ WorkDone => WorkDone'
          /\ SpooledIsKept => SpooledIsKept'
        BY <1>1, <1>3, <1>6
           DEF SpoolHasRoom, SpoolFull, AppendOpens, WorkDone, SpooledIsKept, Kept, Reports
    <2> QED BY <1>3, <2>1, <2>2, <2>3, <2>4 DEF FilesHold
<1>7. CASE AppendWrites(i)
    <2>1. TypeOK'
        BY <1>1, <1>2, <1>3, <1>7 DEF AppendWrites, TypeOK
    <2>2. OfMade' /\ MadeIsSent' /\ Named' /\ TodoIsSending' /\ DoneIsTold'
        BY <1>1, <1>2, <1>3, <1>7
           DEF AppendWrites, OfMade, MadeIsSent, Named, NamesIt, TodoIsSending, DoneIsTold, Reports
    <2>3. at[i] = "open" /\ handle[i] \in {"spool", "work", "gone"}
        BY <1>7 DEF AppendWrites, FilesHold, OpenHasFile, TypeOK
    <2>4. OpenHasFile'
        BY <1>1, <1>3, <1>7 DEF AppendWrites, FilesHold, OpenHasFile, TypeOK
    <2>5. /\ Reports(spool) \subseteq Reports(spool') /\ Reports(work) \subseteq Reports(work')
          /\ handle[i] = "spool" => i \in Reports(spool')
          /\ handle[i] = "work" => i \in Reports(work')
        BY <1>2, <1>7 DEF AppendWrites, Reports
    <2>6. WorkDone'
        <3>1. CASE flusher = "idle"
            <4>1. work' = work
                BY <1>7, <3>1 DEF AppendWrites, FilesHold, OpenHasFile
            <4> QED BY <1>1, <3>1, <4>1 DEF FilesHold, WorkDone, Reports
        <3>2. CASE flusher = "sending"
            <4> SUFFICES ASSUME NEW l \in work' \ todo
                         PROVE  l.report \in Reports(spool') \cup known \cup refused \cup torn'
                BY <1>1, <1>7, <3>2 DEF AppendWrites, WorkDone
            <4>1. CASE l \in work
                BY <1>7, <2>5, <3>2, <4>1 DEF AppendWrites, FilesHold, WorkDone
            <4>2. CASE l = SpoolLine(i) /\ handle[i] = "work"
                BY <1>2, <1>7, <3>2, <4>2 DEF AppendWrites
            <4> QED BY <1>7, <4>1, <4>2 DEF AppendWrites
        <3> QED BY <1>1, <3>1, <3>2 DEF WorkDone
    <2>7. /\ Reports(spool \cup work) = Reports(spool) \cup Reports(work)
          /\ Reports((spool \cup work)') = Reports(spool') \cup Reports(work')
        BY DEF Reports
    <2>8. ASSUME NEW j \in Ids, at'[j] = "spooled"
          PROVE  Kept(j)' \/ j \in stranded' \cup torn'
        <3>1. CASE j = i
            BY <1>7, <2>3, <2>5, <2>7, <3>1 DEF AppendWrites, Kept
        <3>2. CASE j # i
            <4>1. at[j] = "spooled"
                BY <1>3, <1>7, <2>8, <3>2 DEF AppendWrites
            <4> QED BY <1>1, <1>7, <2>5, <2>7, <4>1
                    DEF AppendWrites, FilesHold, SpooledIsKept, Kept
        <3> QED BY <3>1, <3>2
    <2>9. SpooledIsKept'
        BY <2>8 DEF SpooledIsKept
    <2> QED BY <1>3, <2>1, <2>2, <2>4, <2>6, <2>9 DEF FilesHold
<1> QED BY <1>4, <1>5, <1>6, <1>7 DEF SendStep

LEMMA FlushLine ==
    ASSUME IInv, NEW l \in todo
    PROVE  l \in work /\ l \in Line /\ l.report \in DOMAIN made /\ NamesIt(l)
BY DEF IInv, TypeOK, OfMade, Named, NamesIt, Reports

LEMMA FlushSteps ==
    ASSUME IInv, FlushStep
    PROVE  IInv'
<1> USE DEF IInv
<1>1. process # "stopped" /\ UNCHANGED <<sending, at, gates, dropped, running>>
    BY DEF FlushStep, FlushRenames, FlushReads, FlushEnds, FlushAnswered, FlushFails, Flushes
<1>2. StoppedIsQuiet' /\ MadeIsSent'
    BY <1>1 DEF StoppedIsQuiet, MadeIsSent, sending, running
<1> USE DEF sending, gates, running, files, recorded, Flushes
<1>3. CASE FlushRenames
    <2>1. TypeOK'
        BY <1>1, <1>3 DEF FlushRenames, TypeOK, TodoIsSending
    <2>2. OfMade' /\ Named' /\ TodoIsSending' /\ DoneIsTold'
        BY <1>1, <1>3 DEF FlushRenames, OfMade, Named, NamesIt, TodoIsSending, DoneIsTold, Reports
    <2>3. OpenHasFile'
        BY <1>1, <1>3 DEF FlushRenames, FilesHold, OpenHasFile, TypeOK
    <2>4. WorkDone'
        BY <1>3 DEF FlushRenames, WorkDone
    <2>5. /\ WorkDone => Reports(work) \subseteq stranded
          /\ Reports((spool \cup work)') = Reports(spool)
          /\ Reports(spool \cup work) = Reports(spool) \cup Reports(work)
        BY <1>3 DEF FlushRenames, WorkDone, Reports
    <2>6. SpooledIsKept'
        BY <1>1, <1>3, <2>5 DEF FlushRenames, FilesHold, SpooledIsKept, Kept
    <2> QED BY <1>2, <2>1, <2>2, <2>3, <2>4, <2>6 DEF FilesHold
<1>4. CASE FlushReads
    <2>1. TypeOK'
        BY <1>1, <1>4 DEF FlushReads, TypeOK
    <2>2. OfMade' /\ Named' /\ TodoIsSending' /\ DoneIsTold'
        BY <1>1, <1>4 DEF FlushReads, OfMade, Named, NamesIt, TodoIsSending, DoneIsTold, Reports
    <2>3. FilesHold'
        BY <1>1, <1>4
           DEF FlushReads, FilesHold, OpenHasFile, WorkDone, SpooledIsKept, Kept, Reports
    <2> QED BY <1>2, <2>1, <2>2, <2>3
<1>5. ASSUME NEW l \in todo, FlushAnswered(l) PROVE IInv'
    <2>1. /\ known' \cup refused' \subseteq Ids
          /\ known \subseteq known' /\ refused \subseteq refused'
          /\ l.report \in known' \cup refused' /\ tally' \in [Subject -> Nat]
        BY <1>5, FlushLine, AnsweredKeeps DEF FlushAnswered
    <2>2. TypeOK'
        BY <1>1, <1>5, <2>1 DEF FlushAnswered, Answered, TypeOK
    <2>3. OfMade' /\ Named' /\ TodoIsSending' /\ DoneIsTold'
        BY <1>1, <1>5, <2>1
           DEF FlushAnswered, Answered, OfMade, Named, NamesIt, TodoIsSending, DoneIsTold, Reports
    <2>4. OpenHasFile'
        BY <1>1, <1>5 DEF FlushAnswered, FilesHold, OpenHasFile
    <2>5. WorkDone => WorkDone'
        BY <1>1, <1>5, <2>1 DEF FlushAnswered, WorkDone
    <2>6. SpooledIsKept => SpooledIsKept'
        BY <1>1, <1>5, <2>1 DEF FlushAnswered, SpooledIsKept, Kept
    <2> QED BY <1>2, <2>2, <2>3, <2>4, <2>5, <2>6 DEF FilesHold
<1>6. ASSUME NEW l \in todo, FlushFails(l) PROVE IInv'
    <2>1. /\ known' \subseteq Ids /\ known \subseteq known' /\ UNCHANGED refused
          /\ tally' \in [Subject -> Nat]
        BY <1>6, FlushLine, TransientKeeps DEF FlushFails
    <2>2. l \in Line /\ l.report \in DOMAIN made /\ NamesIt(l)
        BY FlushLine
    <2>3. /\ Reports((spool \cup work)') = Reports(spool \cup work) \cup {l.report}
          /\ Reports(spool') = Reports(spool) \cup {l.report}
        BY <1>6 DEF FlushFails, Reports
    <2>4. TypeOK'
        BY <1>1, <1>6, <2>1, <2>2 DEF FlushFails, TypeOK
    <2>5. OfMade' /\ Named' /\ TodoIsSending' /\ DoneIsTold'
        BY <1>1, <1>6, <2>1, <2>2, <2>3
           DEF FlushFails, OfMade, Named, NamesIt, TodoIsSending, DoneIsTold
    <2>6. OpenHasFile'
        BY <1>1, <1>6 DEF FlushFails, FilesHold, OpenHasFile
    <2>7. WorkDone => WorkDone'
        BY <1>1, <1>6, <2>1, <2>3 DEF FlushFails, WorkDone
    <2>8. SpooledIsKept => SpooledIsKept'
        BY <1>1, <1>6, <2>1, <2>3 DEF FlushFails, SpooledIsKept, Kept
    <2> QED BY <1>2, <2>4, <2>5, <2>6, <2>7, <2>8 DEF FilesHold
<1>7. CASE FlushEnds
    <2>1. TypeOK'
        BY <1>1, <1>7 DEF FlushEnds, TypeOK
    <2>2. OfMade' /\ Named' /\ TodoIsSending' /\ DoneIsTold'
        BY <1>1, <1>7 DEF FlushEnds, OfMade, Named, NamesIt, TodoIsSending, DoneIsTold, Reports
    <2>3. OpenHasFile'
        BY <1>1, <1>7 DEF FlushEnds, FilesHold, OpenHasFile, TypeOK
    <2>4. /\ WorkDone => Reports(work) \subseteq Reports(spool) \cup known \cup refused \cup torn
          /\ Reports((spool \cup work)') = Reports(spool)
          /\ Reports(work') = {}
          /\ Reports(spool \cup work) = Reports(spool) \cup Reports(work)
        BY <1>7 DEF FlushEnds, WorkDone, Reports
    <2>5. WorkDone'
        BY <1>7, <2>4 DEF FlushEnds, WorkDone
    <2>6. WorkDone /\ SpooledIsKept => SpooledIsKept'
        BY <1>1, <1>7, <2>4 DEF FlushEnds, SpooledIsKept, Kept
    <2> QED BY <1>2, <2>1, <2>2, <2>3, <2>5, <2>6 DEF FilesHold
<1> QED BY <1>3, <1>4, <1>5, <1>6, <1>7 DEF FlushStep

(***************************************************************************)
(* The process and the gate.                                               *)
(***************************************************************************)
LEMMA ProcessSteps ==
    ASSUME IInv, Drain \/ Stop \/ Crash \/ GateFails \/ GateRecovers
    PROVE  IInv'
<1> USE DEF IInv, sending, files, flushing, gates, recorded, running
<1>1. CASE Drain
    <2>1. WindowReports(windows) \in Seq(Report)
        BY WindowReportsType DEF TypeOK
    <2> QED BY <1>1, <2>1, SendKeeps DEF Drain, TypeOK, Report
<1>2. CASE Stop \/ GateFails \/ GateRecovers
    <2>1. outages' \in 0..MaxOutages
        BY <1>2, BoundsAssumption DEF Stop, GateFails, GateRecovers, TypeOK
    <2>2. TypeOK'
        BY <1>2, <2>1 DEF Stop, GateFails, GateRecovers, TypeOK
    <2>3. OfMade' /\ MadeIsSent' /\ Named' /\ TodoIsSending' /\ DoneIsTold'
        BY <1>2
           DEF Stop, GateFails, GateRecovers, OfMade, MadeIsSent, Named, NamesIt, TodoIsSending,
               DoneIsTold, Reports
    <2>4. StoppedIsQuiet'
        BY <1>2 DEF Stop, GateFails, GateRecovers, StoppedIsQuiet, Pending
    <2>5. FilesHold'
        BY <1>2
           DEF Stop, GateFails, GateRecovers, FilesHold, OpenHasFile, WorkDone, SpooledIsKept,
               Kept, Reports
    <2> QED BY <2>2, <2>3, <2>4, <2>5
<1>3. CASE Crash
    <2>1. at' \in [Ids -> {"none", "done", "spooled", "killed"} \cup Active]
        BY <1>3 DEF Crash, TypeOK
    <2>2. forgotten' \in [Subject -> Nat]
        BY <1>3 DEF Crash, TypeOK, Repeats
    <2>3. stranded' \subseteq Ids
        BY <1>3 DEF Crash, TypeOK, Reports, Line
    <2>4. TypeOK'
        BY <1>3, <2>1, <2>2, <2>3, BoundsAssumption DEF Crash, TypeOK
    <2>5. OfMade' /\ MadeIsSent' /\ Named' /\ TodoIsSending' /\ DoneIsTold'
        BY <1>3
           DEF Crash, TypeOK, Active, OfMade, MadeIsSent, Named, NamesIt, TodoIsSending, DoneIsTold,
               Reports
    <2>6. StoppedIsQuiet' /\ OpenHasFile'
        BY <1>3 DEF Crash, StoppedIsQuiet, OpenHasFile, TypeOK, Active
    <2>7. WorkDone'
        BY <1>3 DEF Crash, WorkDone, Reports
    <2>8. SpooledIsKept => SpooledIsKept'
        BY <1>3 DEF Crash, SpooledIsKept, Kept, Reports, Active
    <2> QED BY <2>4, <2>5, <2>6, <2>7, <2>8 DEF FilesHold
<1> QED BY <1>1, <1>2, <1>3

LEMMA StepIInv == IInv /\ [Next]_vars => IInv'
<1> SUFFICES ASSUME IInv, [Next]_vars PROVE IInv'
    OBVIOUS
<1>1. CASE UNCHANGED vars
    <2> USE <1>1 DEF vars, sending, files, flushing, gates, recorded, running
    <2>1. TypeOK'
        BY DEF IInv, TypeOK
    <2>2. OfMade' /\ MadeIsSent' /\ Named' /\ TodoIsSending' /\ DoneIsTold'
        BY DEF IInv, OfMade, MadeIsSent, Named, NamesIt, TodoIsSending, DoneIsTold, Reports
    <2>3. StoppedIsQuiet'
        BY DEF IInv, StoppedIsQuiet, Pending
    <2>4. FilesHold'
        BY DEF IInv, FilesHold, OpenHasFile, WorkDone, SpooledIsKept, Kept, Reports
    <2> QED BY <2>1, <2>2, <2>3, <2>4 DEF IInv
<1>2. CASE Execute \/ \E k \in Key : RefuseFirst(k) \/ RefuseAgain(k) \/ CloseWindow(k)
    BY <1>2, RequestSteps
<1>3. CASE \E i \in Ids : SendStep(i)
    BY <1>3, SendSteps
<1>4. CASE FlushStep
    BY <1>4, FlushSteps
<1>5. CASE Drain \/ Stop \/ Crash \/ GateFails \/ GateRecovers
    BY <1>5, ProcessSteps
<1> QED BY <1>1, <1>2, <1>3, <1>4, <1>5 DEF Next

LEMMA Inductive == Spec => []IInv
BY InitIInv, StepIInv, PTL DEF Spec

\* Every variable keeps its type, and a closed window counts nothing.
THEOREM ReportsTypeCorrect == Spec => []TypeOK
BY Inductive, PTL DEF IInv

\* A spooled report stays in a file until the gate has answered it, unless a
\* crash strands it or a rename during its append tears it off.
THEOREM SpoolKeeps == Spec => []SpooledIsKept
BY Inductive, PTL DEF IInv, FilesHold

\* A report whose append met no rename is lost by a crash alone: as long as there
\* was none, it is in a file or was answered by the gate, after a stop as well.
THEOREM OnlyACrashStrands == Spec => [](crashes = 0 => SpooledSurvivesRestart)
<1> DEFINE NoneStranded == crashes = 0 => stranded = {}
           Survives == crashes = 0 => SpooledSurvivesRestart
<1>1. Init => NoneStranded
    BY DEF Init
<1>2. IInv /\ NoneStranded /\ [Next]_vars => NoneStranded'
    <2> SUFFICES ASSUME IInv, NoneStranded, [Next]_vars PROVE NoneStranded'
        OBVIOUS
    <2>1. CASE UNCHANGED <<crashes, stranded>>
        BY <2>1
    <2>2. CASE Crash
        BY <2>2 DEF Crash, IInv, TypeOK
    <2>3. CASE Execute \/ \E k \in Key : RefuseFirst(k) \/ RefuseAgain(k) \/ CloseWindow(k)
        BY <2>1, <2>3 DEF Execute, RefuseFirst, RefuseAgain, CloseWindow, Counted, running
    <2>4. CASE \E i \in Ids : SendStep(i)
        BY <2>1, <2>4 DEF SendStep, SendAnswered, SendFails, SpoolHasRoom, SpoolFull,
               AppendOpens, AppendWrites, Moves, running
    <2>5. CASE FlushStep
        BY <2>1, <2>5 DEF FlushStep, FlushRenames, FlushReads, FlushEnds, FlushAnswered,
               FlushFails, Flushes, running
    <2>6. CASE Drain \/ Stop \/ GateFails \/ GateRecovers \/ UNCHANGED vars
        BY <2>1, <2>6 DEF Drain, Stop, GateFails, GateRecovers, vars, running
    <2> QED BY <2>2, <2>3, <2>4, <2>5, <2>6 DEF Next
<1>3. IInv /\ NoneStranded => Survives
    BY DEF IInv, FilesHold, SpooledIsKept, SpooledSurvivesRestart
<1>4. Spec => []Survives
    <2> HIDE DEF NoneStranded, Survives
    <2> QED BY <1>1, <1>2, <1>3, Inductive, PTL DEF Spec
<1> QED BY <1>4

(***************************************************************************)
(* What the reports count.                                                 *)
(***************************************************************************)

\* What a sequence of reports counts for a subject.
About(ms, s) == {i \in DOMAIN ms : ms[i].subject = s}
CountsIn(ms) == [i \in DOMAIN ms |-> ms[i].count]
Total(ms, s) == SumFunctionOnSet(CountsIn(ms), About(ms, s))

LEMMA CountOfIsTotal == \A s : CountOf(s) = Total(made, s)
BY DEF CountOf, Counts, Of, Total, CountsIn, About

LEMMA SequenceIsFinite ==
    ASSUME NEW ms \in Seq(Report)
    PROVE  /\ IsFiniteSet(DOMAIN ms)
           /\ \A i \in DOMAIN ms : /\ ms[i] \in Report
                                   /\ ms[i].subject \in Subject /\ ms[i].count \in Nat \ {0}
<1>1. DOMAIN ms = 1..Len(ms) /\ Len(ms) \in Nat
    OBVIOUS
<1>2. IsFiniteSet(1..Len(ms))
    BY <1>1, FS_Interval
<1>3. \A i \in DOMAIN ms : ms[i] \in Report
    OBVIOUS
<1> QED BY <1>1, <1>2, <1>3 DEF Report

LEMMA TotalIsNat ==
    ASSUME NEW ms \in Seq(Report), NEW s
    PROVE  Total(ms, s) \in Nat
<1>1. IsFiniteSet(About(ms, s))
    BY SequenceIsFinite, FS_Subset DEF About
<1>2. \A i \in About(ms, s) : CountsIn(ms)[i] \in Nat
    BY SequenceIsFinite DEF About, CountsIn
<1> QED BY <1>1, <1>2, SumIsNat DEF Total

LEMMA AppendFacts ==
    ASSUME NEW ms \in Seq(Report), NEW rs \in Seq(Report)
    PROVE  /\ ms \o rs \in Seq(Report)
           /\ DOMAIN (ms \o rs) = 1..(Len(ms) + Len(rs))
           /\ \A i \in DOMAIN ms : i \in DOMAIN (ms \o rs) /\ (ms \o rs)[i] = ms[i]
           /\ \A i \in DOMAIN (ms \o rs) :
                 i \notin DOMAIN ms =>
                     i - Len(ms) \in DOMAIN rs /\ (ms \o rs)[i] = rs[i - Len(ms)]
           /\ \A j \in DOMAIN rs :
                 Len(ms) + j \in DOMAIN (ms \o rs) \ DOMAIN ms /\ (ms \o rs)[Len(ms) + j] = rs[j]
OBVIOUS

\* Reports about other subjects do not change what is counted for this one;
LEMMA AppendNone ==
    ASSUME NEW ms \in Seq(Report), NEW rs \in Seq(Report), NEW s, About(rs, s) = {}
    PROVE  Total(ms \o rs, s) = Total(ms, s)
<1> DEFINE all == ms \o rs
<1>1. /\ \A i \in DOMAIN ms : i \in DOMAIN all /\ all[i] = ms[i]
      /\ \A i \in DOMAIN all :
            i \notin DOMAIN ms => i - Len(ms) \in DOMAIN rs /\ all[i] = rs[i - Len(ms)]
    BY AppendFacts
<1> HIDE DEF all
<1>2. About(all, s) = About(ms, s)
    BY <1>1 DEF About
<1>3. IsFiniteSet(About(ms, s))
    BY SequenceIsFinite, FS_Subset DEF About
<1>4. \A i \in About(ms, s) : CountsIn(all)[i] = CountsIn(ms)[i]
    BY <1>1 DEF About, CountsIn
<1>5. Total(all, s) = Total(ms, s)
    BY <1>2, <1>3, <1>4, SumSame DEF Total
<1> QED BY <1>5 DEF all

\* a single report about it adds its count.
LEMMA AppendOne ==
    ASSUME NEW ms \in Seq(Report), NEW rs \in Seq(Report), NEW s,
           NEW j \in DOMAIN rs, About(rs, s) = {j}
    PROVE  Total(ms \o rs, s) = Total(ms, s) + rs[j].count
<1> DEFINE all == ms \o rs
           e == Len(ms) + j
<1>1. /\ \A i \in DOMAIN ms : i \in DOMAIN all /\ all[i] = ms[i]
      /\ \A i \in DOMAIN all :
            i \notin DOMAIN ms => i - Len(ms) \in DOMAIN rs /\ all[i] = rs[i - Len(ms)]
      /\ e \in DOMAIN all \ DOMAIN ms /\ all[e] = rs[j]
      /\ all \in Seq(Report)
    BY AppendFacts
<1>2. \A i \in DOMAIN all : i - Len(ms) = j => i = e
    BY <1>1, AppendFacts
<1> HIDE DEF all, e
<1>3. About(all, s) = About(ms, s) \cup {e} /\ e \notin About(ms, s)
    BY <1>1, <1>2 DEF About
<1>4. IsFiniteSet(About(ms, s)) /\ IsFiniteSet(About(all, s))
    BY <1>1, SequenceIsFinite, FS_Subset DEF About
<1>5. \A i \in About(ms, s) : CountsIn(all)[i] = CountsIn(ms)[i]
    BY <1>1 DEF About, CountsIn
<1>6. \A i \in About(all, s) : CountsIn(all)[i] \in Nat
    BY <1>1, SequenceIsFinite DEF About, CountsIn
<1>7. About(all, s) \ {e} = About(ms, s) /\ e \in About(all, s)
    BY <1>3
<1>8. Total(all, s) = CountsIn(all)[e] + SumFunctionOnSet(CountsIn(all), About(ms, s))
    BY <1>4, <1>6, <1>7, SumLessOne DEF Total
<1>9. SumFunctionOnSet(CountsIn(all), About(ms, s)) = Total(ms, s)
    BY <1>4, <1>5, SumSame DEF Total
<1>10. CountsIn(all)[e] = rs[j].count
    BY <1>1 DEF CountsIn
<1>11. rs[j].count \in Nat /\ Total(ms, s) \in Nat
    BY SequenceIsFinite, TotalIsNat
<1>12. Total(all, s) = Total(ms, s) + rs[j].count
    BY <1>8, <1>9, <1>10, <1>11
<1> QED BY <1>12 DEF all

\* The windows that have something to report, one report each.
Repeated(ks) == {k \in ks : extra[k] > 0}

LEMMA WindowReportsFacts ==
    ASSUME TypeOK, NEW ks \in SUBSET Key
    PROVE  LET rs == WindowReports(ks) IN
           /\ rs \in Seq(Report)
           /\ Len(rs) = Cardinality(Repeated(ks))
           /\ \A s : s \notin Repeated(ks) => About(rs, s) = {}
           /\ \A s \in Repeated(ks) :
                 \E j \in DOMAIN rs : About(rs, s) = {j} /\ rs[j].count = extra[s]
<1> DEFINE R == Repeated(ks)
           rec(k) == [subject |-> k, count |-> extra[k]]
           f == [k \in R |-> rec(k)]
           S == {rec(k) : k \in R}
           rs == SetToSeq(S)
<1>1. IsFiniteSet(R)
    BY KeyAssumption, FS_Subset DEF Repeated
<1>2. f \in Bijection(R, S)
    <2>1. f \in [R -> S] /\ \A x \in S : \E k \in R : f[k] = x
        OBVIOUS
    <2>2. \A j, k \in R : f[j] = f[k] => j = k
        <3> SUFFICES ASSUME NEW j \in R, NEW k \in R, f[j] = f[k] PROVE j = k
            OBVIOUS
        <3>1. rec(j).subject = j /\ rec(k).subject = k
            OBVIOUS
        <3> QED BY <3>1
    <2> HIDE DEF f, S, R
    <2> QED BY <2>1, <2>2 DEF Bijection, Injection, Surjection, IsInjective
<1>3. IsFiniteSet(S) /\ Cardinality(S) = Cardinality(R)
    <2>1. ExistsBijection(R, S)
        BY <1>2 DEF ExistsBijection
    <2> HIDE DEF R, S
    <2> QED BY <1>1, <2>1, FS_Bijection
<1>4. WindowReports(ks) = rs
    BY DEF WindowReports, Repeated
<1>5. WindowReports(ks) \in Seq(Report)
    BY WindowReportsType
<1>6. /\ rs \in Seq(S) /\ Len(rs) = Cardinality(S)
      /\ \A x \in S : \E i \in DOMAIN rs : rs[i] = x
      /\ \A i, j \in DOMAIN rs : rs[i] = rs[j] => i = j
    <2> HIDE DEF S
    <2> QED BY <1>3, SetToSeqFacts
<1>7. \A i \in DOMAIN rs : \E k \in R : rs[i] = rec(k)
    <2>1. \A i \in DOMAIN rs : rs[i] \in S
        <3> HIDE DEF S
        <3> QED BY <1>6
    <2> QED BY <2>1
<1>8. \A s : s \notin R => About(rs, s) = {}
    <2> HIDE DEF rs, R
    <2> QED BY <1>7 DEF About
<1>9. ASSUME NEW s \in R
      PROVE  \E j \in DOMAIN rs : About(rs, s) = {j} /\ rs[j].count = extra[s]
    <2>1. rec(s) \in S
        OBVIOUS
    <2>2. PICK j \in DOMAIN rs : rs[j] = rec(s)
        <3> HIDE DEF S, rec, R
        <3> QED BY <1>6, <2>1
    <2> HIDE DEF rs, R
    <2>3. \A i \in DOMAIN rs : rs[i].subject = s => rs[i] = rec(s)
        BY <1>7
    <2>4. About(rs, s) = {j}
        BY <1>6, <2>2, <2>3 DEF About
    <2> QED BY <2>2, <2>4
<1> HIDE DEF rs, R
<1> QED BY <1>3, <1>4, <1>5, <1>6, <1>8, <1>9 DEF R

\* Closing windows adds what they hold, an immediate report adds one.
LEMMA WindowTotals ==
    ASSUME TypeOK, NEW ks \in SUBSET Key, NEW ms \in Seq(Report), NEW s
    PROVE  Total(ms \o WindowReports(ks), s) =
             Total(ms, s) + (IF s \in ks THEN extra[s] ELSE 0)
<1> DEFINE rs == WindowReports(ks)
<1>0. rs \in Seq(Report) /\ Total(ms, s) \in Nat
    BY WindowReportsFacts, TotalIsNat
<1>1. CASE s \in Repeated(ks)
    <2>1. PICK j \in DOMAIN rs : About(rs, s) = {j} /\ rs[j].count = extra[s]
        BY <1>1, WindowReportsFacts
    <2> HIDE DEF rs
    <2>2. Total(ms \o rs, s) = Total(ms, s) + extra[s]
        BY <1>0, <2>1, AppendOne
    <2> QED BY <1>1, <2>2 DEF rs, Repeated
<1>2. CASE s \notin Repeated(ks)
    <2>1. About(rs, s) = {}
        BY <1>2, WindowReportsFacts
    <2> HIDE DEF rs
    <2>2. Total(ms \o rs, s) = Total(ms, s)
        BY <1>0, <2>1, AppendNone
    <2>3. s \in ks => extra[s] = 0
        BY <1>2 DEF Repeated, TypeOK
    <2> QED BY <1>0, <2>2, <2>3 DEF rs
<1> QED BY <1>1, <1>2

LEMMA OneTotals ==
    ASSUME NEW ms \in Seq(Report), NEW k \in Subject, NEW s
    PROVE  /\ One(k) \in Seq(Report) /\ Len(One(k)) = 1
           /\ Total(ms \o One(k), s) = Total(ms, s) + (IF s = k THEN 1 ELSE 0)
<1>1. One(k) \in Seq(Report) /\ Len(One(k)) = 1 /\ DOMAIN One(k) = {1}
    BY OneType DEF One
<1>2. One(k)[1].subject = k /\ One(k)[1].count = 1
    BY DEF One
<1>3. CASE s = k
    <2>1. About(One(k), s) = {1}
        BY <1>1, <1>2, <1>3 DEF About
    <2>2. Total(ms \o One(k), s) = Total(ms, s) + One(k)[1].count
        BY <1>1, <2>1, AppendOne
    <2> QED BY <1>1, <1>2, <1>3, <2>2
<1>4. CASE s # k
    <2>1. About(One(k), s) = {}
        BY <1>1, <1>2, <1>4 DEF About
    <2>2. Total(ms \o One(k), s) = Total(ms, s)
        BY <1>1, <2>1, AppendNone
    <2> QED BY <1>1, <1>4, <2>2, TotalIsNat
<1> QED BY <1>3, <1>4

(***************************************************************************)
(* The counts, as an inductive invariant.                                  *)
(***************************************************************************)

\* The tally of a subject whose reports all have their ids is the sum over the
\* reports the gate knows.
BookedFor(s) == tally[s] = SumFunctionOnSet(Counts, known \cap Of(s))
Booked == \A s \in Subject : Of(s) \cap nameless = {} => BookedFor(s)
KnownIsMade == known \subseteq DOMAIN made
\* A report, or a window that will make one, stands for a request of its own.
ReportsFit == Len(made) + Cardinality(Repeated(Key)) <= Requests
RequestsFit == Requests <= MaxRequests
\* A drain closed the windows: what they hold again was counted since.
DrainCounts == process # "up" => SumFunction(extra) <= late

\* With IInv it is inductive: NamedIsBookedOnce follows from the tally and the
\* counts together, DrainLosesNothing from the drained windows and from every
\* report having an id that is sent.
CountInv == CountsAgree /\ Booked /\ KnownIsMade /\ ReportsFit /\ RequestsFit /\ DrainCounts

LEMMA SubjectIsFinite == IsFiniteSet(Subject)
BY KeyAssumption, FS_AddElement DEF Subject

LEMMA ExtraIsNat ==
    ASSUME NEW e \in [Key -> Nat]
    PROVE  SumFunction(e) = SumFunctionOnSet(e, Key) /\ SumFunction(e) \in Nat
<1>1. DOMAIN e = Key /\ \A k \in Key : e[k] \in Nat
    OBVIOUS
<1>2. SumFunctionOnSet(e, Key) \in Nat
    BY <1>1, KeyAssumption, SumIsNat
<1> QED BY <1>1, <1>2 DEF SumFunction

LEMMA RaisedSum ==
    ASSUME NEW S, IsFiniteSet(S), NEW f \in [S -> Nat], NEW s \in S
    PROVE  /\ SumFunction(f) \in Nat
           /\ SumFunction([f EXCEPT ![s] = @ + 1]) = SumFunction(f) + 1
<1> DEFINE g == [f EXCEPT ![s] = @ + 1]
           rest == S \ {s}
<1>1. g \in [S -> Nat] /\ g[s] = f[s] + 1 /\ \A x \in rest : f[x] = g[x]
    OBVIOUS
<1>2. DOMAIN f = S /\ DOMAIN g = S /\ \A x \in S : f[x] \in Nat /\ g[x] \in Nat
    BY <1>1
<1>3. IsFiniteSet(rest)
    BY FS_Subset
<1> HIDE DEF g, rest
<1>4. SumFunctionOnSet(f, rest) = SumFunctionOnSet(g, rest)
    BY <1>1, <1>3, SumSame
<1>5. SumFunctionOnSet(f, rest) \in Nat
    BY <1>2, <1>3, SumIsNat DEF rest
<1>6. /\ SumFunction(f) = f[s] + SumFunctionOnSet(f, rest)
      /\ SumFunction(g) = g[s] + SumFunctionOnSet(g, rest)
    BY <1>2, SumLessOne DEF SumFunction, rest
<1>7. SumFunction(g) = SumFunction(f) + 1 /\ SumFunction(f) \in Nat
    BY <1>1, <1>2, <1>4, <1>5, <1>6
<1> QED BY <1>7 DEF g

LEMMA RequestsIsNat == TypeOK => Requests \in Nat
<1> SUFFICES ASSUME TypeOK PROVE Requests \in Nat
    OBVIOUS
<1>1. DOMAIN seen = Subject /\ \A s \in Subject : seen[s] \in Nat
    BY DEF TypeOK
<1>2. SumFunctionOnSet(seen, Subject) \in Nat
    BY <1>1, SubjectIsFinite, SumIsNat
<1> QED BY <1>1, <1>2 DEF Requests, SumFunction

LEMMA CountedRequests ==
    ASSUME TypeOK, NEW s \in Subject, Counted(s)
    PROVE  /\ Requests \in Nat /\ Requests' = Requests + 1 /\ Requests' <= MaxRequests
           /\ \A t \in Subject : seen'[t] = seen[t] + (IF t = s THEN 1 ELSE 0)
<1>1. seen \in [Subject -> Nat] /\ seen' = [seen EXCEPT ![s] = @ + 1]
    BY DEF TypeOK, Counted
<1>2. Requests \in Nat /\ Requests' = Requests + 1
    <2> DEFINE now == [seen EXCEPT ![s] = @ + 1]
    <2>1. SumFunction(seen) \in Nat /\ SumFunction(now) = SumFunction(seen) + 1
        BY <1>1, SubjectIsFinite, RaisedSum
    <2> QED BY <1>1, <2>1 DEF Requests
<1>3. Requests' <= MaxRequests
    BY <1>2, BoundsAssumption, FailingAssumption DEF Counted
<1>4. \A t \in Subject : seen'[t] = seen[t] + (IF t = s THEN 1 ELSE 0)
    BY <1>1
<1> QED BY <1>2, <1>3, <1>4

\* Closing windows moves what they hold into reports, and loses none of it.
LEMMA Closing ==
    ASSUME TypeOK, NEW ks \in SUBSET Key, NEW e \in [Key -> Nat],
           \A k \in Key : e[k] = IF k \in ks THEN 0 ELSE extra[k]
    PROVE  LET ms == made \o WindowReports(ks) IN
           /\ ms \in Seq(Report)
           /\ Len(ms) + Cardinality({k \in Key : e[k] > 0}) = Len(made) + Cardinality(Repeated(Key))
           /\ SumFunction(e) <= SumFunction(extra)
           /\ \A s : Total(ms, s) + (IF s \in Key THEN e[s] ELSE 0) = Total(made, s) + Repeats(s)
<1> DEFINE rs == WindowReports(ks)
           ms == made \o rs
           left == {k \in Key : e[k] > 0}
<1>1. /\ made \in Seq(Report) /\ rs \in Seq(Report) /\ Len(rs) = Cardinality(Repeated(ks))
      /\ extra \in [Key -> Nat]
    BY WindowReportsFacts DEF TypeOK, Report
<1>2. ms \in Seq(Report) /\ Len(ms) = Len(made) + Len(rs) /\ Len(made) \in Nat
    <2>1. \A q, r \in Seq(Report) :
             q \o r \in Seq(Report) /\ Len(q \o r) = Len(q) + Len(r) /\ Len(q) \in Nat
        OBVIOUS
    <2> HIDE DEF rs
    <2> QED BY <1>1, <2>1
<1>3. Cardinality(left) = Cardinality(Repeated(Key)) - Cardinality(Repeated(ks))
    <2>1. left = Repeated(Key) \ Repeated(ks)
        BY <1>1 DEF Repeated
    <2>2. Repeated(Key) \cap Repeated(ks) = Repeated(ks)
        BY DEF Repeated
    <2>3. IsFiniteSet(Repeated(Key))
        BY KeyAssumption, FS_Subset DEF Repeated
    <2> QED BY <2>1, <2>2, <2>3, FS_Difference
<1>4. Cardinality(Repeated(Key)) \in Nat /\ Cardinality(Repeated(ks)) \in Nat
    BY KeyAssumption, FS_Subset, FS_CardinalityType DEF Repeated
<1>5. Len(ms) + Cardinality(left) = Len(made) + Cardinality(Repeated(Key))
    <2> HIDE DEF ms, rs, left
    <2> QED BY <1>1, <1>2, <1>3, <1>4
<1>6. SumFunction(e) <= SumFunction(extra)
    <2>1. ASSUME NEW k \in Key PROVE e[k] \in Nat /\ extra[k] \in Nat /\ e[k] <= extra[k]
        <3>1. extra[k] \in Nat
            BY <1>1
        <3>2. e[k] = 0 \/ e[k] = extra[k]
            OBVIOUS
        <3> QED BY <3>1, <3>2
    <2>2. SumFunctionOnSet(e, Key) <= SumFunctionOnSet(extra, Key)
        BY <2>1, KeyAssumption, SumGrows
    <2> QED BY <1>1, <2>2, ExtraIsNat
<1>7. ASSUME NEW s
      PROVE  Total(ms, s) + (IF s \in Key THEN e[s] ELSE 0) = Total(made, s) + Repeats(s)
    <2>1. Total(ms, s) = Total(made, s) + (IF s \in ks THEN extra[s] ELSE 0)
        <3>1. made \in Seq(Report)
            BY <1>1
        <3> QED BY <3>1, WindowTotals
    <2>2. Total(made, s) \in Nat
        BY <1>1, TotalIsNat
    <2> HIDE DEF ms
    <2> QED BY <1>1, <2>1, <2>2 DEF Repeats
<1> HIDE DEF ms, left
<1>8. QED BY <1>2, <1>5, <1>6, <1>7 DEF ms, left

(***************************************************************************)
(* What each handler does to them.                                         *)
(***************************************************************************)

LEMMA SameBooks ==
    ASSUME Booked, KnownIsMade, UNCHANGED <<made, known, tally>>, nameless \subseteq nameless'
    PROVE  Booked' /\ KnownIsMade'
BY DEF Booked, BookedFor, KnownIsMade, Counts, Of

LEMMA RecordBooks ==
    ASSUME TypeOK, Booked, KnownIsMade, UNCHANGED made, nameless \subseteq nameless',
           NEW l \in Line, l.report \in DOMAIN made, NamesIt(l), Record(l)
    PROVE  Booked' /\ KnownIsMade'
<1> DEFINE i == l.report
           r == made[i]
<1>1. CASE l.id \in known
    BY <1>1, SameBooks DEF Record
<1>2. CASE l.id \notin known
    <2>1. known' = known \cup {i} /\ tally' = [tally EXCEPT ![r.subject] = @ + r.count]
        BY <1>2 DEF Record
    <2>2. r.subject \in Subject /\ r.count \in Nat /\ IsFiniteSet(DOMAIN made)
        BY SequenceIsFinite DEF TypeOK, Report
    <2>3. KnownIsMade' /\ Counts' = Counts /\ \A s : Of(s)' = Of(s)
        BY <2>1 DEF KnownIsMade, Counts, Of
    <2>4. ASSUME NEW s \in Subject, Of(s) \cap nameless = {}
          PROVE  tally'[s] = SumFunctionOnSet(Counts, known' \cap Of(s))
        <3>1. tally[s] = SumFunctionOnSet(Counts, known \cap Of(s)) /\ tally[s] \in Nat
            BY <2>4 DEF Booked, BookedFor, TypeOK
        <3>2. CASE s = r.subject
            <4> DEFINE U == known' \cap Of(s)
            <4>7. i \in Of(s)
                BY <3>2 DEF Of
            <4>8. i \notin known
                BY <1>2, <2>4, <4>7 DEF NamesIt
            <4>1. i \in U /\ U \ {i} = known \cap Of(s)
                BY <2>1, <4>7, <4>8
            <4>2. IsFiniteSet(U) /\ \A j \in U : Counts[j] \in Nat
                <5>1. U \in SUBSET DOMAIN made
                    BY DEF Of
                <5> QED BY <2>2, <5>1, FS_Subset, SequenceIsFinite DEF Counts, TypeOK, Report
            <4>3. Counts[i] = r.count
                BY DEF Counts
            <4> HIDE DEF U, i, r
            <4>6. SumFunctionOnSet(Counts, U) = Counts[i] + SumFunctionOnSet(Counts, U \ {i})
                BY <4>1, <4>2, SumLessOne
            <4>4. SumFunctionOnSet(Counts, U) = r.count + tally[s]
                BY <3>1, <4>1, <4>3, <4>6
            <4>5. tally'[s] = tally[s] + r.count
                BY <2>1, <3>2 DEF TypeOK
            <4> QED BY <2>2, <3>1, <4>4, <4>5 DEF U
        <3>3. CASE s # r.subject
            <4>1. known' \cap Of(s) = known \cap Of(s)
                BY <2>1, <3>3 DEF Of
            <4>2. tally'[s] = tally[s]
                BY <2>1, <3>3 DEF TypeOK
            <4> QED BY <3>1, <4>1, <4>2
        <3> QED BY <3>2, <3>3
    <2>5. ASSUME NEW s \in Subject, (Of(s) \cap nameless)' = {} PROVE BookedFor(s)'
        <3>1. Of(s) \cap nameless = {}
            BY <2>3, <2>5
        <3> QED BY <2>3, <2>4, <3>1 DEF BookedFor
    <2> QED BY <2>3, <2>5 DEF Booked
<1> QED BY <1>1, <1>2

LEMMA AnswerBooks ==
    ASSUME TypeOK, Booked, KnownIsMade, UNCHANGED made, nameless \subseteq nameless',
           NEW l \in Line, l.report \in DOMAIN made, NamesIt(l),
           Answered(l) \/ Transient(l)
    PROVE  Booked' /\ KnownIsMade'
<1>1. CASE Record(l)
    BY <1>1, RecordBooks
<1>2. CASE UNCHANGED <<known, tally>>
    BY <1>2, SameBooks
<1> QED BY <1>1, <1>2 DEF Answered, Transient

LEMMA SendBooks ==
    ASSUME TypeOK, Booked, KnownIsMade, NEW reports \in Seq(Report),
           made' = made \o reports, UNCHANGED recorded
    PROVE  Booked' /\ KnownIsMade'
<1>1. made \in Seq(Report)
    BY DEF TypeOK, Report
<1>2. \A i \in DOMAIN made : i \in DOMAIN made' /\ made'[i] = made[i]
    BY <1>1, AppendFacts
<1>3. known' = known /\ tally' = tally /\ nameless' = nameless
    BY DEF recorded
<1>4. KnownIsMade'
    BY <1>2, <1>3 DEF KnownIsMade
<1>5. ASSUME NEW s \in Subject, (Of(s) \cap nameless)' = {}
      PROVE  BookedFor(s)'
    <2> DEFINE U == known \cap Of(s)
    <2>1. known' \cap Of(s)' = U
        BY <1>2, <1>3 DEF Of, KnownIsMade
    <2>2. U \in SUBSET DOMAIN made /\ \A i \in U : Counts'[i] = Counts[i]
        BY <1>2 DEF Of, Counts
    <2>3. IsFiniteSet(U)
        BY <1>1, <2>2, SequenceIsFinite, FS_Subset
    <2> HIDE DEF U
    <2>4. SumFunctionOnSet(Counts', U) = SumFunctionOnSet(Counts, U)
        BY <2>2, <2>3, SumSame
    <2>5. Of(s) \cap nameless = {}
        BY <1>2, <1>3, <1>5 DEF Of
    <2>6. tally[s] = SumFunctionOnSet(Counts, U)
        BY <2>5 DEF Booked, BookedFor, U
    <2> QED BY <1>3, <2>1, <2>4, <2>6 DEF BookedFor
<1> QED BY <1>4, <1>5 DEF Booked

LEMMA SameCounts ==
    ASSUME CountInv, UNCHANGED <<sending, forgotten>>
    PROVE  CountsAgree' /\ ReportsFit' /\ RequestsFit'
<1> USE DEF CountInv, sending
<1>1. /\ \A s : CountOf(s)' = CountOf(s) /\ Repeats(s)' = Repeats(s)
      /\ Requests' = Requests /\ Repeated(Key)' = Repeated(Key)
    BY DEF CountOf, Counts, Of, Repeats, Requests, Repeated
<1> QED BY <1>1 DEF CountsAgree, ReportsFit, RequestsFit

\* Handlers that count no request: what they do to the books is all they do.
LEMMA NoCount ==
    ASSUME CountInv, UNCHANGED <<sending, forgotten, late>>, Booked', KnownIsMade',
           process' # "up" => process # "up"
    PROVE  CountInv'
<1>1. extra' = extra
    BY DEF sending
<1>2. DrainCounts'
    BY <1>1 DEF CountInv, DrainCounts
<1> QED BY <1>2, SameCounts DEF CountInv

LEMMA SendStepCounts ==
    ASSUME IInv, CountInv, NEW i \in Ids, SendStep(i)
    PROVE  CountInv'
<1>1. /\ at[i] # "none" /\ i \in DOMAIN made /\ UNCHANGED <<sending, forgotten, late, process>>
    BY DEF IInv, SendStep, SendAnswered, SendFails, SpoolHasRoom, SpoolFull, AppendOpens,
           AppendWrites, Moves, OfMade, running
<1>2. FirstLine(i) \in Line /\ FirstLine(i).report = i /\ NamesIt(FirstLine(i))
    BY BoundsAssumption DEF FirstLine, Line, NamesIt, Ids
<1>3. CASE SendAnswered(i) \/ SendFails(i)
    <2>1. UNCHANGED made /\ nameless \subseteq nameless'
        BY <1>1, <1>3 DEF SendAnswered, SendFails, Answered, sending
    <2>2. Answered(FirstLine(i)) \/ Transient(FirstLine(i))
        BY <1>3 DEF SendAnswered, SendFails
    <2>3. Booked' /\ KnownIsMade'
        BY <1>1, <1>2, <2>1, <2>2, AnswerBooks DEF IInv, CountInv
    <2> QED BY <1>1, <2>3, NoCount
<1>4. CASE SpoolHasRoom(i) \/ SpoolFull(i) \/ AppendOpens(i) \/ AppendWrites(i)
    <2>1. UNCHANGED <<made, known, tally, nameless>>
        BY <1>1, <1>4
           DEF SpoolHasRoom, SpoolFull, AppendOpens, AppendWrites, recorded, sending
    <2> QED BY <1>1, <2>1, SameBooks, NoCount DEF CountInv
<1> QED BY <1>3, <1>4 DEF SendStep

LEMMA FlushStepCounts ==
    ASSUME IInv, CountInv, FlushStep
    PROVE  CountInv'
<1>1. UNCHANGED <<sending, forgotten, late, process>>
    BY DEF FlushStep, FlushRenames, FlushReads, FlushEnds, FlushAnswered, FlushFails, Flushes,
           running
<1>2. CASE \E l \in todo : FlushAnswered(l) \/ FlushFails(l)
    <2>1. PICK l \in todo : FlushAnswered(l) \/ FlushFails(l)
        BY <1>2
    <2>2. l \in Line /\ l.report \in DOMAIN made /\ NamesIt(l)
        BY FlushLine
    <2>4. UNCHANGED <<made, nameless>>
        BY <1>1, <2>1 DEF FlushAnswered, FlushFails, Answered, sending
    <2>3. Booked' /\ KnownIsMade'
        BY <2>1, <2>2, <2>4, AnswerBooks DEF FlushAnswered, FlushFails, IInv, CountInv
    <2> QED BY <1>1, <2>3, NoCount
<1>3. CASE FlushRenames \/ FlushReads \/ FlushEnds
    <2>1. UNCHANGED <<made, known, tally, nameless>>
        BY <1>1, <1>3 DEF FlushRenames, FlushReads, FlushEnds, recorded, sending
    <2> QED BY <1>1, <2>1, SameBooks, NoCount DEF CountInv
<1> QED BY <1>2, <1>3 DEF FlushStep

\* The counts once the windows are closed, e being what is left in them and ms
\* the reports made.
CloseSteps(e, ms) ==
    /\ ms \in Seq(Report)
    /\ Len(ms) + Cardinality({k \in Key : e[k] > 0}) <= Requests
    /\ SumFunction(e) <= SumFunction(extra) /\ SumFunction(e) \in Nat
    /\ \A s \in Subject :
          /\ Total(ms, s) \in Nat
          /\ Total(ms, s) + (IF s \in Key THEN e[s] ELSE 0) + forgotten[s] = seen[s]

LEMMA ClosingCounts ==
    ASSUME TypeOK, CountInv, NEW ks \in SUBSET Key, NEW e \in [Key -> Nat],
           \A k \in Key : e[k] = IF k \in ks THEN 0 ELSE extra[k]
    PROVE  CloseSteps(e, made \o WindowReports(ks))
<1> DEFINE ms == made \o WindowReports(ks)
<1>1. /\ ms \in Seq(Report)
      /\ Len(ms) + Cardinality({k \in Key : e[k] > 0}) = Len(made) + Cardinality(Repeated(Key))
      /\ SumFunction(e) <= SumFunction(extra) /\ SumFunction(e) \in Nat
      /\ \A s : Total(ms, s) + (IF s \in Key THEN e[s] ELSE 0) = Total(made, s) + Repeats(s)
    BY Closing, ExtraIsNat
<1>2. Len(made) + Cardinality(Repeated(Key)) <= Requests
    BY DEF CountInv, ReportsFit
<1>3. ASSUME NEW s \in Subject
      PROVE  /\ Total(ms, s) \in Nat
             /\ Total(ms, s) + (IF s \in Key THEN e[s] ELSE 0) + forgotten[s] = seen[s]
    <2>1. seen[s] = Total(made, s) + Repeats(s) + forgotten[s]
        BY CountOfIsTotal DEF CountInv, CountsAgree
    <2> HIDE DEF ms
    <2>2. Total(ms, s) \in Nat
        BY <1>1, TotalIsNat
    <2> QED BY <1>1, <2>1, <2>2
<1> HIDE DEF ms
<1> QED BY <1>1, <1>2, <1>3 DEF ms, CloseSteps

LEMMA RefuseFirstCounts ==
    ASSUME IInv, CountInv, NEW k \in Key, RefuseFirst(k)
    PROVE  CountInv'
<1>1. k \in Subject /\ Counted(k)
    BY DEF RefuseFirst, Subject
<1>2. PICK out \in Evictions(windows \ {k}) :
          /\ Send(WindowReports(out \cup (windows \cap {k})) \o One(k))
          /\ extra' = [j \in Key |-> IF j \in out \cup {k} THEN 0 ELSE extra[j]]
    BY DEF RefuseFirst
<1> DEFINE ks == out \cup (windows \cap {k})
           rs == WindowReports(ks)
           ms == made \o rs
<1>3. ks \in SUBSET Key /\ TypeOK /\ TypeOK'
    BY RequestSteps DEF Evictions, kSubset, IInv, TypeOK
<1>4. /\ extra' \in [Key -> Nat]
      /\ \A j \in Key : extra'[j] = IF j \in ks THEN 0 ELSE extra[j]
    BY <1>2, <1>3 DEF TypeOK
<1>5. /\ made \in Seq(Report) /\ rs \in Seq(Report) /\ One(k) \in Seq(Report)
      /\ made' = made \o (rs \o One(k))
    BY <1>1, <1>2, <1>3, WindowReportsFacts, OneTotals DEF TypeOK, Report, Send
<1>6. CloseSteps(extra', ms)
    <2> HIDE DEF ks
    <2> QED BY <1>3, <1>4, ClosingCounts
<1>7. made' = ms \o One(k) /\ ms \in Seq(Report) /\ rs \o One(k) \in Seq(Report)
    <2>1. \A p, q, r \in Seq(Report) : p \o (q \o r) = (p \o q) \o r /\ q \o r \in Seq(Report)
        OBVIOUS
    <2> HIDE DEF rs
    <2> QED BY <1>5, <2>1
<1> HIDE DEF ks, rs, ms
<1>8. \A s \in Subject : Total(made', s) = Total(ms, s) + (IF s = k THEN 1 ELSE 0)
    BY <1>1, <1>7, OneTotals
<1>9. Len(made') = Len(ms) + 1 /\ Len(ms) \in Nat
    <2>1. \A p, q \in Seq(Report) : Len(p \o q) = Len(p) + Len(q) /\ Len(p) \in Nat
        OBVIOUS
    <2>2. Len(One(k)) = 1
        BY DEF One
    <2> QED BY <1>5, <1>7, <2>1, <2>2
<1>10. /\ Requests \in Nat /\ Requests' = Requests + 1 /\ Requests' <= MaxRequests
       /\ \A s \in Subject : seen'[s] = seen[s] + (IF s = k THEN 1 ELSE 0)
    BY <1>1, <1>3, CountedRequests
<1>11. CountsAgree'
    <2> SUFFICES ASSUME NEW s \in Subject
                 PROVE  seen'[s] = Total(made', s) + Repeats(s)' + forgotten'[s]
        BY CountOfIsTotal DEF CountsAgree, CountOf, Counts, Of, Total, CountsIn, About
    <2>1. Repeats(s)' = (IF s \in Key THEN extra'[s] ELSE 0) /\ forgotten'[s] = forgotten[s]
        BY <1>1 DEF Repeats, Counted
    <2>2. Total(ms, s) \in Nat /\ forgotten[s] \in Nat /\ Repeats(s)' \in Nat
        <3>1. Total(ms, s) \in Nat
            BY <1>6 DEF CloseSteps
        <3>2. Repeats(s)' \in Nat
            BY <1>4, <2>1
        <3>3. forgotten[s] \in Nat
            BY <1>3 DEF TypeOK
        <3> QED BY <3>1, <3>2, <3>3
    <2>3. Total(ms, s) + Repeats(s)' + forgotten[s] = seen[s]
        BY <1>6, <2>1 DEF CloseSteps
    <2> QED BY <1>8, <1>10, <2>1, <2>2, <2>3
<1>12. Booked' /\ KnownIsMade'
    BY <1>1, <1>3, <1>5, <1>7, SendBooks DEF CountInv, Counted
<1>13. ReportsFit' /\ RequestsFit'
    <2>1. Repeated(Key)' = {j \in Key : extra'[j] > 0}
        BY DEF Repeated
    <2>2. IsFiniteSet({j \in Key : extra'[j] > 0})
        BY KeyAssumption, FS_Subset
    <2>3. Cardinality({j \in Key : extra'[j] > 0}) \in Nat
        BY <2>2, FS_CardinalityType
    <2> QED BY <1>6, <1>9, <1>10, <2>1, <2>3 DEF CloseSteps, ReportsFit, RequestsFit
<1>14. DrainCounts'
    <2>1. SumFunction(extra') \in Nat /\ SumFunction(extra) \in Nat
        BY <1>3, <1>4, ExtraIsNat DEF TypeOK
    <2> QED BY <1>1, <1>3, <1>6, <2>1
            DEF CloseSteps, CountInv, DrainCounts, Counted, TypeOK
<1> QED BY <1>11, <1>12, <1>13, <1>14 DEF CountInv

LEMMA CloseKeepsCounts ==
    ASSUME IInv, CountInv, NEW ks \in SUBSET Key, Send(WindowReports(ks)),
           extra' \in [Key -> Nat],
           \A j \in Key : extra'[j] = IF j \in ks THEN 0 ELSE extra[j],
           UNCHANGED <<seen, recorded, forgotten, late>>,
           process' # "up" => process # "up" \/ SumFunction(extra') = 0
    PROVE  CountInv'
<1> DEFINE ms == made \o WindowReports(ks)
<1>1. CloseSteps(extra', ms) /\ made' = ms
    BY ClosingCounts DEF IInv, Send
<1>2. WindowReports(ks) \in Seq(Report)
    BY WindowReportsType DEF IInv
<1>3. Booked' /\ KnownIsMade'
    BY <1>1, <1>2, SendBooks DEF CountInv, IInv
<1> HIDE DEF ms
<1>4. CountsAgree'
    <2> SUFFICES ASSUME NEW s \in Subject
                 PROVE  seen[s] = Total(made', s) + Repeats(s)' + forgotten[s]
        BY CountOfIsTotal DEF CountsAgree, CountOf, Counts, Of, Total, CountsIn, About
    <2> QED BY <1>1 DEF CloseSteps, Repeats
<1>5. ReportsFit' /\ RequestsFit'
    <2>1. Repeated(Key)' = {j \in Key : extra'[j] > 0} /\ Requests' = Requests
        BY DEF Repeated, Requests
    <2> QED BY <1>1, <2>1 DEF CloseSteps, ReportsFit, RequestsFit, CountInv
<1>6. DrainCounts'
    <2>1. SumFunction(extra') \in Nat /\ SumFunction(extra) \in Nat /\ late \in Nat
        BY ExtraIsNat DEF IInv, TypeOK
    <2> QED BY <1>1, <2>1 DEF CloseSteps, CountInv, DrainCounts
<1> QED BY <1>3, <1>4, <1>5, <1>6 DEF CountInv

LEMMA RefuseAgainCounts ==
    ASSUME IInv, CountInv, NEW k \in Key, RefuseAgain(k)
    PROVE  CountInv'
<1>1. k \in Subject /\ Counted(k) /\ TypeOK
    BY DEF RefuseAgain, Subject, IInv
<1>2. extra \in [Key -> Nat] /\ extra' = [extra EXCEPT ![k] = @ + 1] /\ UNCHANGED made
    BY <1>1 DEF RefuseAgain, TypeOK
<1>3. /\ Requests \in Nat /\ Requests' = Requests + 1 /\ Requests' <= MaxRequests
      /\ \A s \in Subject : seen'[s] = seen[s] + (IF s = k THEN 1 ELSE 0)
    BY <1>1, CountedRequests
<1>4. CountsAgree'
    <2> SUFFICES ASSUME NEW s \in Subject
                 PROVE  seen'[s] = CountOf(s) + Repeats(s)' + forgotten'[s]
        BY <1>2 DEF CountsAgree, CountOf, Counts, Of
    <2>1. Repeats(s)' = Repeats(s) + (IF s = k THEN 1 ELSE 0) /\ Repeats(s) \in Nat
        BY <1>2 DEF Repeats
    <2>2. seen[s] = CountOf(s) + Repeats(s) + forgotten[s] /\ forgotten' = forgotten
        BY <1>1 DEF CountInv, CountsAgree, Counted
    <2>3. CountOf(s) \in Nat /\ forgotten[s] \in Nat
        BY <1>1, CountOfIsTotal, TotalIsNat DEF TypeOK, Report
    <2> QED BY <1>3, <2>1, <2>2, <2>3
<1>5. Booked' /\ KnownIsMade'
    BY <1>1, <1>2, SameBooks DEF CountInv, Counted, recorded
<1>6. ReportsFit' /\ RequestsFit'
    <2>1. Repeated(Key)' = Repeated(Key) \cup {k}
        BY <1>2 DEF Repeated
    <2>2. IsFiniteSet(Repeated(Key))
        BY KeyAssumption, FS_Subset DEF Repeated
    <2>5. Cardinality(Repeated(Key)) \in Nat
        BY <2>2, FS_CardinalityType
    <2>6. Cardinality(Repeated(Key) \cup {k}) =
            IF k \in Repeated(Key) THEN Cardinality(Repeated(Key))
            ELSE Cardinality(Repeated(Key)) + 1
        BY <2>2, FS_AddElement
    <2>3. /\ Cardinality(Repeated(Key) \cup {k}) <= Cardinality(Repeated(Key)) + 1
          /\ Cardinality(Repeated(Key)) \in Nat
          /\ Cardinality(Repeated(Key) \cup {k}) \in Nat
        BY <2>5, <2>6
    <2>4. Len(made') = Len(made) /\ Len(made) \in Nat
        BY <1>1, <1>2 DEF TypeOK
    <2> QED BY <1>3, <2>1, <2>3, <2>4 DEF CountInv, ReportsFit, RequestsFit
<1>7. DrainCounts'
    <2> DEFINE more == [extra EXCEPT ![k] = @ + 1]
    <2>1. SumFunction(extra) \in Nat /\ SumFunction(more) = SumFunction(extra) + 1
        BY <1>2, KeyAssumption, RaisedSum
    <2>2. SumFunction(extra') = SumFunction(extra) + 1
        BY <1>2, <2>1
    <2> QED BY <1>1, <2>1, <2>2 DEF CountInv, DrainCounts, Counted, TypeOK
<1> QED BY <1>4, <1>5, <1>6, <1>7 DEF CountInv

LEMMA ExecuteCounts ==
    ASSUME IInv, CountInv, Execute
    PROVE  CountInv'
<1>1. "executed" \in Subject /\ Counted("executed") /\ TypeOK
    BY DEF Execute, Subject, IInv
<1>2. /\ made \in Seq(Report) /\ One("executed") \in Seq(Report) /\ UNCHANGED extra
      /\ made' = made \o One("executed")
    BY <1>1, OneTotals DEF TypeOK, Report, Execute, Send
<1>3. /\ Requests \in Nat /\ Requests' = Requests + 1 /\ Requests' <= MaxRequests
      /\ \A s \in Subject : seen'[s] = seen[s] + (IF s = "executed" THEN 1 ELSE 0)
    BY <1>1, CountedRequests
<1>4. CountsAgree'
    <2> SUFFICES ASSUME NEW s \in Subject
                 PROVE  seen'[s] = Total(made', s) + Repeats(s)' + forgotten'[s]
        BY CountOfIsTotal DEF CountsAgree, CountOf, Counts, Of, Total, CountsIn, About
    <2>1. Total(made', s) = Total(made, s) + (IF s = "executed" THEN 1 ELSE 0)
        BY <1>1, <1>2, OneTotals
    <2>2. Repeats(s)' = Repeats(s) /\ Repeats(s) \in Nat
        BY <1>1, <1>2 DEF Repeats, TypeOK
    <2>3. seen[s] = Total(made, s) + Repeats(s) + forgotten[s] /\ forgotten' = forgotten
        BY <1>1, CountOfIsTotal DEF CountInv, CountsAgree, Counted
    <2>4. Total(made, s) \in Nat /\ forgotten[s] \in Nat
        BY <1>1, <1>2, TotalIsNat DEF TypeOK
    <2> QED BY <1>3, <2>1, <2>2, <2>3, <2>4
<1>5. Booked' /\ KnownIsMade'
    BY <1>1, <1>2, SendBooks DEF CountInv, Counted
<1>6. ReportsFit' /\ RequestsFit'
    <2>1. Repeated(Key)' = Repeated(Key)
        BY <1>2 DEF Repeated
    <2>2. Cardinality(Repeated(Key)) \in Nat
        BY KeyAssumption, FS_Subset, FS_CardinalityType DEF Repeated
    <2>3. Len(made') = Len(made) + 1 /\ Len(made) \in Nat
        <3>1. \A p, q \in Seq(Report) : Len(p \o q) = Len(p) + Len(q) /\ Len(p) \in Nat
            OBVIOUS
        <3>2. Len(One("executed")) = 1
            BY DEF One
        <3> QED BY <1>2, <3>1, <3>2
    <2> QED BY <1>3, <2>1, <2>2, <2>3 DEF CountInv, ReportsFit, RequestsFit
<1>7. DrainCounts'
    <2>1. SumFunction(extra) \in Nat /\ SumFunction(extra') = SumFunction(extra)
        BY <1>1, <1>2, ExtraIsNat DEF TypeOK
    <2> QED BY <1>1, <2>1 DEF CountInv, DrainCounts, Counted, TypeOK
<1> QED BY <1>4, <1>5, <1>6, <1>7 DEF CountInv

LEMMA InitCounts == Init => CountInv
<1> SUFFICES ASSUME Init PROVE CountInv
    OBVIOUS
<1>1. made = <<>> /\ DOMAIN made = {} /\ Len(made) = 0 /\ known = {}
    BY DEF Init
<1>2. \A s : Of(s) = {}
    BY <1>1 DEF Of
<1>3. CountsAgree /\ Booked /\ KnownIsMade
    <2>1. \A s : CountOf(s) = 0 /\ SumFunctionOnSet(Counts, known \cap Of(s)) = 0
        BY <1>1, <1>2, SumOfNone DEF CountOf
    <2>2. /\ \A s \in Subject : seen[s] = 0 /\ tally[s] = 0 /\ forgotten[s] = 0
          /\ \A s \in Subject : Repeats(s) = 0
        BY DEF Init, Repeats
    <2> QED BY <1>1, <2>1, <2>2 DEF CountsAgree, Booked, BookedFor, KnownIsMade
<1>4. Requests = 0
    <2>1. DOMAIN seen = Subject /\ \A s \in Subject : seen[s] = 0
        BY DEF Init
    <2> QED BY <2>1, SubjectIsFinite, SumOfZeros DEF Requests, SumFunction
<1>5. ReportsFit /\ RequestsFit
    <2>1. Repeated(Key) = {}
        BY DEF Init, Repeated
    <2> QED BY <1>1, <1>4, <2>1, FS_EmptySet, BoundsAssumption DEF ReportsFit, RequestsFit
<1>6. DrainCounts
    BY DEF Init, DrainCounts
<1> QED BY <1>3, <1>5, <1>6 DEF CountInv

LEMMA RequestStepCounts ==
    ASSUME IInv, CountInv,
           Execute \/ \E k \in Key : RefuseFirst(k) \/ RefuseAgain(k) \/ CloseWindow(k)
    PROVE  CountInv'
<1>1. ASSUME NEW k \in Key, CloseWindow(k) PROVE CountInv'
    <2>1. Send(WindowReports({k})) /\ {k} \in SUBSET Key
        BY <1>1 DEF CloseWindow
    <2>2. /\ extra' \in [Key -> Nat]
          /\ \A j \in Key : extra'[j] = IF j \in {k} THEN 0 ELSE extra[j]
        BY <1>1 DEF CloseWindow, IInv, TypeOK
    <2>3. UNCHANGED <<seen, recorded, forgotten, late, process>>
        BY <1>1 DEF CloseWindow, running
    <2> QED BY <2>1, <2>2, <2>3, CloseKeepsCounts
<1> QED BY <1>1, RefuseFirstCounts, RefuseAgainCounts, ExecuteCounts

LEMMA ProcessStepCounts ==
    ASSUME IInv, CountInv, Drain \/ Stop \/ Crash \/ GateFails \/ GateRecovers
    PROVE  CountInv'
<1>1. CASE Drain
    <2>1. Send(WindowReports(windows)) /\ windows \in SUBSET Key
        BY <1>1 DEF Drain, IInv, TypeOK
    <2>2. /\ extra' \in [Key -> Nat] /\ \A j \in Key : extra'[j] = 0
          /\ \A j \in Key : extra'[j] = IF j \in windows THEN 0 ELSE extra[j]
        BY <1>1 DEF Drain, IInv, TypeOK
    <2>3. SumFunction(extra') = 0
        BY <2>2, KeyAssumption, SumOfZeros, ExtraIsNat
    <2>4. UNCHANGED <<seen, recorded, forgotten, late>>
        BY <1>1 DEF Drain
    <2> QED BY <2>1, <2>2, <2>3, <2>4, CloseKeepsCounts
<1>2. CASE Crash
    <2>1. /\ UNCHANGED <<seen, made, known, tally, nameless>>
          /\ \A s \in Subject : forgotten'[s] = forgotten[s] + Repeats(s)
          /\ extra' = [k \in Key |-> 0] /\ process' = "up"
        BY <1>2 DEF Crash, recorded
    <2>2. CountsAgree'
        <3> SUFFICES ASSUME NEW s \in Subject
                     PROVE  seen[s] = CountOf(s) + Repeats(s)' + forgotten'[s]
            BY <2>1 DEF CountsAgree, CountOf, Counts, Of
        <3>1. Repeats(s)' = 0 /\ Repeats(s) \in Nat /\ forgotten[s] \in Nat
            BY <2>1 DEF Repeats, IInv, TypeOK
        <3>2. CountOf(s) \in Nat
            BY CountOfIsTotal, TotalIsNat DEF IInv, TypeOK, Report
        <3>3. seen[s] = CountOf(s) + Repeats(s) + forgotten[s]
            BY DEF CountInv, CountsAgree
        <3> QED BY <2>1, <3>1, <3>2, <3>3
    <2>3. Booked' /\ KnownIsMade'
        BY <2>1, SameBooks DEF CountInv
    <2>4. ReportsFit' /\ RequestsFit'
        <3>1. Repeated(Key)' = {} /\ Requests' = Requests
            BY <2>1 DEF Repeated, Requests
        <3>2. Cardinality(Repeated(Key)) \in Nat
            BY KeyAssumption, FS_Subset, FS_CardinalityType DEF Repeated
        <3>3. Len(made) \in Nat /\ Requests \in Nat
            BY RequestsIsNat DEF IInv, TypeOK
        <3>4. Len(made) + Cardinality(Repeated(Key)) <= Requests /\ Requests <= MaxRequests
            BY DEF CountInv, ReportsFit, RequestsFit
        <3> QED BY <2>1, <3>1, <3>2, <3>3, <3>4, FS_EmptySet DEF ReportsFit, RequestsFit
    <2>5. DrainCounts'
        BY <2>1 DEF DrainCounts
    <2> QED BY <2>2, <2>3, <2>4, <2>5 DEF CountInv
<1>3. CASE Stop \/ GateFails \/ GateRecovers
    <2>1. /\ UNCHANGED <<sending, forgotten, late, known, tally, nameless>>
          /\ process' # "up" => process # "up"
        BY <1>3 DEF Stop, GateFails, GateRecovers, recorded, running
    <2>2. Booked' /\ KnownIsMade'
        BY <2>1, SameBooks DEF CountInv, sending
    <2> QED BY <2>1, <2>2, NoCount
<1> QED BY <1>1, <1>2, <1>3

LEMMA StepCounts == IInv /\ CountInv /\ [Next]_vars => CountInv'
<1> SUFFICES ASSUME IInv, CountInv, [Next]_vars PROVE CountInv'
    OBVIOUS
<1>1. CASE UNCHANGED vars
    <2>1. UNCHANGED <<sending, forgotten, late, known, tally, nameless, process>>
        BY <1>1 DEF vars, recorded, running
    <2>2. Booked' /\ KnownIsMade'
        BY <2>1, SameBooks DEF CountInv, sending
    <2> QED BY <2>1, <2>2, NoCount
<1>2. CASE Execute \/ \E k \in Key : RefuseFirst(k) \/ RefuseAgain(k) \/ CloseWindow(k)
    BY <1>2, RequestStepCounts
<1>3. CASE \E i \in Ids : SendStep(i)
    BY <1>3, SendStepCounts
<1>4. CASE FlushStep
    BY <1>4, FlushStepCounts
<1>5. CASE Drain \/ Stop \/ Crash \/ GateFails \/ GateRecovers
    BY <1>5, ProcessStepCounts
<1> QED BY <1>1, <1>2, <1>3, <1>4, <1>5 DEF Next

LEMMA Counting == Spec => [](IInv /\ CountInv)
<1>1. IInv /\ CountInv /\ [Next]_vars => (IInv /\ CountInv)'
    BY StepIInv, StepCounts
<1> QED BY InitIInv, InitCounts, <1>1, PTL DEF Spec

\* What the reports and the open windows hold is every refusal and every
\* execution, whatever was evicted, drained, or forgotten in a crash.
THEOREM EveryRequestIsCounted == Spec => []CountsAgree
BY Counting, PTL DEF CountInv

\* A report sent again, by this process or a later one, is not booked again, but
\* for the subjects with a report that was spooled without its reportId.
THEOREM NothingIsBookedTwice == Spec => []NamedIsBookedOnce
<1>1. IInv /\ CountInv => NamedIsBookedOnce
    <2> SUFFICES ASSUME IInv, CountInv, NEW s \in Subject, Of(s) \cap nameless = {}
                 PROVE  tally[s] <= seen[s]
        BY DEF NamedIsBookedOnce
    <2>1. IsFiniteSet(Of(s)) /\ \A i \in Of(s) : Counts[i] \in Nat
        BY SequenceIsFinite, FS_Subset DEF Of, Counts, IInv, TypeOK, Report
    <2>2. SumFunctionOnSet(Counts, known \cap Of(s)) <= SumFunctionOnSet(Counts, Of(s))
        BY <2>1, SumOfSubset
    <2>3. tally[s] <= CountOf(s)
        BY <2>2 DEF CountInv, Booked, BookedFor, CountOf
    <2>4. seen[s] = CountOf(s) + Repeats(s) + forgotten[s]
        BY DEF CountInv, CountsAgree
    <2>5. CountOf(s) \in Nat /\ Repeats(s) \in Nat /\ forgotten[s] \in Nat /\ tally[s] \in Nat
        BY CountOfIsTotal, TotalIsNat DEF Repeats, IInv, TypeOK, Report
    <2> QED BY <2>3, <2>4, <2>5
<1> QED BY <1>1, Counting, PTL

\* A process that stopped after its drain has no report in memory: each it made
\* is at the gate, in the spool, dropped at the cap, or lost to a crash or a rename.
StoppedTellsAll ==
    process = "stopped" =>
        \A i \in Ids \cap DOMAIN made :
            \/ i \in Reports(spool) \cup known \cup refused \cup dropped
            \/ at[i] = "killed" \/ i \in stranded \cup torn

LEMMA StoppedTells == IInv => StoppedTellsAll
<1> SUFFICES ASSUME IInv, process = "stopped",
                    NEW i \in Ids, i \in DOMAIN made
             PROVE  \/ i \in Reports(spool) \cup known \cup refused \cup dropped
                    \/ at[i] = "killed" \/ i \in stranded \cup torn
    BY DEF StoppedTellsAll
<1>1. at[i] \in {"done", "spooled", "killed"} /\ flusher = "idle"
    BY DEF IInv, StoppedIsQuiet, Pending, MadeIsSent, TypeOK
<1>2. Reports(spool \cup work) = Reports(spool) \cup Reports(work)
    BY DEF Reports
<1> QED BY <1>1, <1>2
        DEF IInv, DoneIsTold, FilesHold, SpooledIsKept, Kept, WorkDone

\* Every report made was sent in the background.
LEMMA MadeAreSent == IInv /\ CountInv => DOMAIN made \subseteq Ids
<1> SUFFICES ASSUME IInv, CountInv PROVE DOMAIN made \subseteq Ids
    OBVIOUS
<1>1. DOMAIN made = 1..Len(made) /\ Len(made) \in Nat
    BY DEF IInv, TypeOK
<1>2. Cardinality(Repeated(Key)) \in Nat
    BY KeyAssumption, FS_Subset, FS_CardinalityType DEF Repeated
<1>3. Len(made) <= MaxRequests
    BY <1>1, <1>2, BoundsAssumption, RequestsIsNat DEF IInv, CountInv, ReportsFit, RequestsFit
<1> QED BY <1>1, <1>3, BoundsAssumption DEF Ids

\* A drain that resolved 0 leaves no report in memory and no count made before
\* it began.
THEOREM DrainLeavesNothing == Spec => []DrainLosesNothing
<1>1. IInv /\ CountInv => DrainLosesNothing
    BY MadeAreSent, StoppedTells DEF CountInv, DrainCounts, DrainLosesNothing, StoppedTellsAll
<1> QED BY <1>1, Counting, PTL
=============================================================================
