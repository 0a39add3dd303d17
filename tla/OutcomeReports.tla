--------------------------- MODULE OutcomeReports ---------------------------
(***************************************************************************)
(* How the gateway tells the owner's gate what it did with the requests it *)
(* governs (agentsafe-http-gateway/gateway.mjs): refusals are aggregated   *)
(* in windows, reports are sent in the background, the ones the gate could *)
(* not take wait in the spool file, and a flush re-sends that file.  The   *)
(* handlers run in one process but yield at every await, so the requests,  *)
(* the reports in flight and the flush interleave; the two files are all   *)
(* that survives a crash.                                                  *)
(***************************************************************************)
EXTENDS Naturals, FiniteSets, SequencesExt

CONSTANTS
    Key,         \* caller and reason code of a refusal
    MaxRequests, \* bound: requests to report on
    MaxFailing,  \* bound: requests to report on, where the gate fails
    MaxCrashes,  \* bound: crashes, each followed by a restart
    MaxOutages,  \* bound: times the gate or the signer goes away
    SpoolCap,    \* SPOOL_CAP
    MaxWindows,  \* refusalWindows' limit (5000)
    Evicted,     \* windows closed when it is reached (500)
    MaxBooked    \* bound: occurrences on which an unnamed report may land unanswered

ASSUME BoundsAssumption == {MaxRequests, MaxFailing, MaxCrashes, MaxOutages, SpoolCap,
                           MaxBooked} \subseteq Nat
ASSUME FailingAssumption == MaxFailing <= MaxRequests
ASSUME KeyAssumption == IsFiniteSet(Key)
ASSUME WindowsAssumption == Evicted \in 1..MaxWindows

VARIABLES
    seen,    \* requests to report on so far, per subject
    windows, \* refusalWindows
    extra,   \* repeats counted in each window
    made,    \* the reports made, in order; an index is a report's reportId
    at,      \* where the background sendReport of each report stands
    handle,  \* the file an append has open: spool, work or a replaced one
    spool,   \* lines of reportSpool
    work,    \* lines of reportSpool.flushing
    todo,    \* lines flushSpool has read and not yet sent
    flusher, \* where flushSpool stands
    gate,    \* can a report be sent: yes, the gate is away, or the signer is
    outages,
    nameless, \* reports whose first sending ended before it had a reportId
    known,   \* reportIds the gate has recorded
    tally,   \* occurrences the gate has recorded, per subject
    refused, \* reports the gate refused for good
    dropped, \* reports dropped at the cap
    process, \* the gateway process
    late,    \* requests counted after the drain began
    crashes,
    forgotten, \* repeats counted by a process that crashed, per subject
    stranded,  \* reports a crash left in the work file
    torn       \* reports appended to a work file already read or replaced

sending == <<seen, windows, extra, made>>
files == <<handle, spool, work, torn>>
flushing == <<todo, flusher>>
recorded == <<known, tally, refused, nameless>>
gates == <<gate, outages>>
running == <<process, late, crashes, forgotten, stranded>>
vars == <<sending, at, files, flushing, gates, recorded, dropped, running>>

Subject == Key \cup {"executed"}
Ids == 1..MaxRequests
Active == {"sending", "checking", "appending", "open"}
Line == [report : Ids, id : Ids \cup {0}]

\* Mutant: the spooled parameters carry no reportId.
SpoolLineUnnamed(i) == [report |-> i, id |-> 0]

\* The line of a report carries the reportId its first sending came back with:
\* none, and so a new one for each re-send, when that sending was never signed.
SpoolLine(i) == [report |-> i, id |-> IF i \in nameless THEN 0 ELSE i]

Reports(lines) == {l.report : l \in lines}
Of(s) == {i \in DOMAIN made : made[i].subject = s}
Counts == [i \in DOMAIN made |-> made[i].count]
CountOf(s) == SumFunctionOnSet(Counts, Of(s))
Repeats(s) == IF s \in Key THEN extra[s] ELSE 0
Requests == SumFunction(seen)

\* Types of the state, that a closed window counts nothing, and that a flush
\* has only lines of its work file left to send (queueReport, flushSpool).
TypeOK ==
    /\ seen \in [Subject -> Nat]
    /\ windows \subseteq Key
    /\ extra \in [Key -> Nat]
    /\ \A k \in Key \ windows : extra[k] = 0
    /\ made \in Seq([subject : Subject, count : Nat \ {0}])
    /\ at \in [Ids -> {"none", "done", "spooled", "killed"} \cup Active]
    /\ handle \in [Ids -> {"none", "spool", "work", "gone"}]
    /\ spool \cup work \subseteq Line
    /\ todo \subseteq work
    /\ flusher \in {"idle", "renamed", "sending"}
    /\ gate \in {"up", "down", "unsigned"}
    /\ outages \in 0..MaxOutages
    /\ nameless \subseteq Ids
    /\ known \subseteq Ids
    /\ tally \in [Subject -> Nat]
    /\ refused \cup dropped \subseteq Ids
    /\ process \in {"up", "draining", "stopped"}
    /\ late \in Nat
    /\ crashes \in 0..MaxCrashes
    /\ forgotten \in [Subject -> Nat]
    /\ stranded \cup torn \subseteq Ids

Init ==
    /\ seen = [s \in Subject |-> 0]
    /\ windows = {}
    /\ extra = [k \in Key |-> 0]
    /\ made = <<>>
    /\ at = [i \in Ids |-> "none"]
    /\ handle = [i \in Ids |-> "none"]
    /\ spool = {} /\ work = {} /\ todo = {}
    /\ flusher = "idle"
    /\ gate = "up" /\ outages = 0
    /\ known = {} /\ refused = {} /\ dropped = {} /\ nameless = {}
    /\ tally = [s \in Subject |-> 0]
    /\ process = "up"
    /\ late = 0 /\ crashes = 0
    /\ forgotten = [s \in Subject |-> 0]
    /\ stranded = {} /\ torn = {}

(***************************************************************************)
(* queueReport and closeWindow.                                            *)
(***************************************************************************)
\* A request in flight may still finish while the process drains.
Counted(s) ==
    /\ process # "stopped"
    /\ Requests < IF outages = 0 THEN MaxRequests ELSE MaxFailing
    /\ seen' = [seen EXCEPT ![s] = @ + 1]
    /\ late' = IF process = "draining" THEN late + 1 ELSE late
    /\ UNCHANGED <<process, crashes, forgotten, stranded>>
    /\ UNCHANGED <<files, flushing, gates, recorded, dropped>>

\* Mutant: a window closed after a single repeat reports nothing.
WindowReportsOffByOne(ks) ==
    SetToSeq({[subject |-> k, count |-> extra[k]] : k \in {j \in ks : extra[j] > 1}})

\* The aggregates of the windows that close; a window without repeats has none.
WindowReports(ks) ==
    SetToSeq({[subject |-> k, count |-> extra[k]] : k \in {j \in ks : extra[j] > 0}})

\* Each new report is sent in the background.
Send(reports) ==
    /\ made' = made \o reports
    /\ at' = [i \in Ids |-> IF i \in DOMAIN made' \ DOMAIN made THEN "sending" ELSE at[i]]

One(s) == <<[subject |-> s, count |-> 1]>>

\* The windows that may have to make room for one more.
Evictions(ws) ==
    IF Cardinality(ws) >= MaxWindows THEN kSubset(Evicted, ws) ELSE {{}}

\* The first refusal, or the first after its window ended, is reported at once.
RefuseFirst(k) ==
    \E out \in Evictions(windows \ {k}) :
        /\ Counted(k)
        /\ Send(WindowReports(out \cup (windows \cap {k})) \o One(k))
        /\ windows' = (windows \ out) \cup {k}
        /\ extra' = [j \in Key |-> IF j \in out \cup {k} THEN 0 ELSE extra[j]]

RefuseAgain(k) ==
    /\ k \in windows
    /\ Counted(k)
    /\ extra' = [extra EXCEPT ![k] = @ + 1]
    /\ UNCHANGED <<windows, made, at>>

\* An execution is never coalesced (and not reported when it was claimed).
Execute ==
    /\ Counted("executed")
    /\ Send(One("executed"))
    /\ UNCHANGED <<windows, extra>>

CloseWindow(k) ==
    /\ process # "stopped"
    /\ k \in windows
    /\ Send(WindowReports({k}))
    /\ windows' = windows \ {k}
    /\ extra' = [extra EXCEPT ![k] = 0]
    /\ UNCHANGED <<seen, files, flushing, gates, recorded, dropped, running>>

(***************************************************************************)
(* The gate, and what its answer means.  A report is sent with the reportId *)
(* of its line, or with a new one when the line has none (reportOutcome).   *)
(***************************************************************************)
\* The gate records a report once by its reportId; a new id is a new report.
Record(l) ==
    LET r == made[l.report] IN
    IF l.id \in known THEN UNCHANGED <<known, tally>>
    ELSE /\ known' = known \cup {l.report}
         /\ tally' = [tally EXCEPT ![r.subject] = @ + r.count]

\* RECORDED or ALREADY_RECORDED, or a refusal that is not retried.
Answered(l) ==
    /\ gate = "up"
    /\ \/ Record(l) /\ UNCHANGED refused
       \/ refused' = refused \cup {l.report} /\ UNCHANGED <<known, tally>>
    /\ UNCHANGED nameless

\* Unreachable or overloaded, and the report may have landed all the same; or
\* the signer is away, and nothing was sent.
Transient(l) ==
    /\ gate # "up"
    /\ \/ /\ gate = "down"
          /\ l.id = 0 => tally[made[l.report].subject] < MaxBooked
          /\ Record(l)
       \/ UNCHANGED <<known, tally>>
    /\ UNCHANGED refused

(***************************************************************************)
(* sendReport and spoolReport.                                             *)
(***************************************************************************)
Moves(i, from, to) ==
    /\ process # "stopped"
    /\ at[i] = from
    /\ at' = [at EXCEPT ![i] = to]
    /\ UNCHANGED <<sending, flushing, gates, running>>

\* What the first sending presents: a reportId made for it.
FirstLine(i) == [report |-> i, id |-> i]

SendAnswered(i) ==
    /\ Moves(i, "sending", "done")
    /\ Answered(FirstLine(i))
    /\ UNCHANGED <<files, dropped>>

SendFails(i) ==
    /\ Moves(i, "sending", "checking")
    /\ Transient(FirstLine(i))
    /\ nameless' = IF gate = "unsigned" THEN nameless \cup {i} ELSE nameless
    /\ UNCHANGED <<files, dropped>>

\* The lines are counted, and the append follows the await.
SpoolHasRoom(i) ==
    /\ Cardinality(spool) < SpoolCap
    /\ Moves(i, "checking", "appending")
    /\ UNCHANGED <<files, recorded, dropped>>

SpoolFull(i) ==
    /\ Cardinality(spool) >= SpoolCap
    /\ Moves(i, "checking", "done")
    /\ dropped' = dropped \cup {i}
    /\ UNCHANGED <<files, recorded>>

AppendOpens(i) ==
    /\ Moves(i, "appending", "open")
    /\ handle' = [handle EXCEPT ![i] = "spool"]
    /\ UNCHANGED <<spool, work, torn, recorded, dropped>>

\* The bytes go to the file that was opened, whatever it is called by now.
AppendWrites(i) ==
    /\ Moves(i, "open", "spooled")
    /\ spool' = IF handle[i] = "spool" THEN spool \cup {SpoolLine(i)} ELSE spool
    /\ work' = IF handle[i] = "work" THEN work \cup {SpoolLine(i)} ELSE work
    /\ torn' = IF handle[i] = "gone" \/ (handle[i] = "work" /\ flusher = "sending")
               THEN torn \cup {i} ELSE torn
    /\ handle' = [handle EXCEPT ![i] = "none"]
    /\ UNCHANGED <<recorded, dropped>>

(***************************************************************************)
(* flushSpool: at startup, on a timer, one at a time.                      *)
(***************************************************************************)
Flushes(from, to) ==
    /\ process # "stopped"
    /\ flusher = from
    /\ flusher' = to
    /\ UNCHANGED <<sending, at, gates, dropped, running>>

SpoolExists == spool # {} \/ \E i \in Ids : handle[i] = "spool"

\* The spool becomes the work file, in place of any earlier work file.
FlushRenames ==
    /\ SpoolExists
    /\ Flushes("idle", "renamed")
    /\ work' = spool
    /\ spool' = {}
    /\ handle' = [i \in Ids |-> IF handle[i] = "spool" THEN "work"
                                ELSE IF handle[i] = "work" THEN "gone" ELSE handle[i]]
    /\ UNCHANGED <<todo, torn, recorded>>

FlushReads ==
    /\ Flushes("renamed", "sending")
    /\ todo' = work
    /\ UNCHANGED <<files, recorded>>

FlushAnswered(l) ==
    /\ l \in todo
    /\ Flushes("sending", "sending")
    /\ Answered(l)
    /\ todo' = todo \ {l}
    /\ UNCHANGED files

\* Mutant: a line that fails again is forgotten.
FlushFailsForgets(l) ==
    /\ l \in todo
    /\ Flushes("sending", "sending")
    /\ Transient(l)
    /\ todo' = todo \ {l}
    /\ UNCHANGED <<files, nameless>>

\* A line that fails again goes back, whatever the spool holds by now.
FlushFails(l) ==
    /\ l \in todo
    /\ Flushes("sending", "sending")
    /\ Transient(l)
    /\ todo' = todo \ {l}
    /\ spool' = spool \cup {l}
    /\ UNCHANGED <<handle, work, torn, nameless>>

\* Mutant: the finished flush is never cleared.
FlushNeverClears ==
    /\ todo = {}
    /\ work # {}
    /\ Flushes("sending", "sending")
    /\ work' = {}
    /\ UNCHANGED <<todo, spool, handle, torn, recorded>>

FlushEnds ==
    /\ todo = {}
    /\ Flushes("sending", "idle")
    /\ work' = {}
    /\ handle' = [i \in Ids |-> IF handle[i] = "work" THEN "gone" ELSE handle[i]]
    /\ UNCHANGED <<todo, spool, torn, recorded>>

(***************************************************************************)
(* The process and the gate come and go.                                   *)
(***************************************************************************)
Pending == flusher # "idle" \/ \E i \in Ids : at[i] \in Active

\* Mutant: the drain waits for reports but leaves the windows open.
DrainKeepsWindows ==
    /\ process = "up"
    /\ process' = "draining"
    /\ UNCHANGED <<sending, at, files, flushing, gates, recorded, dropped>>
    /\ UNCHANGED <<late, crashes, forgotten, stranded>>

\* drainSettlements closes every window, then waits.
Drain ==
    /\ process = "up"
    /\ process' = "draining"
    /\ Send(WindowReports(windows))
    /\ windows' = {}
    /\ extra' = [k \in Key |-> 0]
    /\ UNCHANGED <<seen, files, flushing, gates, recorded, dropped>>
    /\ UNCHANGED <<late, crashes, forgotten, stranded>>

\* It resolved 0: nothing was running any more when the process exits.
Stop ==
    /\ process = "draining"
    /\ ~ Pending
    /\ process' = "stopped"
    /\ UNCHANGED <<sending, at, files, flushing, gates, recorded, dropped>>
    /\ UNCHANGED <<late, crashes, forgotten, stranded>>

\* Memory is lost, the files stay; the gateway is started again.
Crash ==
    /\ process # "stopped"
    /\ crashes < MaxCrashes
    /\ crashes' = crashes + 1
    /\ forgotten' = [s \in Subject |-> forgotten[s] + Repeats(s)]
    /\ stranded' = stranded \cup Reports(work)
    /\ windows' = {}
    /\ extra' = [k \in Key |-> 0]
    /\ at' = [i \in Ids |-> IF at[i] \in Active THEN "killed" ELSE at[i]]
    /\ handle' = [i \in Ids |-> "none"]
    /\ todo' = {}
    /\ flusher' = "idle"
    /\ process' = "up"
    /\ late' = 0
    /\ UNCHANGED <<seen, made, spool, work, torn, gates, recorded, dropped>>

GateFails ==
    /\ process # "stopped"
    /\ gate = "up" /\ outages < MaxOutages /\ Requests <= MaxFailing
    /\ gate' \in {"down", "unsigned"}
    /\ outages' = outages + 1
    /\ UNCHANGED <<sending, at, files, flushing, recorded, dropped, running>>

GateRecovers ==
    /\ process # "stopped"
    /\ gate # "up"
    /\ gate' = "up"
    /\ UNCHANGED <<outages, sending, at, files, flushing, recorded, dropped, running>>

SendStep(i) ==
    \/ SendAnswered(i) \/ SendFails(i)
    \/ SpoolHasRoom(i) \/ SpoolFull(i) \/ AppendOpens(i) \/ AppendWrites(i)

FlushStep ==
    \/ FlushRenames \/ FlushReads \/ FlushEnds
    \/ \E l \in todo : FlushAnswered(l) \/ FlushFails(l)

Next ==
    \/ \E k \in Key : RefuseFirst(k) \/ RefuseAgain(k) \/ CloseWindow(k)
    \/ Execute
    \/ \E i \in Ids : SendStep(i)
    \/ FlushStep
    \/ Drain \/ Stop \/ Crash \/ GateFails \/ GateRecovers

\* Awaits settle and the retry timer keeps firing; nothing makes the gate or
\* the signer available, the process drain or a window close.
Fairness ==
    /\ \A i \in Ids : WF_vars(SendStep(i))
    /\ WF_vars(FlushStep)

Spec == Init /\ [][Next]_vars /\ Fairness

(***************************************************************************)
(* Properties.                                                             *)
(***************************************************************************)
\* "nothing is dropped": the reports made and the repeats the windows hold
\* account for every refusal and every execution, through evictions, window
\* ends and drains; a crash costs the repeats of the windows open at the time.
CountsAgree ==
    \A s \in Subject : seen[s] = CountOf(s) + Repeats(s) + forgotten[s]

\* "so the issuer records it once": the gate never books more occurrences than
\* there were requests, although a report whose answer was lost is sent again,
\* also by a later process; for every caller none of whose reports was spooled
\* without its reportId because the signer was away at the first sending.
NamedIsBookedOnce ==
    \A s \in Subject : Of(s) \cap nameless = {} => tally[s] <= seen[s]

\* A report that was spooled stays in a file until the gate has recorded or
\* refused it, or a crash interrupts the flush that holds it, or its append
\* met a rename and the flush that was under way had read the file already.
Kept(i) == i \in Reports(spool \cup work) \cup known \cup refused
SpooledIsKept ==
    \A i \in Ids : at[i] = "spooled" => Kept(i) \/ i \in stranded \cup torn

\* "re-sent ... every reportSpoolRetryMs and at startup": what was spooled, by an
\* append that met no rename, outlives the process that spooled it.
SpooledSurvivesRestart ==
    \A i \in Ids : at[i] = "spooled" => Kept(i) \/ i \in torn

\* "so the counts it holds are reported (or spooled) before shutdown": once the
\* drain resolved 0, what this process counted before it began is at the gate,
\* in the spool, was dropped at the cap, or was torn off by a rename.
DrainLosesNothing ==
    process = "stopped" =>
        /\ SumFunction(extra) <= late
        /\ \A i \in DOMAIN made :
              \/ i \in Reports(spool) \cup known \cup refused \cup dropped
              \/ at[i] = "killed" \/ i \in stranded \cup torn

\* A gate that stays available, with a signer that does, gets, or refuses, every
\* spooled report of a gateway that is not stopped, unless a crash strands it.
SpoolDrains ==
    <>[](gate = "up" /\ process # "stopped") =>
        \A i \in Ids : i \in Reports(spool) ~> i \in known \cup refused \cup stranded
=============================================================================
