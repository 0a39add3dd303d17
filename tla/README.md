# AgentSafe Guard in TLA+

TLA+ models of the AgentSafe packages (`src/packages/`), the TLC configurations
that check them on small instances, and theorems that TLAPS checks for every
value of the constants. `PROJECT.json` is the machine-readable index:
components, runs, the source lines behind every definition, the hazards of the
code, and the mutants that show each property able to fail.

Paths below are relative to `src/packages/`; `guard` is
`agentsafe-guard/agentsafe-guard.mjs`, `mcp-guard` is
`agentsafe-mcp-guard/agentsafe-mcp-guard.mjs`, `gateway` is
`agentsafe-http-gateway/gateway.mjs`.

- [1. The system](#1-the-system)
- [2. The plan](#2-the-plan)
- [3. The modules](#3-the-modules)
- [4. The runs](#4-the-runs)
- [5. Fairness, bounds, deadlock](#5-fairness-bounds-deadlock)
- [6. The proofs](#6-the-proofs)
- [7. Where code and comments disagree](#7-where-code-and-comments-disagree)
- [8. What is not modelled](#8-what-is-not-modelled)

## 1. The system

An *owner* gives an *agent* a signed *mandate*: what it may do, for how much,
under which conditions. Before a consequential call the agent asks the *gate*
(the hosted issuer, not in this repository) to authorize it. The gate puts a
*hold* on the mandate's budget; whoever executes the call later *captures* the
hold, *releases* (voids) it, or marks its effect *unknown*. The executing
*service* may *claim* the hold first, which makes it single use. None of these
parties shares anything but messages, and every one of them may lose a message,
retry it, or die.

| Component | State it keeps | Operations | Hard behaviour | What makes it correct |
|---|---|---|---|---|
| **guard: `guardTool`** (`guard` 1137-1248, 521-670) | where each call stands, the retry loop it is in, what `effectStatus` said | authorize, orphan lookup, run, `captureRan`, `settleDelegated`, `voidHold` | answers lost after they took effect; delegated execution elsewhere; crash between steps | what ran stays spent, what did not run is given back, every loop ends |
| **guard: resume** (1257-1405) | `resumesInFlight` in memory; the resume claim at the gate | `gated.resume`, `resumeOnce`, `claimResume` | several processes, claim answer lost, old signers without the claim, a gate that returns no digests, an issuer that re-opens the resume | an approval runs at most once per opening, and only what was approved |
| **guard: local-first** (720-1082) | one bundle, its fetch time, the in-flight refresh, the event stream | `loadBundle`, `onFreshBundle`, on-chain anchor, stream | a push that overtakes a fetch; concurrent refreshes; requests without a time limit | decisions follow the latest rules within a known delay |
| **mcp-guard: claim** (400-497) | attempt counter, idempotency key | `claimAuthorization` | ambiguous claim, replayed authorization | one grant per authorization; ambiguity refuses |
| **mcp-guard: `guardIncomingTool`** (1095-1262) | where the request stands | checks before the handler, handler, settlement, answer check | every refusal after the claim; a handler that throws | claimed holds are released or settled, before the answer |
| **mcp-guard: x402** (1270-1330, `x402.mjs`) | a reservation | reserve, `settleFn`, release, finalize | a payment that went through and still throws | no second payment for one reservation |
| **mcp-guard: mutual handshake** (292-335) | open challenges (`pending`) | challenge, verify | a PROVE repeated or never sent | a challenge is answered once, in time, by the key of the DID that asked |
| **mcp-guard: bundle cache** (`bundle-cache.mjs`) | `entries`, `watchers`, `recency` | get, invalidate, close, stream callbacks | loads against pushes, late close events, eviction, a stream gone at one end only | no change of policy is missed |
| **gateway: a request** (936-1195) | where the request stands, how it closes the hold | claim, forward, `closeHold`, `settleCall`, `releaseUnexecuted` | lost upstream answers, settlement in the background | single execution; the settlement says what happened |
| **gateway: reports** (800-923) | refusal windows, reports in flight, spool file, work file | `queueReport`, `sendReport`, `spoolReport`, `flushSpool`, drain | file operations interleaved with sends and with each other; a signer that is away; crash; shutdown | nothing is lost or counted twice |
| **gateway: server** (`server.mjs`) | listening socket | start, stop (drain, then exit) | stop while requests are open | see reports |
| **policy-core: mandates** (`mandate-eval.ts`, `argument-policy.ts`, `delegation.ts`) | none | `evaluateMandate`, `checkArguments`, `sanitizeArguments`, `delegationVerdict` | absent values, currencies, operators in both directions, chains | fails closed; a delegated mandate never allows more |
| **policy-core: rules** (`standards-rules.ts`, `evaluate.ts`, `operating-mode.ts`) | none | `evaluateRules`, `evaluate` | several layers of verdicts | the most restrictive verdict wins |
| **a2a-guard** (`guardA2ATask`) | as `guardIncomingTool` | the same, without capabilities and without the check of the answer; the verdict on its own `verifyRequest` | as there | as there |
| **Python client** (`metamynd_client.py`) | as guard | as guard, with threads and asyncio | a task is cancelled, its worker thread goes on; a tool that returns a coroutine runs after the resume is over | as guard |

Interactions. The guard calls the gate over HTTP and hands its authorization to
a service in `governanceHeaders()`. The service (gateway, tool or A2A guard)
verifies it with `verifyRequest` (bundle from the cache, verdict from
policy-core), claims it at the gate and settles it. The gate's ledger is the only
state they share. The gate pushes `policy:changed` to open event streams, which
empty the bundle caches. Outcome reports go from the gateway to the gate.

The hazards (what is hard to test, at its line) are listed in `PROJECT.json`.

## 2. The plan

Ordered by what a failure costs: money first, then approvals, then evidence,
then the staleness of rules, then the pure decisions.

| # | Module | Of | State |
|---|---|---|---|
| 1 | `Issuer` (external), `SingleUse` (abstract), `HoldSettlement` | authorization, claim and settlement between agent, services, gate; refines `SingleUse` | safety proved |
| 2 | `ResumeClaim` | resume of an approved escalation, in the JavaScript and the Python client | proved |
| 3 | `OutcomeReports` | windows, reports, spool, drain | safety proved |
| 4 | `IncomingTool` (on `Issuer`) | `guardIncomingTool` and `guardA2ATask` | proved |
| 5 | `BundleCache` | bundle cache and streams | safety proved |
| 6 | `LocalGuard` | bundle of the local-first guard against pushes, refresh sharing, on-chain anchor | safety proved |
| 7 | `Mandates`, `Arguments`, `Delegation` | mandate evaluation, argument policies, delegation chains | proved |
| 8 | `Rules`, `Governance` | rule contexts and molecules, operating mode, containment; the verdict of agent and services | proved |

Compositions: `HoldSettlement` and `IncomingTool` EXTEND `Issuer`; `Delegation`
EXTENDS `Mandates` and `Arguments`, `Rules` EXTENDS `Delegation`, and `Governance`
puts the chain of mandates under a bundle of rules that changes.

Every invariant, action property and refinement that a passing run checks is proved;
liveness is checked only. Still worth modelling: the reservation of an x402 payment; a gateway
that has no spool.

## 3. The modules

### `Issuer`, `SingleUse`, `HoldSettlement`

`Issuer` is the gate as its clients use it: `hold[c]` is the status of a call's
hold (`none held claimed captured unknown voided expired`), `claimer[c]` the
request whose claim was granted (its idempotency key). It is marked external.

`Candid` are the in-process calls whose error, when it says that nothing ran, says the
truth. `nothingRan` (`guard` 1160-1162) takes the word of `releaseOnError`, of a
`GovernanceBlocked` and of its own `nothingExecuted` alike: a call outside `Candid` may
have acted and be given back all the same (`SaysNothingRan`).

`HoldSettlement` has one action for each point where the code awaits or ends:

| Code | Actions |
|---|---|
| `authorize` (521-598), `releaseOrphan` (600-624) | `Permitted PermitUnbound Refused AuthorizeLost OrphanFound OrphanNotFound` |
| the run (1195-1227) | `StartTool Act HandOver ToolReturns ToolFailsUnrun ToolFails` |
| `settleDelegated`, `captureRan`, `capture`, `voidHold` | `SettleDelegated CaptureRan CaptureAnswered CaptureLost Voids` |
| gateway `decide` | `RefuseUnverified Verified ClaimGranted ClaimRefused ClaimLost Unexecuted ReleaseUnexecuted Forward` |
| `closeHold`, `settleCall` | `UpstreamAnswers CloseAnswered CloseLost` |
| environment | `UpstreamRuns UpstreamDeclines Deliver Lapse AgentCrash ServiceCrash` |

A call to the gate either is processed and answered in one step (`Answered`), or
its outcome is ambiguous (`Lost`): the message joins `net` and the gate may
process it later, again, or never. A timeout, a lost answer and a proxy's 5xx are
that one case. `agent[c]` names the await the call is in, `left[c]` the tries of
its loop, `saw[c]` what `effectStatus` said, `closing[r]` what `closeHold` decided.

`SingleUse` says the same without messages: money is reserved under the cap,
committed, spent at most once, or returned, never both. `KeepsPromise` is the
refinement. The handlers of `IncomingTool` implement the same `SingleUse`, which is
stated and proved in `IncomingToolProofs`.

### `ResumeClaim`

`at[a]` is the await of a call of `resume`, `locked` the processes with the
escalation in `resumesInFlight`, `taken` the gate's record of the one resume,
`net` claims under way. Steps: `Enter InUse Approval NoApproval NotStarted
Unavailable Mismatch ClaimGranted ClaimRefused ClaimLost Unsupported Run Settle
SettleNothing`, with `Crash` (a process forgets its lock), `ClaimLands` and the
owner's `Decide` and `Withdrawn`. `Legacy` processes know no resume claim; the
properties say what still holds for them. `digests` are those the gate returned with the
approval: one it did not return is not compared (`guard` 1376-1390), and the call goes
on. `SameRequest` and `SameContext` are the calls that would pass each comparison.
`opened` counts the `Reopens`: when a run meets an outdated gateway's
`AUTHORIZATION_CONTEXT_REQUIRED`, the issuer gives the one resume back (`guard`
1214-1217), and a second run may take it.

The two clients resume in the same steps, so most definitions stand for both and
name the lines of one. What asyncio adds is for the processes in `Python`: `loose[a]`
says that the call goes on without the lock, because its task was cancelled while a
worker thread asks the gate or settles (`Cancel`; what the gate then permits is given
back, `GiveBack`), or because the tool returned a coroutine that is awaited once the
resume is over (`Defer`).

### `OutcomeReports`

`windows` and `extra` are the refusal windows with their repeats, `made` the
reports (an index is a `reportId`), `at[i]` the await of report `i`, `spool` and
`work` the two files, `todo` the lines a flush still has to send. Files survive
`Crash`; windows and reports in flight do not (`forgotten`, `killed`).
`Drain` and `Stop` are the shutdown. An append is its open (`AppendOpens`) and its
write (`AppendWrites`), and a flush may rename, read and unlink the file in between:
`handle` is the file the append has open, `torn` the reports that were written to a file
already read or replaced. `gate` may be up, down, or `unsigned`, when the signer of the
gateway is away: such a report has no `reportId` to give its line (`nameless`), and every
later sending of it gets a new one (`SpoolLine`).

### `IncomingTool`

Requests in `Amountless` omit the amount: their capture is refused by the guard itself,
unsent (`Captures`), and a settlement that cannot be signed is not sent either
(`unsigned`); the handler's caller is answered all the same. Requests in `Task` go to
`guardA2ATask` (`TaskRuns`, `TaskCapture`: no capability, and
the task is answered without a check), the others to the wrapped tool. The wrapped tool with `requireAuthorization` and `{ settle: true }`: `Present`,
the claim steps, `GrantMismatch`, `CapabilityRefused` / `CapabilityPasses`,
`CheckRefuses`, `Release`, `Run`, `Returns` / `Throws`, `Capture` / `MarkUnknown`,
`CheckAnswer`. The agent whose hold it is may settle it at any time.

### `BundleCache`

A bundle is the version of the policy it was read at. `entry[a]` is the call whose
promise is cached, `load[c]` how far its load is, `stream[a]` the stream
(`none connecting accepted open waiting`), `closing[a]` the streams closed whose
`close` event is still to come: that event runs `onDrop` of a stream that is no
longer the agent's, and forgets whatever the agent has cached by then. `accepted`
and `open` are apart because the issuer pushes from the moment it accepts, while
the client's `onOpen` runs later. `dead` are the agents whose stream has ended at the
issuer, or half-way, while the client still takes it for live: the issuer ends it
(`IssuerEnds`), the client notices later (`OnDrop`) or never, and a `Change` meanwhile
is pushed to nobody. The time to live is one flag, `aged`.

### `LocalGuard`

Every call of a process shares one bundle, one refresh (`_bundleRefresh`), one
anchor and `_highestSeq`. Between two awaits on the network the code runs without a
break, so a step goes from an answer to the next wait: `Begin`, `BundleArrives`,
`BundleFails`, `RefreshArrives`, `RefreshFails`, `AnchorArrives`, `AnchorMissed`, with
the gate's `Change`, the `Push` and the `Tick` of the clock. A policy is a version; what
is kept of it is the local verdict and the anchor it is in. A request sees the policy of
some moment between its sending and its answer. No request has a time limit: an answer may
come at any time, and a request may fall silent for ever
(`FallsSilent`, `RefreshFallsSilent`), with every call that shares it.

### `Mandates`, `Arguments`, `Delegation`

`Mandates` is `evaluateMandate` without its reason codes. Numbers and times are
integers; an absent value (`NoValue`) or an unreadable one is anything else, so
that every comparison with it is false, as with NaN. A right operand is the set
of its values, a unit the set of its currencies (compared without case in the
code). `Arguments` is `argument-policy.ts`: pointers are sequences of segments, a
policy is the set of its allowed patterns and its hidden paths. `Delegation` has
one variable, the chain: any mandate may start it, and `Delegate(child)` appends a
mandate that `delegationVerdict` accepts at that depth. This makes properties of
*chains*: the code only ever compares neighbours.

Left out: reason codes; `String()` and `Number()` coercions (list members that
differ only in type, `Number(null) = 0`).

### `Rules`, `Governance`

`Rules` is what a request is judged by beside its mandate: the context, in which
every field has a value and how far it can be relied on (`BuildRuleContext`), the risk
floor of the owner with the share of the cap, the atoms and molecules, what cannot be
verified (which refuses or escalates, never permits), the operating mode, and the most
restrictive decision. Documents are sets: no verdict depends on their order, only
the reason code does. `Governance` adds the bundle that the issuer publishes and the
verdict as the agent (`EvaluateLocally`) and as the services (`ServiceVerdict`) compute
it. The two are written separately, as in the code. A service goes on to judge the
arguments it was handed, where its verdict may still run the call (`ArgumentsPass`): they
must be there, within every policy, and a value to be hashed needs the service's key. The
agent's evaluation has no such step. `ServiceVerdict` begins where the request is known
to be the agent's, fresh and bound, and the bundle to be signed by the issuer for an agent
of the right owner; the refusals before that (`mcp-guard` 870-935, and 955-962) are not
taken apart. One mandate stands for all that a bundle holds for an action.

Left out: `text-matches`, and atoms on counters and flags, which read their field as
the modelled ones do; the folding of look-alike characters in context values;
`newMerchant`, which only the issuer knows.

## 4. The runs

| Run | Instance | Question |
|---|---|---|
| `hold_replay` | 1 delegated call, 2 claiming requests, the code's own retry counts (3, 3, 2, 3); 243k states | Is an authorization presented twice executed once, does executed spend stay committed, is a claim ever left behind? Refinement of `SingleUse` |
| `hold_mixed` | an in-process and a delegated call under a cap of 1; 173k | Is only a hold of a call that did nothing released? Does what services ran and agents booked stay within the cap? Does every loop end? |
| `local` | 2 calls (1 with an amount), 2 policies, clock 0..3, requests that nothing answers before 2, with and without `verifyOnChain` and `sealValueActions`; 910k | How old may the policy behind a verdict be? Does a push reach every later call? Do anchors go back? Does every call end that does not itself wait for a silent request? |
| `reports` | 2 keys, 3 requests (2 where the gate or the signer fails), 1 crash, 1 outage, spool cap 1, 1 window; 402k | Does every refusal and execution get counted exactly, is a report with an id booked once, a spooled one kept and in the end sent, does a drain lose anything? |
| `resume_once` | 3 processes (1 legacy, 1 Python), 4 resumes (1 with other arguments, 1 with another context), 1 re-open; 1.4M | Is an approval run once per opening, and spent on what was approved? Is what a cancelled call gives back nobody's run? Is a settled run the last, and does "in use" mean in use? |
| `tool_settles` | 1 authorization presented twice to a guarded tool and twice to an A2A task, one of each without an amount; 450k | Is a handler run once, its spend kept, its hold settled before the answer, and released after a refusal? |
| `cache_pushes` | 2 agents for 1 place, 4 requests, 1 change, 1 stream that fails at either end; 302k | Can an outdated bundle be served with no push under way and the stream whole, or for ever? Is a failed load cached? Does eviction leave something behind? |
| `delegated` | 47 mandates, chains of up to 4, the bundles of `MCGovernance` beside some of them; 9.9k | Does the end of a chain allow, let through or look less closely than any mandate above it? Is a request executed exactly if every layer permits it, do agent and services agree up to the argument policy, can risk be talked down, does a tighter bundle ever soften a verdict? |
| `hold_blip`, `hold_withheld`, `reports_crash`, `tool_capability` | one call or request, or the bounds of the passing run | Four comments of the code that the code does not keep (section 7); TLC gives the counterexample |

The states of `delegated` are few and wide: in each, TLC evaluates every request
against every mandate of the chain.

`SpendWithinCap` counts the value-bearing calls that claiming services ran together
with those the ledger has as captured. Type invariants are proved (section 6) rather
than run.

Every property of a passing run has a mutant: the definition of the mutant stands
before the one it replaces, states a plausible bug, and TLC then finds the
property violated in the same instance.

## 5. Fairness, bounds, deadlock

**Fairness.** `HoldSettlement`: weak fairness of `AgentStep(c)` for each call and of
`ServiceStep(r)` for each request. These are the steps the runtime takes by itself (an
await that settles, a timer, a tool that returns or throws). `OutcomeReports`: weak
fairness of each report's `SendStep` and of the flush. `LocalGuard`: weak fairness of
the shared refresh and of each call's answer, except that a request that has fallen
silent has none to give. `BundleCache`: only the clock. Nothing of the environment is fair anywhere:
messages in `net` may never arrive, an issuer or a connection may go without a word, the upstream may never run, streams may never open,
pushes may be lost, nobody has to crash, the gate may stay down. `ResumeClaim`,
`IncomingTool`, `Delegation` and `Governance` have no liveness property and no fairness.

What this fairness asks of the code: that an await settles. Only the outcome reports
have a time limit (`AbortSignal.timeout(5000)`). `keepAliveFetch` (66-87) sets none and the
guards pass no signal, so a request to a gate that accepts it and says nothing may stay
open for ever. In `LocalGuard` that is modelled, since there one silent refresh
(`_bundleRefresh`) holds up every later call that needs a fresh bundle: `CallsEnd` has the
exception `WaitsInVain`, and no more than that call is excused. In `HoldSettlement` an
await that never settles is the crash of the process it hangs in, after which nothing more
is promised of its calls.

**Bounds.** Retry counts are constants. `hold_replay` uses those of the code, the
others smaller ones, because their questions do not turn on the number of tries. Two
requests are enough for a replay, and for one party's late message to meet
another party's; two calls enough to compete for the last unit of the budget. Three
requests to report on are enough for a window with a repeat to be evicted by another
caller; where the gate fails (`MaxFailing`) two are, for one to be spooled while the
other is flushed; a spool cap of 1 and a limit of 1 window make both
limits reachable. Two resumes of one process show the lock, two processes the
claim; one attempt has other arguments, one another context, and one re-open gives a
second run its chance. In the cache, three requests
of one agent are enough to open the stream, to load and to hit, and one of
another agent evicts it; one change and one drop suffice since every pair
(change, drop) in both orders occurs. `MaxChanges`, `MaxDrops`,
`MaxRequests`, `MaxFailing`, `MaxCrashes`, `MaxOutages`, `MaxBooked` (occurrences on
which a report without an id may land unanswered), `MaxReopens`, `MaxVersion` and
`MaxClock` bound the environment only; `SilenceUntil` does so too, for the times at which a
request may turn out to be one that nothing answers (such a request stays silent for the rest
of the behaviour, so early ones suffice). `reports` has one outage, so it reaches either a
gate or a signer that is away. The clock of `local` outlasts `LifecycleMaxAge` and
`MaxStaleness`, so that a verdict can be too old in it, also after the wait for an anchor.
One process of `resume_once` resumes twice, and it is a Python one, which does everything a
JavaScript one does and may lose its lock besides; a legacy process that resumes twice is
left to the theorems.
`MaxDelegationDepth` is the code's own 3. The mandates of `delegated` come in
families that differ in one thing a child may narrow or widen, with
requests at, below and above each bound, without a value and in each currency.

**Deadlock.** The checks for deadlock are off: all calls end, a process crashes or
stops, a chain reaches its depth. That they end only when they should is what
`CallsEnd`, `RequestsEnd` and `SpoolDrains` say.

## 6. The proofs

All proofs are for arbitrary constants under the named assumptions (finite sets
of calls, `CallOf`, `ProcOf`, `AgentOf` functions of the right type, retry counts
positive, bounds natural). No theorem rests on the sizes of section 4.

**`HoldSettlementProofs`** (`TypeCorrect`, `SingleUseHolds`, `CommitmentHolds`,
`CapHolds`, `Refinement`, `ClaimsAreNotLeft`, `OnlyTheBlindBook`, `ReleasedDidNothing`,
`FailureReleasesUnrun`). `OneExecution` is not inductive: that two claiming
requests did not both go upstream follows from what each *owns*. The invariant is
`IInv == TypeOK /\ Safe`, where `Safe` says: messages in `net` carry the call of
their request (`WellAddressed`); a hold with a claimer has left `held` for good
(`ClaimedOnce`); a claiming request that is past its claim, or went upstream, is the
claimer (`OwnsWhatItRuns`); nothing is upstream before it was forwarded
(`SentInOrder`); a release under way belongs to a request that will never run
anything (`ReleasesOnlyUnrun`); and the hold of what ran, or may yet run, is
committed (`RunsCommitted`). The cap needs one more, `UnderCap`: the *committed* holds stay
below the cap, which each mint checks; what ran is a subset of them. The
refinement maps `hold` to `money` and the upstream to `spent`; each action maps to
one step of `SingleUse` or to a stutter. The last four theorems need `Traced`, which
follows a hold back to who settled it: a request that is not verified has asked the gate
for nothing (`Early`), a service captures only what ran (`CapturesRan`), an agent captures
a delegated call of value only if its question got no answer (`BooksBlindly`), and an
in-process tool whose hold is released is over and never acted (`VoidsUnrun`).
`ReleasedDidNothing` and `FailureReleasesUnrun` have the hypothesis that every service
claims (`Claiming = Req`): a service that claimed and ran has left nothing `held` for the
void to release. The run `hold_withheld` refutes `FailureReleasesOnlyUnrun` where it does
not. An in-process tool has nobody but itself to say what it did: `ReleasedNeverRan`
leaves out those that are not `Candid`, and `FailureReleasesUnrun` assumes that all are.

**`ResumeClaimProofs`** (`ResumeTypeCorrect`, `ApprovalRunsOnce`,
`ResumeIsForTheApproved`, `SettledRunIsLast`, `CancelledRunsNothing`, `InUseIsTrue`,
`OnlyTheApprovedRuns`, `OneResumeAtATime`).
The invariant says: those who run or ran with the claim are `taken` and one for each
re-open before (`RunningIsCounted`, a count that a grant and a re-open keep in step);
claims under way come from calls that have the digests returned (`ClaimsMatch`); one call per process holds the lock
(`LockExclusive`), and a lock that is taken is held by a call (`LockIsHeld`); only
Python calls go on without it (`LooseIsPython`); an approval is what mints the hold
(`HoldIsApproved`); and a call past its look at the hold belongs to a process that has
not settled (`SettledIsOver`), because the look and the run are under one lock. Where
Python loses the lock, `SettledRunIsLast` follows from the claim instead.
`OnlyTheApprovedRuns` is about every process, those without the claim included: nothing
runs before the owner approved, and nothing that differs from the approved request or
context in a digest the gate returned (`WayIsApproved`, which follows a call from one check to the next).

**`LocalGuardProofs`** (`LocalTypeCorrect`, `VerdictsAreRecent`, `PushesAreHeeded`,
`AnchorsNeverRollBack`). The invariant dates every copy of the bundle and every
request under way: the version of a copy was in force no earlier than the request that
fetched it was sent (`InForce`, `CopyOK`, `RequestOK`), what is cached or being fetched
is no older than the last push it met (`BundleOK`, `RefreshOK`), and a call's copy is
bounded by the limit of the place where it waits (`CallOK`). The three theorems read
their bounds off it. No bound on the duration of a request is assumed: a call records how
long the slowest request it waited for took (`slow`), and that is what `Grace` adds to the
age limit.

**`OutcomeReportsProofs`** (`ReportsTypeCorrect`, `SpoolKeeps`, `OnlyACrashStrands`,
`EveryRequestIsCounted`, `NothingIsBookedTwice`, `DrainLeavesNothing`).
`SpooledIsKept` needs to know, of a line that leaves the
work file, that it was dealt with: a flush that is sending has answered the lines it
is done with or put them back, and a work file that nobody flushes was left by a crash
(`WorkDone`); and a line written through a handle that a rename has moved is either in
time to be read, or `torn`. What is torn is lost (section 7), and
`SpooledIsKept`, `DrainLosesNothing` and `OnlyACrashStrands` name it beside the crash:
nothing else loses a report. `OnlyACrashStrands` says where `SpooledSurvivesRestart`, which
the run `reports_crash` refutes, does hold, for what is not torn: until the first crash.

The counts are sums over the reports of a subject, of any number. `CountInv` says that
the gate's tally is the sum over the reports it knows (`Booked`), which are reports that were
made (`KnownIsMade`), beside `CountsAgree` itself; so `NamedIsBookedOnce` is the sum
over a subset, for the subjects none of whose reports is `nameless`. The others may be
counted again (section 7). That every report has an id, and is therefore sent, needs
that reports and windows that will make one stand for requests of their own
(`ReportsFit`): a window is closed, or evicted, in the step that makes its one
report. What a drained process counts again was counted since (`DrainCounts`); with
`StoppedIsQuiet` (it stopped only when nothing was running) and `DoneIsTold` (a report is
done only when it was answered or dropped) that is `DrainLosesNothing`. The
lemmas about sums (`SumExists` to `SumOfZeros`) state what the community module's fold over a
finite set returns: adding an element, changing one value, a subset, nothing but zeros. They
use induction over the subsets of a finite set with a *set* of subsets as the predicate
(`SubsetInduction`), which the provers can instantiate. `FailingAssumption` says that the two
bounds on requests are in order (`MaxFailing <= MaxRequests`).

**`IncomingToolProofs`** (`ToolTypeCorrect`, `HandlerRunsOnce`,
`HandlerStaysCommitted`, `AnswerIsSettled`, `RefusalGivesBack`, `OtherRefusalsRelease`,
`HandlersKeepPromise`, `HandlersSpendUnderCap`). The argument is
that of `HoldSettlementProofs`, with one lemma for the ledger (`ProcessFacts`: what
one message, in time or late, may do to one hold) in place of one case per message.
The invariant adds to `WellAddressed`, `ClaimedOnce`, `ReleasesOnlyUnrun` and
`RunsCommitted` that a claim the issuer granted went to the claimer
(`GrantedToClaimer`), that the handler runs after the permit and before the settlement
(`RunsLast`), that only a request answered with its handler's error marks its hold
unknown (`UnknownIsAnError`), and that the answer is checked only once the hold is
captured, the capture is on its way or nobody could sign it (`SettledWhenChecked`); requests
without an amount are left out (section 7). `RefusalGivesBack` leaves out the refusal of a capability,
which the code does not follow with a release: the run `tool_capability` shows it, and
`OtherRefusalsRelease` that nothing else breaks `RefusalReleases` (hypothesis
`~ Capabilities`). `HandlersKeepPromise` is a refinement: with a hold read as money and the
calls some handler was started for as spent, tools, tasks, agents and gate implement
`SingleUse`, as the settlement of `HoldSettlement` does. `HandlersSpendUnderCap` is
then proved from `SingleUse` alone: money in use stays under the cap in any implementation
of it (`PromiseUnderCap`), and what a handler was started for is money in use.

**`BundleCacheProofs`** (`CacheTypeCorrect`, `PushCoversOutdated`, `FailureIsForgotten`,
`EvictionLeavesNothing`). The invariant
says that an entry is a load of its own agent that has not failed (`EntriesMatch`),
and that beside a stream that is open at both ends an entry, whatever its age, is current
or has a push under way (`PushesCover`). It holds because opening and dropping a stream forget the
entry: what an `accepted` stream holds need not be covered. `NothingLeaks` follows from
`Places`: recency is never longer than `maxAgents`, and a request loses from it at most
the agent it evicts.

**`DelegationProofs`** (`ChainTypeCorrect`, `ChainGrantsNoMore`,
`ChainArgumentsFit`, `ChainKeepsScrutiny`, `CurrencyCannotBeDodged`). One lemma per
comparison (an operator that narrows refuses what its parent refuses; a policy that
narrows covers; and so on), composed into one lemma per hop, and an invariant over the
chain: from each mandate to the end. The step appends a mandate, so the new end is
compared with its parent by the hop lemma and with the others through it. Where the code takes
the *first* failing or firing rule, the lemma `FirstIsOneOfThem` shows that it exists,
by the well-foundedness of `<` on the naturals.

**`GovernanceProofs`** (`EveryLayerPermits`, `AgentAndServiceAgree`, `TighteningIsSafe`,
`RiskStands`, `WorkersDoNoMore`), on top of `DelegationProofs`. No property needs an
induction of its own: each is about one state or two bundles, once the chain consists of
mandates and the bundle is one the issuer publishes (`GovernedIsChain`, `AlwaysBound`).
`EveryLayerPermits` is an equivalence: the layers refuse nothing else in the agent's own
evaluation. `AgentAndServiceAgree` is one as well: the two sides decide alike, but where
the argument policy, which only the service looks at, blocks what may still run.

**TLC only.** Liveness (`CallsEnd` of both modules, `RequestsEnd`, `SpoolDrains`,
`OutdatedBundleIsRetired`): the prover has no ENABLED, so nothing can be derived from
fairness. Of the four refuted properties all but one are proved under the condition that
makes them true: `FailureReleasesOnlyUnrun` and `RefusalReleases` under a hypothesis,
`SpooledSurvivesRestart` until the first crash.
`RefusalIsNotBooked` has no hypothesis on the constants under which it would hold, because an agent can always
fail to reach the gate once (what does hold is `OnlyTheBlindBook`).

## 7. Where code and comments disagree

Shown by runs (each with its counterexample):

- `hold_blip`: `settleDelegated` cannot reach the gate and goes on to
  `captureRan`, which asks again, hears that nobody claimed the hold, and captures
  it. The comment (`guard` 1183) says such a hold is released.
- `hold_withheld`: `nothingRan` (`guard` 1161) takes every `GovernanceBlocked` of a
  service for "nothing ran", also one raised to withhold an answer after the run.
- `reports_crash`: a crash during `flushSpool` (`gateway` 860) leaves lines in the
  work file, which the next rename replaces.
- `tool_capability`: the capability refusals (`mcp-guard` 1179) do not release the
  claim that was just made.

Without a run of their own: of the first four, TLC gives the counterexample as soon as the
exception that is named is taken out of the property.

- `gateway` 817: durable reporting. `appendFile` (833) opens the spool and writes in two
  steps; a flush that renames (860), reads (861) and unlinks (869) it in between takes the
  line with it, without a crash. Hence `torn` in `SpooledIsKept` and `DrainLosesNothing`.
- `gateway` 820: "the same reportId, so the issuer records it once". When the signer is away,
  `reportOutcome` returns no `reportId` (`mcp-guard` 556-562), the line is spooled without one
  (`gateway` 843) and put back as it was (867). Every re-send has a new id, and one whose
  answer was lost is counted again. Hence `nameless` in `NamedIsBookedOnce`.
- `mcp-guard` 1239: "a claimed hold is settled as executed first". A request may omit its
  amount and is then claimed with 0, but settled with `Number(undefined)` (`mcp-guard` 1260,
  `a2a-guard` 968): the guard refuses its own capture and answers with the hold still
  claimed. Hence `Amountless` in `SettledBeforeAnswered`.
- `bundle-cache.mjs` 16: events missed while disconnected cannot leave a stale bundle in
  use. A stream the issuer has lost and the client has not (no read timeout, 57-84) misses the
  change, and the bundle stays until its age limit. Hence `dead` in
  `OutdatedOnlyBehindAPush`.

- `delegation.ts` 14: a child "is narrower when every request its parent would refuse, the
  child also refuses". `constraintNarrows` does not compare units (dropping the
  unit admits any currency), and a prohibition counts as kept whatever conditions
  the child adds. `DelegatedGrantsNoMore` has both as hypotheses (`UnitsKept`,
  `ProhibitionsKept`); TLC violates it when either is removed.
- `delegation.ts` 176: "a child may keep or raise its parent's tier, never drop or lower
  it". With two grants of one action in the parent, one of them without a tier, a child
  covered by that one loses the tier (`riskFloorFor` takes the highest). Hence
  the hypothesis "granted once" in `ScrutinyNeverFalls`. The argument policies do not
  have this gap (`delegation.ts` 246-254).
- `delegation.ts` does not compare `onFail`: a child may turn a parent's block into an
  escalation. Neither is an allow, so the properties do not see it.
- `delegation.ts` compares neither `riskSignals` nor the tier a child states first: a
  child may so give a rule about risk something to read where its parent had nothing.
  Hence the condition `FloorKeptFrom` in `DelegatedAllowsNoMore`.
- Under containment, or in `read_only`, a request that a rule would quarantine is
  refused for the other reason. `TighteningNeverLoosens` takes all refusals as equal.
- `guard` 950: a verdict is "only given on a bundle younger than lifecycleMaxAgeMs".
  With `verifyOnChain` the age is looked at after the anchor was awaited, on the bundle
  that is cached by then, while the verdict is on the copy from before. `Grace` is the
  bound that does hold, and that `VerdictsAreRecent` proves.
- `guard` 1037: after a push "the NEXT call re-fetches". A fetch under way when the push
  arrives is kept as fresh when it completes, although it may have read the old policy.
  `PushIsHeeded` is about pushes that met no fetch under way.
- `metamynd_client.py` 2632: "One resume of an escalation at a time per client". A
  cancelled task, or a tool that returns a coroutine, frees the lock before the call is
  over. With the resume claim an approval is run once all the same (`AtMostOnce`);
  `SettledIsNotRerun` leaves out Python processes without it, or with one that was
  re-opened.
- `guard` 1144: "failure → released only when nothing can have run". `releaseOnError: true`,
  a function that returns true, and a `GovernanceBlocked` or `nothingExecuted` that comes
  from the tool itself release whatever the tool did before it threw (1160-1162, and the
  comment at 1151 says that the embedding program answers for it). Hence `Candid`.
- `mandate-eval.ts` 27: "a missing value never accidentally grants". `neq` and
  `isNoneOf` hold of a missing value, as in `Holds`.
- `mandate-eval.ts` 173: "an authority answer cannot depend on operands". A prohibition
  with constraints is evaluated before the permissions are looked up, so with
  `values: {}` it may or may not hide a missing permission.
- `guard` 1189: without `requireAuthorization` a gateway runs a value-bearing request
  unclaimed, and the agent reads the unclaimed hold as "nothing ran". The safety
  properties are stated for claiming services.
- `gateway` 829: the spool cap is counted before an await; the spool may exceed it by the
  reports in flight. Harmless; the model does so too.

## 8. What is not modelled

- `guard`: `settle: 'none'`, settlement below the authorized amount, calls of
  capture/void/refund by the embedding program.
- Signatures, digests, DIDs, canonicalisation, key providers, ledgers
  (`magp-evidence`, `magp-hcs2`): whether they match is one outcome, and what follows
  from it is modelled.
- Route matching, output filters, HTTP parsing, files of routes: a refusal is one outcome
  whatever its reason.
- A gateway without `reportSpool`, and a disk that fails: an append, a read or an unlink
  that fails is swallowed (`gateway` 833-838, 861-870) and the lines are dropped or left.
- The refusals of `verifyRequest` before it asks for a verdict: signature, admission of the
  agent, context and payload binding, freshness, the signature of the bundle, the owner.
  Several mandates for one action in one bundle.
- A claim or a release that cannot be signed is a claim refused or a release lost. A
  *settlement* that cannot be signed is modelled (`unsigned`), for `mcp-guard`, whose signer may
  be a remote one; `a2a-guard` signs in memory (418-426), which does not fail.
- The `actions` scope of the context-value atoms.
- x402 (`mcp-guard` 1270-1330): one reservation per authorization, released when the
  facilitator throws. Whether a facilitator that throws was paid is a contract of code
  outside the repository.
- The mutual handshake (`mcp-guard` 292-335): what it guarantees rests on the signatures.
  Its one piece of state, `pending`, loses an entry with the first PROVE, whatever it
  says; an entry whose PROVE never comes stays for the life of the process.
- Escalated holds that a reviewer lifts: in the models of the claim a hold is held or not.
- The Python client apart from `resume`: its settlement is that of the guard; the
  signer daemon and the adapters of agent frameworks are I/O.
- The copies of policy-core that the packages bundle (`policy-core.mjs`, generated from the
  sources that are modelled), and the tests, which are 22,000 of the 49,000 lines of
  program text.
- `create-metamynd-agent`: a command that generates files.
