# A TLA+ model of dsh-explain

dsh-explain is a plugin of a coding-agent host. It watches settled turns of the
host's Sessions, asks a model to explain things the learner may not know, and
keeps one global learning thread: explanations, feedback, review questions, a
learner profile, and a compacted context. The code is in `src/src`; this
directory holds TLA+ modules that model its core, TLC configurations that check
them on small instances, and proofs that the TLA+ proof system (TLAPS) checks
for every value of the constants. `PROJECT.json` is the index: components, runs,
faults ("mutants"), the source lines behind every definition, findings, hazards
and theorems.

Contents: 1 the system, 2 the modules, 3 the runs, 4 fairness, 5 the proofs,
6 where code and documents disagree, 7 what is not modelled, 8 the plan.

## 1. The system

```
 turn/end ──> observer ──> scheduler ──────> model calls (explainer, compactor)
                             │  ▲   │ takes        │ results, checkpoints
   learner ──> gateway ──────┘  │   ▼              ▼
     ▲            │             │ queue          store (SQLite: thread, context,
     │            └─────────────┴───────────────>  profile, budget, lease)
  browser store <──── typed Remote, long poll ────┘         ▲
                                                  other hosts on the same file
```

| part | source | its state | its operations | what makes it correct |
|---|---|---|---|---|
| Candidate queue | `queue.ts` | one pending candidate per Session, the latest sequence number of each | push, trim, take, retry, defer, finish, clear | the cap holds; a replaced, evicted or cleared candidate never returns; the identity map stays bounded |
| Runtime lease and budget | `store.ts` 386-500, `scheduler.ts` | one lease row, the usage rows of the last day | acquire, renew, release, assert, reserve | an earlier owner's fenced commit never follows a later one's; no day holds more autonomous requests than the limit |
| Scheduler | `scheduler.ts`, `gateway.ts`, `runtime.ts`, `index.ts` | settings, route, two queues of explicit jobs, one request in flight, three timers, the drain promise | requests, turns, feedback, configure, heartbeat, route refresh, clear, dispose, the drain's loop | every accepted request is answered, and truthfully; stale answers are dropped; no wakeup is lost; a clear finds nothing under way |
| Learning thread | `store.ts` 516-777, 1006-1174, 1389-1559 | topics, explanations, entries, reviews, request ids | commits of explanations and rephrases, feedback, reopen, review rounds, clear | one conversation per Session and topic; a review asks only about what is mastered; a repeated mutation changes nothing |
| Context and profile | `store.ts` 779-888, 1177-1355, 1676-1943, `compactor.ts` | observations, coverage, checkpoints, overrides, suppressions, audit, two generations | compaction, profile edits, clear | nothing is covered twice or survives a clear; what is forgotten stays forgotten; an edit applies once |
| Browser store | `client/learning-store.ts` | one snapshot, one long poll, one shared refresh, pending mutations | mount, unmount, refresh, load older, mutations, watch loop | one poll; the view converges; a settled mutation is on display; loaded history does not shrink |
| Gateway | `gateway.ts` | none | mutations and projections | tells the scheduler what the store has accepted |
| Review schedule | `store.ts` 970-1174, 2526-2552 | stage, streak, due date and attempts of each mastered topic | start a round, answer, understood, reopen | asked when it is due and not before; the oldest first; every kind in turn |
| Timers | `scheduler.ts` 397-446, 707-781 | the idle and the budget timer, `idleAttempted` | arm, fire, clear | what waits for time has a timer, no later than promised; a failed compaction is parked |
| Runtime settings | `runtime.ts`, `config.ts`, `settings-migration.ts`, `LearningSettingsSection.tsx` | the host's section and its revision, the settings in force, a chain of promises | save a form, switch by command, synchronize, import | no writer overwrites what it has not seen; no change is lost; who is told finds it applied |
| Plugin entry, observer | `index.ts`, `observer.ts` | one capture for each turn or command, the epoch it began under | read a Session's history backwards into a bounded capsule | the whole turn, once; what was there when asked; nothing from before a reset; within the limit, and says when it was cut |
| Prompts and parsing | `explainer.ts`, `domain.ts` | none | render, parse | strictness of parsing |
| Schema and migrations | `schema.ts` | the tables' constraints | migrate | constraints never turn a legal commit into an error |
| Views | `client/*.tsx` | none the properties see | render | – |

How they interact. The scheduler lives on one event loop: handlers run to
completion, and other handlers come in wherever it awaits. It has one request in
flight; explicit requests, reviews, rephrases, autonomous candidates and idle
compaction follow in this order of priority. Whatever makes a result out of date
(feedback, a setting, a lost lease, a clear, dispose) raises the epoch and
aborts; a late answer is compared with what it was made for before it is
committed. The store is synchronous SQLite, each operation one transaction, and
several host processes may share one file: a lease with a fencing generation
decides which of them may commit model results, while the learner's own acts
(feedback, edits, clears) need no lease. The browser reads through Remote calls
and learns of changes from a long poll on the view's cursor.

The hard behaviours are listed, each at its line, under "hazards" in
`PROJECT.json`: candidates that come back after they were replaced; hosts that
stall past their lease; work that arrives while the drain is exiting; answers
that cross aborts; a clear in the middle of anything; requests that are sent
again after a clear deleted the record of them; generations that start over;
reads of different instants combined in one snapshot; calls that fail between
two steps; timers armed under a state that has moved on; settings that several
writers save, and that are read while another change is applied; captures of
several turns side by side; an import that dies before it leaves its mark.

## 2. The modules

A module's comments say what its definitions stand for; `map` in `PROJECT.json`
gives the lines. In several modules a definition that code could get wrong is
preceded by a faulty form (`GiveBackUnchecked` before `GiveBack`): it is not
used by the specification, and is there so that each property can be seen to
fail when the code is changed in that way.

**CandidateQueue** is the queue with the protocol its caller follows: take, run,
hand back or not, finish one microtask later; pushes, trims and clears may come
between any two of these. `dropped` is history: the sequence numbers the queue
gave up on. Its definitions carry the queue's name (`QueueNext`, `QueueSpec`), since
the scheduler's module extends it.

**RuntimeLease** has several hosts and one wall clock. A host is one scheduler
object, because its owner id is a fresh UUID: a restarted process is another
host. A host that takes no step is a suspended process. `order`, `fencedBy` and
`writtenBy` are history: they rank the acquisitions, which the generations in
the row do not, since `releaseLease` deletes the row and the next owner starts
at generation 1 again. Its specification is `LeaseSpec`, beside `Spec` of
ReviewSchedule: the two are proved about in one module.

**ExplainScheduler** composes the scheduler with the queue
(it extends CandidateQueue, whose variables are its own too). A handler is one action.
One that kicks the drain leaves `drain = "entered"`, and then nothing but the
drain's decision may run (`Quiet`): that is how the model keeps synchronous code
atomic and splits it at every `await`. `refresh` tells where
`refreshRouteUntilCurrent` is, `configuring` which configure call awaits it,
`resetting` where `resetLearningData` is. The epoch is only ever compared with
captured copies, so a copy is kept as "still current or not". Of the store the
scheduler sees the Sessions with an open explanation, those waiting for a
rephrase, the review questions, and whether there is a batch to compact.
`Start` models `mustRoute` including its throw.

**ExplainTimers** is the scheduler once more, in time. Time is relative: the
model keeps how long ago each request and the learner's last action were and how
long a timer still runs, so that a run has no last tick; a timer may fire late,
never early. The jobs of ExplainScheduler are reduced to kinds, candidates to two
counters (those whose Session has an open explanation, and the others). The
epoch and the two generations are only compared with captured copies:
`flight.aborted`, `flight.fresh` and `attempted` ("current", "old", "none") say
what a comparison would give. `ScheduleIdle` is the last word of the actions
whose handlers end with it. `begun`, `unscheduled` and `overtaken` are history.

**ExplainSettings** is the settings' path from a form or a command to the
scheduler: the page's draft with the revision it was filled from, the lookup of
the route, the host's compare-and-swap, the callback that starts a
`synchronize`, and the chain in which each job waits for the one before it and
reads the document only then. `Edit` is another writer of the host's document.
The import of old settings is four steps, since it waits for the loader, the
files, the host's write and the marker; `Restart` may come between any two.
Of the fields the switch and the route are told apart, the others are one value.

**SourceCapture** has Sessions whose history grows event by event along one of
some scripts, and captures that read it backwards. A page is anything the host
may answer with: it may end anywhere, reach above the cursor, contain packed
chunks, or, with `stalls`, stop going lower. `Collects` is the loop of
`captureEligibleSourceCapsule`, `Look` that of the searches around it; a capture
that finds nothing usable goes on where the search was. Sessions of subagents,
which are ignored at once, and the normalisation of searched text are left out.

**SourceBounds** is `boundCapsule` with its callers, on lengths instead of texts:
what the capsule of a turn, the target of a request and the stored summary keep
of texts, tool names and previews, and what they say about it. Its names are its
own (`BoundsSpec`, `BoundsTypeOK`), so that it stands beside SourceCapture.

**ReviewSchedule** takes over where LearningThread keeps only whether a topic is
due: stage, streak, the days until the next review, the order in which topics
fall due, the latest attempts and the questions of the round. `since` is history.

**LearningThread** has the tables of the thread. Results of the model come late,
so a commit may name any Session, revision or question there has ever been; its
guards are the re-checks inside the transaction. A refused operation is a
stutter. **TopicLifecycle** is the abstract specification, what a learner is
promised about a topic: explained before it can be mastered, mastered only by
the learner's word, never asked about while it is explained or after it was
reopened. `LearningThread` implements it with `life <- Life, asked <- Asked`.

**LearnerContext** has the inputs of the learner's context, the checkpoints, and
the profile. `Capture`, then `CommitCheckpoint` or `CompactionFails`, are
`compactOnce` around its model call; `UpdateLearnerProfile` is one transaction
with its replay, compare-and-swap, source and precedence checks; `Shown(f)` is
what the overview shows of field `f`. An observation is its field and the
instant of the answer it came with. Idle and pressure compaction are the same
action here (when they run is the scheduler's matter). `Clear` needs only that
the clearing host itself is quiet (`ClearIsQuiescent` of the scheduler) and no
lease, so another host may be compacting. Texts, values, confidence and
`throughOrdinal` are left out; a review answer moves the same counters as
`Understood` and is left out too.

**LearningStore** is the browser's store and the host as it sees it. Reads travel
on one connection: the host handles them in the order of the calls and answers
in that order. The data the host shows is as new as its cursor, so data is
identified by the cursor it was read at (`view.seen`), apart from the thread's
entries, which paging depends on. Each generation of mounts has its watch loop
(`loop[g]`). The pages of one refresh are read in one step. The reload of the
model catalog is a wait of unknown length. A mutation kind is one request at a
time; older pages may be asked for again while one is on its way (`OlderCall`), since
neither the store nor its button prevents it.

Every module that is run has an `MC` module beside it, which adds symmetry sets
and constant definitions, and the `.cfg` files give the constants their values.
**MCSourceObserver** puts the two halves of the observer into one instance: what
cuts a text reads nothing of the captures, so a behaviour takes one side, the
captured turns, a search, or the cuts.

## 3. The runs

The runs that `PROJECT.json` lists are repeated with every change; every property
of a passing one has a fault there ("mutants") under which the run fails.

| run | instance | what it shows |
|---|---|---|
| queue | 3 Sessions, caps 1 and 2, 4 pushes, 2 instants, 2 attempts | `CapHolds`, `NoResurrection` |
| lease | 3 hosts, a day of 2 ticks, a lease of 1, 2 requests, limit 1 | `RollingBudget`, `FencedSuccession`, and with a fair heartbeat `LoserNotices` |
| scheduler | 1 Session, 2 turns, 1 explicit request, one change of settings or learning state | `OutcomeMatchesStore`, `ClearIsQuiescent`, `QueueProtocol` (it implements `CandidateQueue`), and under fairness `JobsSettle`, `ResetCompletes` |
| scheduler_review | 1 Session, 1 review answer, a batch to compact, two changes | `NoLostWakeup`, `FailedArePending`, `FreshCommits` |
| scheduler_route | 1 Session, 1 turn, 1 request, two changes | violation: `RouteBeforeWork` |
| thread | 2 topics, 2 Sessions, 3 explanations, 2 questions, 3 request ids, revisions to 2, one clear | `OneConversation`, `RoundIsOpen`, `KeepsPromise` (it implements `TopicLifecycle`), `RetryChangesNothing` |
| context | 2 hosts, a dimension and a topic, 2 edits, 4 commits | `NothingSurvivesClear`, `NeverCoveredTwice`, `FreshCheckpoint`, `ForgetStays`, `AuditTells`, `AppliedOnce` |
| client | 2 views, pages of one entry, 2 entries, 2 older pages asked for at a time, a clear, 3 generations, one failure, 3 revisions | `OneLongPoll`, `NoGhosts`, `CaughtUp`, `SettledIsShown`, `NothingSlipsOut` |
| timers | an idle time and a day of 2 ticks, limits 1 and 2, 1 candidate, explicit requests, reviews, rephrases, profile edits | `IdleArmed`, `BudgetArmed`, `ParkedUntilActivity` |
| settings | 1 page, 1 command, 2 routes of which one resolves, edits, an import, 2 revisions, a restart | `ToldIsApplied`, `FormLosesNothing`, `OverridesSurvive` |
| observer | 1 Session, 2 scripts of up to 3 turns, pages of up to 3 records, 3 changes of the epoch; a search with learning off; 7 limits from 1 to 40, 3 lengths, up to 3 tools of 4 kinds | `WholeTurn`, `ReadsOneCut`, `NothingFromBefore`, `WellCut` |
| reviews | 2 topics, intervals of 1 and 2 days, rounds of 1 | `Spaced`, and under fairness `DueIsAsked` |

More configurations are kept for a reader and not listed there, to keep the
listed ones few. Each is run by hand, `tlc -config X.cfg M`, where `M` is the MC
module of the component:

| configuration | module | what it shows |
|---|---|---|
| `MCTimersLiveness` | `MCExplainTimers` | under fairness `IdleRuns`, `BudgetReopens` |
| `MCSettingsLiveness` | `MCExplainSettings` | under fairness `RequestsSettle` |
| `MCCaptureLiveness` | `MCSourceCapture` | `QueuedOnce`, and under fairness `CapturesEnd`, `CommandsAnswered` |
| `MCLeaseReview`, `MCSchedulerClaims` (of two, one at a time), `MCContextJudgement`, `MCStoreConverged`, `MCTimersEnable`, `MCTimersClaims` (of four, one at a time), `MCSettingsReset`, `MCSettingsCommand`, `MCCaptureOrder`, `MCBoundsTarget`, `MCReviewNextDue` | of the component | a counterexample to the one property it names (section 6) |

Every module has a type invariant, `TypeOK`, which holds the constraints of the
schema where it has tables. Of all but TopicLifecycle (the abstract specification)
it is a theorem (section 5), and so are `QueuedOnce`, `RetainedBounded`, `ReviewsAskMastered`, `MasteredIsReviewable`,
`ThreadComplete`, `ChainAgrees`, `FormEnablesResolved`, `AllKinds`,
`NoOrphanJobs` and `EveryChangeSignals`, which for that reason are in no run.

Why the bounds are enough for the cases that matter:

- *queue*. Three Sessions under a cap of two is the least in which a candidate
  that comes back meets a full queue of others; four pushes let one Session's
  candidate be replaced while another's is in flight.
- *lease*. A suspended owner, one that took over, and one that acquires after a
  release (which restarts the generations) are three hosts. With a limit of one,
  two requests and a day of two ticks, a request falls inside, at the edge of,
  and outside the window of another. The run with two hosts that the review
  commit needs is smaller because it needs no budget.
- *scheduler*. `MaxWorld` bounds changes of settings, feedback and clears
  together. Route refreshes, heartbeats, timers, caller aborts, lowered limits
  and duplicate feedback are not bounded. One explicit job meets a turn, a
  change and a clear at every step. Two changes (in the second run) put an
  enabling behind a switching off; in the run of `RouteBeforeWork` they are an
  enabling and a not-understood. Two explicit jobs at once are not covered.
- *thread*. Two topics make a round of two questions, of which one can be
  withdrawn by the other's topic; three explanations allow a topic to be
  mastered, explained once more and explained to another Session. One clear
  puts request ids and topics of two eras side by side.
- *context*. Four commits are enough for decide, forget, decide again, compact;
  or decide, clear, decide, compact by a host that captured before the clear; or
  set, forget, set with the same request again. `MaxEvidence = 1` (8 in the code)
  lets a profile cite an observation, an entry, or nothing.
- *client*. Three generations are mount, unmount, mount again; with two views the
  second comes and goes under the watch of the first. Pages of one
  entry make the second page meet a refresh of the first, and two that are asked
  for at a time may both be on their way when it arrives (the two calls are
  symmetric; the run has no liveness property). One failed call may be
  any of them, at any time. `AtRest` says that nothing the browser asked for is
  on its way: no call, no answer, no loop that has something to do, and no poll
  the host could answer. TLC agrees that these are the states in which no step of
  `Progress` is enabled. `CaughtUp` and `Converged` speak of what a view at rest
  shows, so that they are safety properties and need no fairness.

- *timers*. Two slots, kept newest first, make "the earliest request leaves the window" differ from
  "the latest"; two ticks of idle time make "since the last action" differ from
  "from now on". One candidate is enough for a budget that holds one back.
- *settings*. A page, a command and an edit from elsewhere give a writer two
  others to overwrite; the chain gets up to three jobs. Two revisions let the
  document change between the filling, the lookup and the write; a restart after
  the import's write and one after a reset are the same restart.
- *observer*. The scripts have a turn that completes, one that ran out of tokens,
  one without text, one without a step, a packed chunk, text before any turn, and
  the same text in two turns. Pages of three records cut a turn of five at every
  place as they move. Three changes of the epoch are disabling, enabling, and
  a reset or a change of settings. A search meets a session that goes on, not
  the changes of the epoch: it reads none of them before it has its answer. The
  limits of the code (24,000 characters, 2,000 of a summary's text,
  160 of a name, 32 names) are shrunk so that every case of `boundCapsule` occurs:
  a limit below 4, names that alone fill it, previews that do not fit, and texts
  shorter than, as long as and longer than their share.
- *reviews*. Two topics and rounds of one let a topic be passed over. Two
  intervals have a first, a last and a step between. Days have no bound: waiting
  times count down to zero. Rounds of any size, in which one question's topic
  takes another's along, are left to the proofs.

Deadlock is not checked except in *queue*, *timers* and *settings*: in the other instances the bounds stop
the system, and a disposed scheduler or an unmounted view may really stop.

## 4. Fairness

- `LeaseFairSpec` of RuntimeLease has weak fairness of `Renew` for each host: the
  heartbeat is an interval timer that is armed from the constructor to dispose,
  and a process that is neither stopped nor dead runs it. A stopped or dead
  host does not enable `Renew`. Nothing else is fair: no host has to start, and
  the clock may stand still.
- `ExplainScheduler!FairSpec` has weak fairness of the drain's own steps and the
  steps of a request (`LoopStep \/ RunStep`), and of `ResetEnds`. A request ends
  because every model call has a timeout (`timeoutMs`, combined with the abort
  signals), the drain's steps are microtasks, and the rest of
  `resetLearningData` is the continuation of the drain's promise. Route
  resolution, timers, users and settings are not fair.
- `ExplainTimers!FairSpec` has strong fairness of the clock, of each timer, of a
  route's lookup and of the end of a request, because between any two of them
  other tasks may run, and weak fairness of the drain's microtasks and of the
  continuations of enabling and clearing. Learner and settings are not fair.
- `ExplainSettings!FairSpec` has fairness of what the host and the promises do,
  the write, the lookup, the chain; nobody has to save or to edit anything.
- `SourceCapture!FairSpec` has weak fairness of the captures: a page arrives or
  the call fails.
- `ReviewSchedule!FairSpec` is about a learner who keeps reviewing: days pass,
  rounds are begun, questions are answered. No code makes the learner do so; the
  property says that the order of the rounds then starves no topic.

## 5. The proofs

TLC sees small instances. The eight `...Proofs` modules hold for every value of
the constants under the named assumptions of the modules: the sets of Sessions
and topics are finite, caps, attempts, limits and durations are positive and bounds are natural numbers, `None`, `Never`,
`NoRun` and `NoCandidate` are no values of the sets they stand beside
(`NoneAssumption`, `NeverAssumption`, `NoRunAssumption`, `NoCandidateAssumption`,
`NoTextAssumption`, `FingerprintAssumption`, `CheckpointAssumption`), dimensions are no topics
(`FieldAssumption`), a manual job is no review job and each has a Session or a
question as its subject (`JobAssumption`, `SubjectAssumption`), a page is no command
(`WriterAssumption`), a command is no end of a turn (`CommandAssumption`), the
absence of a refresh is no refresh (`RefreshAssumption`), the intervals between
reviews begin with a day and never get shorter (`IntervalAssumption`). The others give an instance's
inputs their ranges. Of the environment nothing is assumed: not how hosts crash,
how the model answers or in which order calls end.

**The queue**, first section of ExplainSchedulerProofs: `QueueInvariant`,
`QueueIsTyped`, `QueueStaysInCap` (of `CapHolds`), `QueueResurrectsNone` (of
`NoResurrection`) and `QueueRetainsFew` (of `RetainedBounded`), about any
specification of the queue's protocol, not only the scheduler's. `QueueInv` adds to
the properties what makes them inductive: `Consistent` (every queued candidate is the latest of its Session, no two
Sessions retain the same number, all numbers were handed out before) and
`HeldOK` (a candidate in flight that is not queued anew finds either itself or
nothing retained). Without the latter, a candidate handed back could meet a
number that belongs to a turn that was never queued. The heart is `TrimBound`:
evicting all sources with at least `cap` younger ones leaves at most `cap`. The
earliest survivor (`EarliestExists`) has fewer than `cap` younger ones and every
other survivor is among them, so the library's theorems on cardinality give the
bound without an induction; one `...Step` lemma follows for each operation.

**The lease**, first section of StoreProofs: `LeaseTypesCorrect`,
`FencedSuccessionCorrect`, `RollingBudgetCorrect`. For fencing the invariant is
`LeaseInv`: the row's owner is the host that acquired last. A commit asserts that its host owns the row, so
its rank is the highest so far; the generation alone would not do, since it
starts over. For the budget it is `BudgetInv`: every request sent within the
last day still has its row, so counting rows counts requests. No assumption is
made on how the hosts crash.

**LearningThreadProofs**: `TypeCorrect`, `OneConversationCorrect`,
`ReviewsCorrect`, `RoundCorrect`, `ReviewableCorrect`, `ThreadCorrect`, and
`PromiseKept`. `IInv` is the conjunction of all of them: `ReviewsAskMastered`
needs `OneConversation` to know which explanation a feedback closes,
`RoundIsOpen` needs that open questions belong to the active round, and
`MasteredIsReviewable` needs that closed explanations stay. `PromiseKept` maps
each step to a step of `TopicLifecycle` or a stutter, one `...Refines` lemma for
each action, and uses the invariant for the step `StartReview`.
`RepeatsAreHarmless` (of `RetryChangesNothing`) rests on `Spent`: the record of
an accepted request is there, or a clear deleted it, and then also what it was
about, an explanation that is deleted or a topic of an earlier era. Ids are not
given out again (`Aged`), so what was deleted is not met under its id.

**ExplainSettingsProofs**: `Types`, `SavesWhatWasSeen` (of `FormLosesNothing`),
`EnablesWhatWasResolved`, `ImportKeepsOverrides`, `NoChangeLost` (of
`ChainAgrees`) and `ToldMeansApplied`, for any pages, commands, routes, revisions
and restarts. Each rests on an invariant of its own. `Seen`: a draft that was
filled from the current revision shows the current document, so a write that
names its revision overwrites what its user has seen. `Fresh`: the keys the
import has found missing are missing as long as the revision is the one it read.
`LastAgrees`: the last job of the chain leaves the runtime with the document's
settings. `ToldMeansApplied` needs that a writer has one job in the chain, and
that the one being served was read after its write (`Queued`, `Served`); the
lemma `ServedFirst` follows a job from the end of the chain to its head.

**The review schedule**, second section of StoreProofs: `Types`, `Spacing` (of `Spaced`) and `Rotation` (of
`AllKinds`), for any topics, intervals, sizes of a round and lengths of the trail.
For spacing the invariant ties the days since the last answer and the days left
to what the answers have earned, through pauses, cancelled rounds and answers
that come late. For rotation it follows the trail: whatever stands behind a
mastered attempt is of the next kind, and a question waiting in a round is of
the kind its topic's trail asks for.

**ExplainSchedulerProofs**: `KeepsTheProtocol` maps each of the scheduler's steps
to one of `CandidateQueue` or a stutter (of `QueueProtocol`). The queue's theorems
are then the scheduler's too (`QueueKeepsItsPromises`), so no argument about the
queue is made twice.
`SchedulerInvariant` is the scheduler's own: `Placed` (the drain is busy exactly
while a request is in flight, and holds a candidate only then), `Jobs` (a queued
job stands in its line once, the active one is the one in flight), `Based` (a
request nothing aborted was made under the settings and the learning state of
now), `Routed`, `Fenced` (after a clear has begun no capture will be accepted)
and the properties themselves. From it `WakeupsAreKept`, `JobsAreServed`,
`OutcomesAreTrue`, `MarksArePending`, and for steps `CommitsAreFresh` and
`ClearsAreQuiet`. Lost wakeups need two more things of each step, which are stated
apart: what leaves a ready scheduler asleep brings no work (`SleptByUser`,
`SleptByHost`), and what the host does keeps the drain going or settles the jobs
(`KeepsGoing`). `TypeCorrect` gives the types of the rest. The theorems are about
any number of explicit jobs, where the runs have one.

**ExplainTimersProofs**: `TypeCorrect`, `IdleTimerIsArmed`, `BudgetTimerIsArmed`
and `FailureIsParked`. `IdleReady` and `BudgetReady` say of a drain that is about
to rest what the properties say of one that rests, since the timers are armed
just before. The idle timer needs `Backed` (something to compact comes of an
action of the learner, so the idle clock is set) and `OffHasNone`. The budget's
timer needs that the window only gets older: the lemmas `ResumeInBound` and
`OpensWithASlot` relate the timer's span to the request that leaves the window
first, for any limit.

**LearnerContextProofs**: `Covered` is `DeletedStaysDeleted` (of
`NothingSurvivesClear`) and `CoverageIsUnique` (of `NeverCoveredTwice`) with types,
`Clocked` (nothing in the store is dated ahead of it) and `Eras`: a host's batch
was captured since the last clear, or names nothing that is in the store. Without
`Eras` the comparison of generations, which start over, would not do; that ids
are not reused is what makes up for it. `CheckpointIsFresh` follows for steps.
`Profiled` is about the profile: `Sent` (a recorded edit is one a learner may
send), `HasLast`, `Hidden` (a forgotten field without a value of its own hides
the inferences at least through the instant of forgetting) and what the audit
says of each field; it gives `AuditTellsTheProfile`, `ForgottenStaysForgotten`,
`EditsApplyOnce` and `ChangesAreSignalled` (of `EveryChangeSignals`).

**LearningStoreProofs**: `TypeCorrect`, `PollsOnce` (of `OneLongPoll`),
`ShowsNoGhosts` (of `NoGhosts`), `Settles` (of `SettledIsShown`), `LosesNothing`
(of `NothingSlipsOut`) and `CatchesUp` (of `CaughtUp`), for pages of any size and any
number of mounts, generations, calls for older pages and failures. `Inv` says what travels on the connection and who waits for it. `Typed`
gives the two lines their messages. `OneRead`: a refresh has one read of pages on
its way, after its status. `OneAnswer`: a mutation is answered once. `Ghostless`:
after what was read at the host's present cursor comes nothing from before a clear,
neither on the view nor on the connection, where a refresh that has read the status
since the clear still has its own data behind all that is older. `Awaited`: a mutation that waits for a
refresh waits for one that reads no older than its commit. `Covered`, for
`LosesNothing`: what is on display and what is on its way has been in the thread
(`Past`), and the pages a refresh brings cover it: of what the view shows, and of
what answers ahead of them will add to it, they leave out only entries older than
all of their own, and then say that there are more (`Covers`). The host adds
entries at the new end alone, so this holds from the read to the arrival, across
clears; how many there must be is what `TooFew` sees to. `Polls`: only the loop
of the present generation polls, by the controller in force. For `CatchesUp`:
`Brought`, a refresh that has its status has its pages under way; `Running`, the
loop of the present mount goes on, and one that waits for a refresh has one;
`Ordered`, the cursors of mutations' answers rise from the last one adopted to the
host's; `Forward`, what a refresh read is as new as the view and as its own status;
`Caught`, what the view shows or has adopted reaches its cursor and every poll's.
None of the five does without the others: the loop polls from the view's cursor
because the last refresh, or the last answer, brought data as new. A failed or aborted
call takes its messages off the lines; the lemma `WithoutKeeps` says that the rest
keep their order, by the lemma `Induction`, which takes a set of numbers where the
library's theorem takes an operator.

**The captures**, first part of SourceProofs: `CapturesAreTyped`, `CapturesWholeTurns` (of `WholeTurn`),
`SearchesReadOneCut` (of `ReadsOneCut`), `NothingIsFromBefore` (of
`NothingFromBefore`) and `QueuesOnce` (of `QueuedOnce`), for any histories, any
sizes of a page and any page the host may answer with. They follow from
`CaptureInv` (theorem `CaptureInvariant`). A list of records is described by what
it holds and how it is ordered (`Lists`, `Descends`), and there is one such list of
a set (`ListedOnce`), so that two ways to make it can be compared. `Remains(s, r, pos)`
says of a reader that its buffer and what lies below its cursor are together every
event before `pos`; `PageTurned` keeps it for every page, also one that reaches
above the cursor. A capture that collects a turn (`Gathers`) has every event from
its cursor to the end and no start of the turn yet, hence the whole turn when it
meets the start. A search owes `Promise(j, pos)`, what there is to find before its
position, which is at every step what it was asked for at its cut (`Goal`): a turn
that comes to nothing, and an event that is no hit, take nothing from it. That is
`Sound`, for each capture; `SoundStays` says that a history that grows does not
touch it. `Known`, `Admitted` and `Queued` count the captures of an end and the
commands that wait; `Waiting` holds what is queued to the last sweep.

**The cuts**, last section of SourceProofs: `CutsAreTyped` (of `BoundsTypeOK`) and
`CutsAreWell` (of `WellCut`), for every `maxSourceChars` from one character on, all
texts and any tools. The bound of a capsule is by parts: `CutFits` for one text,
`ToolsFit` for the tools, whose names and previews and the room they leave never
exceed the room there was (`Roomy`), and `Shares`: the shares of a limit, rounded
down and with at least one character for the answer, add up to it.
`BoundsInv` also says what a turn and what has been cut is made of (`Speech`), since
a capsule is cut again as part of a target and once more for the summary. The sum
over the tools, the tools that are kept and the names that are kept are recursive
functions; for each a lemma shows that there is such a function (`SumExists`,
`FitExists`, `NewExists`).

Every safety property of a run is a theorem. Only model-checked are liveness
(`LoserNotices`, `JobsSettle`, `ResetCompletes`, `DueIsAsked`, and those of section
3's second table), which is outside what the prover does, and what section 6 names.
Where a recursive function goes through a list (`Without` of the browser store,
`Those` of the capture, the sums and choices of the cuts), the induction is on a
set of numbers (lemma `Induction`): the library's theorem takes an operator, which
the provers cannot instantiate, and neither `SelectSeq` nor a fold can be expanded.

## 6. Where code and documents disagree

For each there is a configuration under which TLC finds a counterexample; the
first is a run of `PROJECT.json`, the others are in section 3's second table.

1. **An enabled scheduler without a route** (`scheduler.ts:818`, run
   *scheduler_route*). Learning is enabled and its first route is being resolved
   when a not-understood arrives. `learningStateChanged` kicks, `kick` does not
   ask for a route (`scheduler.ts:397`), the drain takes the rephrase and the
   assertion in `mustRoute` fails; the rephrase stays pending, so that the drain
   is started again, and fails again, until the route arrives. There is a
   second way to be enabled without a route (`scheduler.ts:368`,
   `MCSchedulerClaims`: `RefreshBringsRoute`): learning is switched off while a route is resolved, and
   on again between the refresh's leaving its loop and the dropping of its
   promise. The enabling joins a refresh that has already given up, and ends
   without a route and without a failure.
2. **A stalled owner commits a review answer** (`store.ts:1112`,
   `MCLeaseReview`). `docs/ARCHITECTURE.md:327` says every commit of a model
   result checks the owner; `commitReviewAnswer` takes no token. A host that was
   suspended during the evaluation writes after a later owner has.
3. **A repeated not-understood aborts its own rephrase** (`gateway.ts:196`,
   `MCSchedulerClaims`: `DuplicateKeepsRephrase`), against `docs/ARCHITECTURE.md:297`.
4. **A view that does not converge** (`learning-store.ts:330`,
   `MCStoreConverged`). A saved setting, or a clear, brings the newest cursor
   with its answer; when the refresh that follows fails, the loop polls from
   that cursor over older data and, after the long poll's timeout, does so again
   without a refresh. The view shows an error with a button, but only that or a
   later change repairs it, against `docs/ARCHITECTURE.md:507-509`.
5. **A newer observation is hidden by an older checkpoint** (`store.ts:1741`,
   `MCContextJudgement`). A batch that does not fit is cut from its new end, and
   the checkpoint made of the rest hides the newest observation, because the
   profile compares creation times and not coverage. After a forget the field
   shows nothing although a new judgement has formed,
   against `docs/ARCHITECTURE.md:104`.
6. **Enabling does not arm the idle timer** (`runtime.ts:271`,
   `MCTimersEnable`). `recordEnableAction` moves the activity generation after
   `configure` has scheduled by the old one; nothing schedules after it. A batch
   that was tried and failed under the old generation waits for the next change,
   against `docs/ARCHITECTURE.md:362-364`.
7. **Idle compaction starts twice under one pair of generations**
   (`scheduler.ts:488`, `MCTimersClaims`: `OneIdleAttempt`). An autonomous answer clears
   `idleAttempted` although it moved neither, against `docs/ARCHITECTURE.md:364`.
8. **A candidate that waits for the budget without a timer** (`scheduler.ts:399`,
   `MCTimersClaims`: `BlockedHasWakeup`), when a failed runtime recovers between the drain's return
   and its finally block, against `docs/ARCHITECTURE.md:294`.
9. **A stopped scheduler arms a timer** (`scheduler.ts:729`, `MCTimersClaims`: `StoppedIsSilent`):
   `dispose` clears the timers before it awaits the drain, whose idle compaction
   schedules again. The comment at `scheduler.ts:353` says it stops them; the
   timer's callback does nothing by then.
10. **A checkpoint is committed after its signal** (`compactor.ts:43`,
    `MCTimersClaims`: `CheckpointIsCurrent`). `compactOnce` looks neither at the signal nor at the
    switch between the answer and the commit, against
    `docs/ARCHITECTURE.md:305-318`. The context it was made of is checked.
11. **A reset is undone by a second import** (`settings-migration.ts:47`,
    `MCSettingsReset`). The marker of line 49 is written after the settings; if
    the host stops in between, the next start imports again.
12. **A command turns on a route nobody has checked** (`runtime.ts:196`,
    `MCSettingsCommand`), against `docs/ARCHITECTURE.md:562-563`: the route is
    resolved, and the switch alone is written, without a revision.
13. **An earlier turn replaces a later one** (`index.ts:82`, `MCCaptureOrder`),
    against `queue.ts:12`: the queue numbers candidates by when their captures
    ended.
14. **A cut that is not told** (`observer.ts:201`, `MCBoundsTarget`): the target
    of a request about a turn that was cut says it is whole if the rest fits,
    against `docs/ARCHITECTURE.md:217`. In the same way the stored summary does
    not tell that the capsule had dropped tools (`store.ts:2427`, :241).
15. **A next review that is not asked** (`store.ts:972`, `MCReviewNextDue`): the
    dashboard's `nextDue` counts topics that are being explained,
    `docs/ARCHITECTURE.md:110` leaves them out.

Smaller observations, visible in the models:

- The lease's generation starts at 1 again after a clean release
  (`store.ts:466`), although `docs/ARCHITECTURE.md:322` calls it one that never
  goes back. The owner's UUID keeps two owners apart, as `FencedSuccession`
  shows.
- An explicit answer that is complete when its caller aborts is committed
  (`scheduler.ts:530`).
- A successful route refresh clears the failure a lost lease has left, until the
  next heartbeat.
- Withdrawing a review question withdraws the whole round.
- `loadOlder` asks below the oldest entry of a snapshot that a refresh may
  replace meanwhile; with pages of one and three entries the view may lack an
  entry between two pages until the next refresh.
- A profile item without evidence passes both checks of a checkpoint, although
  `docs/ARCHITECTURE.md:386` rejects preferences nobody can trace; once its field
  is forgotten it is hidden for ever.
- A profile edit does not fence the request in flight: what that request
  observes of a turn before a forget counts as evidence from after it.
- Below four characters of `maxSourceChars`, which the settings' minimum of 1
  allows (`config.ts:54`), a request's share of the limit is none
  (`observer.ts:298`): `RequestKept` starts at four.

## 7. What is not modelled

The rendering and strict parsing of prompts and model output, redaction and the
other regular expressions over text, message compatibility, command texts, the
export, and React rendering are data without control the properties could tell
apart. Of the gateway the mutations that tell the scheduler something are
modelled, the projections are not. Of the settings the switch and the route are
told apart; the other fields are one value, since they take the same path. The
first two schema versions only add empty tables. Sessions of subagents are
ignored by the plugin at once. The wall clock is assumed not to go back, and a
model call to take longer than a millisecond. The Remote transport, the event
loop, the providers, the host's settings service and history pages, and the
process that dies are external and are modelled as the code uses them. In
`LearningStore` the host's two other cursors (incarnations) do not occur: a
restarted host gives a new cursor, which is a change like any other.

The components are checked one by one, apart from the scheduler with its queue.
The scheduler is modelled twice, by jobs and in time, because the product of the
two is out of reach; the queue's candidates are two counters in the second.

## 8. The plan

The parts of the system that keep state are modelled, and every safety property of
a run is proved. What is left, in this order:

1. Runs of their own for the paging gap and for profile items without evidence,
   and an instance of the scheduler with two explicit jobs.
2. The language of a checkpoint, which a change of the setting makes out of date.
