-------------------------- MODULE ExplainScheduler --------------------------
(***************************************************************************)
(* The scheduler of src/src/scheduler.ts on its event loop, over the queue  *)
(* of CandidateQueue. Handlers run to completion: one that kicks the drain  *)
(* leaves it "entered", and nothing else runs until the drain has made its  *)
(* decision. Wherever the code awaits, other handlers may come in between.  *)
(* The epoch is compared with captured copies only, so each copy is kept as *)
(* whether it is still current; a run's is its aborted flag, because         *)
(* cancelCurrent aborts whenever it raises the epoch.                       *)
(***************************************************************************)
EXTENDS CandidateQueue, Sequences

CONSTANTS ManualJob,   \* calls of requestManual, each on one Session
          ReviewJob,   \* calls of requestReviewAnswer, each on one question
          Question,    \* review questions waiting for an answer
          Subject,     \* the Session or question of a job
          Compacts,    \* whether closed explanations make a compaction batch
          MaxWorld,    \* bound on changes to settings and learning state
          NoRun        \* no request in flight

Job == ManualJob \cup ReviewJob
ASSUME SubjectAssumption ==
  \A j \in Job : Subject[j] \in IF j \in ManualJob THEN Source ELSE Question
ASSUME JobAssumption == ManualJob \cap ReviewJob = {}
ASSUME CompactsAssumption == Compacts \in BOOLEAN

VARIABLES enabled, cap,
          budgetOpen,   \* autoBudget reports a free slot
          routed,       \* a route is resolved
          refresh,      \* the routeRefresh promise
          configuring,  \* the configure call that awaits it
          failed, stopped, resetting,
          manualQueue, reviewQueue,
          state,        \* state[j]: what the caller of j sees
          signalled,    \* active jobs whose caller has aborted
          capture,      \* capture[s]: a settled turn of s being read
          run,          \* the request in flight
          drain,        \* where the drain is
          failedRephrases,
          budgetTimer, idleTimer,
          idleTime,     \* idleCompactMs have passed since the last action
          attempted,    \* idleAttempted names the current generations
          open,         \* Sessions with an active explanation
          rephrasing,   \* those of them that wait for a rephrase
          questions,    \* unanswered review questions
          compactable,  \* compactionBatch returns a batch
          world,        \* history: changes to settings and learning state
          written       \* history: jobs whose result the store accepted

settingVars == <<enabled, cap, budgetOpen>>
routeVars == <<routed, refresh, configuring, failed>>
lifeVars == <<stopped, resetting>>
jobVars == <<manualQueue, reviewQueue, state>>
timerVars == <<budgetTimer, idleTimer, idleTime, attempted>>
storeVars == <<open, rephrasing, questions, compactable, world, written>>
vars == <<queueVars, settingVars, routeVars, lifeVars, jobVars, signalled,
          capture, run, drain, failedRephrases, timerVars, storeVars>>

Run == [kind : {"manual", "review", "rephrase", "auto", "idle"},
        of : Job \cup Source \cup {NoRun}, aborted : BOOLEAN,
        fresh : BOOLEAN,  \* the context generation has not moved since
        stage : {"relieving", "asking"}, basis : Nat]
ASSUME NoRunAssumption == NoRun \notin Run

TypeOK ==
  /\ QueueTypeOK
  /\ enabled \in BOOLEAN /\ cap \in Caps /\ budgetOpen \in BOOLEAN
  /\ routed \in BOOLEAN /\ failed \in BOOLEAN /\ stopped \in BOOLEAN
  /\ refresh \in {"none", "resolving", "outdated", "leaving"}
  /\ configuring \in {"no", "enabling", "changing"}
  /\ resetting \in {"no", "now", "waiting", "stale"}
  /\ manualQueue \in Seq(ManualJob) /\ reviewQueue \in Seq(ReviewJob)
  /\ state \in [Job -> {"new", "queued", "active", "ok", "failed"}]
  /\ signalled \subseteq Job /\ written \subseteq Job
  /\ capture \in [Source -> {"none", "current", "stale"}]
  /\ run \in Run \cup {NoRun}
  /\ drain \in {"none", "entered", "loop", "running", "throwing", "ending"}
  /\ budgetTimer \in BOOLEAN /\ idleTimer \in BOOLEAN
  /\ idleTime \in BOOLEAN /\ attempted \in BOOLEAN /\ compactable \in BOOLEAN
  /\ open \subseteq Source /\ rephrasing \subseteq open
  /\ failedRephrases \subseteq Source
  /\ questions \subseteq Question /\ world \in Nat

\* The state in which start() returns and the plugin publishes its gateway:
\* with stored explanations and rephrases of earlier runs, and with the drain
\* that a first successful refresh kicks.
Init ==
  /\ QueueInit
  /\ enabled \in BOOLEAN /\ routed \in BOOLEAN /\ (routed => enabled)
  /\ failed = (enabled /\ ~routed)
  /\ cap \in Caps /\ budgetOpen \in BOOLEAN
  /\ refresh = "none" /\ configuring = "no"
  /\ stopped = FALSE /\ resetting = "no"
  /\ manualQueue = <<>> /\ reviewQueue = <<>>
  /\ state = [j \in Job |-> "new"] /\ signalled = {}
  /\ capture = [s \in Source |-> "none"]
  /\ run = NoRun /\ drain = (IF routed THEN "entered" ELSE "none")
  /\ failedRephrases = {}
  /\ budgetTimer = FALSE /\ idleTime \in {FALSE, Compacts} /\ attempted = FALSE
  /\ open \in SUBSET Source /\ rephrasing \in SUBSET open
  /\ questions = Question /\ compactable \in {FALSE, Compacts}
  /\ idleTimer = (routed /\ compactable)
  /\ world = 0 /\ written = {}

-----------------------------------------------------------------------------
\* Between two handlers.
Quiet == drain # "entered" /\ resetting # "now"

\* A timer is a task of its own: it never fires between two microtasks.
TimerTask == Quiet /\ drain \in {"none", "running"} /\ refresh # "leaving"

\* The guard of kick and of every turn of the drain's loop; the fault forgets
\* the clear that waits for the drain.
GoingDuringReset == enabled /\ ~failed /\ ~stopped
Going == enabled /\ ~failed /\ ~stopped /\ resetting = "no"

\* isCurrent for the run in flight; the fault forgets to look at the signal.
CurrentUnlessOff == enabled /\ ~stopped /\ resetting = "no"
Current == ~run.aborted /\ enabled /\ ~stopped /\ resetting = "no"

Aborted(keeps) ==
  IF run = NoRun THEN NoRun
  ELSE [run EXCEPT !.aborted = TRUE, !.fresh = @ /\ keeps]

\* cancelCurrent: raise the epoch and abort.
CancelCurrent(keeps) ==
  /\ run' = Aborted(keeps)
  /\ capture' = [s \in Source |->
                   IF capture[s] = "current" THEN "stale" ELSE capture[s]]

OutdatedRefresh == IF refresh = "resolving" THEN "outdated" ELSE refresh

\* refreshRoute joins a refresh whose promise is still there.
JoinRefresh == IF refresh = "none" THEN "resolving" ELSE OutdatedRefresh

\* settleQueuedManual and settleQueuedReview; the faults leave the jobs where
\* they are, or drop them without an answer.
SettleNothing == UNCHANGED jobVars
SettleForgets == manualQueue' = <<>> /\ reviewQueue' = <<>> /\ UNCHANGED state
SettleQueued ==
  /\ manualQueue' = <<>> /\ reviewQueue' = <<>>
  /\ state' = [j \in Job |-> IF state[j] = "queued" THEN "failed" ELSE state[j]]

IdleDue == compactable /\ ~attempted /\ idleTime

\* scheduleIdle and kick come last in their handlers and read the new state.
ScheduleIdle ==
  idleTimer' = (enabled' /\ resetting' = "no" /\ compactable' /\ ~attempted')

Kick == drain' = IF drain = "none" /\ Going' THEN "entered" ELSE drain

\* A store write of somebody else makes the pending clear's revision stale.
StoreWritten == resetting' = IF resetting = "waiting" THEN "stale" ELSE resetting

Executable == Queued(pending) \ open
PendingRephrases == rephrasing \ failedRephrases

ImmediateWork ==
  \/ manualQueue # <<>> \/ reviewQueue # <<>>
  \/ PendingRephrases # {}
  \/ Executable # {} /\ budgetOpen
  \/ IdleDue
-----------------------------------------------------------------------------
\* Explicit requests. One that comes at the wrong time is refused at once.
Busy(j) ==
  \E k \in Job \ {j} : Subject[k] = Subject[j] /\ state[k] \in {"queued", "active"}

Preempt == run' = IF run # NoRun /\ run.kind \in {"auto", "idle"}
                  THEN Aborted(TRUE) ELSE run

RequestManual(j) ==
  /\ Quiet /\ j \in ManualJob /\ state[j] = "new"
  /\ IF Going /\ routed /\ Subject[j] \notin open /\ ~Busy(j)
     THEN /\ manualQueue' = Append(manualQueue, j)
          /\ state' = [state EXCEPT ![j] = "queued"]
          /\ Preempt
     ELSE /\ state' = [state EXCEPT ![j] = "failed"]
          /\ UNCHANGED <<manualQueue, run>>
  /\ UNCHANGED <<queueVars, settingVars, routeVars, lifeVars, reviewQueue,
                 signalled, capture, failedRephrases, timerVars, storeVars>>
  /\ IF state'[j] = "queued" THEN Kick ELSE UNCHANGED drain

RequestReviewAnswer(j) ==
  /\ Quiet /\ j \in ReviewJob /\ state[j] = "new"
  /\ IF Going /\ routed /\ Subject[j] \in questions /\ ~Busy(j)
     THEN /\ reviewQueue' = Append(reviewQueue, j)
          /\ state' = [state EXCEPT ![j] = "queued"]
          /\ Preempt
     ELSE /\ state' = [state EXCEPT ![j] = "failed"]
          /\ UNCHANGED <<reviewQueue, run>>
  /\ UNCHANGED <<queueVars, settingVars, routeVars, lifeVars, manualQueue,
                 signalled, capture, failedRephrases, timerVars, storeVars>>
  /\ IF state'[j] = "queued" THEN Kick ELSE UNCHANGED drain

\* indexOf and splice: a job is in its queue once.
Spliced(queue, j) ==
  LET at == CHOOSE i \in DOMAIN queue : queue[i] = j IN
  IF \E i \in DOMAIN queue : queue[i] = j
  THEN [i \in 1..(Len(queue) - 1) |-> IF i < at THEN queue[i] ELSE queue[i + 1]]
  ELSE queue

\* The caller's signal: a queued job is spliced out and settled, an active one
\* has the signal combined with its controller's.
CallerAborts(j) ==
  /\ Quiet /\ (state[j] = "queued" \/ (state[j] = "active" /\ j \notin signalled))
  /\ IF state[j] = "queued"
     THEN /\ manualQueue' = Spliced(manualQueue, j)
          /\ reviewQueue' = Spliced(reviewQueue, j)
          /\ state' = [state EXCEPT ![j] = "failed"]
          /\ UNCHANGED signalled
     ELSE signalled' = signalled \cup {j} /\ UNCHANGED jobVars
  /\ UNCHANGED <<queueVars, settingVars, routeVars, lifeVars, capture, run,
                 drain, failedRephrases, timerVars, storeVars>>

-----------------------------------------------------------------------------
\* A settled turn is read asynchronously and enqueued if the epoch it started
\* under still is the current one.
TurnEnds(s) ==
  /\ Quiet /\ Going /\ capture[s] = "none"
  /\ nextSequence + Cardinality({t \in Source : capture[t] # "none"}) <= MaxSequence
  /\ capture' = [capture EXCEPT ![s] = "current"]
  /\ UNCHANGED <<queueVars, settingVars, routeVars, lifeVars, jobVars, signalled,
                 run, drain, failedRephrases, timerVars, storeVars>>

TurnCaptured(s) ==
  /\ Quiet /\ capture[s] # "none"
  /\ capture' = [capture EXCEPT ![s] = "none"]
  /\ IF capture[s] = "current" /\ Going
     THEN \E at \in Instant : Push(s, at, cap)
     ELSE UNCHANGED queueVars
  /\ UNCHANGED <<settingVars, routeVars, lifeVars, jobVars, signalled, run,
                 failedRephrases, timerVars, storeVars>>
  /\ IF nextSequence' # nextSequence THEN Kick ELSE UNCHANGED drain

-----------------------------------------------------------------------------
\* Feedback takes back the failure mark of its explanation.
ForgiveNone(retried) == UNCHANGED failedRephrases
Forgive(retried) == failedRephrases' = failedRephrases \ retried

\* learningStateChanged, which the gateway calls after the store accepted a
\* feedback on, or a duplicate of a pending one of, the explanation of s.
\* keeps tells whether the feedback left the context generation alone.
LearningStateChanged(retried, keeps) ==
  /\ CancelCurrent(keeps)
  /\ refresh' = OutdatedRefresh
  /\ Forgive(retried)
  /\ attempted' = FALSE
  /\ UNCHANGED <<queueVars, settingVars, routed, configuring, failed, stopped,
                 jobVars, signalled, budgetTimer, written>>
  /\ ScheduleIdle
  /\ Kick

\* The fault closes the explanation without clearing its pending rephrase.
UnderstoodStillPending(s) ==
  /\ Quiet /\ enabled /\ ~stopped /\ s \in open /\ world < MaxWorld
  /\ open' = open \ {s}
  /\ compactable' = Compacts /\ idleTime' = FALSE
  /\ world' = world + 1
  /\ StoreWritten
  /\ UNCHANGED <<rephrasing, questions>>
  /\ LearningStateChanged({s}, FALSE)

Understood(s) ==
  /\ Quiet /\ enabled /\ ~stopped /\ s \in open /\ world < MaxWorld
  /\ open' = open \ {s} /\ rephrasing' = rephrasing \ {s}
  /\ compactable' = Compacts /\ idleTime' = FALSE
  /\ world' = world + 1
  /\ StoreWritten
  /\ UNCHANGED questions
  /\ LearningStateChanged({s}, FALSE)

NotUnderstood(s) ==
  /\ Quiet /\ enabled /\ ~stopped /\ s \in open \ rephrasing /\ world < MaxWorld
  /\ rephrasing' = rephrasing \cup {s} /\ idleTime' = FALSE
  /\ world' = world + 1
  /\ StoreWritten
  /\ UNCHANGED <<open, questions, compactable>>
  /\ LearningStateChanged({s}, TRUE)

\* A second not-understood while the rephrase is pending writes no entry, but
\* the gateway tells the scheduler all the same, so a failed one is retried.
NotUnderstoodAgain(s) ==
  /\ Quiet /\ enabled /\ ~stopped /\ s \in rephrasing
  /\ UNCHANGED <<open, rephrasing, questions, compactable, world, idleTime, resetting>>
  /\ LearningStateChanged({s}, TRUE)

\* Reopening a mastered topic cancels the review questions of its batch.
ReopenTopic ==
  /\ Quiet /\ enabled /\ ~stopped /\ world < MaxWorld
  /\ questions' \in SUBSET questions
  /\ world' = world + 1 /\ idleTime' = FALSE
  /\ StoreWritten
  /\ UNCHANGED <<open, rephrasing, compactable>>
  /\ LearningStateChanged({}, TRUE)

-----------------------------------------------------------------------------
\* configure, one action per kind of change. Only one call runs at a time:
\* the runtime serialises them, and one that awaits a refresh is configuring.
ClearTimers == budgetTimer' = FALSE /\ idleTimer' = FALSE

MayConfigure == Quiet /\ ~stopped /\ configuring = "no"

Disable ==
  /\ MayConfigure /\ enabled /\ world < MaxWorld
  /\ enabled' = FALSE /\ routed' = FALSE /\ failed' = FALSE
  /\ CancelCurrent(TRUE) /\ SettleQueued /\ ClearTimers
  /\ refresh' = OutdatedRefresh
  /\ Clear(cap)
  /\ world' = world + 1
  /\ UNCHANGED <<cap, budgetOpen, configuring, lifeVars, signalled, drain,
                 failedRephrases, idleTime, attempted, open, rephrasing,
                 questions, compactable, written>>

Enable ==
  /\ MayConfigure /\ ~enabled /\ world < MaxWorld
  /\ enabled' = TRUE
  /\ CancelCurrent(TRUE) /\ SettleQueued
  /\ refresh' = JoinRefresh /\ configuring' = "enabling"
  /\ Trim(cap)
  /\ world' = world + 1
  /\ UNCHANGED <<cap, budgetOpen, routed, failed, lifeVars, signalled, drain,
                 failedRephrases, timerVars, open, rephrasing, questions,
                 compactable, written>>

\* provider or model: the old route stays in use until the refresh is done.
ChangeRoute ==
  /\ MayConfigure /\ enabled /\ world < MaxWorld
  /\ CancelCurrent(TRUE) /\ SettleQueued
  /\ refresh' = JoinRefresh /\ configuring' = "changing"
  /\ Trim(cap)
  /\ world' = world + 1
  /\ UNCHANGED <<settingVars, routed, failed, lifeVars, signalled, drain,
                 failedRephrases, timerVars, open, rephrasing, questions,
                 compactable, written>>

\* The rest of a change that does not touch the route.
Reschedule ==
  IF routed
  THEN /\ ScheduleIdle /\ Kick
       /\ UNCHANGED configuring
  ELSE configuring' = "changing" /\ UNCHANGED <<idleTimer, drain>>

\* The other semantic settings; maxSourceChars also clears the candidates.
ChangePrompt(sourceChars) ==
  /\ MayConfigure /\ enabled /\ world < MaxWorld
  /\ CancelCurrent(TRUE) /\ SettleQueued
  /\ refresh' = IF routed THEN OutdatedRefresh ELSE JoinRefresh
  /\ IF sourceChars THEN Clear(cap) ELSE Trim(cap)
  /\ world' = world + 1
  /\ UNCHANGED <<settingVars, routed, failed, lifeVars, signalled,
                 failedRephrases, budgetTimer, idleTime, attempted, open,
                 rephrasing, questions, compactable, written>>
  /\ Reschedule

\* maxPendingCandidates and maxAutoRequestsPerDay cancel nothing by themselves.
ChangeLimits(c) ==
  /\ MayConfigure /\ enabled
  /\ cap' = c /\ budgetOpen' \in BOOLEAN
  /\ Trim(c)
  /\ IF routed
     THEN UNCHANGED <<refresh, run, capture>>
     ELSE refresh' = JoinRefresh /\ CancelCurrent(TRUE)
  /\ UNCHANGED <<enabled, routed, failed, lifeVars, jobVars, signalled,
                 failedRephrases, budgetTimer, idleTime, attempted, storeVars>>
  /\ Reschedule

\* adaptersUpdated.
AdaptersUpdated ==
  /\ Quiet /\ enabled /\ ~stopped
  /\ CancelCurrent(TRUE)
  /\ refresh' = JoinRefresh
  /\ UNCHANGED <<queueVars, settingVars, routed, configuring, failed, lifeVars,
                 jobVars, signalled, drain, failedRephrases, timerVars, storeVars>>

\* refreshRouteUntilCurrent after resolveExplainRoute returned or threw.
RouteOutdated ==
  /\ Quiet /\ refresh = "outdated"
  /\ refresh' = IF enabled /\ ~stopped THEN "resolving" ELSE "leaving"
  /\ UNCHANGED <<queueVars, settingVars, routed, configuring, failed, lifeVars,
                 jobVars, signalled, capture, run, drain, failedRephrases,
                 timerVars, storeVars>>

RouteResolved ==
  /\ Quiet /\ refresh = "resolving"
  /\ refresh' = "leaving" /\ routed' = TRUE /\ failed' = FALSE
  /\ UNCHANGED <<queueVars, settingVars, configuring, lifeVars, jobVars,
                 signalled, capture, run, failedRephrases, budgetTimer,
                 idleTime, attempted, storeVars>>
  /\ ScheduleIdle
  /\ Kick

RouteRejected ==
  /\ Quiet /\ refresh = "resolving"
  /\ refresh' = "leaving" /\ routed' = FALSE /\ failed' = TRUE
  /\ SettleQueued
  /\ UNCHANGED <<queueVars, settingVars, configuring, lifeVars, signalled,
                 capture, run, drain, failedRephrases, timerVars, storeVars>>

\* The promise settles, routeRefresh is dropped, and a configure that awaited
\* it returns; the runtime then records a successful enabling as an action.
RefreshLeaves ==
  /\ Quiet /\ refresh = "leaving"
  /\ refresh' = "none" /\ configuring' = "no"
  /\ IF configuring = "enabling" /\ enabled /\ ~failed
     THEN attempted' = FALSE /\ idleTime' = FALSE
     ELSE UNCHANGED <<attempted, idleTime>>
  /\ UNCHANGED <<queueVars, settingVars, routed, failed, lifeVars, jobVars,
                 signalled, capture, run, drain, failedRephrases, budgetTimer,
                 idleTimer, storeVars>>

-----------------------------------------------------------------------------
\* renewLease fails: the heartbeat stops the runtime and cancels.
LeaseLost ==
  /\ TimerTask /\ ~stopped
  /\ failed' = TRUE
  /\ CancelCurrent(TRUE) /\ SettleQueued
  /\ refresh' = OutdatedRefresh
  /\ UNCHANGED <<queueVars, settingVars, routed, configuring, lifeVars,
                 signalled, drain, failedRephrases, timerVars, storeVars>>

\* resetLearningData up to its await; without a drain it goes on at once.
ResetBegins ==
  /\ Quiet /\ ~stopped /\ resetting = "no" /\ world < MaxWorld
  /\ resetting' = IF drain = "none" THEN "now" ELSE "waiting"
  /\ CancelCurrent(TRUE) /\ SettleQueued /\ ClearTimers
  /\ refresh' = OutdatedRefresh
  /\ Clear(limit)
  /\ UNCHANGED <<settingVars, routed, configuring, failed, stopped, signalled,
                 drain, failedRephrases, idleTime, attempted, storeVars>>

\* The clear waits for the drain it found; the fault does not.
ResetImpatient == resetting # "no" /\ drain # "entered"
ResetReady == resetting # "no" /\ drain = "none"

\* The drain has exited. The store compares its revision once more, and clears
\* everything but the budget's usage rows.
ResetEnds ==
  /\ ResetReady
  /\ resetting' = "no"
  /\ Clear(limit)
  /\ failedRephrases' = {} /\ attempted' = FALSE
  /\ IF resetting = "stale"
     THEN UNCHANGED <<storeVars, idleTime>>
     ELSE /\ open' = {} /\ rephrasing' = {} /\ questions' = {}
          /\ compactable' = FALSE /\ idleTime' = FALSE
          /\ world' = world + 1
          /\ UNCHANGED written
  /\ UNCHANGED <<settingVars, routeVars, stopped, jobVars, signalled, capture,
                 run, budgetTimer>>
  /\ ScheduleIdle
  /\ Kick

\* dispose. The lease is released and the store closed once the drain is gone.
Dispose ==
  /\ MayConfigure
  /\ stopped' = TRUE
  /\ CancelCurrent(TRUE) /\ SettleQueued /\ ClearTimers
  /\ refresh' = OutdatedRefresh
  /\ UNCHANGED <<queueVars, settingVars, routed, configuring, failed, resetting,
                 signalled, drain, failedRephrases, idleTime, attempted, storeVars>>

-----------------------------------------------------------------------------
\* The timers. A budget slot reopens when its timer says so; by then the limit
\* may have been lowered. An idle timer fires early if an action moved its
\* baseline without scheduling anew.
BudgetTimer ==
  /\ TimerTask /\ budgetTimer
  /\ budgetTimer' = FALSE /\ budgetOpen' \in BOOLEAN
  /\ UNCHANGED <<queueVars, enabled, cap, routeVars, lifeVars, jobVars, signalled,
                 capture, run, failedRephrases, idleTimer, idleTime, attempted,
                 storeVars>>
  /\ Kick

IdleTimer ==
  /\ TimerTask /\ idleTimer
  /\ idleTimer' = FALSE /\ idleTime' \in {idleTime, TRUE}
  /\ UNCHANGED <<queueVars, settingVars, routeVars, lifeVars, jobVars, signalled,
                 capture, run, failedRephrases, budgetTimer, attempted, storeVars>>
  /\ Kick

-----------------------------------------------------------------------------
\* One turn of the drain's loop: what to run next, in order of priority.
AtTop == drain \in {"entered", "loop"} /\ phase = "idle"

\* mustRoute and beginRequest. Without a route the run throws before it begins.
Start(kind, of, stage) ==
  IF routed
  THEN /\ run' = [kind |-> kind, of |-> of, aborted |-> FALSE, fresh |-> TRUE,
                  stage |-> stage, basis |-> world]
       /\ drain' = "running"
  ELSE /\ run' = NoRun
       /\ drain' = "throwing"

Explicit == manualQueue # <<>> \/ reviewQueue # <<>>

TakeManual ==
  /\ AtTop /\ Going /\ manualQueue # <<>>
  /\ manualQueue' = Tail(manualQueue)
  /\ state' = [state EXCEPT ![Head(manualQueue)] = "active"]
  /\ Start("manual", Head(manualQueue), "relieving")
  /\ UNCHANGED <<queueVars, settingVars, routeVars, lifeVars, reviewQueue,
                 signalled, capture, failedRephrases, timerVars, storeVars>>

TakeReview ==
  /\ AtTop /\ Going /\ manualQueue = <<>> /\ reviewQueue # <<>>
  /\ reviewQueue' = Tail(reviewQueue)
  /\ state' = [state EXCEPT ![Head(reviewQueue)] = "active"]
  /\ Start("review", Head(reviewQueue), "asking")
  /\ UNCHANGED <<queueVars, settingVars, routeVars, lifeVars, manualQueue,
                 signalled, capture, failedRephrases, timerVars, storeVars>>

\* The pending rephrases are served in any order.
TakeRephrase(s) ==
  /\ AtTop /\ Going /\ ~Explicit /\ s \in PendingRephrases
  /\ Start("rephrase", s, "relieving")
  /\ UNCHANGED <<queueVars, settingVars, routeVars, lifeVars, jobVars, signalled,
                 capture, failedRephrases, timerVars, storeVars>>

\* nextRephrase skips one whose saved summary no longer parses.
SummaryInvalid(s) ==
  /\ AtTop /\ Going /\ ~Explicit /\ s \in PendingRephrases
  /\ failedRephrases' = failedRephrases \cup {s}
  /\ drain' = "entered"
  /\ UNCHANGED <<queueVars, settingVars, routeVars, lifeVars, jobVars, signalled,
                 capture, run, timerVars, storeVars>>

TakeCandidate ==
  /\ AtTop /\ Going /\ ~Explicit /\ PendingRephrases = {} /\ budgetOpen
  /\ Take(open)
  /\ Start("auto", NoRun, "relieving")
  /\ UNCHANGED <<settingVars, routeVars, lifeVars, jobVars, signalled, capture,
                 failedRephrases, timerVars, storeVars>>

\* Nothing explicit and nothing autonomous; an exhausted budget arms its timer.
NothingToAnswer ==
  /\ AtTop /\ Going /\ ~Explicit /\ PendingRephrases = {}
  /\ budgetOpen => Executable = {}
  /\ budgetTimer' = (budgetTimer \/ ~budgetOpen)

TakeIdle ==
  /\ NothingToAnswer /\ IdleDue
  /\ attempted' = routed
  /\ Start("idle", NoRun, "asking")
  /\ UNCHANGED <<queueVars, settingVars, routeVars, lifeVars, jobVars, signalled,
                 capture, failedRephrases, idleTimer, idleTime, storeVars>>

DrainRests ==
  /\ NothingToAnswer /\ ~IdleDue
  /\ drain' = "ending"
  /\ UNCHANGED <<queueVars, settingVars, routeVars, lifeVars, jobVars, signalled,
                 capture, run, failedRephrases, idleTime, attempted, storeVars>>
  /\ ScheduleIdle

DrainQuits ==
  /\ AtTop /\ ~Going
  /\ drain' = "ending"
  /\ UNCHANGED <<queueVars, settingVars, routeVars, lifeVars, jobVars, signalled,
                 capture, run, failedRephrases, timerVars, storeVars>>

\* The rejected drain of a missing route; the candidate taken for it is lost.
CandidateThrown ==
  /\ drain = "throwing" /\ Complete
  /\ UNCHANGED <<settingVars, routeVars, lifeVars, jobVars, signalled, capture,
                 run, drain, failedRephrases, timerVars, storeVars>>

DrainThrows ==
  /\ drain = "throwing" /\ phase = "idle"
  /\ drain' = "ending"
  /\ UNCHANGED <<queueVars, settingVars, routeVars, lifeVars, jobVars, signalled,
                 capture, run, failedRephrases, timerVars, storeVars>>

\* The finally of the candidate's turn goes straight on with the next turn.
CandidateFinished ==
  /\ drain \in {"loop", "throwing"} /\ Finish
  /\ drain' = IF drain = "loop" THEN "entered" ELSE "ending"
  /\ UNCHANGED <<settingVars, routeVars, lifeVars, jobVars, signalled, capture,
                 run, failedRephrases, timerVars, storeVars>>

\* The finally of kick looks for work that arrived after the last turn; the
\* fault relies on the turn itself.
DrainEndsBlind ==
  /\ drain = "ending" /\ drain' = "none"
  /\ UNCHANGED <<queueVars, settingVars, routeVars, lifeVars, jobVars, signalled,
                 capture, run, failedRephrases, timerVars, storeVars>>

DrainEnds ==
  /\ drain = "ending"
  /\ drain' = IF Going /\ ImmediateWork THEN "entered" ELSE "none"
  /\ UNCHANGED <<queueVars, settingVars, routeVars, lifeVars, jobVars, signalled,
                 capture, run, failedRephrases, timerVars, storeVars>>

-----------------------------------------------------------------------------
\* The request in flight. An aborted one may still be answered: the provider's
\* last chunk may be there before it sees the signal.
InFlight(kinds, stages) ==
  drain = "running" /\ run.kind \in kinds /\ run.stage \in stages

EndRequest == run' = NoRun /\ drain' = "loop"

\* compactOnce commits a checkpoint if the context generation still matches.
CheckpointMayCommit ==
  \/ UNCHANGED <<compactable, resetting>>
  \/ /\ compactable /\ run.fresh
     /\ compactable' \in BOOLEAN
     /\ StoreWritten

\* relievePressure, with or without compactions.
Relieved ==
  /\ InFlight({"manual", "rephrase"}, {"relieving"})
  /\ run' = [run EXCEPT !.stage = "asking"]
  /\ CheckpointMayCommit
  /\ UNCHANGED <<queueVars, settingVars, routeVars, stopped, jobVars, signalled,
                 capture, drain, failedRephrases, timerVars, open, rephrasing,
                 questions, world, written>>

\* What becomes of a candidate whose run did not finish. The fault puts it back
\* over whatever the queue holds by then.
GiveUpUnchecked ==
  /\ phase = "running" /\ phase' = "returned"
  /\ pending' = [pending EXCEPT ![held.source] = held]
  /\ UNCHANGED <<latest, nextSequence, limit, held, dropped>>

GiveUp == IF run.aborted /\ enabled /\ ~stopped /\ resetting = "no"
          THEN Defer ELSE Complete

\* After the relief the candidate reserves its slot; a refusal defers it.
CandidateRelieved ==
  /\ InFlight({"auto"}, {"relieving"})
  /\ CheckpointMayCommit
  /\ IF Current /\ IsLatest(held)
     THEN IF budgetOpen
          THEN /\ run' = [run EXCEPT !.stage = "asking"]
               /\ budgetOpen' \in BOOLEAN
               /\ UNCHANGED <<queueVars, drain, budgetTimer>>
          ELSE /\ Defer /\ EndRequest
               /\ budgetTimer' = TRUE
               /\ UNCHANGED budgetOpen
     ELSE GiveUp /\ EndRequest /\ UNCHANGED <<budgetOpen, budgetTimer>>
  /\ UNCHANGED <<enabled, cap, routeVars, stopped, jobVars, signalled, capture,
                 failedRephrases, idleTimer, idleTime, attempted, open,
                 rephrasing, questions, world, written>>

\* commitAutoDecision: a skip, or an explanation, which cancels the review
\* questions of its topic's batch. Observations may give new content to compact.
CandidateAnswered ==
  /\ InFlight({"auto"}, {"asking"})
  /\ EndRequest
  /\ UNCHANGED <<settingVars, routeVars, lifeVars, jobVars, signalled, capture,
                 failedRephrases, budgetTimer, idleTime, rephrasing, world, written>>
  /\ IF Current /\ IsLatest(held)
     THEN /\ \/ open' = open \cup {held.source} /\ questions' \in SUBSET questions
             \/ UNCHANGED <<open, questions>>
          /\ compactable' \in {compactable, Compacts}
          /\ attempted' = FALSE
          /\ Complete
          /\ ScheduleIdle
     ELSE GiveUp /\ UNCHANGED <<open, questions, compactable, attempted, idleTimer>>

\* A failed compaction, or the last attempt, gives the candidate up.
CandidateFails ==
  /\ InFlight({"auto"}, {"relieving", "asking"})
  /\ IF run.aborted
     THEN GiveUp
     ELSE \/ Retry
          \/ (run.stage = "relieving" \/ held.attempts + 1 >= MaxAttempts) /\ Complete
  /\ EndRequest
  /\ UNCHANGED <<settingVars, routeVars, lifeVars, jobVars, signalled, capture,
                 failedRephrases, timerVars, storeVars>>

\* settle, right after endRequest.
Settle(j, outcome) ==
  /\ state' = [state EXCEPT ![j] = outcome]
  /\ signalled' = signalled \ {j}

\* A result that is not committed; the fault reports it as a success.
RefusedAsOk ==
  /\ Settle(run.of, "ok")
  /\ UNCHANGED <<open, questions, compactable, written, attempted, idleTimer>>
Refused ==
  /\ Settle(run.of, "failed")
  /\ UNCHANGED <<open, questions, compactable, written, attempted, idleTimer>>

\* commitManualExplanation refuses a source or a topic that has become active.
ManualAnswered ==
  /\ InFlight({"manual"}, {"asking"})
  /\ EndRequest
  /\ UNCHANGED <<queueVars, settingVars, routeVars, lifeVars, manualQueue,
                 reviewQueue, capture, failedRephrases, budgetTimer, idleTime,
                 rephrasing, world>>
  /\ \/ /\ Current /\ Subject[run.of] \notin open
        /\ open' = open \cup {Subject[run.of]}
        /\ questions' \in SUBSET questions
        /\ written' = written \cup {run.of}
        /\ Settle(run.of, "ok")
        /\ attempted' = FALSE
        /\ UNCHANGED compactable
        /\ ScheduleIdle
     \/ Refused

\* commitReviewAnswer refuses a question that is no longer waiting.
ReviewAnswered ==
  /\ InFlight({"review"}, {"asking"})
  /\ EndRequest
  /\ IF Current /\ Subject[run.of] \in questions
     THEN /\ questions' = questions \ {Subject[run.of]}
          /\ written' = written \cup {run.of}
          /\ Settle(run.of, "ok")
          /\ attempted' = FALSE /\ idleTime' = FALSE
     ELSE /\ Settle(run.of, "failed")
          /\ UNCHANGED <<questions, written, attempted, idleTime>>
  /\ UNCHANGED <<queueVars, settingVars, routeVars, lifeVars, manualQueue,
                 reviewQueue, capture, failedRephrases, budgetTimer, idleTimer,
                 open, rephrasing, compactable, world>>

ExplicitFails ==
  /\ InFlight({"manual", "review"}, {"relieving", "asking"})
  /\ EndRequest
  /\ Settle(run.of, "failed")
  /\ UNCHANGED <<queueVars, settingVars, routeVars, lifeVars, manualQueue,
                 reviewQueue, capture, failedRephrases, timerVars, storeVars>>

RephraseAnswered ==
  /\ InFlight({"rephrase"}, {"asking"})
  /\ EndRequest
  /\ IF Current
     THEN /\ rephrasing' = rephrasing \ {run.of}
          /\ failedRephrases' = failedRephrases \ {run.of}
     ELSE UNCHANGED <<rephrasing, failedRephrases>>
  /\ UNCHANGED <<queueVars, settingVars, routeVars, lifeVars, jobVars, signalled,
                 capture, timerVars, open, questions, compactable, world, written>>

RephraseFails ==
  /\ InFlight({"rephrase"}, {"relieving", "asking"})
  /\ EndRequest
  /\ failedRephrases' = IF run.aborted THEN failedRephrases
                        ELSE failedRephrases \cup {run.of}
  /\ UNCHANGED <<queueVars, settingVars, routeVars, lifeVars, jobVars, signalled,
                 capture, timerVars, storeVars>>

\* Idle compaction: committed, failed, or aborted and to be tried again.
IdleEnds ==
  /\ InFlight({"idle"}, {"asking"})
  /\ EndRequest
  /\ \/ CheckpointMayCommit /\ UNCHANGED attempted
     \/ attempted' = (attempted /\ ~run.aborted) /\ UNCHANGED <<compactable, resetting>>
  /\ UNCHANGED <<queueVars, settingVars, routeVars, stopped, jobVars, signalled,
                 capture, failedRephrases, budgetTimer, idleTime, open,
                 rephrasing, questions, world, written>>
  /\ ScheduleIdle

-----------------------------------------------------------------------------
UserStep ==
  \/ \E j \in Job : RequestManual(j) \/ RequestReviewAnswer(j) \/ CallerAborts(j)
  \/ \E s \in Source : \/ TurnEnds(s) \/ TurnCaptured(s)
                       \/ Understood(s) \/ NotUnderstood(s) \/ NotUnderstoodAgain(s)
  \/ ReopenTopic

HostStep ==
  \/ Disable \/ Enable \/ ChangeRoute \/ AdaptersUpdated
  \/ \E sourceChars \in BOOLEAN : ChangePrompt(sourceChars)
  \/ \E c \in Caps : ChangeLimits(c)
  \/ RouteOutdated \/ RouteResolved \/ RouteRejected \/ RefreshLeaves
  \/ LeaseLost \/ ResetBegins \/ ResetEnds \/ Dispose
  \/ BudgetTimer \/ IdleTimer

LoopStep ==
  \/ TakeManual \/ TakeReview \/ TakeCandidate \/ TakeIdle
  \/ \E s \in Source : TakeRephrase(s) \/ SummaryInvalid(s)
  \/ DrainRests \/ DrainQuits \/ DrainThrows \/ DrainEnds
  \/ CandidateThrown \/ CandidateFinished

RunStep ==
  \/ Relieved \/ CandidateRelieved \/ CandidateAnswered \/ CandidateFails
  \/ ManualAnswered \/ ReviewAnswered \/ ExplicitFails
  \/ RephraseAnswered \/ RephraseFails \/ IdleEnds

Next == UserStep \/ HostStep \/ LoopStep \/ RunStep

Spec == Init /\ [][Next]_vars

\* Everything the drain and a clear await ends: a model call within its timeout,
\* a microtask when the handlers before it are done.
FairSpec == Spec /\ WF_vars(LoopStep \/ RunStep) /\ WF_vars(ResetEnds)

-----------------------------------------------------------------------------
\* A model's answer reaches the store only under the settings and the learning
\* state its request was made for: feedback, reopening, semantic settings and
\* a clear that fall into the request discard it.
FreshCommits ==
  [][ \/ written' # written
      \/ open' \ open # {}
      \/ \E s \in rephrasing \ rephrasing' : s \in open'
      => run.basis = world ]_vars

\* What the caller of an explicit request is told is what the store did.
OutcomeMatchesStore ==
  \A j \in Job : (state[j] = "ok") <=> (j \in written)

\* No job waits in a runtime that will not run it: whenever one is queued the
\* runtime is ready, and the drain is on its way to it.
NoOrphanJobs ==
  (\E j \in Job : state[j] = "queued") => Going /\ routed /\ drain # "none"

\* No wakeup is lost: a ready scheduler whose drain has exited has nothing it
\* could run: no job, no rephrase, no candidate the budget would let through.
NoLostWakeup ==
  drain = "none" /\ Going /\ routed =>
    /\ ~Explicit /\ PendingRephrases = {}
    /\ budgetOpen => Executable = {}

\* A rephrase marked as failed is one the learner can still retry; a mark that
\* outlived it would keep the last error on display for ever.
FailedArePending == failedRephrases \subseteq rephrasing

\* When the store is cleared nothing made before the clear is under way: no
\* drain, no request, no candidate, no turn that is still accepted.
ClearIsQuiescent ==
  [][ resetting # "no" /\ resetting' = "no" =>
        /\ drain = "none" /\ run = NoRun
        /\ held = NoCandidate /\ Queued(pending') = {}
        /\ \A s \in Source : capture[s] # "current" ]_vars

\* The candidates are handled as the queue's protocol demands: its cap, its
\* latest-wins rule and its bookkeeping hold in the whole scheduler.
QueueProtocol == QueueSpec

\* Every explicit request that was accepted is answered.
JobsSettle ==
  \A j \in Job : state[j] \in {"queued", "active"} ~> state[j] \in {"ok", "failed"}

\* A clear that has begun ends.
ResetCompletes == resetting # "no" ~> resetting = "no"

-----------------------------------------------------------------------------
\* mustRoute's assertion: an enabled scheduler has a resolved model route, so
\* that the drain never takes up work without one.
RouteBeforeWork == drain # "throwing"

\* refreshRoute: who has awaited it, and is still enabled, finds a route or the
\* failure that explains why there is none.
RefreshBringsRoute ==
  enabled /\ ~stopped /\ refresh = "none" /\ configuring = "no" => routed \/ failed

\* docs/ARCHITECTURE.md: a not-understood starts or retries the rephrase when
\* the same rephrase is not in flight.
DuplicateKeepsRephrase ==
  [][ \A s \in Source :
        NotUnderstoodAgain(s) /\ run # NoRun /\ run.kind = "rephrase" /\ run.of = s
        => run' = run ]_vars

=============================================================================
