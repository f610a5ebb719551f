---------------------------- MODULE ExplainTimers ----------------------------
(***************************************************************************)
(* When the scheduler of src/src/scheduler.ts wakes up by itself: the idle   *)
(* compaction, which is due idleCompactMs after the learner's last action,   *)
(* and the autonomous candidates that wait for the rolling budget to reopen. *)
(* Time is relative: the model keeps how long ago an instant was and how     *)
(* long a timer still runs, so a run has no last tick. A timer may fire late,*)
(* never early. Handlers are atomic and the drain decides before anything    *)
(* else runs, as in ExplainScheduler.                                        *)
(***************************************************************************)
EXTENDS Naturals, FiniteSets

CONSTANTS IdleMs,      \* idleCompactMs, in ticks
          Day,         \* the rolling window of the budget, in ticks
          MaxLimit,    \* the largest maxAutoRequestsPerDay a user sets
          MaxQueued,   \* maxPendingCandidates
          Requests,    \* kinds of explicit requests: "manual", "review"
          ProfileEdits, \* whether the learner edits the profile
          Never        \* no instant, no timer

ASSUME TimeAssumption == IdleMs \in Nat \ {0} /\ Day \in Nat \ {0}
ASSUME SizeAssumption == MaxLimit \in Nat \ {0} /\ MaxQueued \in Nat
ASSUME RequestsAssumption == Requests \subseteq {"manual", "review"}
ASSUME NeverAssumption == Never \notin Nat
ASSUME EditsAssumption == ProfileEdits \in BOOLEAN

VARIABLES enabled, routed, failed, stopped, resetting,
          refresh,     \* the route refresh, and who waits for it
          limit,       \* maxAutoRequestsPerDay
          queued,      \* candidates whose Session has no open explanation
          blocked,     \* candidates whose Session has one
          waiting,     \* kinds of explicit work to do
          flight,      \* the request in flight; fresh: on the current context
          drain,       \* where the drain is
          usage,       \* usage[s]: how long ago the s-th last request was, or Day
          baseline,    \* age of last_user_action_at ?? first_explain_output_at
          batch,       \* compactionBatch returns something to compact
          attempted,   \* what idleAttempted names: this key, an old one, none
          idleTimer, budgetTimer,
          begun,       \* history: an idle compaction began under this key
          unscheduled, \* history: the key moved and no timer was looked at
          overtaken    \* history: a route came while the drain was leaving

lifeVars == <<enabled, routed, failed, stopped, resetting, refresh, limit>>
queueVars == <<queued, blocked>>
workVars == <<queueVars, waiting, flight, drain>>
idleVars == <<baseline, batch, attempted>>
timerVars == <<idleTimer, budgetTimer>>
history == <<begun, unscheduled, overtaken>>
vars == <<lifeVars, workVars, usage, idleVars, timerVars, history>>

Slot == 1..MaxLimit
Explicit == {"manual", "review", "rephrase"}
None == [kind |-> "none", aborted |-> FALSE, fresh |-> FALSE]

TypeOK ==
  /\ enabled \in BOOLEAN /\ routed \in BOOLEAN /\ failed \in BOOLEAN
  /\ stopped \in BOOLEAN /\ resetting \in BOOLEAN
  /\ refresh \in {"none", "resolving", "enabling", "recording"}
  /\ limit \in Slot /\ queued \in 0..MaxQueued /\ blocked \in 0..MaxQueued
  /\ waiting \subseteq Explicit
  /\ flight \in [kind : Explicit \cup {"none", "auto", "asking", "idle"},
                 aborted : BOOLEAN, fresh : BOOLEAN]
  /\ drain \in {"off", "entered", "running", "leaving"}
  /\ usage \in [Slot -> 0..Day]
  /\ baseline \in (0..IdleMs) \cup {Never} /\ batch \in BOOLEAN
  /\ attempted \in {"none", "current", "old"}
  /\ idleTimer \in (0..IdleMs) \cup {Never}
  /\ budgetTimer \in (0..Day) \cup {Never}
  /\ begun \in {"no", "yes", "excused"}
  /\ unscheduled \in BOOLEAN /\ overtaken \in BOOLEAN

\* A scheduler that has just been started, disabled, on a store that may hold
\* an earlier life's requests and learning.
Init ==
  /\ enabled = FALSE /\ routed = FALSE /\ failed = FALSE /\ stopped = FALSE
  /\ resetting = FALSE /\ refresh = "none" /\ limit \in Slot
  /\ queued = 0 /\ blocked = 0 /\ waiting \in SUBSET {"rephrase"}
  /\ flight = None /\ drain = "off"
  /\ usage \in [Slot -> 0..Day]
  /\ \A s, t \in Slot : s < t => usage[s] <= usage[t]
  /\ baseline \in (0..IdleMs) \cup {Never}
  /\ batch \in BOOLEAN /\ (batch => baseline # Never)
  /\ attempted = "none" /\ idleTimer = Never /\ budgetTimer = Never
  /\ begun = "no" /\ unscheduled = FALSE /\ overtaken = FALSE

-----------------------------------------------------------------------------
\* A task of its own: a Remote call, a timer, a host event. Between the
\* microtasks of the drain and of a configure call only their own steps run.
Task == /\ drain \in {"off", "running"} /\ refresh # "recording"
        /\ ~(resetting /\ drain = "off")

Going == enabled /\ ~failed /\ ~stopped /\ ~resetting
Current == ~flight.aborted /\ enabled /\ ~stopped /\ ~resetting

Used == Cardinality({s \in Slot : usage[s] < Day})
BudgetOpen == Used < limit
Ages == {usage[s] : s \in Slot} \ {Day}

\* autoBudget's resumeAt, as a delay: when the earliest request of the window
\* leaves it. The fault waits for the latest of them.
ResumeAfterLatest == Day - CHOOSE a \in Ages : \A b \in Ages : a <= b
ResumeIn == Day - CHOOSE a \in Ages : \A b \in Ages : b <= a

IdleDue == batch /\ attempted # "current" /\ baseline = IdleMs

Executable == queued > 0 /\ BudgetOpen
ImmediateWork == waiting # {} \/ Executable \/ IdleDue

\* scheduleIdle, the last word of its handlers, reads the new state. The
\* faults count from now on, or look only whether there was an attempt.
ScheduleFromNow ==
  /\ idleTimer' = IF enabled' /\ ~resetting' /\ batch'
                     /\ attempted' # "current" /\ baseline' # Never
                  THEN IdleMs ELSE Never
  /\ unscheduled' = FALSE
ScheduleUnlessAttempted ==
  /\ idleTimer' = IF enabled' /\ ~resetting' /\ batch'
                     /\ attempted' = "none" /\ baseline' # Never
                  THEN IdleMs - baseline' ELSE Never
  /\ unscheduled' = FALSE
ScheduleIdle ==
  /\ idleTimer' = IF enabled' /\ ~resetting' /\ batch'
                     /\ attempted' # "current" /\ baseline' # Never
                  THEN IdleMs - baseline' ELSE Never
  /\ unscheduled' = FALSE

\* The fault does not arm the timer.
ArmNothing == UNCHANGED budgetTimer
ArmBudget == budgetTimer' = ResumeIn

Kick == drain' = IF drain = "off" /\ Going' THEN "entered" ELSE drain

\* cancelCurrent.
Aborted == IF flight = None THEN None ELSE [flight EXCEPT !.aborted = TRUE]
Preempted ==
  IF flight.kind \in {"auto", "asking", "idle"} THEN Aborted ELSE flight

\* The pair of generations moves on, so idleAttempted names an old one.
Moved == IF attempted = "current" THEN "old" ELSE attempted
\* idleAttempted is cleared although the generations stay.
Excused == IF begun = "yes" THEN "excused" ELSE begun

Settled == waiting' = waiting \cap {"rephrase"}

-----------------------------------------------------------------------------
\* Settings, the route and the life of the runtime.
Enable ==
  /\ Task /\ ~enabled /\ ~stopped
  /\ enabled' = TRUE /\ refresh' = "enabling" /\ flight' = Aborted /\ Settled
  /\ UNCHANGED <<routed, failed, stopped, resetting, limit, queueVars, drain,
                 usage, idleVars, timerVars, history>>

\* configure with the switch off. The fault leaves the timers running.
DisableKeepsTimers ==
  /\ Task /\ enabled /\ ~stopped /\ refresh # "enabling"
  /\ enabled' = FALSE /\ routed' = FALSE /\ failed' = FALSE
  /\ flight' = Aborted /\ queued' = 0 /\ blocked' = 0 /\ Settled
  /\ UNCHANGED <<stopped, resetting, refresh, limit, drain, usage, idleVars,
                 timerVars, history>>
Disable ==
  /\ Task /\ enabled /\ ~stopped /\ refresh # "enabling"
  /\ enabled' = FALSE /\ routed' = FALSE /\ failed' = FALSE
  /\ flight' = Aborted /\ queued' = 0 /\ blocked' = 0 /\ Settled
  /\ idleTimer' = Never /\ budgetTimer' = Never
  /\ UNCHANGED <<stopped, resetting, refresh, limit, drain, usage, idleVars,
                 history>>

\* Another maxAutoRequestsPerDay: nothing is aborted, the drain looks again.
SetLimit(n) ==
  /\ Task /\ enabled /\ ~stopped /\ refresh # "enabling" /\ n # limit
  /\ limit' = n
  /\ UNCHANGED <<enabled, routed, failed, stopped, resetting, queueVars,
                 waiting, usage, idleVars, budgetTimer, begun, overtaken>>
  /\ IF routed
     THEN ScheduleIdle /\ Kick /\ UNCHANGED <<refresh, flight>>
     ELSE /\ refresh' = "resolving" /\ flight' = Aborted
          /\ UNCHANGED <<drain, idleTimer, unscheduled>>

AdaptersUpdated ==
  /\ Task /\ enabled /\ ~stopped
  /\ refresh' = IF refresh = "none" THEN "resolving" ELSE refresh
  /\ flight' = Aborted
  /\ UNCHANGED <<enabled, routed, failed, stopped, resetting, limit,
                 queueVars, waiting, drain, usage, idleVars, timerVars,
                 history>>

\* refreshRouteUntilCurrent returns; while the epoch moves it goes on.
Resolved ==
  /\ refresh \in {"resolving", "enabling"} /\ enabled /\ ~stopped
  /\ drain # "entered" /\ ~(resetting /\ drain = "off")
  /\ routed' = TRUE /\ failed' = FALSE
  /\ refresh' = IF refresh = "enabling" THEN "recording" ELSE "none"
  /\ overtaken' = (drain = "leaving")
  /\ UNCHANGED <<enabled, stopped, resetting, limit, queueVars, waiting,
                 flight, usage, idleVars, budgetTimer, begun>>
  /\ ScheduleIdle /\ Kick

Unresolved ==
  /\ refresh \in {"resolving", "enabling"}
  /\ drain # "entered" /\ ~(resetting /\ drain = "off")
  /\ refresh' = "none"
  /\ IF enabled /\ ~stopped THEN routed' = FALSE /\ failed' = TRUE /\ Settled
     ELSE UNCHANGED <<routed, failed, waiting>>
  /\ UNCHANGED <<enabled, stopped, resetting, limit, queueVars, flight,
                 drain, usage, idleVars, timerVars, history>>

\* synchronize goes on after configure: recordEnableAction moves the clock and
\* the activity generation, and schedules nothing.
RecordEnable ==
  /\ refresh = "recording" /\ drain # "entered"
  /\ refresh' = "none"
  /\ IF failed THEN UNCHANGED <<baseline, attempted, begun, unscheduled>>
     ELSE /\ baseline' = 0 /\ attempted' = Moved
          /\ begun' = "no" /\ unscheduled' = TRUE
  /\ UNCHANGED <<enabled, routed, failed, stopped, resetting, limit, workVars,
                 usage, batch, timerVars, overtaken>>

\* The heartbeat has lost the lease.
LosesLease ==
  /\ Task /\ ~stopped
  /\ failed' = TRUE /\ flight' = Aborted /\ Settled
  /\ UNCHANGED <<enabled, routed, stopped, resetting, refresh, limit,
                 queueVars, drain, usage, idleVars, timerVars, history>>

\* resetLearningData up to its wait for the drain, and from there on: the data
\* is gone, or the revision was stale.
ResetBegins ==
  /\ Task /\ ~resetting /\ ~stopped
  /\ resetting' = TRUE /\ flight' = Aborted /\ Settled
  /\ queued' = 0 /\ blocked' = 0
  /\ idleTimer' = Never /\ budgetTimer' = Never
  /\ UNCHANGED <<enabled, routed, failed, stopped, refresh, limit, drain,
                 usage, idleVars, history>>

ResetEnds ==
  /\ resetting /\ drain = "off"
  /\ resetting' = FALSE /\ queued' = 0 /\ blocked' = 0 /\ attempted' = "none"
  /\ \/ baseline' = Never /\ batch' = FALSE /\ waiting' = {} /\ begun' = "no"
     \/ begun' = Excused /\ UNCHANGED <<baseline, batch, waiting>>
  /\ UNCHANGED <<enabled, routed, failed, stopped, refresh, limit, flight,
                 usage, budgetTimer, overtaken>>
  /\ ScheduleIdle /\ Kick

Dispose ==
  /\ Task /\ ~stopped /\ refresh # "enabling"
  /\ stopped' = TRUE /\ flight' = Aborted /\ Settled
  /\ idleTimer' = Never /\ budgetTimer' = Never
  /\ UNCHANGED <<enabled, routed, failed, resetting, refresh, limit,
                 queueVars, drain, usage, idleVars, history>>

-----------------------------------------------------------------------------
\* Work comes in, and the learner acts.
Request(k) ==
  /\ Task /\ Going /\ routed /\ k \notin waiting /\ flight.kind # k
  /\ waiting' = waiting \cup {k} /\ flight' = Preempted
  /\ UNCHANGED <<lifeVars, queueVars, usage, idleVars, timerVars, history>>
  /\ Kick

\* A candidate, executable or not, is dropped when the queue is full.
Room == queued + blocked < MaxQueued
Enqueue ==
  /\ Going /\ drain # "entered" /\ refresh # "recording" /\ Room
  /\ \/ queued' = queued + 1 /\ UNCHANGED blocked
     \/ blocked' = blocked + 1 /\ UNCHANGED queued
  /\ UNCHANGED <<lifeVars, waiting, flight, usage, idleVars, timerVars,
                 history>>
  /\ Kick

\* A candidate comes back, unless a newer one of its Session has taken its
\* place or the queue is full (the fault forgets the latter); the explanation
\* of a Session closes or opens.
GivesBackAnyway == queued' \in {queued, queued + 1}
GivesBack == queued' \in {queued, queued + 1} /\ (queued' # queued => Room)
Unblocks ==
  \/ UNCHANGED queueVars
  \/ blocked > 0 /\ blocked' = blocked - 1 /\ queued' = queued + 1
Blocks ==
  \/ UNCHANGED queueVars
  \/ queued > 0 /\ queued' = queued - 1 /\ blocked' = blocked + 1

\* learningStateChanged, after the store has moved clock and generations.
LearningStateChanged ==
  /\ attempted' = "none"
  /\ UNCHANGED <<lifeVars, usage, budgetTimer, overtaken>>
  /\ ScheduleIdle /\ Kick

LearnerMay == Task /\ enabled /\ ~stopped

Understood ==
  /\ LearnerMay
  /\ baseline' = 0 /\ batch' = TRUE /\ begun' = "no" /\ Unblocks
  /\ flight' = [Aborted EXCEPT !.fresh = FALSE] /\ UNCHANGED waiting
  /\ LearningStateChanged

NotUnderstood ==
  /\ LearnerMay
  /\ baseline' = 0 /\ begun' = "no"
  /\ flight' = Aborted /\ waiting' = waiting \cup {"rephrase"}
  /\ UNCHANGED <<queueVars, batch>>
  /\ LearningStateChanged

\* The same not-understood again, while its rephrase is still to be made.
ResentFeedback ==
  /\ LearnerMay /\ ("rephrase" \in waiting \/ flight.kind = "rephrase")
  /\ begun' = Excused /\ flight' = Aborted
  /\ UNCHANGED <<queueVars, waiting, baseline, batch>>
  /\ LearningStateChanged

Reopen ==
  /\ LearnerMay
  /\ baseline' = 0 /\ begun' = "no" /\ flight' = Aborted
  /\ UNCHANGED <<queueVars, waiting, batch>>
  /\ LearningStateChanged

\* updateLearnerProfile writes the store and tells the scheduler nothing.
UpdateProfile ==
  /\ Task /\ ProfileEdits /\ ~stopped
  /\ baseline' = 0 /\ attempted' = Moved
  /\ begun' = "no" /\ unscheduled' = TRUE
  /\ flight' = [flight EXCEPT !.fresh = FALSE]
  /\ UNCHANGED <<lifeVars, queueVars, waiting, drain, usage, batch,
                 timerVars, overtaken>>

-----------------------------------------------------------------------------
\* Time, and the timers that have run down.
Older(age, most) == IF age = Never \/ age = most THEN age ELSE age + 1
Sooner(rest) == IF rest = Never \/ rest = 0 THEN rest ELSE rest - 1

Tick ==
  /\ Task
  /\ usage' = [s \in Slot |-> Older(usage[s], Day)]
  /\ baseline' = Older(baseline, IdleMs)
  /\ idleTimer' = Sooner(idleTimer) /\ budgetTimer' = Sooner(budgetTimer)
  /\ UNCHANGED <<lifeVars, workVars, batch, attempted, history>>

IdleFires ==
  /\ Task /\ idleTimer = 0
  /\ idleTimer' = Never
  /\ UNCHANGED <<lifeVars, queueVars, waiting, flight, usage, idleVars,
                 budgetTimer, history>>
  /\ Kick

BudgetFires ==
  /\ Task /\ budgetTimer = 0
  /\ budgetTimer' = Never
  /\ UNCHANGED <<lifeVars, queueVars, waiting, flight, usage, idleVars,
                 idleTimer, history>>
  /\ Kick

-----------------------------------------------------------------------------
\* The drain. Without a route mustRoute throws, and the drain is over.
Deciding == drain = "entered" /\ Going
Begin(kind) ==
  IF routed
  THEN /\ flight' = [kind |-> kind, aborted |-> FALSE, fresh |-> TRUE]
       /\ drain' = "running"
  ELSE drain' = "leaving" /\ UNCHANGED flight

Stop ==
  /\ drain = "entered" /\ ~Going
  /\ drain' = "leaving"
  /\ UNCHANGED <<lifeVars, queueVars, waiting, flight, usage, idleVars,
                 timerVars, history>>

Priority(k) == CASE k = "manual" -> 1 [] k = "review" -> 2 [] OTHER -> 3

TakeExplicit ==
  /\ Deciding
  /\ \E k \in waiting :
       /\ \A j \in waiting : Priority(k) <= Priority(j)
       /\ Begin(k)
       /\ waiting' = IF k = "rephrase" /\ ~routed
                     THEN waiting ELSE waiting \ {k}
  /\ UNCHANGED <<lifeVars, queueVars, usage, idleVars, timerVars, history>>

TakeCandidate ==
  /\ Deciding /\ waiting = {} /\ Executable
  /\ Begin("auto") /\ queued' = queued - 1
  /\ UNCHANGED <<lifeVars, blocked, waiting, usage, idleVars, timerVars,
                 history>>

\* A blocked budget arms its timer each time the drain comes by.
LookAtBudget == IF BudgetOpen THEN UNCHANGED budgetTimer ELSE ArmBudget

\* runIdleCompaction names the key before it asks; the fault names it when the
\* answer has come.
BeginIdleUnnamed ==
  /\ Deciding /\ waiting = {} /\ ~Executable /\ IdleDue
  /\ LookAtBudget /\ Begin("idle")
  /\ IF routed THEN begun' = "yes" ELSE UNCHANGED begun
  /\ UNCHANGED <<lifeVars, queueVars, waiting, usage, idleVars, idleTimer,
                 unscheduled, overtaken>>
BeginIdle ==
  /\ Deciding /\ waiting = {} /\ ~Executable /\ IdleDue
  /\ LookAtBudget /\ Begin("idle")
  /\ IF routed THEN attempted' = "current" /\ begun' = "yes"
     ELSE UNCHANGED <<attempted, begun>>
  /\ UNCHANGED <<lifeVars, queueVars, waiting, usage, baseline, batch,
                 idleTimer, unscheduled, overtaken>>

Rest ==
  /\ Deciding /\ waiting = {} /\ ~Executable /\ ~IdleDue
  /\ LookAtBudget /\ drain' = "leaving"
  /\ overtaken' = FALSE
  /\ UNCHANGED <<lifeVars, queueVars, waiting, flight, usage, idleVars, begun>>
  /\ ScheduleIdle

\* The finally of kick looks for work that has come since.
Leave ==
  /\ drain = "leaving"
  /\ drain' = IF Going /\ ImmediateWork THEN "entered" ELSE "off"
  /\ UNCHANGED <<lifeVars, queueVars, waiting, flight, usage, idleVars,
                 timerVars, history>>

-----------------------------------------------------------------------------
\* The request in flight ends, and the drain goes on. An answer is a task of
\* its own: it does not come between the microtasks of a configure call.
Answered == drain = "running" /\ refresh # "recording"
Ends == Answered /\ flight' = None /\ drain' = "entered"

\* compactOnce under pressure, before the request proper.
PressureCompacts ==
  /\ Answered
  /\ flight.kind \in {"manual", "rephrase", "auto"} /\ flight.fresh /\ batch
  /\ batch' = FALSE
  /\ UNCHANGED <<lifeVars, workVars, usage, baseline, attempted, timerVars,
                 history>>

\* Failed, cancelled, out of date, or refused by the store. A rephrase that
\* was cancelled is still pending.
ExplicitFails ==
  /\ flight.kind \in Explicit /\ Ends
  /\ waiting' = IF flight.kind = "rephrase" /\ ~Current
                THEN waiting \cup {"rephrase"} ELSE waiting
  /\ UNCHANGED <<lifeVars, queueVars, usage, idleVars, timerVars, history>>

CommitManual ==
  /\ flight.kind = "manual" /\ Current /\ Ends
  /\ baseline' = 0 /\ attempted' = "none" /\ begun' = "no" /\ Blocks
  /\ UNCHANGED <<lifeVars, waiting, usage, batch, budgetTimer, overtaken>>
  /\ ScheduleIdle

CommitReview ==
  /\ flight.kind = "review" /\ Current /\ Ends
  /\ baseline' = 0 /\ attempted' = Moved
  /\ begun' = "no" /\ unscheduled' = TRUE
  /\ UNCHANGED <<lifeVars, queueVars, waiting, usage, batch, timerVars,
                 overtaken>>

CommitRephrase ==
  /\ flight.kind = "rephrase" /\ Current /\ Ends
  /\ UNCHANGED <<lifeVars, queueVars, waiting, usage, idleVars, timerVars,
                 history>>

\* An autonomous request reserves a slot of the budget just before it is sent.
\* A limit lowered meanwhile defers the candidate.
Reserve ==
  /\ Answered /\ flight.kind = "auto" /\ Current /\ BudgetOpen
  /\ usage' = [s \in Slot |-> IF s = 1 THEN 0 ELSE usage[s - 1]]
  /\ flight' = [flight EXCEPT !.kind = "asking"]
  /\ UNCHANGED <<lifeVars, queueVars, waiting, drain, idleVars, timerVars,
                 history>>

DeferForBudget ==
  /\ flight.kind = "auto" /\ Current /\ ~BudgetOpen /\ Ends
  /\ GivesBack /\ ArmBudget
  /\ UNCHANGED <<lifeVars, blocked, waiting, usage, idleVars, idleTimer,
                 history>>

\* Failed or superseded, perhaps to be retried, or cancelled and handed back.
AutoFails ==
  /\ flight.kind \in {"auto", "asking"} /\ Ends
  /\ IF enabled /\ ~stopped /\ ~resetting THEN GivesBack ELSE UNCHANGED queued
  /\ UNCHANGED <<lifeVars, blocked, waiting, usage, idleVars, timerVars,
                 history>>

\* commitAutoDecision: perhaps an observation, which moves the context
\* generation, perhaps an explanation. Either way idleAttempted is cleared.
CommitAuto ==
  /\ flight.kind = "asking" /\ Current /\ Ends
  /\ attempted' = "none"
  /\ \E observed, explained \in BOOLEAN :
       /\ batch' = (batch \/ observed)
       /\ begun' = IF observed THEN "no" ELSE Excused
       /\ baseline' = IF baseline = Never /\ (observed \/ explained)
                      THEN 0 ELSE baseline
       /\ IF explained THEN Blocks ELSE UNCHANGED queueVars
  /\ UNCHANGED <<lifeVars, waiting, usage, budgetTimer, overtaken>>
  /\ ScheduleIdle

\* The compaction commits, on the context it was made of; it may leave a rest
\* that did not fit.
IdleCommits ==
  /\ flight.kind = "idle" /\ flight.fresh /\ Ends
  /\ batch' \in {FALSE, batch}
  /\ UNCHANGED <<lifeVars, queueVars, waiting, usage, baseline, attempted,
                 budgetTimer, begun, overtaken>>
  /\ ScheduleIdle

\* It fails or is out of date; only a cancelled one is forgotten.
IdleFails ==
  /\ flight.kind = "idle" /\ Ends
  /\ IF flight.aborted THEN attempted' = "none" /\ begun' = "no"
     ELSE UNCHANGED <<attempted, begun>>
  /\ UNCHANGED <<lifeVars, queueVars, waiting, usage, baseline, batch,
                 budgetTimer, overtaken>>
  /\ ScheduleIdle

-----------------------------------------------------------------------------
Settings ==
  \/ Enable \/ Disable \/ (\E n \in Slot : SetLimit(n)) \/ AdaptersUpdated
  \/ Resolved \/ Unresolved \/ RecordEnable \/ LosesLease
  \/ ResetBegins \/ ResetEnds \/ Dispose
Learner ==
  \/ (\E k \in Requests : Request(k)) \/ Enqueue
  \/ Understood \/ NotUnderstood \/ ResentFeedback \/ Reopen \/ UpdateProfile
Clock == Tick \/ IdleFires \/ BudgetFires
Drain == Stop \/ TakeExplicit \/ TakeCandidate \/ BeginIdle \/ Rest \/ Leave
FlightEnds ==
  \/ ExplicitFails \/ CommitManual \/ CommitReview \/ CommitRephrase
  \/ DeferForBudget \/ AutoFails \/ CommitAuto \/ IdleCommits \/ IdleFails
Flight == PressureCompacts \/ Reserve \/ FlightEnds

Next == Settings \/ Learner \/ Clock \/ Drain \/ Flight
Spec == Init /\ [][Next]_vars

\* Time passes, and the event loop gets to a timer that has run down and to a
\* promise that has settled however many other tasks there are (strong). The
\* drain goes on, and a request ends, if only by its own timeout (weak).
\* Nothing that the learner or the host does is fair.
FairSpec ==
  /\ Spec
  /\ SF_vars(Tick) /\ SF_vars(IdleFires) /\ SF_vars(BudgetFires)
  /\ SF_vars(Resolved \/ Unresolved) /\ SF_vars(FlightEnds)
  /\ WF_vars(Drain) /\ WF_vars(RecordEnable) /\ WF_vars(ResetEnds)

-----------------------------------------------------------------------------
Ready == Going /\ routed
Resting == drain = "off" /\ Ready

\* While the drain rests and there is something to compact that was not tried
\* under the present generations, the idle timer runs, and it does not run
\* longer than until idleCompactMs after the learner's last action; unless the
\* generations were moved by a write that schedules nothing. A disabled runtime
\* has no timer, even when a request of the enabled one ends later.
IdleArmed ==
  /\ Resting /\ batch /\ attempted # "current" /\ ~unscheduled =>
       /\ baseline # Never /\ idleTimer # Never
       /\ idleTimer <= IdleMs - baseline
  /\ ~enabled => idleTimer = Never

\* While the drain rests with candidates it could take, the budget is used up
\* and its timer runs, no longer than until the first slot reopens; unless the
\* kick of a new route fell between the drain's last step and its finally. A
\* disabled runtime has no such timer either.
BudgetArmed ==
  /\ Resting /\ queued > 0 /\ ~overtaken =>
       /\ budgetTimer # Never /\ (BudgetOpen => budgetTimer = 0)
       /\ \A s \in Slot : usage[s] < Day => budgetTimer <= Day - usage[s]
  /\ ~enabled => budgetTimer = Never

\* An idle compaction that failed is parked: under the same generations there
\* is no other one, unless idleAttempted was cleared on purpose.
ParkedUntilActivity ==
  [][flight'.kind = "idle" /\ flight.kind # "idle" => begun # "yes"]_vars

\* What is due for idle compaction, and not held up by other work, is tried.
IdleRuns ==
  []<>~(Ready /\ IdleDue /\ ~unscheduled /\ waiting = {} /\ ~Executable)

\* Candidates that wait for the budget are taken when the window reopens.
BudgetReopens ==
  <>[](Ready /\ queued > 0 /\ waiting = {} /\ ~overtaken)
    => []<>(flight.kind = "auto")

-----------------------------------------------------------------------------
\* Five statements of the documents that do not hold.

\* A successful enable arms the idle timer again for the new generations.
EnableRearms == []<>~(Ready /\ IdleDue /\ waiting = {} /\ ~Executable)

\* Under one pair of generations idle compaction starts at most once, those
\* that were preempted apart.
OneIdleAttempt ==
  [][flight'.kind = "idle" /\ flight.kind # "idle" => begun = "no"]_vars

\* Candidates blocked by the budget have a wakeup for the first free slot.
BlockedHasWakeup == Resting /\ queued > 0 => budgetTimer # Never

\* dispose stops the timers.
StoppedIsSilent == stopped /\ drain = "off" => idleTimer = Never

\* A model result is written only while its signal is not cancelled and learning
\* is on: also the checkpoint of a compaction (compactor.ts:43), by which alone,
\* the clear apart, there is less to compact.
CheckpointIsCurrent == [][batch /\ ~batch' /\ ~resetting => Current]_vars
=============================================================================
