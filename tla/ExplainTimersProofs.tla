------------------------- MODULE ExplainTimersProofs -------------------------
(***************************************************************************)
(* Proofs about ExplainTimers, for any idleCompactMs, day, limits and bounds.*)
(* First the types, then what holds of the idle timer and of the budget's    *)
(* timer while the drain rests or is about to, and of a parked compaction.   *)
(***************************************************************************)
EXTENDS ExplainTimers, FiniteSetTheorems, WellFoundedInduction, TLAPS

-----------------------------------------------------------------------------
(* When the budget reopens.                                                 *)

\* A nonempty set of naturals below a bound has a greatest element.
LEMMA GreatestNatural ==
  ASSUME NEW n \in Nat, NEW T \in SUBSET (0..n), T # {}
  PROVE  \E x \in T : \A y \in T : y <= x
<1> DEFINE D == {n - a : a \in T}
<1>1. D \in SUBSET Nat /\ D # {}
  <2>1. PICK x \in T : TRUE
    OBVIOUS
  <2>2. \A a \in T : a \in Nat /\ a <= n
    OBVIOUS
  <2>3. \A a \in T : n - a \in Nat
    BY <2>2
  <2> QED
    BY <2>1, <2>3
<1> HIDE DEF D
<1>2. PICK d \in D : \A e \in D : ~ (<<e, d>> \in OpToRel(<, Nat))
  BY <1>1, WFMin, NatLessThanWellFounded
<1>3. \A e \in D : ~(e < d)
  BY <1>1, <1>2 DEF OpToRel
<1>4. PICK a \in T : d = n - a
  BY <1>2 DEF D
<1>5. ASSUME NEW y \in T
      PROVE  y <= a
  <2>1. n - y \in D
    BY DEF D
  <2>2. ~(n - y < n - a)
    BY <1>3, <1>4, <2>1
  <2> QED
    BY <1>4, <2>2
<1> QED
  BY <1>4, <1>5

\* While the budget is used up there is a request in the window, and the timer
\* that is armed for the first slot to reopen is early enough for every slot.
LEMMA ResumeInBound ==
  ASSUME usage \in [Slot -> 0..Day], limit \in Slot, ~BudgetOpen
  PROVE  /\ ResumeIn \in 0..Day
         /\ \A s \in Slot : usage[s] < Day => ResumeIn <= Day - usage[s]
<1>1. Day \in Nat /\ limit \in Nat /\ limit >= 1
  BY TimeAssumption, SizeAssumption DEF Slot
<1>2. {s \in Slot : usage[s] < Day} # {}
  BY <1>1, FS_EmptySet DEF BudgetOpen, Used
<1>3. Ages \in SUBSET (0..Day) /\ Ages # {}
  <2>1. PICK s \in Slot : usage[s] < Day
    BY <1>2
  <2>2. usage[s] \in 0..Day /\ usage[s] # Day
    BY <1>1, <2>1
  <2>3. usage[s] \in Ages
    BY <2>2 DEF Ages
  <2>4. \A r \in Slot : usage[r] \in 0..Day
    OBVIOUS
  <2>5. Ages \in SUBSET (0..Day)
    BY <2>4 DEF Ages
  <2> QED
    BY <2>3, <2>5
<1>4. \E a \in Ages : \A b \in Ages : b <= a
  BY <1>1, <1>3, GreatestNatural
<1> DEFINE a == CHOOSE a \in Ages : \A b \in Ages : b <= a
<1>5. a \in Ages /\ \A b \in Ages : b <= a
  BY <1>4
<1>6. ResumeIn = Day - a
  BY DEF ResumeIn
<1> HIDE DEF a
<1>7. \A s \in Slot : usage[s] < Day => usage[s] \in Ages
  BY <1>1 DEF Ages
<1> QED
  BY <1>1, <1>3, <1>5, <1>6, <1>7

-----------------------------------------------------------------------------
(* Types.                                                                   *)

\* The types of the switches, ...
LifeTypes ==
  /\ enabled \in BOOLEAN /\ routed \in BOOLEAN /\ failed \in BOOLEAN
  /\ stopped \in BOOLEAN /\ resetting \in BOOLEAN
  /\ refresh \in {"none", "resolving", "enabling", "recording"}
  /\ limit \in Slot

\* No step leaves them.
LEMMA LifeTypesStep == LifeTypes /\ [Next]_vars => LifeTypes'
<1> SUFFICES ASSUME LifeTypes, [Next]_vars PROVE LifeTypes'
  OBVIOUS
<1> USE DEF LifeTypes
<1>1. CASE Settings
  BY <1>1
  DEF Settings, Enable, Disable, SetLimit, AdaptersUpdated, Resolved, Unresolved,
      RecordEnable, LosesLease, ResetBegins, ResetEnds, Dispose
<1>2. CASE Learner
  BY <1>2
  DEF Learner, Request, Enqueue, Understood, NotUnderstood, ResentFeedback, Reopen,
      UpdateProfile, lifeVars, LearningStateChanged
<1>3. CASE Clock
  BY <1>3 DEF Clock, Tick, IdleFires, BudgetFires, lifeVars
<1>4. CASE Drain
  BY <1>4 DEF Drain, Stop, TakeExplicit, TakeCandidate, BeginIdle, Rest, Leave, lifeVars
<1>5. CASE Flight
  BY <1>5
  DEF Flight, PressureCompacts, Reserve, FlightEnds, ExplicitFails, CommitManual,
      CommitReview, CommitRephrase, DeferForBudget, AutoFails, CommitAuto, IdleCommits,
      IdleFails, lifeVars
<1>6. CASE UNCHANGED vars
  BY <1>6 DEF vars, lifeVars, queueVars, workVars, idleVars, timerVars, history
<1> QED
  BY <1>1, <1>2, <1>3, <1>4, <1>5, <1>6 DEF Next

\* ... of the queue, which never outgrows its cap, ...
QueueTypes ==
  /\ queued \in Nat /\ blocked \in Nat /\ queued + blocked <= MaxQueued

\* No step leaves them, whether a candidate comes, goes or changes sides.
LEMMA QueueTypesStep == QueueTypes /\ [Next]_vars => QueueTypes'
<1> SUFFICES ASSUME QueueTypes, [Next]_vars PROVE QueueTypes'
  OBVIOUS
<1> USE DEF QueueTypes
<1>1. CASE Settings
  BY <1>1, SizeAssumption
  DEF Settings, Enable, Disable, SetLimit, AdaptersUpdated, Resolved, Unresolved,
      RecordEnable, LosesLease, ResetBegins, ResetEnds, Dispose, queueVars, workVars
<1>2. CASE Learner
  BY <1>2, SizeAssumption
  DEF Learner, Request, Enqueue, Understood, NotUnderstood, ResentFeedback, Reopen,
      UpdateProfile, queueVars, Room, Unblocks
<1>3. CASE Clock
  BY <1>3, SizeAssumption DEF Clock, Tick, IdleFires, BudgetFires, queueVars, workVars
<1>4. CASE Drain
  BY <1>4, SizeAssumption
  DEF Drain, Stop, TakeExplicit, TakeCandidate, BeginIdle, Rest, Leave, queueVars,
      Executable
<1>5. CASE Flight
  <2>1. CASE PressureCompacts
    BY <2>1, SizeAssumption DEF PressureCompacts, queueVars, workVars, Answered
  <2>2. CASE Reserve
    BY <2>2, SizeAssumption DEF Reserve, queueVars, Answered
  <2>3. CASE ExplicitFails
    BY <2>3, SizeAssumption DEF ExplicitFails, queueVars, Answered, Ends
  <2>4. CASE CommitManual
    BY <2>4, SizeAssumption DEF CommitManual, queueVars, Blocks, Answered, Ends
  <2>5. CASE CommitReview
    BY <2>5, SizeAssumption DEF CommitReview, queueVars, Answered, Ends
  <2>6. CASE CommitRephrase
    BY <2>6, SizeAssumption DEF CommitRephrase, queueVars, Answered, Ends
  <2>7. CASE DeferForBudget
    <3>1. GivesBack /\ blocked' = blocked
      BY <2>7 DEF DeferForBudget
    <3>2. queued' = queued \/ (queued' = queued + 1 /\ queued + blocked < MaxQueued)
      BY <3>1 DEF GivesBack, Room
    <3> QED
      BY <3>1, <3>2, SizeAssumption
  <2>8. CASE AutoFails
    BY <2>8, SizeAssumption DEF AutoFails, Room, GivesBack, Answered, Ends
  <2>9. CASE CommitAuto
    BY <2>9, SizeAssumption DEF CommitAuto, queueVars, Blocks, Answered, Ends
  <2>10. CASE IdleCommits
    BY <2>10, SizeAssumption DEF IdleCommits, queueVars, Answered, Ends
  <2>11. CASE IdleFails
    BY <2>11, SizeAssumption DEF IdleFails, queueVars, Answered, Ends
  <2> QED
    BY <1>5, <2>1, <2>2, <2>3, <2>4, <2>5, <2>6, <2>7, <2>8, <2>9, <2>10, <2>11
    DEF Flight, FlightEnds
<1>6. CASE UNCHANGED vars
  BY <1>6 DEF vars, lifeVars, queueVars, workVars, idleVars, timerVars, history
<1> QED
  BY <1>1, <1>2, <1>3, <1>4, <1>5, <1>6 DEF Next

\* What a request in flight is.
Requested == [kind : Explicit \cup {"none", "auto", "asking", "idle"},
              aborted : BOOLEAN, fresh : BOOLEAN]

\* ... of the work and where the drain is, ...
WorkTypes ==
  /\ waiting \subseteq Explicit
  /\ flight \in Requested
  /\ drain \in {"off", "entered", "running", "leaving"}

\* What the actions make of the request in flight is a request.
LEMMA RequestsMade ==
  ASSUME WorkTypes
  PROVE  /\ None \in Requested /\ Aborted \in Requested
         /\ Preempted \in Requested
         /\ [Aborted EXCEPT !.fresh = FALSE] \in Requested
         /\ [flight EXCEPT !.fresh = FALSE] \in Requested
         /\ [flight EXCEPT !.kind = "asking"] \in Requested
         /\ \A k \in Explicit \cup {"auto", "idle"} :
              [kind |-> k, aborted |-> FALSE, fresh |-> TRUE] \in Requested
<1>1. flight \in Requested
  BY DEF WorkTypes, Requested
<1>2. None \in Requested
  BY DEF None, Requested
<1>3. \A r \in Requested : /\ [r EXCEPT !.fresh = FALSE] \in Requested
                           /\ [r EXCEPT !.aborted = TRUE] \in Requested
                           /\ [r EXCEPT !.kind = "asking"] \in Requested
  BY DEF Requested
<1>4. Aborted \in Requested
  BY <1>1, <1>2, <1>3 DEF Aborted
<1>5. Preempted \in Requested
  BY <1>1, <1>4 DEF Preempted
<1>6. \A k \in Explicit \cup {"auto", "idle"} :
        [kind |-> k, aborted |-> FALSE, fresh |-> TRUE] \in Requested
  BY DEF Requested
<1> QED
  BY <1>1, <1>2, <1>3, <1>4, <1>5, <1>6

\* No step leaves them.
LEMMA WorkTypesStep == WorkTypes /\ [Next]_vars => WorkTypes'
<1> SUFFICES ASSUME WorkTypes, [Next]_vars PROVE WorkTypes'
  OBVIOUS
<1> USE DEF WorkTypes, Explicit
<1>a. /\ None \in Requested /\ Aborted \in Requested
      /\ Preempted \in Requested
      /\ [Aborted EXCEPT !.fresh = FALSE] \in Requested
      /\ [flight EXCEPT !.fresh = FALSE] \in Requested
      /\ [flight EXCEPT !.kind = "asking"] \in Requested
      /\ \A k \in Explicit \cup {"auto", "idle"} :
           [kind |-> k, aborted |-> FALSE, fresh |-> TRUE] \in Requested
  BY RequestsMade
<1>1. CASE Settings
  BY <1>1, <1>a, RequestsAssumption
  DEF Settings, Enable, Disable, SetLimit, AdaptersUpdated, Resolved, Unresolved,
      RecordEnable, LosesLease, ResetBegins, ResetEnds, Dispose, workVars, Settled, Kick
<1>2. CASE Learner
  <2>1. ASSUME NEW k \in Requests, Request(k) PROVE WorkTypes'
    BY <2>1, <1>a, RequestsAssumption DEF Request, Kick
  <2>2. CASE Enqueue
    BY <2>2, <1>a, RequestsAssumption DEF Enqueue, Kick
  <2>3. CASE Understood
    BY <2>3, <1>a, RequestsAssumption DEF Understood, LearningStateChanged, Kick
  <2>4. CASE NotUnderstood
    BY <2>4, <1>a, RequestsAssumption DEF NotUnderstood, LearningStateChanged, Kick
  <2>5. CASE ResentFeedback
    BY <2>5, <1>a, RequestsAssumption DEF ResentFeedback, LearningStateChanged, Kick
  <2>6. CASE Reopen
    BY <2>6, <1>a, RequestsAssumption DEF Reopen, LearningStateChanged, Kick
  <2>7. CASE UpdateProfile
    BY <2>7, <1>a, RequestsAssumption DEF UpdateProfile
  <2> QED
    BY <1>2, <2>1, <2>2, <2>3, <2>4, <2>5, <2>6, <2>7 DEF Learner
<1>3. CASE Clock
  BY <1>3, <1>a, RequestsAssumption
  DEF Clock, Tick, IdleFires, BudgetFires, workVars, Kick
<1>4. CASE Drain
  <2>1. CASE Stop
    BY <2>1, <1>a, RequestsAssumption DEF Stop
  <2>2. CASE TakeExplicit
    BY <2>2, <1>a, RequestsAssumption DEF TakeExplicit, Begin
  <2>3. CASE TakeCandidate
    BY <2>3, <1>a, RequestsAssumption DEF TakeCandidate, Begin
  <2>4. CASE BeginIdle
    BY <2>4, <1>a, RequestsAssumption DEF BeginIdle, Begin
  <2>5. CASE Rest
    BY <2>5, <1>a, RequestsAssumption DEF Rest
  <2>6. CASE Leave
    BY <2>6, <1>a, RequestsAssumption DEF Leave
  <2> QED
    BY <1>4, <2>1, <2>2, <2>3, <2>4, <2>5, <2>6 DEF Drain
<1>5. CASE Flight
  <2>1. CASE PressureCompacts
    BY <2>1, <1>a, RequestsAssumption DEF PressureCompacts, workVars, Answered
  <2>2. CASE Reserve
    BY <2>2, <1>a, RequestsAssumption DEF Reserve, Answered
  <2>3. CASE ExplicitFails
    BY <2>3, <1>a, RequestsAssumption DEF ExplicitFails, Answered, Ends
  <2>4. CASE CommitManual
    BY <2>4, <1>a, RequestsAssumption DEF CommitManual, Answered, Ends
  <2>5. CASE CommitReview
    BY <2>5, <1>a, RequestsAssumption DEF CommitReview, Answered, Ends
  <2>6. CASE CommitRephrase
    BY <2>6, <1>a, RequestsAssumption DEF CommitRephrase, Answered, Ends
  <2>7. CASE DeferForBudget
    BY <2>7, <1>a, RequestsAssumption DEF DeferForBudget, Answered, Ends
  <2>8. CASE AutoFails
    BY <2>8, <1>a, RequestsAssumption DEF AutoFails, Answered, Ends
  <2>9. CASE CommitAuto
    BY <2>9, <1>a, RequestsAssumption DEF CommitAuto, Answered, Ends
  <2>10. CASE IdleCommits
    BY <2>10, <1>a, RequestsAssumption DEF IdleCommits, Answered, Ends
  <2>11. CASE IdleFails
    BY <2>11, <1>a, RequestsAssumption DEF IdleFails, Answered, Ends
  <2> QED
    BY <1>5, <2>1, <2>2, <2>3, <2>4, <2>5, <2>6, <2>7, <2>8, <2>9, <2>10, <2>11
    DEF Flight, FlightEnds
<1>6. CASE UNCHANGED vars
  BY <1>6 DEF vars, lifeVars, queueVars, workVars, idleVars, timerVars, history
<1> QED
  BY <1>1, <1>2, <1>3, <1>4, <1>5, <1>6 DEF Next

\* ... of the clocks, ...
IdleTypes ==
  /\ usage \in [Slot -> 0..Day]
  /\ baseline \in (0..IdleMs) \cup {Never} /\ batch \in BOOLEAN
  /\ attempted \in {"none", "current", "old"}

\* No step leaves them: a tick ages nothing beyond its bound.
LEMMA IdleTypesStep == IdleTypes /\ [Next]_vars => IdleTypes'
<1> SUFFICES ASSUME IdleTypes, [Next]_vars PROVE IdleTypes'
  OBVIOUS
<1> USE DEF IdleTypes
<1>a. 0 \in 0..IdleMs /\ 0 \in 0..Day
  BY TimeAssumption
<1>1. CASE Settings
  <2>1. CASE Enable
    BY <2>1, <1>a, TimeAssumption, NeverAssumption DEF Enable, idleVars
  <2>2. CASE Disable
    BY <2>2, <1>a, TimeAssumption, NeverAssumption DEF Disable, idleVars
  <2>3. ASSUME NEW n \in Slot, SetLimit(n) PROVE IdleTypes'
    BY <2>3, <1>a, TimeAssumption, NeverAssumption DEF SetLimit, idleVars
  <2>4. CASE AdaptersUpdated
    BY <2>4, <1>a, TimeAssumption, NeverAssumption DEF AdaptersUpdated, idleVars
  <2>5. CASE Resolved
    BY <2>5, <1>a, TimeAssumption, NeverAssumption DEF Resolved, idleVars
  <2>6. CASE Unresolved
    BY <2>6, <1>a, TimeAssumption, NeverAssumption DEF Unresolved, idleVars
  <2>7. CASE RecordEnable
    BY <2>7, <1>a, TimeAssumption, NeverAssumption DEF RecordEnable, Moved
  <2>8. CASE LosesLease
    BY <2>8, <1>a, TimeAssumption, NeverAssumption DEF LosesLease, idleVars
  <2>9. CASE ResetBegins
    BY <2>9, <1>a, TimeAssumption, NeverAssumption DEF ResetBegins, idleVars
  <2>10. CASE ResetEnds
    BY <2>10, <1>a, TimeAssumption, NeverAssumption DEF ResetEnds
  <2>11. CASE Dispose
    BY <2>11, <1>a, TimeAssumption, NeverAssumption DEF Dispose, idleVars
  <2> QED
    BY <1>1, <2>1, <2>2, <2>3, <2>4, <2>5, <2>6, <2>7, <2>8, <2>9, <2>10, <2>11
    DEF Settings
<1>2. CASE Learner
  <2>1. ASSUME NEW k \in Requests, Request(k) PROVE IdleTypes'
    BY <2>1, <1>a, TimeAssumption, NeverAssumption DEF Request, idleVars
  <2>2. CASE Enqueue
    BY <2>2, <1>a, TimeAssumption, NeverAssumption DEF Enqueue, idleVars
  <2>3. CASE Understood
    BY <2>3, <1>a, TimeAssumption, NeverAssumption DEF Understood, LearningStateChanged
  <2>4. CASE NotUnderstood
    BY <2>4, <1>a, TimeAssumption, NeverAssumption DEF NotUnderstood, LearningStateChanged
  <2>5. CASE ResentFeedback
    BY <2>5, <1>a, TimeAssumption, NeverAssumption
    DEF ResentFeedback, LearningStateChanged
  <2>6. CASE Reopen
    BY <2>6, <1>a, TimeAssumption, NeverAssumption DEF Reopen, LearningStateChanged
  <2>7. CASE UpdateProfile
    BY <2>7, <1>a, TimeAssumption, NeverAssumption DEF UpdateProfile, Moved
  <2> QED
    BY <1>2, <2>1, <2>2, <2>3, <2>4, <2>5, <2>6, <2>7 DEF Learner
<1>3. CASE Clock
  BY <1>3, <1>a, TimeAssumption, NeverAssumption
  DEF Clock, Tick, IdleFires, BudgetFires, idleVars, Older
<1>4. CASE Drain
  BY <1>4, <1>a, TimeAssumption, NeverAssumption
  DEF Drain, Stop, TakeExplicit, TakeCandidate, BeginIdle, Rest, Leave, idleVars
<1>5. CASE Flight
  <2>1. CASE PressureCompacts
    BY <2>1, <1>a, TimeAssumption, NeverAssumption DEF PressureCompacts
  <2>2. CASE Reserve
    <3>1. /\ usage' = [s \in Slot |-> IF s = 1 THEN 0 ELSE usage[s - 1]]
          /\ UNCHANGED <<baseline, batch, attempted>>
      BY <2>2 DEF Reserve, idleVars
    <3>2. \A s \in Slot : s # 1 => s - 1 \in Slot
      BY SizeAssumption DEF Slot
    <3> QED
      BY <3>1, <3>2, <1>a
  <2>3. CASE ExplicitFails
    BY <2>3, <1>a, TimeAssumption, NeverAssumption DEF ExplicitFails, idleVars
  <2>4. CASE CommitManual
    BY <2>4, <1>a, TimeAssumption, NeverAssumption DEF CommitManual
  <2>5. CASE CommitReview
    BY <2>5, <1>a, TimeAssumption, NeverAssumption DEF CommitReview, Moved
  <2>6. CASE CommitRephrase
    BY <2>6, <1>a, TimeAssumption, NeverAssumption DEF CommitRephrase, idleVars
  <2>7. CASE DeferForBudget
    BY <2>7, <1>a, TimeAssumption, NeverAssumption DEF DeferForBudget, idleVars
  <2>8. CASE AutoFails
    BY <2>8, <1>a, TimeAssumption, NeverAssumption DEF AutoFails, idleVars
  <2>9. CASE CommitAuto
    BY <2>9, <1>a, TimeAssumption, NeverAssumption DEF CommitAuto
  <2>10. CASE IdleCommits
    BY <2>10, <1>a, TimeAssumption, NeverAssumption DEF IdleCommits
  <2>11. CASE IdleFails
    BY <2>11, <1>a, TimeAssumption, NeverAssumption DEF IdleFails
  <2> QED
    BY <1>5, <2>1, <2>2, <2>3, <2>4, <2>5, <2>6, <2>7, <2>8, <2>9, <2>10, <2>11
    DEF Flight, FlightEnds
<1>6. CASE UNCHANGED vars
  BY <1>6 DEF vars, lifeVars, queueVars, workVars, idleVars, timerVars, history
<1> QED
  BY <1>1, <1>2, <1>3, <1>4, <1>5, <1>6 DEF Next

\* ... and of the history.
HistoryTypes ==
  /\ begun \in {"no", "yes", "excused"}
  /\ unscheduled \in BOOLEAN /\ overtaken \in BOOLEAN

\* No step leaves them.
LEMMA HistoryTypesStep == HistoryTypes /\ [Next]_vars => HistoryTypes'
<1> SUFFICES ASSUME HistoryTypes, [Next]_vars PROVE HistoryTypes'
  OBVIOUS
<1> USE DEF HistoryTypes
<1>1. CASE Settings
  BY <1>1
  DEF Settings, Enable, Disable, SetLimit, AdaptersUpdated, Resolved, Unresolved,
      RecordEnable, LosesLease, ResetBegins, ResetEnds, Dispose, history, ScheduleIdle,
      Excused
<1>2. CASE Learner
  BY <1>2
  DEF Learner, Request, Enqueue, Understood, NotUnderstood, ResentFeedback, Reopen,
      UpdateProfile, history, LearningStateChanged, ScheduleIdle, Excused
<1>3. CASE Clock
  BY <1>3 DEF Clock, Tick, IdleFires, BudgetFires, history
<1>4. CASE Drain
  BY <1>4
  DEF Drain, Stop, TakeExplicit, TakeCandidate, BeginIdle, Rest, Leave, history,
      ScheduleIdle
<1>5. CASE Flight
  BY <1>5
  DEF Flight, PressureCompacts, Reserve, FlightEnds, ExplicitFails, CommitManual,
      CommitReview, CommitRephrase, DeferForBudget, AutoFails, CommitAuto, IdleCommits,
      IdleFails, history, ScheduleIdle, Excused
<1>6. CASE UNCHANGED vars
  BY <1>6 DEF vars, lifeVars, queueVars, workVars, idleVars, timerVars, history
<1> QED
  BY <1>1, <1>2, <1>3, <1>4, <1>5, <1>6 DEF Next

-----------------------------------------------------------------------------
(* The types of the timers, which need the other types before and after.    *)

\* A timer runs within its span, or not at all.
TimerTypes ==
  /\ idleTimer \in (0..IdleMs) \cup {Never}
  /\ budgetTimer \in (0..Day) \cup {Never}

\* What is left of a span, some of which has gone by.
LEMMA Remaining ==
  ASSUME NEW n \in Nat, NEW age \in 0..n
  PROVE  n - age \in 0..n
OBVIOUS

\* scheduleIdle never arms the timer for longer than idleCompactMs.
LEMMA ScheduleInBound ==
  ASSUME IdleTypes', ScheduleIdle
  PROVE  idleTimer' \in (0..IdleMs) \cup {Never}
<1>1. CASE idleTimer' = Never
  BY <1>1
<1>2. CASE idleTimer' = IdleMs - baseline' /\ baseline' # Never
  <2>1. baseline' \in 0..IdleMs
    BY <1>2 DEF IdleTypes
  <2>2. IdleMs - baseline' \in 0..IdleMs
    BY <2>1, TimeAssumption, Remaining
  <2> QED
    BY <1>2, <2>2
<1> QED
  BY <1>1, <1>2 DEF ScheduleIdle

\* Nor does a tick.
LEMMA SoonerInBound ==
  ASSUME NEW n \in Nat, NEW x \in (0..n) \cup {Never}
  PROVE  Sooner(x) \in (0..n) \cup {Never}
BY NeverAssumption DEF Sooner

\* No step leaves them: what a step arms is in bounds.
LEMMA TimerTypesStep ==
  LifeTypes /\ IdleTypes /\ IdleTypes' /\ TimerTypes /\ [Next]_vars => TimerTypes'
<1> SUFFICES ASSUME LifeTypes, IdleTypes, IdleTypes', TimerTypes, [Next]_vars
             PROVE  TimerTypes'
  OBVIOUS
<1>a. ScheduleIdle => idleTimer' \in (0..IdleMs) \cup {Never}
  BY ScheduleInBound
<1>b. ~BudgetOpen => ResumeIn \in (0..Day) \cup {Never}
  BY ResumeInBound DEF LifeTypes, IdleTypes
<1>c. /\ Sooner(idleTimer) \in (0..IdleMs) \cup {Never}
      /\ Sooner(budgetTimer) \in (0..Day) \cup {Never}
  BY SoonerInBound, TimeAssumption DEF TimerTypes
<1> USE DEF TimerTypes
<1>1. CASE Settings
  BY <1>1, <1>a, <1>b, <1>c
  DEF Settings, Enable, Disable, SetLimit, AdaptersUpdated, Resolved, Unresolved,
      RecordEnable, LosesLease, ResetBegins, ResetEnds, Dispose, timerVars
<1>2. CASE Learner
  BY <1>2, <1>a, <1>b, <1>c
  DEF Learner, Request, Enqueue, Understood, NotUnderstood, ResentFeedback, Reopen,
      UpdateProfile, timerVars, LearningStateChanged
<1>3. CASE Clock
  BY <1>3, <1>a, <1>b, <1>c DEF Clock, Tick, IdleFires, BudgetFires
<1>4. CASE Drain
  BY <1>4, <1>a, <1>b, <1>c
  DEF Drain, Stop, TakeExplicit, TakeCandidate, BeginIdle, Rest, Leave, timerVars,
      LookAtBudget, ArmBudget
<1>5. CASE Flight
  BY <1>5, <1>a, <1>b, <1>c
  DEF Flight, PressureCompacts, Reserve, FlightEnds, ExplicitFails, CommitManual,
      CommitReview, CommitRephrase, DeferForBudget, AutoFails, CommitAuto, IdleCommits,
      IdleFails, timerVars, ArmBudget
<1>6. CASE UNCHANGED vars
  BY <1>6 DEF vars, lifeVars, queueVars, workVars, idleVars, timerVars, history
<1> QED
  BY <1>1, <1>2, <1>3, <1>4, <1>5, <1>6 DEF Next

\* All of the types.
Typed ==
  /\ LifeTypes /\ QueueTypes /\ WorkTypes /\ IdleTypes /\ HistoryTypes
  /\ TimerTypes

\* All types hold at the start, ...
LEMMA TypedInit == Init => Typed
<1> SUFFICES ASSUME Init PROVE Typed
  OBVIOUS
<1>1. LifeTypes
  BY DEF Init, LifeTypes
<1>2. QueueTypes
  BY SizeAssumption DEF Init, QueueTypes
<1>3. WorkTypes
  BY DEF Init, WorkTypes, Requested, None, Explicit
<1>4. IdleTypes
  BY DEF Init, IdleTypes
<1>5. HistoryTypes
  BY DEF Init, HistoryTypes
<1>6. TimerTypes
  BY DEF Init, TimerTypes
<1> QED
  BY <1>1, <1>2, <1>3, <1>4, <1>5, <1>6 DEF Typed

\* ... every step keeps them, ...
LEMMA TypedStep == Typed /\ [Next]_vars => Typed'
BY LifeTypesStep, QueueTypesStep, WorkTypesStep, IdleTypesStep, HistoryTypesStep,
   TimerTypesStep
DEF Typed

\* ... so they hold always, ...
LEMMA TypedAlways == Spec => []Typed
BY TypedInit, TypedStep, PTL DEF Spec

\* ... and give the type invariant.
LEMMA TypedGivesTypes == Typed => TypeOK
<1> SUFFICES ASSUME Typed PROVE TypeOK
  OBVIOUS
<1>1. queued \in 0..MaxQueued /\ blocked \in 0..MaxQueued
  BY SizeAssumption DEF Typed, QueueTypes
<1> QED
  BY <1>1
  DEF TypeOK, Typed, LifeTypes, WorkTypes, Requested, IdleTypes, HistoryTypes, TimerTypes

\* Every variable keeps its type: in particular no timer is ever armed for
\* longer than idleCompactMs or a day (scheduleIdle, autoBudget's resumeAt).
THEOREM TypeCorrect == Spec => []TypeOK
BY TypedAlways, TypedGivesTypes, PTL

-----------------------------------------------------------------------------
(* The idle timer.                                                          *)

\* What there is to compact comes of something the learner did.
Backed == batch => baseline # Never

\* A disabled scheduler has no route and no timer.
OffHasNone == ~enabled => ~routed /\ idleTimer = Never /\ budgetTimer = Never

\* IdleArmed holds already when the drain is about to rest.
IdleReady ==
  drain \in {"off", "leaving"} /\ Ready /\ batch /\ attempted # "current" /\ ~unscheduled =>
    baseline # Never /\ idleTimer # Never /\ idleTimer <= IdleMs - baseline

\* Whatever brings something to compact has moved the learner's clock, or finds
\* it set.
LEMMA BackedStep == Typed /\ Backed /\ [Next]_vars => Backed'
<1> SUFFICES ASSUME Typed, Backed, [Next]_vars PROVE Backed'
  OBVIOUS
<1> USE DEF Backed
<1>a. 0 # Never /\ (baseline # Never => Older(baseline, IdleMs) # Never)
  BY NeverAssumption, TimeAssumption DEF Older, Typed, IdleTypes
<1>1. CASE Settings
  BY <1>1, <1>a
  DEF Settings, Enable, Disable, SetLimit, AdaptersUpdated, Resolved, Unresolved,
      RecordEnable, LosesLease, ResetBegins, ResetEnds, Dispose, idleVars
<1>2. CASE Learner
  BY <1>2, <1>a
  DEF Learner, Request, Enqueue, Understood, NotUnderstood, ResentFeedback, Reopen,
      UpdateProfile, idleVars, LearningStateChanged
<1>3. CASE Clock
  BY <1>3, <1>a DEF Clock, Tick, IdleFires, BudgetFires, idleVars
<1>4. CASE Drain
  BY <1>4, <1>a
  DEF Drain, Stop, TakeExplicit, TakeCandidate, BeginIdle, Rest, Leave, idleVars
<1>5. CASE Flight
  <2>1. CASE PressureCompacts
    BY <2>1, <1>a DEF PressureCompacts
  <2>2. CASE Reserve
    BY <2>2, <1>a DEF Reserve, idleVars
  <2>3. CASE ExplicitFails
    BY <2>3, <1>a DEF ExplicitFails, idleVars
  <2>4. CASE CommitManual
    BY <2>4, <1>a DEF CommitManual
  <2>5. CASE CommitReview
    BY <2>5, <1>a DEF CommitReview
  <2>6. CASE CommitRephrase
    BY <2>6, <1>a DEF CommitRephrase, idleVars
  <2>7. CASE DeferForBudget
    BY <2>7, <1>a DEF DeferForBudget, idleVars
  <2>8. CASE AutoFails
    BY <2>8, <1>a DEF AutoFails, idleVars
  <2>9. CASE CommitAuto
    BY <2>9, <1>a DEF CommitAuto
  <2>10. CASE IdleCommits
    BY <2>10, <1>a DEF IdleCommits
  <2>11. CASE IdleFails
    BY <2>11, <1>a DEF IdleFails
  <2> QED
    BY <1>5, <2>1, <2>2, <2>3, <2>4, <2>5, <2>6, <2>7, <2>8, <2>9, <2>10, <2>11
    DEF Flight, FlightEnds
<1>6. CASE UNCHANGED vars
  BY <1>6 DEF vars, lifeVars, queueVars, workVars, idleVars, timerVars, history
<1> QED
  BY <1>1, <1>2, <1>3, <1>4, <1>5, <1>6 DEF Next

\* No step of a disabled scheduler gives it a route or a timer.
LEMMA OffHasNoneStep == OffHasNone /\ [Next]_vars => OffHasNone'
<1> SUFFICES ASSUME OffHasNone, [Next]_vars PROVE OffHasNone'
  OBVIOUS
<1> USE DEF OffHasNone
<1>a. Sooner(Never) = Never
  BY DEF Sooner
<1>1. CASE Settings
  BY <1>1, <1>a
  DEF Settings, Enable, Disable, SetLimit, AdaptersUpdated, Resolved, Unresolved,
      RecordEnable, LosesLease, ResetBegins, ResetEnds, Dispose, timerVars, ScheduleIdle
<1>2. CASE Learner
  BY <1>2, <1>a
  DEF Learner, Request, Enqueue, Understood, NotUnderstood, ResentFeedback, Reopen,
      UpdateProfile, lifeVars, timerVars, LearningStateChanged, ScheduleIdle, Going,
      LearnerMay
<1>3. CASE Clock
  BY <1>3, <1>a DEF Clock, Tick, IdleFires, BudgetFires, lifeVars
<1>4. CASE Drain
  BY <1>4, <1>a
  DEF Drain, Stop, TakeExplicit, TakeCandidate, BeginIdle, Rest, Leave, lifeVars,
      timerVars, ScheduleIdle, LookAtBudget, ArmBudget, Deciding, Going
<1>5. CASE Flight
  <2>1. CASE PressureCompacts
    BY <2>1, <1>a DEF PressureCompacts, lifeVars, timerVars
  <2>2. CASE Reserve
    BY <2>2, <1>a DEF Reserve, lifeVars, timerVars, Current
  <2>3. CASE ExplicitFails
    BY <2>3, <1>a DEF ExplicitFails, lifeVars, timerVars, Current
  <2>4. CASE CommitManual
    BY <2>4, <1>a DEF CommitManual, lifeVars, ScheduleIdle, Current
  <2>5. CASE CommitReview
    BY <2>5, <1>a DEF CommitReview, lifeVars, timerVars, Current
  <2>6. CASE CommitRephrase
    BY <2>6, <1>a DEF CommitRephrase, lifeVars, timerVars, Current
  <2>7. CASE DeferForBudget
    BY <2>7, <1>a DEF DeferForBudget, lifeVars, ArmBudget, Current
  <2>8. CASE AutoFails
    BY <2>8, <1>a DEF AutoFails, lifeVars, timerVars
  <2>9. CASE CommitAuto
    BY <2>9, <1>a DEF CommitAuto, lifeVars, ScheduleIdle, Current
  <2>10. CASE IdleCommits
    BY <2>10, <1>a DEF IdleCommits, lifeVars, ScheduleIdle
  <2>11. CASE IdleFails
    BY <2>11, <1>a DEF IdleFails, lifeVars, ScheduleIdle
  <2> QED
    BY <1>5, <2>1, <2>2, <2>3, <2>4, <2>5, <2>6, <2>7, <2>8, <2>9, <2>10, <2>11
    DEF Flight, FlightEnds
<1>6. CASE UNCHANGED vars
  BY <1>6 DEF vars, lifeVars, queueVars, workVars, idleVars, timerVars, history
<1> QED
  BY <1>1, <1>2, <1>3, <1>4, <1>5, <1>6 DEF Next

\* scheduleIdle establishes what the resting drain relies on.
LEMMA ScheduledIsReady ==
  ASSUME IdleTypes', Backed', ScheduleIdle
  PROVE  IdleReady'
<1> SUFFICES ASSUME Ready', batch', attempted' # "current"
             PROVE  /\ baseline' # Never /\ idleTimer' # Never
                    /\ idleTimer' <= IdleMs - baseline'
  BY DEF IdleReady
<1>1. baseline' \in 0..IdleMs
  BY DEF Backed, IdleTypes
<1>2. idleTimer' = IdleMs - baseline' /\ baseline' # Never
  <2>1. baseline' # Never
    BY DEF Backed
  <2>2. enabled' /\ ~resetting'
    BY DEF Ready, Going
  <2> QED
    BY <2>1, <2>2, Zenon DEF ScheduleIdle
<1>3. idleTimer' \in Nat /\ idleTimer' <= IdleMs - baseline'
  <2>1. IdleMs - baseline' \in 0..IdleMs
    BY <1>1, TimeAssumption, Remaining
  <2> QED
    BY <1>2, <2>1
<1> QED
  BY <1>2, <1>3, NeverAssumption

\* A tick brings the timer and the instant it waits for equally nearer.
LEMMA TickKeepsIdle ==
  ASSUME Typed, IdleReady, Tick
  PROVE  IdleReady'
<1> SUFFICES ASSUME drain' \in {"off", "leaving"}, Ready', batch', attempted' # "current",
                    ~unscheduled'
             PROVE  /\ baseline' # Never /\ idleTimer' # Never
                    /\ idleTimer' <= IdleMs - baseline'
  BY DEF IdleReady
<1>1. /\ drain' = drain /\ batch' = batch /\ attempted' = attempted
      /\ unscheduled' = unscheduled /\ (Ready' <=> Ready)
  BY DEF Tick, workVars, lifeVars, history, Ready, Going
<1>2. baseline # Never /\ idleTimer # Never /\ idleTimer <= IdleMs - baseline
  BY <1>1 DEF IdleReady
<1>3. baseline \in 0..IdleMs /\ idleTimer \in 0..IdleMs /\ IdleMs \in Nat
  BY <1>2, TimeAssumption DEF Typed, IdleTypes, TimerTypes
<1>4. /\ baseline' = IF baseline = IdleMs THEN baseline ELSE baseline + 1
      /\ idleTimer' = IF idleTimer = 0 THEN 0 ELSE idleTimer - 1
  BY <1>2 DEF Tick, Older, Sooner
<1>5. baseline' \in Nat /\ idleTimer' \in Nat /\ idleTimer' <= IdleMs - baseline'
  BY <1>2, <1>3, <1>4
<1> QED
  BY <1>5, NeverAssumption

\* Each step schedules, keeps the timer, or leaves nothing to promise.
LEMMA IdleReadyStep ==
  Typed /\ IdleTypes' /\ Backed' /\ OffHasNone /\ IdleReady /\ [Next]_vars => IdleReady'
<1> SUFFICES ASSUME Typed, IdleTypes', Backed', OffHasNone, IdleReady, [Next]_vars
             PROVE  IdleReady'
  OBVIOUS
<1>a. ScheduleIdle => IdleReady'
  BY ScheduledIsReady
<1>b. Tick => IdleReady'
  BY TickKeepsIdle
<1> DEFINE Same == UNCHANGED <<batch, attempted, baseline, idleTimer, drain, unscheduled>>
<1>c. Same /\ (Ready' => Ready) => IdleReady'
  BY DEF IdleReady
<1>d. ~Ready' \/ drain' \in {"entered", "running"} \/ unscheduled' => IdleReady'
  BY DEF IdleReady
<1>e. LearningStateChanged => IdleReady'
  BY <1>a DEF LearningStateChanged
<1>f. Kick /\ drain \in {"off", "running"} => drain' \in {"entered", "running"} \/ ~Ready'
  BY DEF Kick, Ready
<1>g. Kick => drain' = drain \/ drain' = "entered"
  BY DEF Kick
<1>h. ~enabled => ~routed
  BY DEF OffHasNone
<1>1. CASE Settings
  <2>1. CASE Enable
    BY <2>1, <1>d, <1>h DEF Enable, Ready
  <2>2. CASE Disable
    BY <2>2, <1>c, <1>d DEF Disable, Ready, Going, idleVars, history
  <2>3. ASSUME NEW n \in Slot, SetLimit(n) PROVE IdleReady'
    BY <2>3, <1>a, <1>d DEF SetLimit, Ready
  <2>4. CASE AdaptersUpdated
    BY <2>4, <1>c, <1>d
    DEF AdaptersUpdated, Ready, Going, queueVars, idleVars, timerVars, history
  <2>5. CASE Resolved
    BY <2>5, <1>a DEF Resolved
  <2>6. CASE Unresolved
    BY <2>6, <1>c, <1>d
    DEF Unresolved, Ready, Going, queueVars, idleVars, timerVars, history
  <2>7. CASE RecordEnable
    BY <2>7, <1>c, <1>d DEF RecordEnable, Ready, Going, workVars, queueVars, timerVars
  <2>8. CASE LosesLease
    BY <2>8, <1>c, <1>d
    DEF LosesLease, Ready, Going, queueVars, idleVars, timerVars, history
  <2>9. CASE ResetBegins
    BY <2>9, <1>c, <1>d DEF ResetBegins, Ready, Going, idleVars, history
  <2>10. CASE ResetEnds
    BY <2>10, <1>a DEF ResetEnds
  <2>11. CASE Dispose
    BY <2>11, <1>c, <1>d DEF Dispose, Ready, Going, queueVars, idleVars, history
  <2> QED
    BY <1>1, <2>1, <2>2, <2>3, <2>4, <2>5, <2>6, <2>7, <2>8, <2>9, <2>10, <2>11
    DEF Settings
<1>2. CASE Learner
  <2>1. ASSUME NEW k \in Requests, Request(k) PROVE IdleReady'
    BY <2>1, <1>d, <1>f DEF Request, Task
  <2>2. CASE Enqueue
    BY <2>2, <1>c, <1>d, <1>g
    DEF Enqueue, Ready, Going, lifeVars, idleVars, timerVars, history
  <2>3. CASE Understood
    BY <2>3, <1>e DEF Understood
  <2>4. CASE NotUnderstood
    BY <2>4, <1>e DEF NotUnderstood
  <2>5. CASE ResentFeedback
    BY <2>5, <1>e DEF ResentFeedback
  <2>6. CASE Reopen
    BY <2>6, <1>e DEF Reopen
  <2>7. CASE UpdateProfile
    BY <2>7, <1>c, <1>d DEF UpdateProfile, Ready, Going, lifeVars, queueVars, timerVars
  <2> QED
    BY <1>2, <2>1, <2>2, <2>3, <2>4, <2>5, <2>6, <2>7 DEF Learner
<1>3. CASE Clock
  <2>1. CASE Tick
    BY <2>1, <1>b
  <2>2. CASE IdleFires
    BY <2>2, <1>d, <1>f DEF IdleFires, Task
  <2>3. CASE BudgetFires
    BY <2>3, <1>d, <1>f DEF BudgetFires, Task
  <2> QED
    BY <1>3, <2>1, <2>2, <2>3 DEF Clock
<1>4. CASE Drain
  <2>1. CASE Stop
    BY <2>1, <1>c, <1>d
    DEF Stop, Ready, Going, lifeVars, queueVars, idleVars, timerVars, history
  <2>2. CASE TakeExplicit
    BY <2>2, <1>d DEF TakeExplicit, Begin, Ready, Going, lifeVars
  <2>3. CASE TakeCandidate
    BY <2>3, <1>d DEF TakeCandidate, Begin, Ready, Going, lifeVars
  <2>4. CASE BeginIdle
    BY <2>4, <1>d DEF BeginIdle, Begin, Ready, Going, lifeVars
  <2>5. CASE Rest
    BY <2>5, <1>a DEF Rest
  <2>6. CASE Leave
    <3>1. /\ drain = "leaving" /\ (Ready' <=> Ready)
          /\ UNCHANGED <<batch, attempted, baseline, idleTimer, unscheduled>>
      BY <2>6 DEF Leave, Ready, Going, lifeVars, idleVars, timerVars, history
    <3> QED
      BY <3>1 DEF IdleReady
  <2> QED
    BY <1>4, <2>1, <2>2, <2>3, <2>4, <2>5, <2>6 DEF Drain
<1>5. CASE Flight
  <2>1. CASE PressureCompacts
    BY <2>1, <1>d DEF PressureCompacts, Answered, workVars
  <2>2. CASE Reserve
    BY <2>2, <1>d DEF Reserve, Answered
  <2>3. CASE ExplicitFails
    BY <2>3, <1>d DEF ExplicitFails, Ends
  <2>4. CASE CommitManual
    BY <2>4, <1>a DEF CommitManual
  <2>5. CASE CommitReview
    BY <2>5, <1>d DEF CommitReview, Ends
  <2>6. CASE CommitRephrase
    BY <2>6, <1>d DEF CommitRephrase, Ends
  <2>7. CASE DeferForBudget
    BY <2>7, <1>d DEF DeferForBudget, Ends
  <2>8. CASE AutoFails
    BY <2>8, <1>d DEF AutoFails, Ends
  <2>9. CASE CommitAuto
    BY <2>9, <1>a DEF CommitAuto
  <2>10. CASE IdleCommits
    BY <2>10, <1>a DEF IdleCommits
  <2>11. CASE IdleFails
    BY <2>11, <1>a DEF IdleFails
  <2> QED
    BY <1>5, <2>1, <2>2, <2>3, <2>4, <2>5, <2>6, <2>7, <2>8, <2>9, <2>10, <2>11
    DEF Flight, FlightEnds
<1>6. CASE UNCHANGED vars
  BY <1>6, <1>c DEF vars, Ready, Going, lifeVars, queueVars, workVars, idleVars, timerVars, history
<1> QED
  BY <1>1, <1>2, <1>3, <1>4, <1>5, <1>6 DEF Next

\* The three facts about the idle timer hold together, always.
IdleInvariant == Typed /\ Backed /\ OffHasNone /\ IdleReady

\* They hold at the start, ...
LEMMA IdleInvariantInit == Init => IdleInvariant
<1> SUFFICES ASSUME Init PROVE IdleInvariant
  OBVIOUS
<1>1. Typed
  BY TypedInit
<1>2. Backed /\ OffHasNone /\ IdleReady
  BY DEF Init, Backed, OffHasNone, IdleReady, Ready, Going
<1> QED
  BY <1>1, <1>2 DEF IdleInvariant

\* ... every step keeps them, ...
LEMMA IdleInvariantStep == IdleInvariant /\ [Next]_vars => IdleInvariant'
<1> SUFFICES ASSUME IdleInvariant, [Next]_vars PROVE IdleInvariant'
  OBVIOUS
<1>1. Typed'
  BY TypedStep DEF IdleInvariant
<1>2. Backed' /\ OffHasNone'
  BY BackedStep, OffHasNoneStep DEF IdleInvariant
<1>3. IdleReady'
  BY <1>1, <1>2, IdleReadyStep DEF IdleInvariant, Typed
<1> QED
  BY <1>1, <1>2, <1>3 DEF IdleInvariant

\* ... so they hold always.
LEMMA IdleInvariantAlways == Spec => []IdleInvariant
BY IdleInvariantInit, IdleInvariantStep, PTL DEF Spec

\* While the drain rests with an untried compaction the idle timer runs, and no
\* longer than until idleCompactMs after the learner's last action; a disabled
\* runtime has no timer (scheduleIdle and the handlers that end with it).
THEOREM IdleTimerIsArmed == Spec => []IdleArmed
<1>1. IdleInvariant => IdleArmed
  BY DEF IdleInvariant, IdleReady, OffHasNone, IdleArmed, Resting
<1> QED
  BY <1>1, IdleInvariantAlways, PTL

-----------------------------------------------------------------------------
(* The budget's timer.                                                      *)

\* The timer runs, no longer than until the first slot reopens.
Armed ==
  /\ budgetTimer # Never
  /\ \A s \in Slot : usage[s] < Day => budgetTimer <= Day - usage[s]

\* The drain that leaves a used-up budget has armed the timer, and a drain that
\* rests with candidates has left one, or the timer has run down since.
BudgetReady ==
  /\ drain = "leaving" /\ Ready /\ ~overtaken /\ ~BudgetOpen => Armed
  /\ drain = "off" /\ Ready /\ ~overtaken /\ queued > 0 =>
       Armed /\ (BudgetOpen => budgetTimer = 0)

\* The budget opens and closes only with the window or the limit, ...
LEMMA OpenStays ==
  ASSUME UNCHANGED <<usage, limit>>
  PROVE  BudgetOpen' <=> BudgetOpen
BY DEF BudgetOpen, Used

\* ... and its timer stays early enough as long as the window stays.
LEMMA ArmedStays ==
  ASSUME UNCHANGED <<usage, budgetTimer>>, Armed
  PROVE  Armed'
BY DEF Armed

\* A budget that opens at a tick had a slot about to reopen.
LEMMA OpensWithASlot ==
  ASSUME Typed, Tick, ~BudgetOpen, BudgetOpen'
  PROVE  \E s \in Slot : usage[s] < Day /\ Day - usage[s] = 1
<1> SUFFICES ASSUME \A s \in Slot : ~(usage[s] < Day /\ Day - usage[s] = 1)
             PROVE  FALSE
  OBVIOUS
<1>1. /\ usage' = [s \in Slot |-> Older(usage[s], Day)]
      /\ limit' = limit
  BY DEF Tick, lifeVars
<1>2. ASSUME NEW s \in Slot
      PROVE  usage'[s] < Day <=> usage[s] < Day
  <2>1. usage[s] \in 0..Day /\ Day \in Nat
    BY TimeAssumption DEF Typed, IdleTypes
  <2>2. usage'[s] = IF usage[s] = Day THEN usage[s] ELSE usage[s] + 1
    BY <1>1, <2>1, NeverAssumption DEF Older
  <2>3. ~(usage[s] < Day /\ Day - usage[s] = 1)
    OBVIOUS
  <2> QED
    BY <2>1, <2>2, <2>3
<1>3. {s \in Slot : usage'[s] < Day} = {s \in Slot : usage[s] < Day}
  BY <1>2
<1> QED
  BY <1>1, <1>3 DEF BudgetOpen, Used

\* A tick brings the timer and the slots equally nearer, so the timer has run
\* down when the budget opens.
LEMMA TickKeepsBudget ==
  ASSUME Typed, BudgetReady, Tick
  PROVE  BudgetReady'
<1>1. /\ drain' = drain /\ queued' = queued /\ overtaken' = overtaken
      /\ (Ready' <=> Ready)
      /\ usage' = [s \in Slot |-> Older(usage[s], Day)]
      /\ budgetTimer' = Sooner(budgetTimer)
      /\ drain # "leaving"
  BY DEF Tick, Task, workVars, queueVars, lifeVars, history, Ready, Going
<1> SUFFICES ASSUME drain = "off", Ready, ~overtaken, queued > 0
             PROVE  Armed' /\ (BudgetOpen' => budgetTimer' = 0)
  BY <1>1 DEF BudgetReady
<1>2. Armed /\ (BudgetOpen => budgetTimer = 0)
  BY DEF BudgetReady
<1>3. budgetTimer \in 0..Day /\ Day \in Nat
  BY <1>2, TimeAssumption DEF Armed, Typed, TimerTypes
<1>4. budgetTimer' = IF budgetTimer = 0 THEN 0 ELSE budgetTimer - 1
  BY <1>1, <1>2 DEF Sooner, Armed
<1>5. budgetTimer' # Never
  BY <1>3, <1>4, NeverAssumption
<1>6. ASSUME NEW s \in Slot, usage'[s] < Day
      PROVE  budgetTimer' <= Day - usage'[s]
  <2>1. usage[s] \in 0..Day
    BY DEF Typed, IdleTypes
  <2>2. usage'[s] = IF usage[s] = Day THEN usage[s] ELSE usage[s] + 1
    BY <1>1, <1>3, <2>1, NeverAssumption DEF Older
  <2>3. usage[s] < Day /\ usage'[s] = usage[s] + 1
    BY <1>3, <1>6, <2>1, <2>2
  <2>4. budgetTimer <= Day - usage[s]
    BY <1>2, <2>3 DEF Armed
  <2> QED
    BY <1>3, <1>4, <1>6, <2>1, <2>3, <2>4
<1>7. ASSUME BudgetOpen' PROVE budgetTimer' = 0
  <2>1. CASE BudgetOpen
    BY <1>2, <1>4, <2>1
  <2>2. CASE ~BudgetOpen
    <3>1. PICK s \in Slot : usage[s] < Day /\ Day - usage[s] = 1
      BY <1>7, <2>2, OpensWithASlot
    <3>2. budgetTimer <= 1
      BY <1>2, <3>1 DEF Armed
    <3> QED
      BY <1>3, <1>4, <3>2
  <2> QED
    BY <2>1, <2>2
<1> QED
  BY <1>5, <1>6, <1>7 DEF Armed

\* The drain arms the timer of a used-up budget as it comes to rest.
LEMMA RestArms ==
  ASSUME Typed, Rest
  PROVE  BudgetReady'
<1>1. /\ drain' = "leaving" /\ UNCHANGED <<usage, limit>> /\ LookAtBudget
  BY DEF Rest, lifeVars
<1> SUFFICES ASSUME ~BudgetOpen' PROVE Armed'
  BY <1>1 DEF BudgetReady
<1>2. ~BudgetOpen /\ budgetTimer' = ResumeIn
  BY <1>1, OpenStays DEF LookAtBudget, ArmBudget
<1>3. /\ ResumeIn \in 0..Day
      /\ \A s \in Slot : usage[s] < Day => ResumeIn <= Day - usage[s]
  BY <1>2, ResumeInBound DEF Typed, LifeTypes, IdleTypes
<1>4. budgetTimer' # Never
  BY <1>2, <1>3, NeverAssumption, TimeAssumption
<1> QED
  BY <1>1, <1>2, <1>3, <1>4 DEF Armed

\* It rests with candidates only when the budget is used up.
LEMMA LeaveKeepsBudget ==
  ASSUME BudgetReady, Leave
  PROVE  BudgetReady'
<1>1. /\ drain = "leaving" /\ (Ready' <=> Ready)
      /\ UNCHANGED <<usage, limit, budgetTimer, overtaken, queued>>
      /\ drain' = IF Going /\ ImmediateWork THEN "entered" ELSE "off"
  BY DEF Leave, lifeVars, queueVars, timerVars, history, Ready, Going
<1> SUFFICES ASSUME drain' = "off", Ready, ~overtaken, queued > 0
             PROVE  Armed' /\ ~BudgetOpen'
  BY <1>1 DEF BudgetReady
<1>2. ~BudgetOpen
  BY <1>1 DEF ImmediateWork, Executable, Ready
<1>3. Armed
  BY <1>1, <1>2 DEF BudgetReady
<1> QED
  BY <1>1, <1>2, <1>3, OpenStays, ArmedStays

\* Each step but the three above keeps the timer, wakes the drain, or leaves
\* nothing to promise.
LEMMA BudgetReadyStep ==
  Typed /\ OffHasNone /\ BudgetReady /\ [Next]_vars => BudgetReady'
<1> SUFFICES ASSUME Typed, OffHasNone, BudgetReady, [Next]_vars PROVE BudgetReady'
  OBVIOUS
<1> DEFINE Same == /\ UNCHANGED <<usage, limit, budgetTimer, drain, overtaken>>
                   /\ Ready' => Ready
                   /\ drain = "off" => queued' = queued \/ ~(queued' > 0)
<1>a. ASSUME Same PROVE BudgetReady'
  <2>1. (BudgetOpen' <=> BudgetOpen) /\ (Armed => Armed')
    BY <1>a, OpenStays, ArmedStays
  <2> QED
    BY <1>a, <2>1 DEF BudgetReady
<1>b. ~Ready' \/ drain' \in {"entered", "running"} \/ overtaken' => BudgetReady'
  BY DEF BudgetReady
<1>c. Kick /\ drain \in {"off", "running"} => drain' \in {"entered", "running"} \/ ~Ready'
  BY DEF Kick, Ready
<1>d. ~enabled => ~routed
  BY DEF OffHasNone
<1>e. drain \in {"off", "entered", "running", "leaving"}
  BY DEF Typed, WorkTypes
<1>f. LearnerMay /\ LearningStateChanged => BudgetReady'
  BY <1>b, <1>c DEF LearnerMay, Task, LearningStateChanged
<1>1. CASE Settings
  <2>1. CASE Enable
    BY <2>1, <1>b, <1>d DEF Enable, Ready
  <2>2. CASE Disable
    BY <2>2, <1>a, <1>b DEF Disable, Ready, Going, idleVars, history
  <2>3. ASSUME NEW n \in Slot, SetLimit(n) PROVE BudgetReady'
    BY <2>3, <1>b, <1>c DEF SetLimit, Task, Ready
  <2>4. CASE AdaptersUpdated
    BY <2>4, <1>a, <1>b
    DEF AdaptersUpdated, Ready, Going, queueVars, idleVars, timerVars, history
  <2>5. CASE Resolved
    BY <2>5, <1>b, <1>c, <1>e DEF Resolved
  <2>6. CASE Unresolved
    BY <2>6, <1>a, <1>b
    DEF Unresolved, Ready, Going, queueVars, idleVars, timerVars, history
  <2>7. CASE RecordEnable
    BY <2>7, <1>a, <1>b DEF RecordEnable, Ready, Going, workVars, queueVars, timerVars
  <2>8. CASE LosesLease
    BY <2>8, <1>a, <1>b
    DEF LosesLease, Ready, Going, queueVars, idleVars, timerVars, history
  <2>9. CASE ResetBegins
    BY <2>9, <1>b DEF ResetBegins, Ready, Going
  <2>10. CASE ResetEnds
    BY <2>10, <1>b, <1>c DEF ResetEnds
  <2>11. CASE Dispose
    BY <2>11, <1>a, <1>b DEF Dispose, Ready, Going, queueVars, idleVars, history
  <2> QED
    BY <1>1, <2>1, <2>2, <2>3, <2>4, <2>5, <2>6, <2>7, <2>8, <2>9, <2>10, <2>11
    DEF Settings
<1>2. CASE Learner
  <2>1. ASSUME NEW k \in Requests, Request(k) PROVE BudgetReady'
    BY <2>1, <1>b, <1>c DEF Request, Task
  <2>2. CASE Enqueue
    <3>1. CASE drain = "leaving"
      BY <2>2, <3>1, <1>a DEF Enqueue, Kick, Ready, Going, lifeVars, timerVars, history
    <3>2. CASE drain \in {"off", "running"}
      BY <2>2, <3>2, <1>b, <1>c DEF Enqueue
    <3> QED
      BY <2>2, <3>1, <3>2, <1>e DEF Enqueue
  <2>3. CASE Understood
    BY <2>3, <1>f DEF Understood
  <2>4. CASE NotUnderstood
    BY <2>4, <1>f DEF NotUnderstood
  <2>5. CASE ResentFeedback
    BY <2>5, <1>f DEF ResentFeedback
  <2>6. CASE Reopen
    BY <2>6, <1>f DEF Reopen
  <2>7. CASE UpdateProfile
    BY <2>7, <1>a, <1>b DEF UpdateProfile, Ready, Going, lifeVars, queueVars, timerVars
  <2> QED
    BY <1>2, <2>1, <2>2, <2>3, <2>4, <2>5, <2>6, <2>7 DEF Learner
<1>3. CASE Clock
  <2>1. CASE Tick
    BY <2>1, TickKeepsBudget
  <2>2. CASE IdleFires
    BY <2>2, <1>b, <1>c DEF IdleFires, Task
  <2>3. CASE BudgetFires
    BY <2>3, <1>b, <1>c DEF BudgetFires, Task
  <2> QED
    BY <1>3, <2>1, <2>2, <2>3 DEF Clock
<1>4. CASE Drain
  <2>1. CASE Stop
    BY <2>1, <1>a, <1>b
    DEF Stop, Ready, Going, lifeVars, queueVars, idleVars, timerVars, history
  <2>2. CASE TakeExplicit
    BY <2>2, <1>b DEF TakeExplicit, Begin, Ready, Going, lifeVars
  <2>3. CASE TakeCandidate
    BY <2>3, <1>b DEF TakeCandidate, Begin, Ready, Going, lifeVars
  <2>4. CASE BeginIdle
    BY <2>4, <1>b DEF BeginIdle, Begin, Ready, Going, lifeVars
  <2>5. CASE Rest
    BY <2>5, RestArms
  <2>6. CASE Leave
    BY <2>6, LeaveKeepsBudget
  <2> QED
    BY <1>4, <2>1, <2>2, <2>3, <2>4, <2>5, <2>6 DEF Drain
<1>5. CASE Flight
  <2>1. CASE PressureCompacts
    BY <2>1, <1>b DEF PressureCompacts, Answered, workVars
  <2>2. CASE Reserve
    BY <2>2, <1>b DEF Reserve, Answered
  <2>3. CASE ExplicitFails
    BY <2>3, <1>b DEF ExplicitFails, Ends
  <2>4. CASE CommitManual
    BY <2>4, <1>b DEF CommitManual, Ends
  <2>5. CASE CommitReview
    BY <2>5, <1>b DEF CommitReview, Ends
  <2>6. CASE CommitRephrase
    BY <2>6, <1>b DEF CommitRephrase, Ends
  <2>7. CASE DeferForBudget
    BY <2>7, <1>b DEF DeferForBudget, Ends
  <2>8. CASE AutoFails
    BY <2>8, <1>b DEF AutoFails, Ends
  <2>9. CASE CommitAuto
    BY <2>9, <1>b DEF CommitAuto, Ends
  <2>10. CASE IdleCommits
    BY <2>10, <1>b DEF IdleCommits, Ends
  <2>11. CASE IdleFails
    BY <2>11, <1>b DEF IdleFails, Ends
  <2> QED
    BY <1>5, <2>1, <2>2, <2>3, <2>4, <2>5, <2>6, <2>7, <2>8, <2>9, <2>10, <2>11
    DEF Flight, FlightEnds
<1>6. CASE UNCHANGED vars
  BY <1>6, <1>a DEF vars, Ready, Going, lifeVars, queueVars, workVars, idleVars, timerVars, history
<1> QED
  BY <1>1, <1>2, <1>3, <1>4, <1>5, <1>6 DEF Next

\* So it holds always.
LEMMA BudgetReadyAlways == Spec => []BudgetReady
<1>1. Init => BudgetReady
  BY DEF Init, BudgetReady, Ready, Going
<1>2. IdleInvariant /\ BudgetReady /\ [Next]_vars => BudgetReady'
  BY BudgetReadyStep DEF IdleInvariant
<1> QED
  BY <1>1, <1>2, IdleInvariantAlways, PTL DEF Spec

\* While the drain rests with candidates it could take, the budget is used up
\* and its timer runs no longer than until the first slot reopens, or it has
\* run down (drain's autoBudget and the budget timer); a disabled runtime has
\* no timer.
THEOREM BudgetTimerIsArmed == Spec => []BudgetArmed
<1>1. IdleInvariant /\ BudgetReady => BudgetArmed
  BY DEF IdleInvariant, BudgetReady, Armed, OffHasNone, BudgetArmed, Resting
<1> QED
  BY <1>1, IdleInvariantAlways, BudgetReadyAlways, PTL

-----------------------------------------------------------------------------
(* The parked compaction.                                                   *)

\* A compaction that began under the present key is what idleAttempted names.
Parked == begun = "yes" => attempted = "current"

\* Whatever moves the key, or clears idleAttempted, forgets the attempt.
LEMMA ParkedStep == Parked /\ [Next]_vars => Parked'
<1> SUFFICES ASSUME Parked, [Next]_vars PROVE Parked'
  OBVIOUS
<1> USE DEF Parked
<1>1. CASE Settings
  BY <1>1
  DEF Settings, Enable, Disable, SetLimit, AdaptersUpdated, Resolved, Unresolved,
      RecordEnable, LosesLease, ResetBegins, ResetEnds, Dispose, idleVars, history,
      ScheduleIdle, Excused
<1>2. CASE Learner
  BY <1>2
  DEF Learner, Request, Enqueue, Understood, NotUnderstood, ResentFeedback, Reopen,
      UpdateProfile, idleVars, history, LearningStateChanged, ScheduleIdle, Excused
<1>3. CASE Clock
  BY <1>3 DEF Clock, Tick, IdleFires, BudgetFires, idleVars, history
<1>4. CASE Drain
  BY <1>4
  DEF Drain, Stop, TakeExplicit, TakeCandidate, BeginIdle, Rest, Leave, idleVars, history,
      ScheduleIdle
<1>5. CASE Flight
  <2>1. CASE PressureCompacts
    BY <2>1 DEF PressureCompacts, history
  <2>2. CASE Reserve
    BY <2>2 DEF Reserve, idleVars, history
  <2>3. CASE ExplicitFails
    BY <2>3 DEF ExplicitFails, idleVars, history
  <2>4. CASE CommitManual
    BY <2>4 DEF CommitManual, ScheduleIdle
  <2>5. CASE CommitReview
    BY <2>5 DEF CommitReview
  <2>6. CASE CommitRephrase
    BY <2>6 DEF CommitRephrase, idleVars, history
  <2>7. CASE DeferForBudget
    BY <2>7 DEF DeferForBudget, idleVars, history
  <2>8. CASE AutoFails
    BY <2>8 DEF AutoFails, idleVars, history
  <2>9. CASE CommitAuto
    BY <2>9 DEF CommitAuto, ScheduleIdle, Excused
  <2>10. CASE IdleCommits
    BY <2>10 DEF IdleCommits, ScheduleIdle
  <2>11. CASE IdleFails
    BY <2>11 DEF IdleFails, ScheduleIdle
  <2> QED
    BY <1>5, <2>1, <2>2, <2>3, <2>4, <2>5, <2>6, <2>7, <2>8, <2>9, <2>10, <2>11
    DEF Flight, FlightEnds
<1>6. CASE UNCHANGED vars
  BY <1>6 DEF vars, lifeVars, queueVars, workVars, idleVars, timerVars, history
<1> QED
  BY <1>1, <1>2, <1>3, <1>4, <1>5, <1>6 DEF Next

\* Only BeginIdle puts an idle compaction in flight.
LEMMA OnlyBeginIdle ==
  ASSUME Typed, [Next]_vars, flight'.kind = "idle", flight.kind # "idle"
  PROVE  BeginIdle
<1>a. flight \in Requested /\ waiting \subseteq Explicit
  BY DEF Typed, WorkTypes
<1>b. /\ None.kind = "none" /\ Aborted.kind = flight.kind
      /\ Preempted.kind = flight.kind
      /\ [Aborted EXCEPT !.fresh = FALSE].kind = flight.kind
      /\ [flight EXCEPT !.fresh = FALSE].kind = flight.kind
      /\ [flight EXCEPT !.kind = "asking"].kind = "asking"
  BY <1>a DEF Requested, None, Aborted, Preempted
<1>c. \A k \in Explicit \cup {"auto"} :
        [kind |-> k, aborted |-> FALSE, fresh |-> TRUE].kind # "idle"
  BY DEF Explicit
<1>1. CASE Settings
  BY <1>1, <1>a, <1>b, <1>c
  DEF Settings, Enable, Disable, SetLimit, AdaptersUpdated, Resolved, Unresolved,
      RecordEnable, LosesLease, ResetBegins, ResetEnds, Dispose, workVars
<1>2. CASE Learner
  <2>1. ASSUME NEW k \in Requests, Request(k) PROVE BeginIdle
    BY <2>1, <1>a, <1>b, <1>c DEF Request
  <2>2. CASE Enqueue
    BY <2>2, <1>a, <1>b, <1>c DEF Enqueue
  <2>3. CASE Understood
    BY <2>3, <1>a, <1>b, <1>c DEF Understood, LearningStateChanged
  <2>4. CASE NotUnderstood
    BY <2>4, <1>a, <1>b, <1>c DEF NotUnderstood, LearningStateChanged
  <2>5. CASE ResentFeedback
    BY <2>5, <1>a, <1>b, <1>c DEF ResentFeedback, LearningStateChanged
  <2>6. CASE Reopen
    BY <2>6, <1>a, <1>b, <1>c DEF Reopen, LearningStateChanged
  <2>7. CASE UpdateProfile
    BY <2>7, <1>a, <1>b, <1>c DEF UpdateProfile
  <2> QED
    BY <1>2, <2>1, <2>2, <2>3, <2>4, <2>5, <2>6, <2>7 DEF Learner
<1>3. CASE Clock
  BY <1>3, <1>a, <1>b, <1>c DEF Clock, Tick, IdleFires, BudgetFires, workVars
<1>4. CASE Drain
  <2>1. CASE Stop
    BY <2>1, <1>a, <1>b, <1>c DEF Stop
  <2>2. CASE TakeExplicit
    BY <2>2, <1>a, <1>b, <1>c DEF TakeExplicit, Begin
  <2>3. CASE TakeCandidate
    BY <2>3, <1>c DEF TakeCandidate, Begin
  <2>4. CASE BeginIdle
    BY <2>4
  <2>5. CASE Rest
    BY <2>5, <1>a, <1>b, <1>c DEF Rest
  <2>6. CASE Leave
    BY <2>6, <1>a, <1>b, <1>c DEF Leave
  <2> QED
    BY <1>4, <2>1, <2>2, <2>3, <2>4, <2>5, <2>6 DEF Drain
<1>5. CASE Flight
  <2>1. CASE PressureCompacts
    BY <2>1, <1>a, <1>b, <1>c DEF PressureCompacts, workVars
  <2>2. CASE Reserve
    BY <2>2, <1>a, <1>b, <1>c DEF Reserve
  <2>3. CASE ExplicitFails
    BY <2>3, <1>a, <1>b, <1>c DEF ExplicitFails, Ends
  <2>4. CASE CommitManual
    BY <2>4, <1>a, <1>b, <1>c DEF CommitManual, Ends
  <2>5. CASE CommitReview
    BY <2>5, <1>a, <1>b, <1>c DEF CommitReview, Ends
  <2>6. CASE CommitRephrase
    BY <2>6, <1>a, <1>b, <1>c DEF CommitRephrase, Ends
  <2>7. CASE DeferForBudget
    BY <2>7, <1>a, <1>b, <1>c DEF DeferForBudget, Ends
  <2>8. CASE AutoFails
    BY <2>8, <1>a, <1>b, <1>c DEF AutoFails, Ends
  <2>9. CASE CommitAuto
    BY <2>9, <1>a, <1>b, <1>c DEF CommitAuto, Ends
  <2>10. CASE IdleCommits
    BY <2>10, <1>a, <1>b, <1>c DEF IdleCommits, Ends
  <2>11. CASE IdleFails
    BY <2>11, <1>a, <1>b, <1>c DEF IdleFails, Ends
  <2> QED
    BY <1>5, <2>1, <2>2, <2>3, <2>4, <2>5, <2>6, <2>7, <2>8, <2>9, <2>10, <2>11
    DEF Flight, FlightEnds
<1>6. CASE UNCHANGED vars
  BY <1>6 DEF vars, lifeVars, queueVars, workVars, idleVars, timerVars, history
<1> QED
  BY <1>1, <1>2, <1>3, <1>4, <1>5, <1>6 DEF Next

\* An idle compaction that failed is parked: under the same generations no
\* other begins, unless idleAttempted was cleared on purpose (runIdleCompaction
\* names the key before it asks).
THEOREM FailureIsParked == Spec => ParkedUntilActivity
<1>1. Init => Parked
  BY DEF Init, Parked
<1>2. Spec => []Parked
  BY <1>1, ParkedStep, PTL DEF Spec
<1>3. Typed /\ Parked /\ [Next]_vars
      => [flight'.kind = "idle" /\ flight.kind # "idle" => begun # "yes"]_vars
  <2> SUFFICES ASSUME Typed, Parked, [Next]_vars,
                      flight'.kind = "idle", flight.kind # "idle"
               PROVE  begun # "yes"
    OBVIOUS
  <2>1. BeginIdle
    BY OnlyBeginIdle
  <2> QED
    BY <2>1 DEF BeginIdle, IdleDue, Parked
<1> QED
  BY <1>2, <1>3, TypedAlways, PTL DEF Spec, ParkedUntilActivity
==============================================================================
