--------------------------- MODULE ReviewSchedule ---------------------------
(***************************************************************************)
(* When a topic is reviewed, and with which question: nextReviewState,     *)
(* startReview, commitReviewAnswer, reviewDashboard and the operations     *)
(* that begin, pause and cancel a topic's reviews, of src/src/store.ts.    *)
(* Time passes in days and is kept relative to the present; no two reviews *)
(* fall due at the same moment. Who may answer what, with which request,   *)
(* is the subject of LearningThread.                                       *)
(***************************************************************************)
EXTENDS Integers, Sequences, FiniteSets

CONSTANTS Topic,
          Intervals,   \* the days from a review to the next, by stage
          RoundSize,   \* questions of a round at most
          Remembered,  \* attempts of a topic that are kept apart
          None

Longest == Intervals[Len(Intervals)]
ASSUME IntervalAssumption ==
  /\ Intervals \in Seq(Nat) /\ Len(Intervals) >= 1 /\ Intervals[1] = 1
  /\ \A i, j \in DOMAIN Intervals : i <= j => Intervals[i] <= Intervals[j]
ASSUME BoundAssumption ==
  {RoundSize, Remembered} \subseteq Nat \ {0}
ASSUME NoneAssumption == None \notin Nat

Kinds == <<"recall", "application", "distinction">>
Kind == {Kinds[i] : i \in 1..3}
Result == {"mastered", "partial", "forgotten"}

VARIABLES state,    \* state[t]: the topic's row, "absent" without one
          active,   \* active[t]: an explanation of t waits for feedback
          stage, streak, last,  \* its review_state: what it has achieved
          wait,     \* the days until it is due, None without a row,
          before,   \* and which of two topics falls due before the other
          trail,    \* trail[t]: its latest attempts, the newest first
          round,    \* the questions of the active round that are unanswered
          since     \* history: days since its schedule was last set

topicVars == <<state, active>>
scheduleVars == <<stage, streak, last, wait, before, since>>
vars == <<topicVars, scheduleVars, trail, round>>

\* A store of the second schema is migrated: what is mastered is due at once.
Init ==
  /\ \E old \in SUBSET Topic :
       /\ \E line \in [1..Cardinality(old) -> old] :
            /\ \A i, j \in DOMAIN line : i # j => line[i] # line[j]
            /\ before = {p \in old \X old :
                           \E i, j \in DOMAIN line :
                             line[i] = p[1] /\ line[j] = p[2] /\ i < j}
       /\ state = [t \in Topic |-> IF t \in old THEN "mastered" ELSE "absent"]
       /\ wait = [t \in Topic |-> IF t \in old THEN 0 ELSE None]
  /\ active = [t \in Topic |-> FALSE]
  /\ stage = [t \in Topic |-> 1] /\ streak = [t \in Topic |-> 0]
  /\ last = [t \in Topic |-> None] /\ since = [t \in Topic |-> Longest]
  /\ trail = [t \in Topic |-> <<>>] /\ round = <<>>

-----------------------------------------------------------------------------
InRound(t) == \E i \in DOMAIN round : round[i].topic = t

\* cancelActiveReviewForTopic: with one question the whole round goes.
CancelReviews(t) == round' = IF InRound(t) THEN <<>> ELSE round

\* commitAutoDecision and commitManualExplanation, by what they do to the
\* schedule: they pause it.
Explained(t) ==
  /\ ~active[t] /\ active' = [active EXCEPT ![t] = TRUE]
  /\ state' = [state EXCEPT ![t] = IF @ = "absent" THEN "learning" ELSE @]
  /\ CancelReviews(t) /\ UNCHANGED <<scheduleVars, trail>>

\* The review of t is put off: it falls due after what is due by then.
PutOff(t, days) ==
  LET others == {u \in Topic \ {t} : wait[u] # None}
  IN  /\ wait' = [wait EXCEPT ![t] = days]
      /\ since' = [since EXCEPT ![t] = 0]
      /\ before' = {p \in before : t \notin {p[1], p[2]}}
           \cup {<<u, t>> : u \in {u \in others : wait[u] <= days}}
           \cup {<<t, u>> : u \in {u \in others : wait[u] > days}}

\* feedback "understood": the schedule begins, or begins again.
Understood(t) ==
  /\ active[t] /\ active' = [active EXCEPT ![t] = FALSE]
  /\ state' = [state EXCEPT ![t] = "mastered"]
  /\ stage' = [stage EXCEPT ![t] = 1] /\ streak' = [streak EXCEPT ![t] = 0]
  /\ last' = [last EXCEPT ![t] = None] /\ PutOff(t, 1)
  /\ UNCHANGED <<trail, round>>

\* reopenTopic leaves the schedule where it is.
ReopenTopic(t) ==
  /\ state[t] = "mastered" /\ state' = [state EXCEPT ![t] = "learning"]
  /\ CancelReviews(t) /\ UNCHANGED <<active, scheduleVars, trail>>

-----------------------------------------------------------------------------
\* The fault asks what has a schedule, due or not.
DueOrNot == {t \in Topic : state[t] = "mastered" /\ ~active[t]}
Due == {t \in Topic : state[t] = "mastered" /\ ~active[t] /\ wait[t] = 0}

\* The longest due come first. The fault takes the newest.
Newer(t, u) == <<u, t>> \in before
Older(t, u) == <<t, u>> \in before
Foremost(asked) ==
  LET chosen == {asked[i] : i \in DOMAIN asked} IN
  /\ \A i, j \in DOMAIN asked : i < j => Older(asked[i], asked[j])
  /\ \A t \in chosen, u \in Due \ chosen : Older(t, u)
  /\ Len(asked) = RoundSize \/ Due \subseteq chosen

\* The kind of the next question: the next one once the last is mastered. The
\* fault counts the attempts that are kept.
After(kind) ==
  CASE kind = "recall" -> "application"
    [] kind = "application" -> "distinction"
    [] kind = "distinction" -> "recall"
KindByCount(attempts) == Kinds[(Len(attempts) % 3) + 1]
NextKind(attempts) ==
  IF attempts = <<>> THEN "recall"
  ELSE IF attempts[1].result # "mastered" THEN attempts[1].kind
  ELSE After(attempts[1].kind)

StartReview ==
  /\ round = <<>>
  /\ \E n \in 1..RoundSize : \E asked \in [1..n -> Due] :
       /\ Foremost(asked)
       /\ round' = [i \in 1..n |->
                 [topic |-> asked[i], kind |-> NextKind(trail[asked[i]])]]
  /\ UNCHANGED <<topicVars, scheduleVars, trail>>

\* nextReviewState. The fault has no first stage.
PartialBelow(s) == s - 1
MasteredStage(s) == IF s < Len(Intervals) THEN s + 1 ELSE s
PartialStage(s) == IF s > 1 THEN s - 1 ELSE 1
NextStage(s, result) ==
  CASE result = "mastered" -> MasteredStage(s)
    [] result = "partial" -> PartialStage(s)
    [] result = "forgotten" -> 1
NextWait(s, result) ==
  IF result = "mastered" THEN Intervals[NextStage(s, result)] ELSE 1
\* The streak is counted up to the number of intervals.
NextStreak(n, result) ==
  IF result # "mastered" THEN 0 ELSE IF n < Len(Intervals) THEN n + 1 ELSE n

\* commitReviewAnswer, of the first question that waits.
Remember(attempts, attempt) ==
  [i \in 1..(IF Len(attempts) < Remembered THEN Len(attempts) + 1
           ELSE Remembered) |->
     IF i = 1 THEN attempt ELSE attempts[i - 1]]
ReviewAnswered(result) ==
  /\ round # <<>>
  /\ LET t == Head(round).topic IN
     /\ state[t] = "mastered" /\ round' = Tail(round)
     /\ stage' = [stage EXCEPT ![t] = NextStage(@, result)]
     /\ streak' = [streak EXCEPT ![t] = NextStreak(@, result)]
     /\ last' = [last EXCEPT ![t] = result]
     /\ PutOff(t, NextWait(stage[t], result))
     /\ trail' = [trail EXCEPT ![t] =
          Remember(@, [kind |-> Head(round).kind, result |-> result])]
  /\ UNCHANGED topicVars

\* A day passes.
Day ==
  /\ wait' = [t \in Topic |->
       IF wait[t] \in {None, 0} THEN wait[t] ELSE wait[t] - 1]
  /\ since' = [t \in Topic |->
       IF since[t] = Longest THEN Longest ELSE since[t] + 1]
  /\ UNCHANGED <<topicVars, stage, streak, last, before, trail, round>>

\* clearLearningData.
Clear ==
  /\ state' = [t \in Topic |-> "absent"] /\ active' = [t \in Topic |-> FALSE]
  /\ wait' = [t \in Topic |-> None] /\ last' = [t \in Topic |-> None]
  /\ stage' = [t \in Topic |-> 1] /\ streak' = [t \in Topic |-> 0]
  /\ trail' = [t \in Topic |-> <<>>] /\ round' = <<>>
  /\ before' = {} /\ since' = [t \in Topic |-> Longest]

Answers == \E result \in Result : ReviewAnswered(result)
Next ==
  \/ \E t \in Topic : Explained(t) \/ Understood(t) \/ ReopenTopic(t)
  \/ StartReview \/ Answers \/ Day \/ Clear
Spec == Init /\ [][Next]_vars

\* A learner who reviews: days pass, rounds are begun, questions are answered.
FairSpec == Spec /\ WF_vars(Day) /\ WF_vars(StartReview) /\ WF_vars(Answers)

-----------------------------------------------------------------------------
\* reviewDashboard.
NextDue ==
  {t \in Topic : state[t] = "mastered" /\ wait[t] > 0
     /\ \A u \in Topic : state[u] = "mastered" /\ wait[u] > 0
                         => wait[t] <= wait[u]}

-----------------------------------------------------------------------------
TypeOK ==
  /\ state \in [Topic -> {"absent", "learning", "mastered"}]
  /\ active \in [Topic -> BOOLEAN]
  /\ stage \in [Topic -> DOMAIN Intervals]
  /\ streak \in [Topic -> 0..Len(Intervals)]
  /\ last \in [Topic -> Result \cup {None}]
  /\ wait \in [Topic -> 0..Longest \cup {None}]
  /\ before \subseteq Topic \X Topic /\ since \in [Topic -> 0..Longest]
  /\ trail \in [Topic -> Seq([kind : Kind, result : Result])]
  /\ round \in Seq([topic : Topic, kind : Kind])

\* A question is asked only when its time has come: as many days after the last
\* answer as the answers mastered in a row before it have earned, across
\* pauses, cancelled rounds and late answers (store.ts:2538-2552,
\* ARCHITECTURE.md's 1/3/7/14/30/60 days).
EarnedStage(t) ==
  IF streak[t] < Len(Intervals) THEN streak[t] + 1 ELSE Len(Intervals)
Earned(t) == Intervals[EarnedStage(t)]
Spaced ==
  [][\A t \in Topic : (InRound(t)' /\ round = <<>>) => since[t] >= Earned(t)]_vars

\* Three answers mastered in a row are answers to three kinds of question,
\* whatever explanations and reopenings came between (store.ts:1033-1041).
AllKinds ==
  \A t \in Topic :
    Len(trail[t]) = 3 /\ (\A i \in 1..3 : trail[t][i].result = "mastered")
    => {trail[t][i].kind : i \in 1..3} = Kind

\* Whatever is due is asked about, or is no longer due, however many topics
\* there are and however many fall due meanwhile (store.ts:1022).
DueIsAsked == \A t \in Topic : (t \in Due) ~> (InRound(t) \/ t \notin Due)

\* What is shown as the next review is one: a topic is not asked about while an
\* explanation of it is active (ARCHITECTURE.md on reviews).
NextDueIsAsked == NextDue # {} => \E t \in NextDue : ~active[t]
=============================================================================
