----------------------------- MODULE StoreProofs -----------------------------
(***************************************************************************)
(* Proofs about two parts of src/src/store.ts. RuntimeLease: fencing and   *)
(* the rolling budget, for every number of hosts, every lease term and     *)
(* every limit. ReviewSchedule: its types; that reviews are spaced by what *)
(* the learner has achieved; and that a topic's questions go through the   *)
(* three kinds.                                                            *)
(***************************************************************************)
EXTENDS RuntimeLease, ReviewSchedule, SequenceTheorems, FiniteSetTheorems, TLAPS

-----------------------------------------------------------------------------
(* The lease and the budget.                                               *)

\* One more row makes a finite table at most one larger.
LEMMA AddOne ==
  ASSUME NEW S, IsFiniteSet(S), NEW x
  PROVE  /\ IsFiniteSet(S \cup {x})
         /\ Cardinality(S \cup {x}) \in Nat
         /\ Cardinality(S \cup {x}) <= Cardinality(S) + 1
<1>1. Cardinality(S) \in Nat
  BY FS_CardinalityType
<1>2. IsFiniteSet(S \cup {x})
  BY FS_AddElement
<1>3. Cardinality(S \cup {x}) = IF x \in S THEN Cardinality(S) ELSE Cardinality(S) + 1
  BY FS_AddElement
<1>4. QED
  BY <1>1, <1>2, <1>3

\* Every action of every host keeps the types.
LEMMA LeaseTypeStep == LeaseTypeOK /\ [LeaseNext]_leaseVars => LeaseTypeOK'
<1> SUFFICES ASSUME LeaseTypeOK, [LeaseNext]_leaseVars PROVE LeaseTypeOK'
  OBVIOUS
<1> USE DEF LeaseTypeOK, hostVars, leaseHistory, writeHistory, budgetVars
<1>1. CASE Tick
  BY <1>1 DEF Tick
<1>2. ASSUME NEW h \in Host, Acquire(h) PROVE LeaseTypeOK'
  <2>1. row # NoRow => row.generation \in Nat
    BY DEF Row
  <2>2. QED
    BY <1>2, <2>1, TtlAssumption DEF Acquire, NextGeneration, Row
<1>3. ASSUME NEW h \in Host, Renew(h) PROVE LeaseTypeOK'
  <2>1. row # NoRow => [row EXCEPT !.expiresAt = clock + Ttl] \in Row
    BY TtlAssumption DEF Row
  <2>2. QED
    BY <1>3, <2>1 DEF Renew, Owns
<1>4. ASSUME NEW h \in Host, Recover(h) \/ Stop(h) \/ Release(h) \/ Crash(h) \/ Abort(h)
      PROVE  LeaseTypeOK'
  BY <1>4 DEF Recover, Stop, Release, Crash, Abort
<1>5. ASSUME NEW h \in Host, NEW kind \in {"auto", "explicit", "review"}, Begin(h, kind)
      PROVE  LeaseTypeOK'
  BY <1>5 DEF Begin
<1>6. ASSUME NEW h \in Host, Reserve(h) PROVE LeaseTypeOK'
  <2>1. InWindow(usage) \subseteq Request
    BY DEF InWindow
  <2>2. CASE LeaseHeld(h) /\ Cardinality(InWindow(usage)) < Limit
    <3> DEFINE r == [id |-> Cardinality(sent) + 1, at |-> clock]
    <3>1. usage' = InWindow(usage) \cup {r} /\ sent' = sent \cup {r}
      BY <1>6, <2>2 DEF Reserve
    <3>2. Cardinality(sent) \in Nat
      BY FS_CardinalityType
    <3>3. r \in Request
      BY <3>2 DEF Request
    <3>4. IsFiniteSet(sent \cup {r})
      BY AddOne
    <3>5. flight' = [flight EXCEPT ![h] = "sent"]
      BY <1>6, <2>2 DEF Reserve
    <3>6. QED
      BY <1>6, <2>1, <3>1, <3>3, <3>4, <3>5 DEF Reserve
  <2>3. CASE ~(LeaseHeld(h) /\ Cardinality(InWindow(usage)) < Limit)
    BY <1>6, <2>1, <2>3 DEF Reserve
  <2>4. QED
    BY <2>2, <2>3
<1>7. ASSUME NEW h \in Host, CommitFenced(h) \/ CommitReview(h) PROVE LeaseTypeOK'
  BY <1>7 DEF CommitFenced, CommitReview
<1>8. CASE UNCHANGED leaseVars
  BY <1>8 DEF leaseVars
<1>9. QED
  BY <1>1, <1>2, <1>3, <1>4, <1>5, <1>6, <1>7, <1>8 DEF LeaseNext

\* The row's owner is always the last host that acquired, and it alone passes
\* assertLease; expiry, renewal, release and crash do not change that.
LEMMA LeaseStep ==
  LeaseInv /\ [LeaseNext]_leaseVars => LeaseInv' /\ fencedBy' >= fencedBy
<1> SUFFICES ASSUME LeaseInv, [LeaseNext]_leaseVars
             PROVE  LeaseInv' /\ fencedBy' >= fencedBy
  OBVIOUS
<1>0. LeaseTypeOK /\ LeaseTypeOK'
  BY LeaseTypeStep DEF LeaseInv
<1> USE DEF LeaseInv, hostVars, leaseHistory, writeHistory, budgetVars
<1>1. CASE Tick
  BY <1>0, <1>1 DEF Tick, LeaseTypeOK
<1>2. ASSUME NEW h \in Host, Acquire(h) PROVE LeaseInv' /\ fencedBy' >= fencedBy
  BY <1>0, <1>2, NoRowAssumption DEF Acquire, LeaseTypeOK
<1>3. ASSUME NEW h \in Host, Renew(h) PROVE LeaseInv' /\ fencedBy' >= fencedBy
  <2>1. row # NoRow => [row EXCEPT !.expiresAt = clock + Ttl].owner = row.owner
    BY <1>0 DEF LeaseTypeOK, Row
  <2>2. CASE Owns(h) /\ row' = [row EXCEPT !.expiresAt = clock + Ttl]
    BY <1>0, <1>3, <2>1, <2>2 DEF Renew, Owns, LeaseTypeOK
  <2>3. CASE UNCHANGED row
    BY <1>0, <1>3, <2>3 DEF Renew, LeaseTypeOK
  <2>4. QED
    BY <1>3, <2>2, <2>3 DEF Renew
<1>4. ASSUME NEW h \in Host, Recover(h) \/ Stop(h) \/ Release(h) \/ Crash(h) \/ Abort(h)
      PROVE  LeaseInv' /\ fencedBy' >= fencedBy
  BY <1>0, <1>4 DEF Recover, Stop, Release, Crash, Abort, LeaseTypeOK
<1>5. ASSUME NEW h \in Host, NEW kind \in {"auto", "explicit", "review"}, Begin(h, kind)
      PROVE  LeaseInv' /\ fencedBy' >= fencedBy
  BY <1>0, <1>5 DEF Begin, LeaseTypeOK
<1>6. ASSUME NEW h \in Host, Reserve(h) PROVE LeaseInv' /\ fencedBy' >= fencedBy
  BY <1>0, <1>6 DEF Reserve, LeaseTypeOK
<1>7. ASSUME NEW h \in Host, CommitFenced(h) PROVE LeaseInv' /\ fencedBy' >= fencedBy
  <2>1. CASE LeaseHeld(h)
    <3>1. order[h] = takeovers
      BY <2>1 DEF LeaseHeld, Owns
    <3>2. QED
      BY <1>0, <1>7, <2>1, <3>1 DEF CommitFenced, LeaseTypeOK
  <2>2. CASE ~LeaseHeld(h)
    BY <1>0, <1>7, <2>2 DEF CommitFenced, LeaseTypeOK
  <2>3. QED
    BY <2>1, <2>2
<1>8. ASSUME NEW h \in Host, CommitReview(h) PROVE LeaseInv' /\ fencedBy' >= fencedBy
  BY <1>0, <1>8 DEF CommitReview, LeaseTypeOK
<1>9. CASE UNCHANGED leaseVars
  BY <1>0, <1>9 DEF leaseVars, LeaseTypeOK
<1>10. QED
  BY <1>1, <1>2, <1>3, <1>4, <1>5, <1>6, <1>7, <1>8, <1>9 DEF LeaseNext

\* Types are preserved by every step of every host.
THEOREM LeaseTypesCorrect == LeaseSpec => []LeaseTypeOK
<1>1. LeaseInit => LeaseTypeOK
  BY FS_EmptySet DEF LeaseInit, LeaseTypeOK
<1>2. QED
  BY <1>1, LeaseTypeStep, PTL DEF LeaseSpec

\* After a later owner's fenced commit no earlier owner's gets in, although the
\* generation itself restarts at 1 whenever a clean shutdown deletes the row.
THEOREM FencedSuccessionCorrect == LeaseSpec => FencedSuccession
<1>1. LeaseInit => LeaseInv
  BY FS_EmptySet DEF LeaseInit, LeaseInv, LeaseTypeOK
<1>2. LeaseInv /\ [LeaseNext]_leaseVars => LeaseInv'
  BY LeaseStep
<1>3. LeaseInv /\ [LeaseNext]_leaseVars => [fencedBy' >= fencedBy]_leaseVars
  BY LeaseStep
<1>4. QED
  BY <1>1, <1>2, <1>3, PTL DEF LeaseSpec, FencedSuccession

-----------------------------------------------------------------------------
\* Steps that touch neither table keep the budget invariant while the clock
\* only moves forward.
LEMMA BudgetFrame ==
  ASSUME BudgetInv, LeaseTypeOK', UNCHANGED <<usage, sent>>, clock' >= clock
  PROVE  BudgetInv'
<1>1. \A r \in sent : r.at \in Nat
  BY DEF BudgetInv, LeaseTypeOK, Request
<1>2. clock \in Nat /\ clock' \in Nat
  BY DEF BudgetInv, LeaseTypeOK
<1>3. \A r \in sent' : r.at <= clock'
  BY <1>1, <1>2 DEF BudgetInv
<1>4. InWindow(sent)' \subseteq usage'
  BY <1>1, <1>2, DayAssumption DEF BudgetInv, InWindow
<1>5. RollingBudget'
  BY DEF BudgetInv, RollingBudget
<1>6. QED
  BY <1>3, <1>4, <1>5 DEF BudgetInv

\* A granted reservation: the windows ending now hold at most the rows counted
\* plus the new one; earlier windows do not see it.
LEMMA ReserveBudget ==
  ASSUME BudgetInv, LeaseTypeOK', NEW h \in Host, Reserve(h)
  PROVE  BudgetInv'
<1> DEFINE r == [id |-> Cardinality(sent) + 1, at |-> clock]
<1>1. clock' = clock /\ clock \in Nat
  BY DEF Reserve, BudgetInv, LeaseTypeOK
<1>2. \A q \in sent : q.at \in Nat /\ q.at <= clock
  BY DEF BudgetInv, LeaseTypeOK, Request
<1>3. CASE LeaseHeld(h) /\ Cardinality(InWindow(usage)) < Limit
  <2>1. usage' = InWindow(usage) \cup {r} /\ sent' = sent \cup {r}
    BY <1>3 DEF Reserve
  <2>2. IsFiniteSet(sent')
    BY <2>1, AddOne DEF BudgetInv, LeaseTypeOK
  <2>3. \A q \in sent' : q.at <= clock'
    BY <1>1, <1>2, <2>1
  <2>4. usage' \subseteq sent'
    BY <2>1 DEF BudgetInv, InWindow
  <2>5. InWindow(sent)' \subseteq usage'
    BY <2>1, <1>1 DEF BudgetInv, InWindow
  <2>6. Cardinality(InWindow(sent)') <= Limit
    <3>1. InWindow(sent)' = InWindow(sent) \cup {r}
      BY <1>1, <2>1, DayAssumption DEF InWindow
    <3>2. InWindow(sent) \subseteq InWindow(usage)
      BY DEF BudgetInv, InWindow
    <3>3. IsFiniteSet(InWindow(usage)) /\ IsFiniteSet(InWindow(sent))
      BY FS_Subset DEF BudgetInv, LeaseTypeOK, InWindow
    <3>4. /\ Cardinality(InWindow(sent)) <= Cardinality(InWindow(usage))
          /\ Cardinality(InWindow(sent)) \in Nat /\ Cardinality(InWindow(usage)) \in Nat
      BY <3>2, <3>3, FS_Subset, FS_CardinalityType
    <3>5. /\ Cardinality(InWindow(sent) \cup {r}) <= Cardinality(InWindow(sent)) + 1
          /\ Cardinality(InWindow(sent) \cup {r}) \in Nat
      BY <3>3, AddOne
    <3>6. QED
      BY <1>3, <3>1, <3>4, <3>5, LimitAssumption
  <2>7. ASSUME NEW p \in sent'
        PROVE  Cardinality({q \in sent' : q.at <= p.at /\ q.at + DayMs > p.at}) <= Limit
    <3>1. CASE p.at = clock
      <4>1. {q \in sent' : q.at <= p.at /\ q.at + DayMs > p.at} = InWindow(sent)'
        BY <3>1, <1>1, <2>3 DEF InWindow
      <4>2. QED
        BY <4>1, <2>6
    <3>2. CASE p.at # clock
      <4>1. p \in sent /\ p.at < clock
        BY <3>2, <1>2, <1>1, <2>1
      <4>2. {q \in sent' : q.at <= p.at /\ q.at + DayMs > p.at}
              = {q \in sent : q.at <= p.at /\ q.at + DayMs > p.at}
        BY <4>1, <1>1, <1>2, <2>1
      <4>3. QED
        BY <4>1, <4>2 DEF BudgetInv, RollingBudget
    <3>3. QED
      BY <3>1, <3>2
  <2>8. QED
    BY <2>2, <2>3, <2>4, <2>5, <2>7 DEF BudgetInv, RollingBudget
<1>4. CASE ~(LeaseHeld(h) /\ Cardinality(InWindow(usage)) < Limit)
  <2>1. sent' = sent /\ usage' \in {usage, InWindow(usage)}
    BY <1>4 DEF Reserve
  <2>2. InWindow(sent)' \subseteq usage' /\ usage' \subseteq sent'
    BY <2>1, <1>1 DEF BudgetInv, InWindow
  <2>3. QED
    BY <2>1, <2>2, <1>1 DEF BudgetInv, RollingBudget
<1>5. QED
  BY <1>3, <1>4

\* Every step keeps what the usage table has to hold and every window's budget.
LEMMA BudgetStep == BudgetInv /\ [LeaseNext]_leaseVars => BudgetInv'
<1> SUFFICES ASSUME BudgetInv, [LeaseNext]_leaseVars PROVE BudgetInv'
  OBVIOUS
<1>1. LeaseTypeOK /\ LeaseTypeOK'
  BY LeaseTypeStep DEF BudgetInv
<1>2. CASE \E h \in Host : Reserve(h)
  BY <1>1, <1>2, ReserveBudget
<1>3. CASE ~\E h \in Host : Reserve(h)
  <2>1. UNCHANGED <<usage, sent>> /\ clock' >= clock
    BY <1>1, <1>3 DEF LeaseTypeOK, LeaseNext, leaseVars, hostVars, leaseHistory,
       writeHistory, budgetVars,
       Tick, Acquire, Renew, Recover, Stop, Release, Crash, Begin, CommitFenced,
       CommitReview, Abort
  <2>2. QED
    BY <1>1, <2>1, BudgetFrame
<1>4. QED
  BY <1>2, <1>3

\* The budget of autonomous requests holds over every window of a day, across
\* crashes, restarts and takeovers.
THEOREM RollingBudgetCorrect == LeaseSpec => []RollingBudget
<1>1. LeaseInit => BudgetInv
  <2>1. LeaseInit => LeaseTypeOK
    BY FS_EmptySet DEF LeaseInit, LeaseTypeOK
  <2>2. QED
    BY <2>1 DEF LeaseInit, BudgetInv, RollingBudget, InWindow
<1>2. BudgetInv => RollingBudget
  BY DEF BudgetInv
<1>3. QED
  BY <1>1, <1>2, BudgetStep, PTL DEF LeaseSpec

-----------------------------------------------------------------------------
(* The review schedule.                                                    *)

\* The intervals are days, none longer than the last one.
LEMMA IntervalDays ==
  /\ Len(Intervals) \in Nat \ {0} /\ Longest \in Nat /\ 1 <= Longest
  /\ \A i \in DOMAIN Intervals :
       Intervals[i] \in Nat /\ 1 <= Intervals[i] /\ Intervals[i] <= Longest
  /\ DOMAIN Intervals = 1..Len(Intervals)
<1>1. /\ Len(Intervals) \in Nat \ {0}
      /\ DOMAIN Intervals = 1..Len(Intervals)
      /\ \A i \in DOMAIN Intervals : Intervals[i] \in Nat
  BY IntervalAssumption
<1>2. \A i \in DOMAIN Intervals : 1 <= i /\ i <= Len(Intervals)
  BY <1>1
<1>3. 1 \in DOMAIN Intervals /\ Len(Intervals) \in DOMAIN Intervals
  BY <1>1
<1>4. Longest \in Nat
  BY <1>1, <1>3 DEF Longest
<1>5. \A i \in DOMAIN Intervals : 1 <= Intervals[i] /\ Intervals[i] <= Longest
  BY <1>1, <1>2, <1>3, IntervalAssumption DEF Longest
<1>6. 1 <= Longest
  BY <1>3, <1>5 DEF Longest
<1>. QED
  BY <1>1, <1>4, <1>5, <1>6

\* A review moves a topic to one of the stages and puts it off by some days.
LEMMA NextTypes ==
  ASSUME NEW s \in DOMAIN Intervals, NEW n \in 0..Len(Intervals),
         NEW result \in Result
  PROVE  /\ NextStage(s, result) \in DOMAIN Intervals
         /\ NextWait(s, result) \in 0..Longest
         /\ NextStreak(n, result) \in 0..Len(Intervals)
<1>1. NextStage(s, result) \in DOMAIN Intervals
  BY IntervalDays DEF Result, NextStage, MasteredStage, PartialStage
<1>2. NextWait(s, result) \in 0..Longest
  BY <1>1, IntervalDays DEF NextWait
<1>3. NextStreak(n, result) \in 0..Len(Intervals)
  BY IntervalDays DEF NextStreak
<1>. QED
  BY <1>1, <1>2, <1>3

\* A trail with one attempt more is a trail.
LEMMA RememberTypes ==
  ASSUME NEW S, NEW attempts \in Seq(S), NEW attempt \in S
  PROVE  /\ Remember(attempts, attempt) \in Seq(S)
         /\ Len(Remember(attempts, attempt)) =
              (IF Len(attempts) < Remembered THEN Len(attempts) + 1
               ELSE Remembered)
         /\ \A i \in 1..Len(Remember(attempts, attempt)) :
              Remember(attempts, attempt)[i] =
                IF i = 1 THEN attempt ELSE attempts[i - 1]
  <1> DEFINE n == IF Len(attempts) < Remembered THEN Len(attempts) + 1
                  ELSE Remembered
             f == [i \in 1..n |-> IF i = 1 THEN attempt ELSE attempts[i - 1]]
  <1>1. n \in Nat /\ n - 1 <= Len(attempts)
    BY BoundAssumption
  <1>2. \A i \in 1..n : (IF i = 1 THEN attempt ELSE attempts[i - 1]) \in S
    BY <1>1
  <1>3. f \in Seq(S) /\ Len(f) = n
    BY <1>1, <1>2
  <1>. QED
    BY <1>3 DEF Remember

-----------------------------------------------------------------------------
\* Putting a review off keeps the types of the schedule.
LEMMA PutOffTypes ==
  ASSUME NEW t \in Topic, NEW days \in 0..Longest, TypeOK, PutOff(t, days)
  PROVE  /\ wait' \in [Topic -> 0..Longest \cup {None}]
         /\ since' \in [Topic -> 0..Longest]
         /\ before' \subseteq Topic \X Topic
<1>1. wait' \in [Topic -> 0..Longest \cup {None}]
  BY DEF PutOff, TypeOK
<1>2. since' \in [Topic -> 0..Longest]
  BY IntervalDays DEF PutOff, TypeOK
<1>3. before' \subseteq Topic \X Topic
  BY DEF PutOff, TypeOK
<1>. QED
  BY <1>1, <1>2, <1>3

\* A fresh store and a migrated one have the types.
LEMMA TypesInit ==
  ASSUME Init PROVE TypeOK
<1>1. PICK old \in SUBSET Topic :
        /\ before \subseteq old \X old
        /\ state = [t \in Topic |-> IF t \in old THEN "mastered" ELSE "absent"]
        /\ wait = [t \in Topic |-> IF t \in old THEN 0 ELSE None]
  BY DEF Init
<1>2. /\ state \in [Topic -> {"absent", "learning", "mastered"}]
      /\ wait \in [Topic -> 0..Longest \cup {None}]
  BY <1>1, IntervalDays
<1>3. stage \in [Topic -> DOMAIN Intervals]
  BY IntervalDays DEF Init
<1>4. /\ streak \in [Topic -> 0..Len(Intervals)]
      /\ since \in [Topic -> 0..Longest]
  BY IntervalDays DEF Init
<1>5. trail \in [Topic -> Seq([kind : Kind, result : Result])]
  BY DEF Init
<1>6. round \in Seq([topic : Topic, kind : Kind])
  BY DEF Init
<1>. QED
  BY <1>1, <1>2, <1>3, <1>4, <1>5, <1>6 DEF Init, TypeOK

\* A sequence that is not empty has a first element.
LEMMA FirstOf ==
  ASSUME NEW S, NEW q \in Seq(S), q # <<>> PROVE q[1] \in S
<1>1. Len(q) \in Nat /\ Len(q) # 0
  BY EmptySeq
<1>. QED
  BY <1>1

\* What is asked next is a question of one of the kinds.
LEMMA NextKindTypes ==
  ASSUME NEW attempts \in Seq([kind : Kind, result : Result])
  PROVE  NextKind(attempts) \in Kind
<1>1. CASE attempts = <<>>
  BY <1>1 DEF NextKind, Kind, Kinds
<1>2. CASE attempts # <<>>
  <2>1. attempts[1] \in [kind : Kind, result : Result]
    <3> DEFINE S == [kind : Kind, result : Result]
    <3> HIDE DEF S
    <3>1. attempts \in Seq(S)
      BY DEF S
    <3>2. attempts[1] \in S
      BY <1>2, <3>1, FirstOf
    <3>. QED
      BY <3>2 DEF S
  <2>2. attempts[1].kind \in Kind /\ After(attempts[1].kind) \in Kind
    BY <2>1 DEF After, Kind, Kinds
  <2>. QED
    BY <1>2, <2>2 DEF NextKind
<1>. QED
  BY <1>1, <1>2

\* Every operation of the store, and a day that passes, keep the types.
LEMMA TypesNext ==
  ASSUME TypeOK, [Next]_vars PROVE TypeOK'
<1>. USE DEF TypeOK
<1>1. ASSUME NEW t \in Topic, Explained(t) PROVE TypeOK'
  <2>1. round' \in Seq([topic : Topic, kind : Kind])
    BY <1>1 DEF Explained, CancelReviews
  <2>. QED
    BY <1>1, <2>1 DEF Explained, scheduleVars
<1>2. ASSUME NEW t \in Topic, Understood(t) PROVE TypeOK'
  <2>1. 1 \in 0..Longest /\ 1 \in DOMAIN Intervals
        /\ 0 \in 0..Len(Intervals)
    BY IntervalDays
  <2>2. /\ wait' \in [Topic -> 0..Longest \cup {None}]
        /\ since' \in [Topic -> 0..Longest]
        /\ before' \subseteq Topic \X Topic
    BY <1>2, <2>1, PutOffTypes DEF Understood
  <2>. QED
    BY <1>2, <2>1, <2>2 DEF Understood
<1>3. ASSUME NEW t \in Topic, ReopenTopic(t) PROVE TypeOK'
  <2>1. round' \in Seq([topic : Topic, kind : Kind])
    BY <1>3 DEF ReopenTopic, CancelReviews
  <2>. QED
    BY <1>3, <2>1 DEF ReopenTopic, scheduleVars
<1>4. ASSUME StartReview PROVE TypeOK'
  <2>1. PICK n \in 1..RoundSize : \E asked \in [1..n -> Due] :
          round' = [i \in 1..n |->
                      [topic |-> asked[i], kind |-> NextKind(trail[asked[i]])]]
    BY <1>4 DEF StartReview
  <2>2. PICK asked \in [1..n -> Due] :
          round' = [i \in 1..n |->
                      [topic |-> asked[i], kind |-> NextKind(trail[asked[i]])]]
    BY <2>1
  <2>3. \A i \in 1..n : asked[i] \in Topic /\ NextKind(trail[asked[i]]) \in Kind
    BY NextKindTypes DEF Due
  <2>4. n \in Nat
    BY BoundAssumption
  <2>5. round' \in Seq([topic : Topic, kind : Kind])
    BY <2>2, <2>3, <2>4
  <2>. QED
    BY <1>4, <2>5 DEF StartReview, topicVars, scheduleVars
<1>5. ASSUME NEW result \in Result, ReviewAnswered(result) PROVE TypeOK'
  <2> DEFINE t == Head(round).topic
             attempt == [kind |-> Head(round).kind, result |-> result]
  <2>1. /\ round # <<>> /\ round' = Tail(round)
        /\ stage' = [stage EXCEPT ![t] = NextStage(@, result)]
        /\ streak' = [streak EXCEPT ![t] = NextStreak(@, result)]
        /\ last' = [last EXCEPT ![t] = result]
        /\ PutOff(t, NextWait(stage[t], result))
        /\ trail' = [trail EXCEPT ![t] = Remember(@, attempt)]
        /\ UNCHANGED topicVars
    BY <1>5 DEF ReviewAnswered
  <2>2. /\ Head(round) \in [topic : Topic, kind : Kind]
        /\ round' \in Seq([topic : Topic, kind : Kind])
    BY <2>1, HeadTailProperties
  <2>3. t \in Topic /\ attempt \in [kind : Kind, result : Result]
    BY <2>2
  <2>4. /\ NextStage(stage[t], result) \in DOMAIN Intervals
        /\ NextWait(stage[t], result) \in 0..Longest
        /\ NextStreak(streak[t], result) \in 0..Len(Intervals)
    BY <2>3, NextTypes
  <2>5. /\ wait' \in [Topic -> 0..Longest \cup {None}]
        /\ since' \in [Topic -> 0..Longest]
        /\ before' \subseteq Topic \X Topic
    BY <2>1, <2>3, <2>4, PutOffTypes
  <2>6. Remember(trail[t], attempt) \in Seq([kind : Kind, result : Result])
    BY <2>3, RememberTypes
  <2>7. trail' \in [Topic -> Seq([kind : Kind, result : Result])]
    BY <2>1, <2>6
  <2>8. /\ stage' \in [Topic -> DOMAIN Intervals]
        /\ streak' \in [Topic -> 0..Len(Intervals)]
        /\ last' \in [Topic -> Result \cup {None}]
    BY <2>1, <2>4
  <2>. QED
    BY <2>1, <2>2, <2>5, <2>7, <2>8 DEF topicVars
<1>6. CASE Day
  <2>1. wait' \in [Topic -> 0..Longest \cup {None}]
    BY <1>6, IntervalDays DEF Day
  <2>2. since' \in [Topic -> 0..Longest]
    BY <1>6, IntervalDays DEF Day
  <2>. QED
    BY <1>6, <2>1, <2>2 DEF Day, topicVars
<1>7. CASE Clear
  <2>1. 1 \in DOMAIN Intervals /\ 0 \in 0..Len(Intervals)
        /\ Longest \in 0..Longest
    BY IntervalDays
  <2>2. /\ trail' \in [Topic -> Seq([kind : Kind, result : Result])]
        /\ round' \in Seq([topic : Topic, kind : Kind])
    BY <1>7 DEF Clear
  <2>. QED
    BY <1>7, <2>1, <2>2 DEF Clear
<1>8. CASE UNCHANGED vars
  BY <1>8 DEF vars, topicVars, scheduleVars
<1>. QED
  BY <1>1, <1>2, <1>3, <1>4, <1>5, <1>6, <1>7, <1>8 DEF Next, Answers

\* The schedule, the trails and the round keep their types: no stage without an
\* interval is ever reached (store.ts:2538-2552).
THEOREM Types == Spec => []TypeOK
<1>. QED
  BY TypesInit, TypesNext, PTL DEF Spec

-----------------------------------------------------------------------------
\* A topic's stage is at least the one its streak has earned, and from the time
\* its schedule was set until it is due at least that stage's days pass.
SpacedInv ==
  \A t \in Topic :
    /\ EarnedStage(t) <= stage[t]
    /\ wait[t] # None => Earned(t) <= since[t] + wait[t]

\* What a topic has earned is one of the intervals.
LEMMA EarnedTypes ==
  ASSUME TypeOK, NEW t \in Topic
  PROVE  /\ EarnedStage(t) \in DOMAIN Intervals
         /\ Earned(t) \in Nat /\ Earned(t) <= Longest
<1>1. streak[t] \in 0..Len(Intervals)
  BY DEF TypeOK
<1>2. EarnedStage(t) \in DOMAIN Intervals
  BY <1>1, IntervalDays DEF EarnedStage
<1>. QED
  BY <1>2, IntervalDays DEF Earned

\* A migrated topic has earned no more than the first interval.
LEMMA SpacedInit ==
  ASSUME Init PROVE SpacedInv
<1> SUFFICES ASSUME NEW t \in Topic
             PROVE  /\ EarnedStage(t) <= stage[t]
                    /\ wait[t] # None => Earned(t) <= since[t] + wait[t]
  BY DEF SpacedInv
<1>1. stage[t] = 1 /\ streak[t] = 0 /\ since[t] = Longest
  BY DEF Init
<1>2. wait[t] \in {0, None}
  BY DEF Init
<1>3. EarnedStage(t) = 1
  BY <1>1, IntervalDays DEF EarnedStage
<1>4. Earned(t) <= Longest /\ Earned(t) \in Nat
  BY <1>3, IntervalDays DEF Earned
<1>. QED
  BY <1>1, <1>2, <1>3, <1>4, IntervalDays

\* No step brings a review nearer than the topic has earned.
LEMMA SpacedNext ==
  ASSUME TypeOK, TypeOK', SpacedInv, [Next]_vars PROVE SpacedInv'
<1> SUFFICES ASSUME NEW t \in Topic
             PROVE  /\ EarnedStage(t)' <= stage[t]'
                    /\ wait[t]' # None => Earned(t)' <= since[t]' + wait[t]'
  BY DEF SpacedInv
<1>0. /\ EarnedStage(t) <= stage[t]
      /\ wait[t] # None => Earned(t) <= since[t] + wait[t]
  BY DEF SpacedInv
<1>1. ASSUME NEW u \in Topic, Explained(u) \/ ReopenTopic(u)
      PROVE /\ EarnedStage(t)' <= stage[t]'
            /\ wait[t]' # None => Earned(t)' <= since[t]' + wait[t]'
  BY <1>0, <1>1
  DEF Explained, ReopenTopic, scheduleVars, EarnedStage, Earned
<1>2. ASSUME NEW u \in Topic, Understood(u)
      PROVE /\ EarnedStage(t)' <= stage[t]'
            /\ wait[t]' # None => Earned(t)' <= since[t]' + wait[t]'
  <2>1. CASE t = u
    <3>1. stage[t]' = 1 /\ streak[t]' = 0 /\ wait[t]' = 1 /\ since[t]' = 0
      BY <1>2, <2>1 DEF Understood, PutOff, TypeOK
    <3>2. EarnedStage(t)' = 1
      BY <3>1, IntervalDays DEF EarnedStage
    <3>3. Earned(t)' = 1
      BY <3>2, IntervalAssumption DEF Earned
    <3>. QED
      BY <3>1, <3>2, <3>3
  <2>2. CASE t # u
    <3>1. UNCHANGED <<stage[t], streak[t], wait[t], since[t]>>
      BY <1>2, <2>2 DEF Understood, PutOff, TypeOK
    <3>. QED
      BY <1>0, <3>1 DEF EarnedStage, Earned
  <2>. QED
    BY <2>1, <2>2
<1>3. ASSUME StartReview
      PROVE /\ EarnedStage(t)' <= stage[t]'
            /\ wait[t]' # None => Earned(t)' <= since[t]' + wait[t]'
  BY <1>0, <1>3 DEF StartReview, scheduleVars, EarnedStage, Earned
<1>4. ASSUME NEW result \in Result, ReviewAnswered(result)
      PROVE /\ EarnedStage(t)' <= stage[t]'
            /\ wait[t]' # None => Earned(t)' <= since[t]' + wait[t]'
  <2> DEFINE u == Head(round).topic
  <2>1. /\ stage' = [stage EXCEPT ![u] = NextStage(@, result)]
        /\ streak' = [streak EXCEPT ![u] = NextStreak(@, result)]
        /\ wait' = [wait EXCEPT ![u] = NextWait(stage[u], result)]
        /\ since' = [since EXCEPT ![u] = 0]
    BY <1>4 DEF ReviewAnswered, PutOff
  <2>2. CASE t = u
    <3>1. /\ stage[t]' = NextStage(stage[t], result)
          /\ streak[t]' = NextStreak(streak[t], result)
          /\ wait[t]' = NextWait(stage[t], result) /\ since[t]' = 0
      BY <2>1, <2>2 DEF TypeOK
    <3>2. stage[t] \in DOMAIN Intervals /\ streak[t] \in 0..Len(Intervals)
      BY DEF TypeOK
    <3>3. stage[t]' \in DOMAIN Intervals /\ wait[t]' \in 0..Longest
      BY <3>1, <3>2, NextTypes
    <3>4. EarnedStage(t)' \in DOMAIN Intervals
      <4>. streak[t]' \in 0..Len(Intervals)
        BY <3>1, <3>2, NextTypes
      <4>. QED
        BY IntervalDays DEF EarnedStage
    <3>5. CASE result = "mastered"
      <4>1. EarnedStage(t)' <= stage[t]'
        BY <1>0, <3>1, <3>2, <3>5, IntervalDays
        DEF EarnedStage, NextStage, NextStreak, MasteredStage
      <4>2. wait[t]' = Intervals[stage[t]']
        BY <3>1, <3>5 DEF NextWait
      <4>3. Earned(t)' <= wait[t]'
        BY <3>3, <3>4, <4>1, <4>2, IntervalAssumption DEF Earned
      <4>. QED
        BY <3>1, <3>3, <4>1, <4>3
    <3>6. CASE result # "mastered"
      <4>1. streak[t]' = 0 /\ wait[t]' = 1
        BY <3>1, <3>6 DEF NextStreak, NextWait
      <4>2. EarnedStage(t)' = 1
        BY <4>1, IntervalDays DEF EarnedStage
      <4>3. Earned(t)' = 1
        BY <4>2, IntervalAssumption DEF Earned
      <4>. QED
        BY <3>1, <3>3, <4>1, <4>2, <4>3, IntervalDays
    <3>. QED
      BY <3>5, <3>6
  <2>3. CASE t # u
    <3>1. UNCHANGED <<stage[t], streak[t], wait[t], since[t]>>
      BY <2>1, <2>3 DEF TypeOK
    <3>. QED
      BY <1>0, <3>1 DEF EarnedStage, Earned
  <2>. QED
    BY <2>2, <2>3
<1>5. ASSUME Day
      PROVE /\ EarnedStage(t)' <= stage[t]'
            /\ wait[t]' # None => Earned(t)' <= since[t]' + wait[t]'
  <2>1. UNCHANGED <<stage[t], streak[t]>>
    BY <1>5 DEF Day
  <2>2. EarnedStage(t)' = EarnedStage(t) /\ Earned(t)' = Earned(t)
    BY <2>1 DEF EarnedStage, Earned
  <2>3. /\ wait[t]' = IF wait[t] \in {None, 0} THEN wait[t] ELSE wait[t] - 1
        /\ since[t]' = IF since[t] = Longest THEN Longest ELSE since[t] + 1
    BY <1>5 DEF Day
  <2>4. wait[t] \in 0..Longest \cup {None} /\ since[t] \in 0..Longest
    BY DEF TypeOK
  <2>5. wait[t]' \in 0..Longest \cup {None}
    BY DEF TypeOK
  <2>. QED
    BY <1>0, <2>1, <2>2, <2>3, <2>4, <2>5, EarnedTypes, IntervalDays,
       NoneAssumption
<1>6. ASSUME Clear
      PROVE /\ EarnedStage(t)' <= stage[t]'
            /\ wait[t]' # None => Earned(t)' <= since[t]' + wait[t]'
  <2>1. stage[t]' = 1 /\ streak[t]' = 0 /\ wait[t]' = None
    BY <1>6 DEF Clear
  <2>. QED
    BY <2>1, IntervalDays DEF EarnedStage
<1>7. ASSUME UNCHANGED vars
      PROVE /\ EarnedStage(t)' <= stage[t]'
            /\ wait[t]' # None => Earned(t)' <= since[t]' + wait[t]'
  BY <1>0, <1>7 DEF vars, scheduleVars, EarnedStage, Earned
<1>. QED
  BY <1>1, <1>2, <1>3, <1>4, <1>5, <1>6, <1>7 DEF Next, Answers

\* Whoever is asked about by a new round is due.
LEMMA AskedIsDue ==
  ASSUME TypeOK, [Next]_vars, round = <<>>, NEW t \in Topic, InRound(t)'
  PROVE  t \in Due
<1>1. PICK i \in DOMAIN round' : round'[i].topic = t
  BY DEF InRound
<1>2. ~UNCHANGED round
  BY <1>1
<1>3. CASE StartReview
  <2>1. PICK n \in 1..RoundSize : \E asked \in [1..n -> Due] :
          round' = [k \in 1..n |->
                      [topic |-> asked[k], kind |-> NextKind(trail[asked[k]])]]
    BY <1>3 DEF StartReview
  <2>2. PICK asked \in [1..n -> Due] :
          round' = [k \in 1..n |->
                      [topic |-> asked[k], kind |-> NextKind(trail[asked[k]])]]
    BY <2>1
  <2>. QED
    BY <1>1, <2>2
<1>4. ASSUME NEW result \in Result PROVE ~ReviewAnswered(result)
  BY DEF ReviewAnswered
<1>5. ASSUME NEW u \in Topic, Explained(u) \/ ReopenTopic(u) PROVE FALSE
  BY <1>2, <1>5 DEF Explained, ReopenTopic, CancelReviews
<1>6. ASSUME NEW u \in Topic, Understood(u) PROVE FALSE
  BY <1>2, <1>6 DEF Understood
<1>7. ASSUME Day \/ Clear \/ UNCHANGED vars PROVE FALSE
  BY <1>2, <1>7 DEF Day, Clear, vars
<1>. QED
  BY <1>3, <1>4, <1>5, <1>6, <1>7 DEF Next, Answers

\* No topic is asked about before the days have passed that the answers mastered
\* in a row have earned (store.ts:1017-1024, 2538-2552).
THEOREM Spacing == Spec => Spaced
<1>1. ASSUME TypeOK, SpacedInv, [Next]_vars
      PROVE  \A t \in Topic : (InRound(t)' /\ round = <<>>) => since[t] >= Earned(t)
  <2> SUFFICES ASSUME NEW t \in Topic, InRound(t)', round = <<>>
               PROVE  since[t] >= Earned(t)
    OBVIOUS
  <2>1. t \in Due
    BY <1>1, AskedIsDue
  <2>2. wait[t] = 0 /\ wait[t] # None
    BY <2>1, NoneAssumption DEF Due
  <2>3. Earned(t) <= since[t] + 0
    BY <1>1, <2>2 DEF SpacedInv
  <2>. QED
    BY <1>1, <2>3, EarnedTypes DEF TypeOK
<1>2. ASSUME TypeOK, SpacedInv, [Next]_vars
      PROVE  [\A t \in Topic :
                (InRound(t)' /\ round = <<>>) => since[t] >= Earned(t)]_vars
  BY <1>1, <1>2
<1>. QED
  BY <1>2, Types, SpacedInit, SpacedNext, TypesNext, TypesInit, PTL
  DEF Spec, Spaced

-----------------------------------------------------------------------------
\* The order of falling due is irreflexive, so that a round asks about a topic
\* once; the questions of the round are the next ones of their topics; and
\* after a mastered attempt the next one is of the next kind.
Irreflexive == \A t \in Topic : <<t, t>> \notin before
AskedOnce == \A i, j \in DOMAIN round : i # j => round[i].topic # round[j].topic
AskedNext == \A i \in DOMAIN round : round[i].kind = NextKind(trail[round[i].topic])
InTurn(attempts) ==
  \A i \in DOMAIN attempts :
    i > 1 /\ attempts[i].result = "mastered"
    => attempts[i - 1].kind = After(attempts[i].kind)
RotationInv ==
  /\ Irreflexive /\ AskedOnce /\ AskedNext
  /\ \A t \in Topic : InTurn(trail[t])

\* Nothing has been asked yet.
LEMMA RotationInit ==
  ASSUME Init PROVE RotationInv
<1>1. Irreflexive
  BY DEF Init, Irreflexive
<1>2. round = <<>> /\ \A t \in Topic : trail[t] = <<>>
  BY DEF Init
<1>. QED
  BY <1>1, <1>2 DEF RotationInv, AskedOnce, AskedNext, InTurn

\* What changes neither the order, the trails nor the round, or only drops it.
LEMMA RotationKept ==
  ASSUME RotationInv, UNCHANGED trail, round' \in {round, <<>>}, Irreflexive'
  PROVE  RotationInv'
<1>1. AskedOnce' /\ AskedNext'
  <2>1. CASE round' = round
    BY <2>1 DEF RotationInv, AskedOnce, AskedNext
  <2>2. CASE round' = <<>>
    BY <2>2 DEF AskedOnce, AskedNext
  <2>. QED
    BY <2>1, <2>2
<1>. QED
  BY <1>1 DEF RotationInv, InTurn

\* A topic that is put off never falls due before itself.
LEMMA PutOffIrreflexive ==
  ASSUME Irreflexive, NEW t \in Topic, NEW days, PutOff(t, days)
  PROVE  Irreflexive'
BY DEF Irreflexive, PutOff

\* A trail stays in turn when the attempt added is of the kind due next.
LEMMA RememberInTurn ==
  ASSUME NEW attempts \in Seq([kind : Kind, result : Result]), InTurn(attempts),
         NEW attempt \in [kind : Kind, result : Result],
         attempts # <<>> /\ attempts[1].result = "mastered"
           => attempt.kind = After(attempts[1].kind)
  PROVE  InTurn(Remember(attempts, attempt))
<1> DEFINE S == [kind : Kind, result : Result]
           longer == Remember(attempts, attempt)
<1>1. /\ longer \in Seq(S)
      /\ Len(longer) = (IF Len(attempts) < Remembered THEN Len(attempts) + 1
                        ELSE Remembered)
      /\ \A i \in 1..Len(longer) :
           longer[i] = IF i = 1 THEN attempt ELSE attempts[i - 1]
  <2> HIDE DEF S
  <2>1. attempts \in Seq(S) /\ attempt \in S
    BY DEF S
  <2>. QED
    BY <2>1, RememberTypes
<1>2. DOMAIN longer = 1..Len(longer) /\ DOMAIN attempts = 1..Len(attempts)
      /\ Len(attempts) \in Nat /\ Len(longer) \in Nat
  <2> HIDE DEF longer
  <2>. QED
    BY <1>1
<1>3. Len(longer) <= Len(attempts) + 1
  BY <1>1, <1>2, BoundAssumption
<1> SUFFICES ASSUME NEW i \in DOMAIN longer, i > 1,
                    longer[i].result = "mastered"
             PROVE  longer[i - 1].kind = After(longer[i].kind)
  BY DEF InTurn
<1> HIDE DEF longer
<1>4. i \in 2..Len(longer) /\ i - 1 \in 1..Len(attempts)
  BY <1>2, <1>3
<1>5. longer[i] = attempts[i - 1]
  BY <1>1, <1>4
<1>6. CASE i = 2
  <2>1. longer[1] = attempt
    BY <1>1, <1>4
  <2>2. attempts # <<>>
    BY <1>4
  <2>. QED
    BY <1>5, <1>6, <2>1, <2>2
<1>7. CASE i # 2
  <2>1. longer[i - 1] = attempts[(i - 1) - 1]
    BY <1>1, <1>4, <1>7
  <2>2. i - 1 \in DOMAIN attempts /\ i - 1 > 1
    BY <1>2, <1>4, <1>7
  <2>. QED
    BY <1>5, <2>1, <2>2 DEF InTurn
<1>. QED
  BY <1>6, <1>7

\* An answer adds the kind that was due next; no other question is the topic's.
LEMMA RotationAnswered ==
  ASSUME TypeOK, RotationInv, NEW result \in Result, ReviewAnswered(result)
  PROVE  RotationInv'
<1> DEFINE t == Head(round).topic
           attempt == [kind |-> Head(round).kind, result |-> result]
<1>1. /\ round # <<>> /\ round' = Tail(round)
      /\ PutOff(t, NextWait(stage[t], result))
      /\ trail' = [trail EXCEPT ![t] = Remember(@, attempt)]
  BY DEF ReviewAnswered
<1>2. /\ Len(round) \in Nat \ {0} /\ Head(round) = round[1]
      /\ DOMAIN round' = 1..(Len(round) - 1)
      /\ \A i \in 1..(Len(round) - 1) : round'[i] = round[i + 1]
  <2> DEFINE S == [topic : Topic, kind : Kind]
  <2>1. round \in Seq(S)
    BY DEF TypeOK
  <2> HIDE DEF S
  <2>2. Len(round) \in Nat \ {0}
    BY <1>1, <2>1, EmptySeq
  <2>. QED
    BY <1>1, <2>1, <2>2
<1>3. /\ t = round[1].topic /\ t \in Topic
      /\ attempt \in [kind : Kind, result : Result]
      /\ attempt.kind = NextKind(trail[t])
  <2>1. Head(round) \in [topic : Topic, kind : Kind]
    BY <1>1, HeadTailProperties DEF TypeOK
  <2>2. 1 \in DOMAIN round /\ round[1].kind = NextKind(trail[round[1].topic])
    <3>1. DOMAIN round = 1..Len(round)
      BY DEF TypeOK
    <3>. QED
      BY <1>2, <3>1 DEF RotationInv, AskedNext
  <2>. QED
    BY <1>2, <2>1, <2>2
<1> HIDE DEF t, attempt
<1>4. Irreflexive'
  BY <1>1, <1>3, PutOffIrreflexive DEF RotationInv
<1>5. \A i \in 1..(Len(round) - 1) :
        i + 1 \in DOMAIN round /\ 1 \in DOMAIN round /\ i + 1 # 1
  <2>1. DOMAIN round = 1..Len(round)
    BY DEF TypeOK
  <2>. QED
    BY <1>2, <2>1
<1>6. AskedOnce'
  <2> SUFFICES ASSUME NEW i \in DOMAIN round', NEW j \in DOMAIN round', i # j
               PROVE  round'[i].topic # round'[j].topic
    BY DEF AskedOnce
  <2>1. i + 1 # j + 1
    BY <1>2
  <2>. QED
    BY <1>2, <1>5, <2>1 DEF RotationInv, AskedOnce
<1>7. AskedNext'
  <2> SUFFICES ASSUME NEW i \in DOMAIN round'
               PROVE  round'[i].kind = NextKind(trail'[round'[i].topic])
    BY DEF AskedNext
  <2> DEFINE u == round[i + 1].topic
  <2>1. round'[i] = round[i + 1] /\ u # t
    BY <1>2, <1>3, <1>5 DEF RotationInv, AskedOnce
  <2>2. trail'[u] = trail[u]
    BY <1>1, <2>1 DEF TypeOK
  <2>3. round[i + 1].kind = NextKind(trail[u])
    BY <1>2, <1>5 DEF RotationInv, AskedNext
  <2>. QED
    BY <2>1, <2>2, <2>3
<1>8. ASSUME NEW u \in Topic PROVE InTurn(trail'[u])
  <2>1. CASE u = t
    <3>1. trail'[t] = Remember(trail[t], attempt)
      BY <1>1, <1>3 DEF TypeOK
    <3>2. trail[t] \in Seq([kind : Kind, result : Result])
      BY <1>3 DEF TypeOK
    <3>3. trail[t] # <<>> /\ trail[t][1].result = "mastered"
          => attempt.kind = After(trail[t][1].kind)
      BY <1>3 DEF NextKind
    <3>4. InTurn(trail[t])
      BY <1>3 DEF RotationInv
    <3>. QED
      BY <1>3, <2>1, <3>1, <3>2, <3>3, <3>4, RememberInTurn
  <2>2. CASE u # t
    <3>1. trail'[u] = trail[u]
      BY <1>1, <2>2 DEF TypeOK
    <3>. QED
      BY <3>1 DEF RotationInv
  <2>. QED
    BY <2>1, <2>2
<1>. QED
  BY <1>4, <1>6, <1>7, <1>8 DEF RotationInv, InTurn

\* A round asks every topic once, for the kind that is due next.
LEMMA RotationStarted ==
  ASSUME TypeOK, RotationInv, StartReview PROVE RotationInv'
<1>1. PICK n \in 1..RoundSize : \E asked \in [1..n -> Due] :
        /\ Foremost(asked)
        /\ round' = [i \in 1..n |->
             [topic |-> asked[i], kind |-> NextKind(trail[asked[i]])]]
  BY DEF StartReview
<1>2. PICK asked \in [1..n -> Due] :
        /\ Foremost(asked)
        /\ round' = [i \in 1..n |->
             [topic |-> asked[i], kind |-> NextKind(trail[asked[i]])]]
  BY <1>1
<1>3. UNCHANGED <<trail, before>>
  BY DEF StartReview, scheduleVars
<1>4. n \in Nat /\ \A i \in 1..n : asked[i] \in Topic
  BY BoundAssumption DEF Due
<1>5. \A i, j \in 1..n : i # j => asked[i] # asked[j]
  <2>1. \A i, j \in 1..n : i < j => <<asked[i], asked[j]>> \in before
    BY <1>2 DEF Foremost, Older
  <2>2. \A i, j \in 1..n : i < j => asked[i] # asked[j]
    BY <1>4, <2>1 DEF RotationInv, Irreflexive
  <2>. QED
    BY <1>4, <2>2
<1>6. AskedOnce' /\ AskedNext'
  BY <1>2, <1>3, <1>5 DEF AskedOnce, AskedNext
<1>. QED
  BY <1>3, <1>6 DEF RotationInv, Irreflexive, InTurn

\* Every step keeps the turn of the kinds.
LEMMA RotationNext ==
  ASSUME TypeOK, RotationInv, [Next]_vars PROVE RotationInv'
<1>1. ASSUME NEW t \in Topic, Explained(t) \/ ReopenTopic(t)
      PROVE  RotationInv'
  <2>1. UNCHANGED trail /\ round' \in {round, <<>>} /\ UNCHANGED before
    BY <1>1 DEF Explained, ReopenTopic, CancelReviews, scheduleVars
  <2>. QED
    BY <2>1, RotationKept DEF RotationInv, Irreflexive
<1>2. ASSUME NEW t \in Topic, Understood(t) PROVE RotationInv'
  <2>1. UNCHANGED trail /\ round' \in {round, <<>>} /\ PutOff(t, 1)
    BY <1>2 DEF Understood
  <2>2. Irreflexive'
    BY <2>1, PutOffIrreflexive DEF RotationInv
  <2>. QED
    BY <2>1, <2>2, RotationKept
<1>3. CASE StartReview
  BY <1>3, RotationStarted
<1>4. ASSUME NEW result \in Result, ReviewAnswered(result) PROVE RotationInv'
  BY <1>4, RotationAnswered
<1>5. CASE Day \/ UNCHANGED vars
  <2>1. UNCHANGED <<trail, round, before>>
    BY <1>5 DEF Day, vars, scheduleVars
  <2>. QED
    BY <2>1, RotationKept DEF RotationInv, Irreflexive
<1>6. CASE Clear
  <2>1. /\ round' = <<>> /\ before' = {}
        /\ \A t \in Topic : trail'[t] = <<>>
    BY <1>6 DEF Clear
  <2>. QED
    BY <2>1 DEF RotationInv, Irreflexive, AskedOnce, AskedNext, InTurn
<1>. QED
  BY <1>1, <1>2, <1>3, <1>4, <1>5, <1>6 DEF Next, Answers

\* Three answers mastered in a row are answers to the three kinds of question,
\* in every behaviour and for any number of topics (store.ts:1033-1041).
THEOREM Rotation == Spec => []AllKinds
<1>1. ASSUME TypeOK, RotationInv PROVE AllKinds
  <2> SUFFICES ASSUME NEW t \in Topic, Len(trail[t]) = 3,
                      \A i \in 1..3 : trail[t][i].result = "mastered"
               PROVE  {trail[t][i].kind : i \in 1..3} = Kind
    BY DEF AllKinds
  <2>1. trail[t] \in Seq([kind : Kind, result : Result])
    BY <1>1 DEF TypeOK
  <2>2. \A i \in 1..3 : trail[t][i].kind \in Kind
    <3> DEFINE S == [kind : Kind, result : Result]
    <3>1. trail[t] \in Seq(S)
      BY <2>1
    <3> HIDE DEF S
    <3>2. \A i \in 1..3 : trail[t][i] \in S
      BY <3>1
    <3>. QED
      BY <3>2 DEF S
  <2>3. DOMAIN trail[t] = 1..3
    BY <2>1
  <2>4. /\ trail[t][1].kind = After(trail[t][2].kind)
        /\ trail[t][2].kind = After(trail[t][3].kind)
    BY <1>1, <2>3 DEF RotationInv, InTurn
  <2>. DEFINE k(i) == trail[t][i].kind
  <2>5. Kind = {"recall", "application", "distinction"}
    BY DEF Kind, Kinds
  <2>6. {k(i) : i \in 1..3} = {k(1), k(2), k(3)}
    OBVIOUS
  <2>. QED
    BY <2>2, <2>4, <2>5, <2>6 DEF After
<1>. QED
  BY <1>1, Types, RotationInit, RotationNext, TypesInit, TypesNext, PTL DEF Spec
=============================================================================
