------------------------ MODULE LearningThreadProofs ------------------------
(***************************************************************************)
(* Proofs about LearningThread, for any number of topics, Sessions,          *)
(* explanations, questions and requests. The invariants hold one another up: *)
(* a round asks about mastered topics only because a mastered topic has no   *)
(* active explanation unless it was explained anew, which ends the round.    *)
(***************************************************************************)
EXTENDS LearningThread, FiniteSetTheorems, TLAPS

IInv ==
  /\ TypeOK /\ OneConversation /\ ThreadComplete
  /\ MasteredIsReviewable /\ ReviewsAskMastered /\ RoundIsOpen

-----------------------------------------------------------------------------
\* What the actions do to the rows they change.
LEMMA RevisedRow ==
  ASSUME TypeOK, NEW t \in Topic, NEW state \in {"learning", "mastered"}, Revised(t, state)
  PROVE  /\ topic' \in [Topic -> TopicRow]
         /\ topic'[t].state = state
         /\ \A u \in Topic : u # t => topic'[u] = topic[u]
<1>1. topic[t].revision + 1 \in Nat
  BY DEF TypeOK, TopicRow
<1> QED
  BY <1>1 DEF TypeOK, TopicRow, Revised

\* Withdrawing a topic's questions deletes them and changes no other question.
LEMMA CancelRow ==
  ASSUME TypeOK, NEW t \in Topic, CancelReviews(t)
  PROVE  /\ review' \in [Review -> ReviewRow]
         /\ batchActive' \in BOOLEAN
         /\ \A q \in Review : review'[q] = review[q] \/ review'[q].state = "deleted"
<1>1. NoReview("deleted") \in ReviewRow /\ NoReview("deleted").state = "deleted"
  BY DEF NoReview, ReviewRow
<1> QED
  BY <1>1 DEF TypeOK, CancelReviews

\* A new explanation is active, of its topic and Session; the others stay.
LEMMA ExplainedRow ==
  ASSUME TypeOK, NEW e \in Explanation, NEW t \in Topic, NEW s \in Source, Explain(e, t, s)
  PROVE  /\ explanation' \in [Explanation -> ExplanationRow]
         /\ explanation'[e].state = "active" /\ ~explanation'[e].pending
         /\ explanation'[e].topic = t /\ explanation'[e].source = s
         /\ explanation'[e].revision = 1
         /\ \A d \in Explanation : d # e => explanation'[d] = explanation[d]
<1>1. [state |-> "active", topic |-> t, source |-> s, revision |-> 1, pending |-> FALSE]
        \in ExplanationRow
  BY DEF ExplanationRow
<1> QED
  BY <1>1 DEF TypeOK, Explain

\* A rephrase adds one revision to an explanation that stays active.
LEMMA RephrasedRow ==
  ASSUME TypeOK, NEW e \in Explanation, NEW n \in 1..MaxRevision,
         Rephrased(e, n)
  PROVE  /\ explanation' \in [Explanation -> ExplanationRow]
         /\ explanation'[e].state = "active" /\ ~explanation'[e].pending
         /\ explanation'[e].revision = n + 1
         /\ explanation'[e].topic = explanation[e].topic
         /\ explanation'[e].source = explanation[e].source
         /\ \A d \in Explanation : d # e => explanation'[d] = explanation[d]
<1>1. explanation[e] \in ExplanationRow
  BY DEF TypeOK
<1>2. \A d \in Explanation : d # e => explanation'[d] = explanation[d]
  BY DEF Rephrased, TypeOK
<1>3. explanation'[e] = [explanation[e] EXCEPT !.revision = n + 1, !.pending = FALSE]
  BY DEF Rephrased, TypeOK
<1>4. explanation'[e] \in ExplanationRow
  <2>1. n + 1 \in Nat
    BY <1>1 DEF ExplanationRow, Rephrased
  <2> QED
    BY <1>1, <1>3, <2>1 DEF ExplanationRow
<1>5. explanation' = [d \in Explanation |-> explanation'[d]]
  BY DEF Rephrased, TypeOK
<1> QED
  BY <1>1, <1>2, <1>3, <1>4, <1>5 DEF ExplanationRow, TypeOK, Rephrased, Judged

\* Understood closes its explanation and changes no other.
LEMMA UnderstoodRow ==
  ASSUME TypeOK, NEW e \in Explanation, NEW n \in 1..MaxRevision, NEW r \in Request,
         Understood(r, e, n)
  PROVE  /\ explanation' \in [Explanation -> ExplanationRow]
         /\ explanation'[e].state = "closed" /\ ~explanation'[e].pending
         /\ explanation'[e].revision = n
         /\ explanation'[e].topic = explanation[e].topic
         /\ explanation'[e].source = explanation[e].source
         /\ \A d \in Explanation : d # e => explanation'[d] = explanation[d]
<1>1. explanation[e] \in ExplanationRow
  BY DEF TypeOK
<1>2. \A d \in Explanation : d # e => explanation'[d] = explanation[d]
  BY DEF Understood, TypeOK
<1>3. explanation'[e] = [explanation[e] EXCEPT !.state = "closed", !.pending = FALSE]
  BY DEF Understood, TypeOK
<1>4. explanation'[e] \in ExplanationRow
  BY <1>1, <1>3 DEF ExplanationRow
<1>5. explanation' = [d \in Explanation |-> explanation'[d]]
  BY DEF Understood, TypeOK
<1> QED
  BY <1>1, <1>2, <1>3, <1>4, <1>5 DEF ExplanationRow, TypeOK, Understood, Judged

\* Not understood leaves the explanation active, with a rephrase pending.
LEMMA NotUnderstoodRow ==
  ASSUME TypeOK, NEW e \in Explanation, NEW n \in 1..MaxRevision, NEW r \in Request,
         NotUnderstood(r, e, n)
  PROVE  /\ explanation' \in [Explanation -> ExplanationRow]
         /\ explanation'[e].state = "active" /\ explanation'[e].pending
         /\ explanation'[e].revision = n
         /\ explanation'[e].topic = explanation[e].topic
         /\ explanation'[e].source = explanation[e].source
         /\ \A d \in Explanation : d # e => explanation'[d] = explanation[d]
<1>1. explanation[e] \in ExplanationRow
  BY DEF TypeOK
<1>2. \A d \in Explanation : d # e => explanation'[d] = explanation[d]
  BY DEF NotUnderstood, TypeOK
<1>3. explanation'[e] = [explanation[e] EXCEPT !.pending = TRUE]
  BY DEF NotUnderstood, TypeOK
<1>4. explanation'[e] \in ExplanationRow
  BY <1>1, <1>3 DEF ExplanationRow
<1>5. explanation' = [d \in Explanation |-> explanation'[d]]
  BY DEF NotUnderstood, TypeOK
<1> QED
  BY <1>1, <1>2, <1>3, <1>4, <1>5 DEF ExplanationRow, TypeOK, NotUnderstood, Judged

\* An answer closes its question and changes no other.
LEMMA AnsweredRow ==
  ASSUME TypeOK, NEW q \in Review, NEW result, ReviewAnswered(q, result)
  PROVE  /\ review' \in [Review -> ReviewRow]
         /\ review'[q].state = "answered"
         /\ \A p \in Review : p # q => review'[p] = review[p]
<1>1. review[q] \in ReviewRow
  BY DEF TypeOK
<1>2. review'[q] = [review[q] EXCEPT !.state = "answered"]
  BY DEF ReviewAnswered, TypeOK
<1>3. review'[q] \in ReviewRow /\ review'[q].state = "answered"
  BY <1>1, <1>2 DEF ReviewRow
<1>4. \A p \in Review : p # q => review'[p] = review[p]
  BY DEF ReviewAnswered, TypeOK
<1>5. review' = [p \in Review |-> review'[p]]
  BY DEF ReviewAnswered, TypeOK
<1> QED
  BY <1>3, <1>4, <1>5 DEF TypeOK

\* A round: the questions it opens, on different topics that are due.
LEMMA RoundRow ==
  ASSUME TypeOK, StartReview
  PROVE  \E questions \in SUBSET Review :
           /\ review' \in [Review -> ReviewRow]
           /\ questions # {}
           /\ \A q \in questions : /\ review'[q].state = "open"
                                   /\ review'[q].topic \in Due
                                   /\ review'[q].batch = batch + 1
           /\ \A q \in Review \ questions : review'[q] = review[q]
           /\ \A p, q \in questions : p # q =>
                review'[p].topic # review'[q].topic /\ review'[p].position # review'[q].position
<1>1. PICK round \in SUBSET Due,
           questions \in SUBSET {q \in Review : review[q].state = "unused"} :
        StartRound(round, questions)
  BY DEF StartReview
<1>2. PICK about \in [questions -> round], at \in [questions -> 1..Cardinality(round)] :
        /\ \A p, q \in questions : p # q => about[p] # about[q] /\ at[p] # at[q]
        /\ review' = [q \in Review |->
             IF q \in questions
             THEN [state |-> "open", topic |-> about[q], batch |-> batch + 1, position |-> at[q]]
             ELSE review[q]]
  BY <1>1 DEF StartRound
<1>3. Due \subseteq Topic
  BY DEF Due, TypeOK
<1>4. questions # {}
  <2>1. IsFiniteSet(Due)
    BY <1>3, TopicAssumption, FS_Subset
  <2>2. Cardinality(Due) \in Nat \ {0}
    BY <2>1, FS_EmptySet, FS_CardinalityType DEF StartReview
  <2>3. Cardinality(questions) # 0
    BY <1>1, <2>2, BatchAssumption DEF StartRound
  <2> QED
    BY <2>3, FS_EmptySet
<1>5. \A q \in questions : about[q] \in Due /\ at[q] \in Nat
  OBVIOUS
<1>6. \A q \in questions :
        /\ review'[q] = [state |-> "open", topic |-> about[q], batch |-> batch + 1,
                         position |-> at[q]]
        /\ review'[q] \in ReviewRow
  BY <1>2, <1>3, <1>5 DEF TypeOK, ReviewRow
<1>7. \A q \in Review \ questions : review'[q] = review[q]
  BY <1>2
<1>8. review' \in [Review -> ReviewRow]
  BY <1>2, <1>6, <1>7 DEF TypeOK
<1>9. \A q \in questions : /\ review'[q].state = "open"
                           /\ review'[q].topic = about[q]
                           /\ review'[q].batch = batch + 1
                           /\ review'[q].position = at[q]
  <2> SUFFICES ASSUME NEW q \in questions
               PROVE  /\ review'[q].state = "open"
                      /\ review'[q].topic = about[q]
                      /\ review'[q].batch = batch + 1
                      /\ review'[q].position = at[q]
    OBVIOUS
  <2>1. review'[q] = [state |-> "open", topic |-> about[q], batch |-> batch + 1,
                      position |-> at[q]]
    BY <1>6
  <2> QED
    BY <2>1
<1>10. \A q \in questions : review'[q].topic \in Due
  BY <1>5, <1>9
<1>11. \A p, q \in questions : p # q =>
         review'[p].topic # review'[q].topic /\ review'[p].position # review'[q].position
  BY <1>2, <1>9
<1>12. questions \in SUBSET Review
  OBVIOUS
<1> WITNESS questions \in SUBSET Review
<1> QED
  BY <1>4, <1>7, <1>8, <1>9, <1>10, <1>11

-----------------------------------------------------------------------------
\* A feedback is a fingerprint of a request and an entry of the thread.
LEMMA FeedbackType ==
  ASSUME NEW kind \in {"understood", "not-understood"}, NEW e \in Explanation, NEW n \in Nat
  PROVE  Feedback(kind, e, n) \in Fingerprint /\ Feedback(kind, e, n) \in Entry
BY DEF Feedback, Fingerprint, Entry

\* Recording a mutation keeps the types of mutation_requests.
LEMMA RecordType ==
  ASSUME TypeOK, NEW r \in Request, NEW f \in Fingerprint, Record(r, f)
  PROVE  /\ requests' \in [Request -> Fingerprint \cup {None}]
         /\ answered' \subseteq Request \X Fingerprint
BY DEF TypeOK, Record

\* The state of a topic row that an explanation leaves.
LEMMA ExplainedTopic ==
  ASSUME TypeOK, NEW e \in Explanation, NEW t \in Topic, NEW s \in Source,
         AutoExplained(e, t, s) \/ ManualExplained(e, t, s)
  PROVE  /\ Explain(e, t, s) /\ CancelReviews(t)
         /\ \E state \in {"learning", "mastered"} :
              /\ Revised(t, state)
              /\ state = "mastered" => topic[t].state = "mastered"
<1>1. topic[t].state \in {"absent", "learning", "mastered"}
  BY DEF TypeOK, TopicRow
<1> QED
  BY <1>1 DEF AutoExplained, ManualExplained, Explain

\* Every operation keeps the types.
LEMMA TypeStep == TypeOK /\ [Next]_vars => TypeOK'
<1> SUFFICES ASSUME TypeOK, [Next]_vars PROVE TypeOK'
  OBVIOUS
<1>1. ASSUME NEW e \in Explanation, NEW t \in Topic, NEW s \in Source,
             AutoExplained(e, t, s) \/ ManualExplained(e, t, s)
      PROVE  TypeOK'
  <2>1. /\ Explain(e, t, s) /\ CancelReviews(t)
        /\ topic' \in [Topic -> TopicRow]
    BY <1>1, ExplainedTopic, RevisedRow
  <2>2. [kind |-> "explanation", of |-> e, revision |-> 1] \in Entry
    BY DEF Entry
  <2>3. \A d \in Explanation :
          /\ explanation'[d].pending => explanation'[d].state = "active"
          /\ explanation'[d].state \in {"active", "closed"} =>
               explanation'[d].topic \in Topic /\ explanation'[d].source \in Source
    BY <2>1, ExplainedRow DEF TypeOK
  <2> QED
    BY <2>1, <2>2, <2>3, ExplainedRow, CancelRow DEF TypeOK, Explain
<1>2. ASSUME NEW e \in Explanation, NEW n \in 1..MaxRevision, Rephrased(e, n)
      PROVE  TypeOK'
  <2>1. n \in Nat /\ explanation[e].topic \in Topic
    BY <1>2, BoundAssumption DEF TypeOK, Rephrased
  <2>2. topic' \in [Topic -> TopicRow]
    <3>1. topic[explanation[e].topic].revision + 1 \in Nat
      BY <2>1 DEF TypeOK, TopicRow
    <3> QED
      BY <1>2, <2>1, <3>1 DEF TypeOK, TopicRow, Rephrased, Revised
  <2>3. [kind |-> "explanation", of |-> e, revision |-> n + 1] \in Entry
    BY <2>1 DEF Entry
  <2>4. \A d \in Explanation :
          /\ explanation'[d].pending => explanation'[d].state = "active"
          /\ explanation'[d].state \in {"active", "closed"} =>
               explanation'[d].topic \in Topic /\ explanation'[d].source \in Source
    BY <1>2, RephrasedRow DEF TypeOK, Rephrased
  <2> QED
    BY <1>2, <2>2, <2>3, <2>4, RephrasedRow DEF TypeOK, Rephrased
<1>3. ASSUME NEW e \in Explanation, NEW n \in 1..MaxRevision, NEW r \in Request,
             Understood(r, e, n)
      PROVE  TypeOK'
  <2>1. n \in Nat /\ explanation[e].topic \in Topic
    BY <1>3, BoundAssumption DEF TypeOK, Understood, Judged
  <2>2. topic' \in [Topic -> TopicRow]
    BY <1>3, <2>1, RevisedRow DEF Understood
  <2>3. Feedback("understood", e, n) \in Fingerprint /\ Feedback("understood", e, n) \in Entry
    BY <2>1, FeedbackType
  <2>4. \A d \in Explanation :
          /\ explanation'[d].pending => explanation'[d].state = "active"
          /\ explanation'[d].state \in {"active", "closed"} =>
               explanation'[d].topic \in Topic /\ explanation'[d].source \in Source
    BY <1>3, UnderstoodRow DEF TypeOK, Understood, Judged
  <2>5. schedule' \in [Topic -> {"none", "new", "mastered", "partial", "forgotten"}]
    BY <1>3 DEF TypeOK, Understood
  <2>6. Record(r, Feedback("understood", e, n))
    BY <1>3 DEF Understood
  <2>7. entries' \subseteq Entry /\ due' \subseteq Topic
    BY <1>3, <2>3 DEF TypeOK, Understood
  <2>8. explanation' \in [Explanation -> ExplanationRow]
    BY <1>3, UnderstoodRow
  <2>9. /\ requests' \in [Request -> Fingerprint \cup {None}]
        /\ answered' \subseteq Request \X Fingerprint
    BY <2>3, <2>6, RecordType
  <2> QED
    BY <1>3, <2>2, <2>4, <2>5, <2>7, <2>8, <2>9 DEF TypeOK, Understood
<1>4. ASSUME NEW e \in Explanation, NEW n \in 1..MaxRevision, NEW r \in Request,
             NotUnderstood(r, e, n)
      PROVE  TypeOK'
  <2>1. n \in Nat
    BY BoundAssumption
  <2>2. /\ Feedback("not-understood", e, n) \in Fingerprint
        /\ Feedback("not-understood", e, n) \in Entry
    BY <2>1, FeedbackType
  <2>3. \A d \in Explanation :
          /\ explanation'[d].pending => explanation'[d].state = "active"
          /\ explanation'[d].state \in {"active", "closed"} =>
               explanation'[d].topic \in Topic /\ explanation'[d].source \in Source
    BY <1>4, NotUnderstoodRow DEF TypeOK, NotUnderstood, Judged
  <2>4. Record(r, Feedback("not-understood", e, n))
    BY <1>4 DEF NotUnderstood
  <2> QED
    BY <1>4, <2>2, <2>3, <2>4, NotUnderstoodRow, RecordType DEF TypeOK, NotUnderstood
<1>5. ASSUME NEW e \in Explanation, NEW n \in 1..MaxRevision, NEW r \in Request,
             NotUnderstoodAgain(r, e, n)
      PROVE  TypeOK'
  <2>1. Feedback("not-understood", e, n) \in Fingerprint
    BY FeedbackType, BoundAssumption
  <2>2. Record(r, Feedback("not-understood", e, n))
    BY <1>5 DEF NotUnderstoodAgain
  <2> QED
    BY <1>5, <2>1, <2>2, RecordType DEF TypeOK, NotUnderstoodAgain, viewVars
<1>6. ASSUME NEW r \in Request, NEW t \in Topic, NEW n \in 1..topic[t].revision,
             NEW k \in 0..era, ReopenTopic(r, <<t, k>>, n)
      PROVE  TypeOK'
  <2>1. [kind |-> "reopen", of |-> <<t, k>>, revision |-> n] \in Fingerprint
    BY DEF Fingerprint, TypeOK
  <2>2. /\ Revised(t, "learning") /\ CancelReviews(t)
        /\ Record(r, [kind |-> "reopen", of |-> <<t, k>>, revision |-> n])
    BY <1>6 DEF ReopenTopic
  <2>3. topic' \in [Topic -> TopicRow]
    BY <2>2, RevisedRow
  <2> QED
    BY <1>6, <2>1, <2>2, <2>3, RecordType, CancelRow DEF TypeOK, ReopenTopic
<1>7. ASSUME NEW t \in Topic, BecomesDue(t)
      PROVE  TypeOK'
  BY <1>7 DEF TypeOK, BecomesDue, viewVars
<1>8. CASE StartReview
  <2>1. review' \in [Review -> ReviewRow]
    BY <1>8, RoundRow
  <2> QED
    BY <1>8, <2>1 DEF TypeOK, StartReview
<1>9. ASSUME NEW q \in Review, NEW result \in {"mastered", "partial", "forgotten"},
             ReviewAnswered(q, result)
      PROVE  TypeOK'
  <2>1. topic' \in [Topic -> TopicRow]
    <3>1. CASE review[q].topic \in Topic
      BY <1>9, <3>1, RevisedRow DEF ReviewAnswered
    <3>2. CASE review[q].topic \notin Topic
      BY <1>9, <3>2 DEF ReviewAnswered, Revised, TypeOK
    <3> QED
      BY <3>1, <3>2
  <2>2. schedule' \in [Topic -> {"none", "new", "mastered", "partial", "forgotten"}]
    BY <1>9 DEF TypeOK, ReviewAnswered
  <2> QED
    BY <1>9, <2>1, <2>2, AnsweredRow DEF TypeOK, ReviewAnswered
<1>10. CASE Clear
  <2>1. topic' \in [Topic -> TopicRow]
    BY <1>10 DEF Clear, TopicRow
  <2>2. \A e \in Explanation :
          /\ explanation'[e] \in ExplanationRow
          /\ explanation'[e].state \in {"unused", "deleted"} /\ ~explanation'[e].pending
    BY <1>10 DEF Clear, NoExplanation, ExplanationRow
  <2>3. explanation' \in [Explanation -> ExplanationRow]
    BY <1>10, <2>2 DEF Clear
  <2>4. \A q \in Review : review'[q] \in ReviewRow /\ review'[q].state \in {"unused", "deleted"}
    BY <1>10 DEF Clear, NoReview, ReviewRow
  <2>5. review' \in [Review -> ReviewRow]
    BY <1>10, <2>4 DEF Clear
  <2>6. requests' \in [Request -> Fingerprint \cup {None}]
    BY <1>10 DEF Clear
  <2>7. schedule' \in [Topic -> {"none", "new", "mastered", "partial", "forgotten"}]
    BY <1>10 DEF Clear
  <2>8. era' \in Nat /\ batch' \in Nat
    BY <1>10 DEF Clear, TypeOK
  <2>10. batchActive' \in BOOLEAN
    BY <1>10, Zenon DEF Clear
  <2>9. /\ due' \subseteq Topic /\ entries' \subseteq Entry
        /\ answered' \subseteq Request \X Fingerprint
    BY <1>10 DEF Clear, TypeOK
  <2> QED
    BY <2>1, <2>2, <2>3, <2>5, <2>6, <2>7, <2>8, <2>9, <2>10, Zenon DEF TypeOK
<1>11. CASE UNCHANGED vars
  BY <1>11 DEF TypeOK, vars, viewVars
<1> QED
  BY <1>1, <1>2, <1>3, <1>4, <1>5, <1>6, <1>7, <1>8, <1>9, <1>10, <1>11 DEF Next

-----------------------------------------------------------------------------
\* The inductive invariant, action by action.
IInvButType ==
  /\ OneConversation /\ ThreadComplete /\ MasteredIsReviewable
  /\ ReviewsAskMastered /\ RoundIsOpen

\* After a cancellation no question on the topic waits, and none at all if one did.
LEMMA CancelRound ==
  ASSUME IInv, NEW t \in Topic, CancelReviews(t)
  PROVE  \/ ~batchActive' /\ \A q \in Review : review'[q].state # "open"
         \/ /\ review' = review /\ batchActive' = batchActive
            /\ \A q \in Review : review[q].state = "open" => review[q].topic # t
<1>1. CASE \E q \in Review : review[q].state = "open" /\ review[q].topic = t
                             /\ review[q].batch = batch /\ batchActive
  <2>1. ~batchActive'
    BY <1>1, Zenon DEF CancelReviews
  <2>2. \A q \in Review : review[q].state = "open" => review[q].batch = batch
    BY DEF IInv, ReviewsAskMastered
  <2>3. NoReview("deleted").state = "deleted"
    BY DEF NoReview
  <2>4. \A q \in Review : review'[q].state # "open"
    BY <1>1, <2>2, <2>3 DEF CancelReviews
  <2> QED
    BY <2>1, <2>4
<1>2. CASE ~\E q \in Review : review[q].state = "open" /\ review[q].topic = t
                              /\ review[q].batch = batch /\ batchActive
  <2>1. review' = review /\ batchActive' = batchActive
    BY <1>2, Zenon DEF CancelReviews
  <2>2. \A q \in Review : review[q].state = "open" => review[q].topic # t
    BY <1>2, Zenon DEF IInv, ReviewsAskMastered
  <2> QED
    BY <2>1, <2>2
<1> QED
  BY <1>1, <1>2

\* An explanation keeps the invariant: no other of its Session or topic is active.
LEMMA ExplainStep ==
  ASSUME IInv, NEW e \in Explanation, NEW t \in Topic, NEW s \in Source,
         AutoExplained(e, t, s) \/ ManualExplained(e, t, s)
  PROVE  IInvButType'
<1> USE DEF IInv
<1>1. PICK state \in {"learning", "mastered"} :
        /\ Explain(e, t, s) /\ CancelReviews(t) /\ Revised(t, state)
        /\ state = "mastered" => topic[t].state = "mastered"
  BY ExplainedTopic
<1>2. /\ explanation'[e].state = "active" /\ ~explanation'[e].pending
      /\ explanation'[e].topic = t /\ explanation'[e].source = s
      /\ explanation'[e].revision = 1
      /\ \A d \in Explanation : d # e => explanation'[d] = explanation[d]
  BY <1>1, ExplainedRow
<1>3. /\ topic'[t].state = state
      /\ \A u \in Topic : u # t => topic'[u] = topic[u]
  BY <1>1, RevisedRow
<1>4. /\ explanation[e].state = "unused" /\ ~SourceActive(s) /\ ~TopicActive(t)
      /\ schedule' = schedule /\ batch' = batch
      /\ entries' = entries \cup {[kind |-> "explanation", of |-> e, revision |-> 1]}
  BY <1>1 DEF Explain
<1>5. OneConversation'
  BY <1>2, <1>4 DEF OneConversation, SourceActive, TopicActive
<1>6. ThreadComplete'
  BY <1>2, <1>4 DEF ThreadComplete
<1>7. MasteredIsReviewable'
  <2> SUFFICES ASSUME NEW u \in Topic, topic'[u].state = "mastered"
               PROVE  /\ schedule'[u] # "none"
                      /\ \E d \in Explanation :
                           explanation'[d].state = "closed" /\ explanation'[d].topic = u
    BY DEF MasteredIsReviewable
  <2>1. topic[u].state = "mastered"
    BY <1>1, <1>3
  <2>2. PICK d \in Explanation : explanation[d].state = "closed" /\ explanation[d].topic = u
    BY <2>1 DEF MasteredIsReviewable
  <2>3. explanation'[d] = explanation[d]
    BY <1>2, <1>4, <2>2
  <2> QED
    BY <1>4, <2>1, <2>2, <2>3 DEF MasteredIsReviewable
<1>8. \A u \in Topic : u # t => (TopicActive(u)' <=> TopicActive(u))
  BY <1>2, <1>4 DEF TopicActive
<1>9. CASE ~batchActive' /\ \A q \in Review : review'[q].state # "open"
  BY <1>5, <1>6, <1>7, <1>9 DEF IInvButType, ReviewsAskMastered, RoundIsOpen
<1>10. CASE /\ review' = review /\ batchActive' = batchActive
            /\ \A q \in Review : review[q].state = "open" => review[q].topic # t
  <2>1. ReviewsAskMastered'
    BY <1>3, <1>4, <1>8, <1>10 DEF ReviewsAskMastered
  <2>2. RoundIsOpen'
    BY <1>10 DEF RoundIsOpen
  <2> QED
    BY <1>5, <1>6, <1>7, <2>1, <2>2 DEF IInvButType
<1> QED
  BY <1>1, <1>9, <1>10, CancelRound

\* A rephrase keeps the invariant.
LEMMA RephraseStep ==
  ASSUME IInv, NEW e \in Explanation, NEW n \in 1..MaxRevision, Rephrased(e, n)
  PROVE  IInvButType'
<1> USE DEF IInv
<1> DEFINE t == explanation[e].topic
<1>1. /\ explanation'[e].state = "active" /\ ~explanation'[e].pending
      /\ explanation'[e].revision = n + 1
      /\ explanation'[e].topic = explanation[e].topic
      /\ explanation'[e].source = explanation[e].source
      /\ \A d \in Explanation : d # e => explanation'[d] = explanation[d]
  BY RephrasedRow
<1>2. /\ explanation[e].state = "active" /\ explanation[e].revision = n
      /\ entries' = entries \cup {[kind |-> "explanation", of |-> e, revision |-> n + 1]}
      /\ Revised(t, topic[t].state)
      /\ UNCHANGED <<schedule, review, batch, batchActive>>
  BY DEF Rephrased
<1>3. t \in Topic
  BY <1>2 DEF TypeOK
<1>4. \A u \in Topic : topic'[u].state = topic[u].state
  BY <1>2, <1>3 DEF Revised, TypeOK
<1>5. OneConversation'
  BY <1>1, <1>2 DEF OneConversation
<1>6. ThreadComplete'
  <2>1. n \in Nat
    BY BoundAssumption
  <2>2. \A k \in 1..(n + 1) : k \in 1..n \/ k = n + 1
    BY <2>1
  <2>3. \A k \in 1..n : [kind |-> "explanation", of |-> e, revision |-> k] \in entries
    BY <1>2 DEF ThreadComplete
  <2>4. \A k \in 1..(n + 1) : [kind |-> "explanation", of |-> e, revision |-> k] \in entries'
    BY <1>2, <2>2, <2>3
  <2> QED
    BY <1>1, <1>2, <2>1, <2>4 DEF ThreadComplete
<1>7. \A u \in Topic : TopicActive(u)' <=> TopicActive(u)
  BY <1>1, <1>2 DEF TopicActive
<1>8. MasteredIsReviewable'
  BY <1>1, <1>2, <1>4 DEF MasteredIsReviewable
<1>9. ReviewsAskMastered'
  BY <1>2, <1>4, <1>7 DEF ReviewsAskMastered
<1>10. RoundIsOpen'
  BY <1>2 DEF RoundIsOpen
<1> QED
  BY <1>5, <1>6, <1>8, <1>9, <1>10 DEF IInvButType

\* Understood keeps the invariant: the topic gets the schedule it needs.
LEMMA UnderstoodStep ==
  ASSUME IInv, NEW e \in Explanation, NEW n \in 1..MaxRevision, NEW r \in Request,
         Understood(r, e, n)
  PROVE  IInvButType'
<1> USE DEF IInv
<1> DEFINE t == explanation[e].topic
<1>1. /\ explanation'[e].state = "closed" /\ ~explanation'[e].pending
      /\ explanation'[e].revision = n
      /\ explanation'[e].topic = explanation[e].topic
      /\ \A d \in Explanation : d # e => explanation'[d] = explanation[d]
  BY UnderstoodRow
<1>2. /\ explanation[e].state = "active" /\ explanation[e].revision = n
      /\ entries' = entries \cup {Feedback("understood", e, n)}
      /\ schedule' = [schedule EXCEPT ![t] = "new"]
      /\ UNCHANGED <<review, batch, batchActive>>
      /\ Revised(t, "mastered")
  BY DEF Understood, Judged
<1>3. t \in Topic
  BY <1>2 DEF TypeOK
<1>4. /\ topic'[t].state = "mastered"
      /\ \A u \in Topic : u # t => topic'[u] = topic[u]
  BY <1>2, <1>3, RevisedRow
<1>5. /\ schedule'[t] = "new"
      /\ \A u \in Topic : u # t => schedule'[u] = schedule[u]
  BY <1>2, <1>3 DEF TypeOK
<1>6. OneConversation'
  BY <1>1, <1>2 DEF OneConversation
<1>7. ThreadComplete'
  BY <1>1, <1>2 DEF ThreadComplete
<1>8. MasteredIsReviewable'
  <2> SUFFICES ASSUME NEW u \in Topic, topic'[u].state = "mastered"
               PROVE  /\ schedule'[u] # "none"
                      /\ \E d \in Explanation :
                           explanation'[d].state = "closed" /\ explanation'[d].topic = u
    BY DEF MasteredIsReviewable
  <2>1. CASE u = t
    BY <1>1, <1>5, <2>1
  <2>2. CASE u # t
    BY <1>1, <1>2, <1>4, <1>5, <2>2 DEF MasteredIsReviewable
  <2> QED
    BY <2>1, <2>2
<1>9. TopicActive(t)
  BY <1>2 DEF TopicActive
<1>10. \A u \in Topic : u # t => (TopicActive(u)' <=> TopicActive(u))
  BY <1>1, <1>2 DEF TopicActive
<1>11. ReviewsAskMastered'
  BY <1>2, <1>4, <1>5, <1>9, <1>10 DEF ReviewsAskMastered
<1>12. RoundIsOpen'
  BY <1>2 DEF RoundIsOpen
<1> QED
  BY <1>6, <1>7, <1>8, <1>11, <1>12 DEF IInvButType

\* Not understood keeps the invariant.
LEMMA NotUnderstoodStep ==
  ASSUME IInv, NEW e \in Explanation, NEW n \in 1..MaxRevision, NEW r \in Request,
         NotUnderstood(r, e, n)
  PROVE  IInvButType'
<1> USE DEF IInv
<1>1. /\ explanation'[e].state = "active" /\ explanation'[e].revision = n
      /\ explanation'[e].topic = explanation[e].topic
      /\ explanation'[e].source = explanation[e].source
      /\ \A d \in Explanation : d # e => explanation'[d] = explanation[d]
  BY NotUnderstoodRow
<1>2. /\ explanation[e].state = "active" /\ explanation[e].revision = n
      /\ entries' = entries \cup {Feedback("not-understood", e, n)}
      /\ UNCHANGED <<topic, schedule, review, batch, batchActive>>
  BY DEF NotUnderstood, Judged
<1>3. OneConversation'
  BY <1>1, <1>2 DEF OneConversation
<1>4. ThreadComplete'
  BY <1>1, <1>2 DEF ThreadComplete
<1>5. \A u \in Topic : TopicActive(u)' <=> TopicActive(u)
  BY <1>1, <1>2 DEF TopicActive
<1>6. MasteredIsReviewable'
  BY <1>1, <1>2 DEF MasteredIsReviewable
<1>7. ReviewsAskMastered'
  BY <1>2, <1>5 DEF ReviewsAskMastered
<1>8. RoundIsOpen'
  BY <1>2 DEF RoundIsOpen
<1> QED
  BY <1>3, <1>4, <1>6, <1>7, <1>8 DEF IInvButType

\* Reopening a topic keeps the invariant: its questions are withdrawn with it.
LEMMA ReopenStep ==
  ASSUME IInv, NEW r \in Request, NEW t \in Topic, NEW k, NEW n, ReopenTopic(r, <<t, k>>, n)
  PROVE  IInvButType'
<1> USE DEF IInv
<1>1. /\ Revised(t, "learning") /\ CancelReviews(t)
      /\ UNCHANGED <<schedule, explanation, entries, batch>>
  BY DEF ReopenTopic
<1>2. /\ topic'[t].state = "learning"
      /\ \A u \in Topic : u # t => topic'[u] = topic[u]
  BY <1>1, RevisedRow
<1>3. OneConversation' /\ ThreadComplete'
  BY <1>1 DEF OneConversation, ThreadComplete
<1>4. MasteredIsReviewable'
  BY <1>1, <1>2 DEF MasteredIsReviewable
<1>5. \A u \in Topic : TopicActive(u)' <=> TopicActive(u)
  BY <1>1 DEF TopicActive
<1>6. CASE ~batchActive' /\ \A q \in Review : review'[q].state # "open"
  BY <1>3, <1>4, <1>6 DEF IInvButType, ReviewsAskMastered, RoundIsOpen
<1>7. CASE /\ review' = review /\ batchActive' = batchActive
           /\ \A q \in Review : review[q].state = "open" => review[q].topic # t
  <2>1. ReviewsAskMastered'
    BY <1>1, <1>2, <1>5, <1>7 DEF ReviewsAskMastered
  <2>2. RoundIsOpen'
    BY <1>7 DEF RoundIsOpen
  <2> QED
    BY <1>3, <1>4, <2>1, <2>2 DEF IInvButType
<1> QED
  BY <1>1, <1>6, <1>7, CancelRound

\* A new round keeps the invariant: it asks mastered topics only.
LEMMA StartStep ==
  ASSUME IInv, StartReview
  PROVE  IInvButType'
<1> USE DEF IInv
<1>1. PICK questions \in SUBSET Review :
        /\ questions # {}
        /\ \A q \in questions : /\ review'[q].state = "open"
                                /\ review'[q].topic \in Due
                                /\ review'[q].batch = batch + 1
        /\ \A q \in Review \ questions : review'[q] = review[q]
        /\ \A p, q \in questions : p # q =>
             review'[p].topic # review'[q].topic /\ review'[p].position # review'[q].position
  BY RoundRow
<1>2. /\ batch' = batch + 1 /\ batchActive'
      /\ UNCHANGED <<topic, schedule, explanation, entries>>
  BY Zenon DEF StartReview
<1>3. \A q \in Review : review[q].state # "open"
  BY DEF StartReview, Waiting, ReviewsAskMastered
<1>4. \A q \in Review : review'[q].state = "open" <=> q \in questions
  BY <1>1, <1>3
<1>5. \A t \in Due : t \in Topic /\ topic[t].state = "mastered" /\ ~TopicActive(t)
  BY DEF Due, TypeOK
<1>6. \A u \in Topic : TopicActive(u)' <=> TopicActive(u)
  BY <1>2 DEF TopicActive
<1>7. OneConversation' /\ ThreadComplete' /\ MasteredIsReviewable'
  BY <1>2 DEF OneConversation, ThreadComplete, MasteredIsReviewable
<1>8. ReviewsAskMastered'
  BY <1>1, <1>2, <1>4, <1>5, <1>6 DEF ReviewsAskMastered, MasteredIsReviewable
<1>9. RoundIsOpen'
  BY <1>1, <1>4 DEF RoundIsOpen
<1> QED
  BY <1>7, <1>8, <1>9 DEF IInvButType

\* An answer keeps the invariant: the last one ends the round.
LEMMA AnswerStep ==
  ASSUME IInv, NEW q \in Review, NEW result \in {"mastered", "partial", "forgotten"},
         ReviewAnswered(q, result)
  PROVE  IInvButType'
<1> USE DEF IInv
<1> DEFINE t == review[q].topic
<1>1. /\ review'[q].state = "answered"
      /\ \A p \in Review : p # q => review'[p] = review[p]
  BY AnsweredRow
<1>2. /\ q \in Waiting
      /\ schedule' = [schedule EXCEPT ![t] = result]
      /\ UNCHANGED <<explanation, entries, batch>>
      /\ Revised(t, topic[t].state)
  BY DEF ReviewAnswered
<1>3. batchActive' <=> Waiting # {q}
  BY Zenon DEF ReviewAnswered
<1>4. \A p \in Review : p \in Waiting <=> review[p].state = "open"
  BY DEF Waiting, ReviewsAskMastered
<1>5. t \in Topic
  BY <1>2, <1>4 DEF ReviewsAskMastered
<1>6. \A u \in Topic : topic'[u].state = topic[u].state
  BY <1>2, <1>5 DEF Revised, TypeOK
<1>7. \A u \in Topic : schedule[u] # "none" => schedule'[u] # "none"
  BY <1>2, <1>5 DEF TypeOK
<1>8. \A u \in Topic : TopicActive(u)' <=> TopicActive(u)
  BY <1>2 DEF TopicActive
<1>9. OneConversation' /\ ThreadComplete'
  BY <1>2 DEF OneConversation, ThreadComplete
<1>10. MasteredIsReviewable'
  BY <1>2, <1>6, <1>7 DEF MasteredIsReviewable
<1>11. \A p \in Review : review'[p].state = "open" =>
         p # q /\ review[p].state = "open" /\ review'[p] = review[p] /\ batchActive'
  <2> SUFFICES ASSUME NEW p \in Review, review'[p].state = "open"
               PROVE  p # q /\ review[p].state = "open" /\ review'[p] = review[p] /\ batchActive'
    OBVIOUS
  <2>1. p # q /\ review'[p] = review[p] /\ review[p].state = "open"
    BY <1>1
  <2>2. p \in Waiting
    BY <1>4, <2>1
  <2> QED
    BY <1>3, <2>1, <2>2
<1>12. ReviewsAskMastered'
  BY <1>2, <1>6, <1>7, <1>8, <1>11 DEF ReviewsAskMastered
<1>13. RoundIsOpen'
  <2>1. ASSUME batchActive' PROVE \E p \in Review : review'[p].state = "open"
    <3>1. PICK p \in Waiting : p # q
      BY <1>2, <1>3, <2>1
    <3>2. p \in Review /\ review[p].state = "open"
      BY DEF Waiting
    <3> QED
      BY <1>1, <3>1, <3>2
  <2>2. \A p, o \in Review :
          p # o /\ review'[p].state = "open" /\ review'[o].state = "open"
          => review'[p].topic # review'[o].topic /\ review'[p].position # review'[o].position
    BY <1>11 DEF RoundIsOpen
  <2> QED
    BY <2>1, <2>2 DEF RoundIsOpen
<1> QED
  BY <1>9, <1>10, <1>12, <1>13 DEF IInvButType

\* Clearing the store keeps the invariant: nothing is left.
LEMMA ClearStep ==
  ASSUME IInv, Clear
  PROVE  IInvButType'
<1>1. \A e \in Explanation : explanation'[e].state \in {"unused", "deleted"}
  BY DEF Clear, NoExplanation
<1>2. \A q \in Review : review'[q].state \in {"unused", "deleted"}
  BY DEF Clear, NoReview
<1>3. \A t \in Topic : topic'[t].state = "absent"
  BY DEF Clear
<1>4. ~batchActive'
  BY Zenon DEF Clear
<1>5. OneConversation' /\ ThreadComplete'
  BY <1>1 DEF OneConversation, ThreadComplete
<1>6. MasteredIsReviewable'
  BY <1>3 DEF MasteredIsReviewable
<1>7. ReviewsAskMastered' /\ RoundIsOpen'
  BY <1>2, <1>4 DEF ReviewsAskMastered, RoundIsOpen
<1> QED
  BY <1>5, <1>6, <1>7 DEF IInvButType

\* What leaves the tables alone keeps the invariant.
LEMMA FrameStep ==
  ASSUME IInv, UNCHANGED viewVars
  PROVE  IInvButType'
BY DEF IInv, IInvButType, viewVars, OneConversation, ThreadComplete,
       MasteredIsReviewable, ReviewsAskMastered, RoundIsOpen, TopicActive

\* Every step keeps the invariant.
LEMMA NextStep == IInv /\ [Next]_vars => IInv'
<1> SUFFICES ASSUME IInv, [Next]_vars PROVE IInv'
  OBVIOUS
<1>1. TypeOK'
  BY TypeStep DEF IInv
<1>2. IInvButType'
  <2>1. ASSUME NEW e \in Explanation, NEW t \in Topic, NEW s \in Source,
               AutoExplained(e, t, s) \/ ManualExplained(e, t, s)
        PROVE  IInvButType'
    BY <2>1, ExplainStep
  <2>2. ASSUME NEW e \in Explanation, NEW n \in 1..MaxRevision, Rephrased(e, n)
        PROVE  IInvButType'
    BY <2>2, RephraseStep
  <2>3. ASSUME NEW e \in Explanation, NEW n \in 1..MaxRevision, NEW r \in Request,
               Understood(r, e, n) \/ NotUnderstood(r, e, n)
        PROVE  IInvButType'
    BY <2>3, UnderstoodStep, NotUnderstoodStep
  <2>4. ASSUME NEW e \in Explanation, NEW n \in 1..MaxRevision, NEW r \in Request,
               NotUnderstoodAgain(r, e, n)
        PROVE  IInvButType'
    BY <2>4, FrameStep DEF NotUnderstoodAgain
  <2>5. ASSUME NEW r \in Request, NEW t \in Topic, NEW n \in 1..topic[t].revision,
               NEW k \in 0..era, ReopenTopic(r, <<t, k>>, n)
        PROVE  IInvButType'
    BY <2>5, ReopenStep
  <2>6. ASSUME NEW t \in Topic, BecomesDue(t) PROVE IInvButType'
    BY <2>6, FrameStep DEF BecomesDue
  <2>7. ASSUME NEW q \in Review, NEW result \in {"mastered", "partial", "forgotten"},
               ReviewAnswered(q, result)
        PROVE  IInvButType'
    BY <2>7, AnswerStep
  <2>8. CASE UNCHANGED vars
    BY <2>8, FrameStep DEF vars
  <2> QED
    BY <2>1, <2>2, <2>3, <2>4, <2>5, <2>6, <2>7, <2>8, StartStep, ClearStep DEF Next
<1> QED
  BY <1>1, <1>2 DEF IInv, IInvButType

\* The empty store satisfies the invariant.
LEMMA InitStep == Init => IInv
<1> SUFFICES ASSUME Init PROVE IInv
  OBVIOUS
<1>1. NoExplanation("unused") \in ExplanationRow /\ NoReview("unused") \in ReviewRow
  BY DEF NoExplanation, NoReview, ExplanationRow, ReviewRow
<1>2. \A e \in Explanation : explanation[e].state = "unused" /\ ~explanation[e].pending
  BY DEF Init, NoExplanation
<1>3. \A q \in Review : review[q].state = "unused"
  BY DEF Init, NoReview
<1>4. topic \in [Topic -> TopicRow] /\ \A t \in Topic : topic[t].state = "absent"
  BY DEF Init, TopicRow
<1>5. ~batchActive /\ batchActive \in BOOLEAN
  BY Zenon DEF Init
<1>6. TypeOK
  BY <1>1, <1>2, <1>4, <1>5 DEF Init, TypeOK
<1>7. OneConversation /\ ThreadComplete
  BY <1>2 DEF OneConversation, ThreadComplete
<1>8. MasteredIsReviewable
  BY <1>4 DEF MasteredIsReviewable
<1>9. ReviewsAskMastered /\ RoundIsOpen
  BY <1>3, <1>5 DEF ReviewsAskMastered, RoundIsOpen
<1> QED
  BY <1>6, <1>7, <1>8, <1>9 DEF IInv

-----------------------------------------------------------------------------
\* The inductive invariant holds: the parts below are the ones that matter.
THEOREM Invariant == Spec => []IInv
BY InitStep, NextStep, PTL DEF Spec

\* Every row keeps its type and the schema's CHECKs: a closed explanation has no
\* pending rephrase, a stored one a topic and a Session.
THEOREM TypeCorrect == Spec => []TypeOK
<1>1. IInv => TypeOK
  BY DEF IInv
<1> QED
  BY <1>1, Invariant, PTL

\* No Session and no topic ever has two active explanations.
THEOREM OneConversationCorrect == Spec => []OneConversation
<1>1. IInv => OneConversation
  BY DEF IInv
<1> QED
  BY <1>1, Invariant, PTL

\* A waiting review question is always one that can still be answered.
THEOREM ReviewsCorrect == Spec => []ReviewsAskMastered
<1>1. IInv => ReviewsAskMastered
  BY DEF IInv
<1> QED
  BY <1>1, Invariant, PTL

\* startReview never meets an orphaned round.
THEOREM RoundCorrect == Spec => []RoundIsOpen
<1>1. IInv => RoundIsOpen
  BY DEF IInv
<1> QED
  BY <1>1, Invariant, PTL

\* A mastered topic has what startReview needs.
THEOREM ReviewableCorrect == Spec => []MasteredIsReviewable
<1>1. IInv => MasteredIsReviewable
  BY DEF IInv
<1> QED
  BY <1>1, Invariant, PTL

\* The joins of the store find their entries.
THEOREM ThreadCorrect == Spec => []ThreadComplete
<1>1. IInv => ThreadComplete
  BY DEF IInv
<1> QED
  BY <1>1, Invariant, PTL

-----------------------------------------------------------------------------
\* The refinement: each operation is a step a learner was promised, or a stutter.
LEMMA LifeAt ==
  ASSUME NEW t \in Topic
  PROVE  Life[t] = IF TopicActive(t) THEN "explaining" ELSE topic[t].state
BY DEF Life

\* An explanation committed begins the topic's explaining.
LEMMA ExplainRefines ==
  ASSUME IInv, NEW e \in Explanation, NEW t \in Topic, NEW s \in Source,
         AutoExplained(e, t, s) \/ ManualExplained(e, t, s)
  PROVE  Lifecycle!Explain(t)
<1> USE DEF IInv
<1>1. PICK state \in {"learning", "mastered"} :
        Explain(e, t, s) /\ CancelReviews(t) /\ Revised(t, state)
  BY ExplainedTopic
<1>2. /\ explanation'[e].state = "active" /\ explanation'[e].topic = t
      /\ \A d \in Explanation : d # e => explanation'[d] = explanation[d]
      /\ explanation[e].state = "unused" /\ ~TopicActive(t)
  BY <1>1, ExplainedRow DEF Explain
<1>3. \A u \in Topic : u # t => topic'[u] = topic[u]
  BY <1>1, RevisedRow
<1>4. TopicActive(t)' /\ \A u \in Topic : u # t => (TopicActive(u)' <=> TopicActive(u))
  BY <1>2 DEF TopicActive
<1>5. Life[t] # "explaining"
  BY <1>2, LifeAt DEF TypeOK, TopicRow
<1>6. Life' = [Life EXCEPT ![t] = "explaining"]
  BY <1>3, <1>4 DEF Life
<1>7. Asked' = IF t \in Asked THEN {} ELSE Asked
  <2>1. CASE ~batchActive' /\ \A q \in Review : review'[q].state # "open"
    <3>1. Asked' = {}
      BY <2>1 DEF Asked
    <3>2. t \notin Asked => Asked = {}
      <4> SUFFICES ASSUME t \notin Asked PROVE review' = review
        BY <3>1 DEF Asked
      <4>1. ~\E q \in Review : review[q].state = "open" /\ review[q].topic = t
                               /\ review[q].batch = batch /\ batchActive
        BY Zenon DEF Asked
      <4> QED
        BY <1>1, <4>1, Zenon DEF CancelReviews
    <3> QED
      BY <3>1, <3>2
  <2>2. CASE /\ review' = review
             /\ \A q \in Review : review[q].state = "open" => review[q].topic # t
    BY <2>2 DEF Asked
  <2> QED
    BY <1>1, <2>1, <2>2, CancelRound
<1> QED
  BY <1>5, <1>6, <1>7 DEF Lifecycle!Explain, Lifecycle!Withdraw

\* Understood masters the topic.
LEMMA UnderstoodRefines ==
  ASSUME IInv, NEW e \in Explanation, NEW n \in 1..MaxRevision, NEW r \in Request,
         Understood(r, e, n)
  PROVE  Lifecycle!Master(explanation[e].topic)
<1> USE DEF IInv
<1>0. PICK t \in Topic : t = explanation[e].topic
  BY DEF Understood, Judged, TypeOK
<1>1. /\ explanation'[e].state = "closed"
      /\ \A d \in Explanation : d # e => explanation'[d] = explanation[d]
  BY UnderstoodRow
<1>2. /\ explanation[e].state = "active" /\ Revised(t, "mastered")
      /\ review' = review
  BY <1>0 DEF Understood, Judged
<1>3. TopicActive(t)
  BY <1>0, <1>2 DEF TopicActive
<1>4. /\ topic'[t].state = "mastered"
      /\ \A u \in Topic : u # t => topic'[u] = topic[u]
  BY <1>2, RevisedRow
<1>5. ~TopicActive(t)'
  BY <1>0, <1>1, <1>2 DEF TopicActive, OneConversation
<1>6. \A u \in Topic : u # t => (TopicActive(u)' <=> TopicActive(u))
  BY <1>0, <1>1, <1>2 DEF TopicActive
<1>7. Life[t] = "explaining"
  BY <1>3, LifeAt
<1>8. Life' = [Life EXCEPT ![t] = "mastered"]
  BY <1>3, <1>4, <1>5, <1>6 DEF Life
<1>9. Asked' = Asked
  BY <1>2 DEF Asked
<1> QED
  BY <1>0, <1>7, <1>8, <1>9 DEF Lifecycle!Master

\* Reopening sends a mastered topic back to learning, and no other.
LEMMA ReopenRefines ==
  ASSUME IInv, NEW r \in Request, NEW t \in Topic, NEW k, NEW n, ReopenTopic(r, <<t, k>>, n)
  PROVE  Lifecycle!Reopen(t) \/ UNCHANGED <<Life, Asked>>
<1> USE DEF IInv
<1>1. /\ Revised(t, "learning") /\ CancelReviews(t)
      /\ topic[t].state = "mastered" /\ explanation' = explanation
  BY DEF ReopenTopic
<1>2. /\ topic'[t].state = "learning"
      /\ \A u \in Topic : u # t => topic'[u] = topic[u]
  BY <1>1, RevisedRow
<1>3. \A u \in Topic : TopicActive(u)' <=> TopicActive(u)
  BY <1>1 DEF TopicActive
<1>4. ASSUME t \notin Asked PROVE Asked' = Asked
  <2>1. ~\E q \in Review : review[q].state = "open" /\ review[q].topic = t
                           /\ review[q].batch = batch /\ batchActive
    BY <1>4, Zenon DEF Asked
  <2>2. review' = review
    BY <1>1, <2>1, Zenon DEF CancelReviews
  <2> QED
    BY <2>2 DEF Asked
<1>5. CASE TopicActive(t)
  <2>1. t \notin Asked
    BY <1>5 DEF Asked, ReviewsAskMastered
  <2>2. Life' = Life
    BY <1>2, <1>3, <1>5 DEF Life
  <2> QED
    BY <1>4, <2>1, <2>2
<1>6. CASE ~TopicActive(t)
  <2>1. Life[t] = "mastered" /\ Life' = [Life EXCEPT ![t] = "learning"]
    BY <1>1, <1>2, <1>3, <1>6 DEF Life
  <2>2. t \in Asked => Asked' = {}
    <3> SUFFICES ASSUME t \in Asked PROVE Asked' = {}
      OBVIOUS
    <3>1. PICK q \in Review : review[q].state = "open" /\ review[q].topic = t
      BY DEF Asked
    <3>2. \A p \in Review : review'[p].state # "open"
      BY <1>1, <3>1, CancelRound
    <3> QED
      BY <3>2 DEF Asked
  <2> QED
    BY <1>4, <2>1, <2>2 DEF Lifecycle!Reopen, Lifecycle!Withdraw
<1> QED
  BY <1>5, <1>6

\* A started round asks its topics.
LEMMA StartRefines ==
  ASSUME IInv, StartReview
  PROVE  \E round \in SUBSET Topic : Lifecycle!Ask(round)
<1> USE DEF IInv
<1>1. PICK questions \in SUBSET Review :
        /\ questions # {}
        /\ \A q \in questions : review'[q].state = "open" /\ review'[q].topic \in Due
        /\ \A q \in Review \ questions : review'[q] = review[q]
  BY RoundRow
<1>2. \A q \in Review : review[q].state # "open"
  BY DEF StartReview, Waiting, ReviewsAskMastered
<1>3. \A t \in Due : t \in Topic /\ topic[t].state = "mastered" /\ ~TopicActive(t)
  BY DEF Due, TypeOK
<1>4. Asked = {}
  BY <1>2 DEF Asked
<1>5. Asked' # {}
  BY <1>1, <1>3 DEF Asked
<1>6. \A t \in Asked' : t \in Topic /\ Life[t] = "mastered"
  BY <1>1, <1>2, <1>3 DEF Asked, Life
<1>7. Life' = Life
  BY DEF StartReview, Life, TopicActive
<1>8. Asked' \in SUBSET Topic
  BY <1>6
<1> QED
  BY <1>4, <1>5, <1>6, <1>7, <1>8 DEF Lifecycle!Ask

\* An answer settles what the topic was asked.
LEMMA AnswerRefines ==
  ASSUME IInv, NEW q \in Review, NEW result \in {"mastered", "partial", "forgotten"},
         ReviewAnswered(q, result)
  PROVE  Lifecycle!Answer(review[q].topic)
<1> USE DEF IInv
<1> DEFINE t == review[q].topic
<1>1. /\ review'[q].state = "answered"
      /\ \A p \in Review : p # q => review'[p] = review[p]
  BY AnsweredRow
<1>2. /\ review[q].state = "open" /\ Revised(t, topic[t].state)
      /\ explanation' = explanation
  BY DEF ReviewAnswered, Waiting
<1>3. t \in Topic
  BY <1>2 DEF ReviewsAskMastered
<1>4. \A u \in Topic : topic'[u].state = topic[u].state
  BY <1>2, <1>3 DEF Revised, TypeOK
<1>5. Life' = Life
  BY <1>2, <1>4 DEF Life, TopicActive
<1>6. t \in Asked
  BY <1>2, <1>3 DEF Asked
<1>7. \A p \in Review : p # q /\ review[p].state = "open" => review[p].topic # t
  BY <1>2 DEF RoundIsOpen
<1>8. Asked' = Asked \ {t}
  BY <1>1, <1>2, <1>7 DEF Asked
<1> QED
  BY <1>5, <1>6, <1>8 DEF Lifecycle!Answer

\* Every step is a step of the life cycle or leaves it alone.
LEMMA NextRefines == IInv /\ [Next]_vars => [Lifecycle!Next]_(Lifecycle!vars)
<1> SUFFICES ASSUME IInv, [Next]_vars
             PROVE  Lifecycle!Next \/ UNCHANGED <<Life, Asked>>
  BY DEF Lifecycle!vars
<1> USE DEF IInv
<1>1. ASSUME NEW e \in Explanation, NEW t \in Topic, NEW s \in Source,
             AutoExplained(e, t, s) \/ ManualExplained(e, t, s)
      PROVE  Lifecycle!Next
  BY <1>1, ExplainRefines DEF Lifecycle!Next
<1>2. ASSUME NEW e \in Explanation, NEW n \in 1..MaxRevision, Rephrased(e, n)
      PROVE  UNCHANGED <<Life, Asked>>
  <2> DEFINE t == explanation[e].topic
  <2>1. /\ explanation'[e].state = "active"
        /\ explanation'[e].topic = explanation[e].topic
        /\ \A d \in Explanation : d # e => explanation'[d] = explanation[d]
    BY <1>2, RephrasedRow
  <2>2. explanation[e].state = "active" /\ Revised(t, topic[t].state) /\ review' = review
    BY <1>2 DEF Rephrased
  <2>3. \A u \in Topic : topic'[u].state = topic[u].state
    BY <2>2 DEF Revised, TypeOK
  <2>4. \A u \in Topic : TopicActive(u)' <=> TopicActive(u)
    BY <2>1, <2>2 DEF TopicActive
  <2> QED
    BY <2>2, <2>3, <2>4 DEF Life, Asked
<1>3. ASSUME NEW e \in Explanation, NEW n \in 1..MaxRevision, NEW r \in Request,
             Understood(r, e, n)
      PROVE  Lifecycle!Next
  <2>1. explanation[e].topic \in Topic
    BY <1>3 DEF Understood, Judged, TypeOK
  <2> QED
    BY <1>3, <2>1, UnderstoodRefines DEF Lifecycle!Next
<1>4. ASSUME NEW e \in Explanation, NEW n \in 1..MaxRevision, NEW r \in Request,
             NotUnderstood(r, e, n)
      PROVE  UNCHANGED <<Life, Asked>>
  <2>1. /\ explanation'[e].state = "active"
        /\ explanation'[e].topic = explanation[e].topic
        /\ \A d \in Explanation : d # e => explanation'[d] = explanation[d]
    BY <1>4, NotUnderstoodRow
  <2>2. explanation[e].state = "active" /\ UNCHANGED <<topic, review>>
    BY <1>4 DEF NotUnderstood, Judged
  <2>3. \A u \in Topic : TopicActive(u)' <=> TopicActive(u)
    BY <2>1, <2>2 DEF TopicActive
  <2> QED
    BY <2>2, <2>3 DEF Life, Asked
<1>5. ASSUME UNCHANGED viewVars PROVE UNCHANGED <<Life, Asked>>
  BY <1>5 DEF viewVars, Life, Asked, TopicActive
<1>6. ASSUME NEW r \in Request, NEW t \in Topic, NEW n \in 1..topic[t].revision,
             NEW k \in 0..era, ReopenTopic(r, <<t, k>>, n)
      PROVE  Lifecycle!Next \/ UNCHANGED <<Life, Asked>>
  BY <1>6, ReopenRefines DEF Lifecycle!Next
<1>7. CASE StartReview
  BY <1>7, StartRefines DEF Lifecycle!Next
<1>8. ASSUME NEW q \in Review, NEW result \in {"mastered", "partial", "forgotten"},
             ReviewAnswered(q, result)
      PROVE  Lifecycle!Next
  <2>1. review[q].topic \in Topic
    BY <1>8 DEF ReviewAnswered, Waiting, ReviewsAskMastered
  <2> QED
    BY <1>8, <2>1, AnswerRefines DEF Lifecycle!Next
<1>9. CASE Clear
  <2>1. \A e \in Explanation : explanation'[e].state \in {"unused", "deleted"}
    BY <1>9 DEF Clear, NoExplanation
  <2>2. \A q \in Review : review'[q].state \in {"unused", "deleted"}
    BY <1>9 DEF Clear, NoReview
  <2>3. \A t \in Topic : topic'[t].state = "absent" /\ ~TopicActive(t)'
    BY <1>9, <2>1 DEF Clear, TopicActive
  <2>4. Life' = [t \in Topic |-> "absent"]
    BY <2>3 DEF Life
  <2>5. Asked' = {}
    BY <2>2 DEF Asked
  <2> QED
    BY <2>4, <2>5 DEF Lifecycle!Next, Lifecycle!Forget
<1> QED
  BY <1>1, <1>2, <1>3, <1>4, <1>5, <1>6, <1>7, <1>8, <1>9
     DEF Next, vars, NotUnderstoodAgain, BecomesDue

\* Every history of the store is one the learner was promised.
THEOREM PromiseKept == Spec => KeepsPromise
<1>1. Init => Lifecycle!Init
  <2> SUFFICES ASSUME Init PROVE Lifecycle!Init
    OBVIOUS
  <2>1. \A e \in Explanation : explanation[e].state = "unused"
    BY DEF Init, NoExplanation
  <2>2. \A q \in Review : review[q].state = "unused"
    BY DEF Init, NoReview
  <2>3. Life = [t \in Topic |-> "absent"]
    BY <2>1 DEF Init, Life, TopicActive
  <2>4. Asked = {}
    BY <2>2 DEF Asked
  <2> QED
    BY <2>3, <2>4 DEF Lifecycle!Init
<1> QED
  BY <1>1, Invariant, NextRefines, PTL DEF Spec, KeepsPromise, Lifecycle!Spec

-----------------------------------------------------------------------------
(* Mutations that are sent again. While the record of a request is there it  *)
(* is refused; a clear deletes the record and, with it, what it was about.   *)

\* What an accepted mutation was about is still there with its record, or gone.
Spent ==
  \A m \in answered :
    IF m[2].kind = "reopen"
    THEN m[2].of[2] <= era /\ (requests[m[1]] = None => m[2].of[2] < era)
    ELSE /\ explanation[m[2].of].state # "unused"
         /\ requests[m[1]] = None => explanation[m[2].of].state = "deleted"

\* No explanation id is given out twice.
Aged ==
  \A e \in Explanation :
    /\ explanation[e].state # "unused" => explanation'[e].state # "unused"
    /\ explanation[e].state = "deleted" => explanation'[e].state = "deleted"

\* What a fingerprint is about.
LEMMA AboutIt ==
  ASSUME NEW f \in Fingerprint
  PROVE  /\ f.kind = "reopen" => f.of \in Topic \X Nat
         /\ f.kind # "reopen" => f.of \in Explanation
         /\ f.kind \in {"understood", "not-understood", "reopen"}
         /\ f # None
BY FingerprintAssumption DEF Fingerprint

\* An operation that is no mutation and no clear ...
LEMMA SpentStays ==
  ASSUME TypeOK, Spent, Aged, UNCHANGED <<requests, era, answered>>
  PROVE  Spent'
<1>1. ASSUME NEW m \in answered, m[2].kind # "reopen"
      PROVE  m[2].of \in Explanation
  BY <1>1, AboutIt DEF TypeOK
<1> QED
  BY <1>1 DEF Spent, Aged

\* ... leaves them spent, and so does a mutation of what there is.
LEMMA SpentMore ==
  ASSUME TypeOK, Spent, Aged, UNCHANGED era, NEW r \in Request, NEW f \in Fingerprint,
         Record(r, f),
         IF f.kind = "reopen" THEN f.of[2] = era ELSE explanation'[f.of].state # "unused"
  PROVE  Spent'
<1>1. /\ answered' = answered \cup {<<r, f>>}
      /\ requests' = [requests EXCEPT ![r] = f]
      /\ requests \in [Request -> Fingerprint \cup {None}]
      /\ answered \subseteq Request \X Fingerprint /\ era \in Nat
  BY DEF Record, TypeOK
<1>2. requests'[r] = f /\ f # None
  BY <1>1, AboutIt
<1>3. \A q \in Request : requests'[q] = None => requests[q] = None /\ q # r
  BY <1>1, <1>2
<1>4. ASSUME NEW m \in answered'
      PROVE  IF m[2].kind = "reopen"
             THEN m[2].of[2] <= era /\ (requests'[m[1]] = None => m[2].of[2] < era)
             ELSE /\ explanation'[m[2].of].state # "unused"
                  /\ requests'[m[1]] = None => explanation'[m[2].of].state = "deleted"
  <2>1. CASE m \in answered
    <3>1. m[1] \in Request /\ m[2] \in Fingerprint
      BY <1>1, <2>1
    <3>2. m[2].kind # "reopen" => m[2].of \in Explanation
      BY <3>1, AboutIt
    <3> QED
      BY <1>3, <2>1, <3>1, <3>2 DEF Spent, Aged
  <2>2. CASE m = <<r, f>>
    <3>1. m[1] = r /\ m[2] = f
      BY <2>2
    <3>2. requests'[m[1]] # None
      BY <1>2, <3>1
    <3>3. f.kind = "reopen" => f.of[2] <= era
      BY <1>1
    <3> QED
      BY <3>1, <3>2, <3>3
  <2> QED
    BY <1>1, <1>4, <2>1, <2>2
<1> QED
  BY <1>4 DEF Spent

\* A clear deletes the records, and what they were about.
LEMMA SpentByClear ==
  ASSUME TypeOK, Spent, Clear
  PROVE  Spent'
<1>1. /\ answered' = answered /\ era' = era + 1 /\ era \in Nat
      /\ answered \subseteq Request \X Fingerprint
  BY DEF Clear, TypeOK
<1>2. \A e \in Explanation :
        explanation[e].state # "unused" => explanation'[e].state = "deleted"
  BY DEF Clear, NoExplanation
<1>3. ASSUME NEW m \in answered
      PROVE  IF m[2].kind = "reopen" THEN m[2].of[2] < era'
                                     ELSE explanation'[m[2].of].state = "deleted"
  <2>1. m[2] \in Fingerprint
    BY <1>1
  <2>2. CASE m[2].kind = "reopen"
    <3>1. m[2].of[2] \in Nat /\ m[2].of[2] <= era
      BY <2>1, <2>2, AboutIt DEF Spent
    <3> QED
      BY <1>1, <2>2, <3>1
  <2>3. CASE m[2].kind # "reopen"
    BY <1>2, <2>1, <2>3, AboutIt DEF Spent
  <2> QED
    BY <2>2, <2>3
<1>4. ASSUME NEW m \in answered, m[2].kind = "reopen"
      PROVE  m[2].of[2] <= era'
  <2>1. m[2].of[2] \in Nat
    BY <1>1, <1>4, AboutIt
  <2> QED
    BY <1>1, <1>3, <1>4, <2>1
<1> QED
  BY <1>1, <1>3, <1>4 DEF Spent

\* Every step keeps them spent.
LEMMA SpentStep == TypeOK /\ Spent /\ [Next]_vars => Spent'
<1> SUFFICES ASSUME TypeOK, Spent, [Next]_vars PROVE Spent'
  OBVIOUS
<1>1. ASSUME NEW e \in Explanation, NEW t \in Topic, NEW s \in Source,
             AutoExplained(e, t, s) \/ ManualExplained(e, t, s)
      PROVE  Spent'
  <2>1. Explain(e, t, s)
    BY <1>1, ExplainedTopic
  <2>2. /\ explanation[e].state = "unused" /\ explanation'[e].state = "active"
        /\ \A d \in Explanation : d # e => explanation'[d] = explanation[d]
    BY <2>1, ExplainedRow DEF Explain
  <2>3. UNCHANGED <<requests, era, answered>>
    BY <2>1 DEF Explain
  <2>4. Aged
    BY <2>2 DEF Aged
  <2> QED
    BY <2>3, <2>4, SpentStays
<1>2. ASSUME NEW e \in Explanation, NEW n \in 1..MaxRevision, Rephrased(e, n)
      PROVE  Spent'
  <2>1. /\ explanation[e].state = "active" /\ explanation'[e].state = "active"
        /\ \A d \in Explanation : d # e => explanation'[d] = explanation[d]
    BY <1>2, RephrasedRow DEF Rephrased
  <2>2. UNCHANGED <<requests, era, answered>>
    BY <1>2 DEF Rephrased
  <2>3. Aged
    BY <2>1 DEF Aged
  <2> QED
    BY <2>2, <2>3, SpentStays
<1>3. ASSUME NEW e \in Explanation, NEW n \in 1..MaxRevision, NEW r \in Request,
             Understood(r, e, n)
      PROVE  Spent'
  <2>1. /\ explanation[e].state = "active" /\ explanation'[e].state = "closed"
        /\ \A d \in Explanation : d # e => explanation'[d] = explanation[d]
    BY <1>3, UnderstoodRow DEF Understood, Judged
  <2>2. UNCHANGED era /\ Record(r, Feedback("understood", e, n))
    BY <1>3 DEF Understood
  <2>3. Aged
    BY <2>1 DEF Aged
  <2>4. Feedback("understood", e, n) \in Fingerprint
    BY FeedbackType
  <2>5. /\ Feedback("understood", e, n).kind # "reopen"
        /\ Feedback("understood", e, n).of = e
    BY DEF Feedback
  <2> QED
    BY <2>1, <2>2, <2>3, <2>4, <2>5, SpentMore
<1>4. ASSUME NEW e \in Explanation, NEW n \in 1..MaxRevision, NEW r \in Request,
             NotUnderstood(r, e, n) \/ NotUnderstoodAgain(r, e, n)
      PROVE  Spent'
  <2>1. /\ explanation[e].state = "active" /\ explanation'[e].state = "active"
        /\ \A d \in Explanation : d # e => explanation'[d] = explanation[d]
    <3>1. CASE NotUnderstood(r, e, n)
      BY <3>1, NotUnderstoodRow DEF NotUnderstood, Judged
    <3>2. CASE NotUnderstoodAgain(r, e, n)
      BY <3>2 DEF NotUnderstoodAgain, Judged, viewVars
    <3> QED
      BY <1>4, <3>1, <3>2
  <2>2. UNCHANGED era /\ Record(r, Feedback("not-understood", e, n))
    BY <1>4 DEF NotUnderstood, NotUnderstoodAgain
  <2>3. Aged
    BY <2>1 DEF Aged
  <2>4. Feedback("not-understood", e, n) \in Fingerprint
    BY FeedbackType
  <2>5. /\ Feedback("not-understood", e, n).kind # "reopen"
        /\ Feedback("not-understood", e, n).of = e
    BY DEF Feedback
  <2> QED
    BY <2>1, <2>2, <2>3, <2>4, <2>5, SpentMore
<1>5. ASSUME NEW r \in Request, NEW t \in Topic, NEW n \in 1..topic[t].revision,
             NEW k \in 0..era, ReopenTopic(r, <<t, k>>, n)
      PROVE  Spent'
  <2> DEFINE f == [kind |-> "reopen", of |-> <<t, k>>, revision |-> n]
  <2>1. f \in Fingerprint
    BY DEF TypeOK, TopicRow, Fingerprint
  <2>2. f.kind = "reopen" /\ f.of[2] = k
    OBVIOUS
  <2>3. k = era /\ Record(r, f) /\ UNCHANGED <<era, explanation>>
    BY <1>5 DEF ReopenTopic, TopicId
  <2>4. Aged
    BY <2>3 DEF Aged
  <2> HIDE DEF f
  <2> QED
    BY <2>1, <2>2, <2>3, <2>4, SpentMore
<1>6. ASSUME UNCHANGED <<explanation, requests, era, answered>>
      PROVE  Spent'
  BY <1>6 DEF Spent
<1>7. ASSUME NEW t \in Topic, BecomesDue(t) PROVE Spent'
  BY <1>6, <1>7 DEF BecomesDue, viewVars
<1>8. CASE StartReview
  BY <1>6, <1>8 DEF StartReview
<1>9. ASSUME NEW q \in Review, NEW result \in {"mastered", "partial", "forgotten"},
             ReviewAnswered(q, result)
      PROVE  Spent'
  BY <1>6, <1>9 DEF ReviewAnswered
<1>10. CASE UNCHANGED vars
  BY <1>6, <1>10 DEF vars, viewVars
<1> QED
  BY <1>1, <1>2, <1>3, <1>4, <1>5, <1>7, <1>8, <1>9, <1>10, SpentByClear DEF Next

\* A mutation that was accepted once changes nothing when it is sent again, also
\* after a clear has deleted the record of it (feedback and reopenTopic,
\* store.ts:1388-1559).
THEOREM RepeatsAreHarmless == Spec => RetryChangesNothing
<1>1. Init => Spent
  BY DEF Init, Spent
<1>2. Spec => []Spent
  BY <1>1, SpentStep, TypeCorrect, PTL DEF Spec
<1>3. ASSUME TypeOK, Spent
      PROVE  \A m \in answered : Mutation(m[1], m[2]) => UNCHANGED viewVars
  <2> SUFFICES ASSUME NEW m \in answered, Mutation(m[1], m[2]) PROVE FALSE
    OBVIOUS
  <2>1. m[1] \in Request /\ m[2] \in Fingerprint
    BY <1>3 DEF TypeOK
  <2>2. CASE m[2].kind = "reopen"
    <3>1. ReopenTopic(m[1], m[2].of, m[2].revision)
      BY <2>2 DEF Mutation
    <3>2. requests[m[1]] = None /\ m[2].of = <<m[2].of[1], era>>
      BY <3>1 DEF ReopenTopic, Record, TopicId
    <3>3. m[2].of[2] < era /\ m[2].of[2] = era
      BY <1>3, <2>2, <3>2 DEF Spent
    <3> QED
      BY <1>3, <3>3 DEF TypeOK
  <2>3. CASE m[2].kind # "reopen"
    <3>1. \/ Understood(m[1], m[2].of, m[2].revision)
          \/ NotUnderstood(m[1], m[2].of, m[2].revision)
          \/ NotUnderstoodAgain(m[1], m[2].of, m[2].revision)
      BY <2>1, <2>3, AboutIt DEF Mutation
    <3>2. requests[m[1]] = None /\ explanation[m[2].of].state = "active"
      BY <3>1 DEF Understood, NotUnderstood, NotUnderstoodAgain, Record, Judged
    <3> QED
      BY <1>3, <2>3, <3>2 DEF Spent
  <2> QED
    BY <2>2, <2>3
<1> QED
  BY <1>2, <1>3, TypeCorrect, PTL DEF Spec, RetryChangesNothing
=============================================================================
