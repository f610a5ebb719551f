--------------------------- MODULE LearningThread ---------------------------
(***************************************************************************)
(* The learning state of src/src/store.ts: topics, their explanations and   *)
(* revisions, the learner's feedback, and the rounds of review questions.   *)
(* Every operation is one transaction. The results of the model come late:  *)
(* a commit may name any source, explanation revision or question there has *)
(* been. A refused operation leaves the store as it is, which is a stutter. *)
(* Left out: wording, ordinals, review stages and streaks, observations.    *)
(***************************************************************************)
EXTENDS Naturals, FiniteSets

CONSTANTS Topic,        \* topic keys
          Source,       \* Sessions
          Explanation,  \* explanation ids, each given out once
          Review,       \* review ids, each given out once
          Request,      \* ids the clients give their mutations
          BatchSize,    \* questions in a round, 3 in the code
          MaxRevision,  \* bound on the revisions of an explanation
          MaxEra,       \* bound on the number of clears
          None

ASSUME TopicAssumption == IsFiniteSet(Topic)
ASSUME BatchAssumption == BatchSize \in Nat \ {0}
ASSUME BoundAssumption == MaxRevision \in Nat /\ MaxEra \in Nat
ASSUME NoneAssumption == None \notin Topic \cup Source

VARIABLES topic,        \* topics: state and topic_revision
          schedule,     \* review_state: the last result of a topic, if any
          due,          \* topics whose next_review_at has passed
          explanation,  \* explanations
          entries,      \* the explanation and feedback entries of the thread
          review,       \* review_attempts
          batch,        \* number of the latest review_batches row
          batchActive,  \* whether it still is active
          requests,     \* mutation_requests: the fingerprint of an id
          era,          \* number of clears: topics get new ids after each
          answered      \* history: mutations that were accepted

viewVars == <<topic, schedule, explanation, entries, review, batch, batchActive>>
vars == <<viewVars, due, requests, era, answered>>

Fingerprint ==
  [kind : {"understood", "not-understood"}, of : Explanation, revision : Nat]
    \cup [kind : {"reopen"}, of : Topic \X Nat, revision : Nat]
ASSUME FingerprintAssumption == None \notin Fingerprint

TopicRow == [state : {"absent", "learning", "mastered"}, revision : Nat]
ExplanationRow ==
  [state : {"unused", "active", "closed", "deleted"}, topic : Topic \cup {None},
   source : Source \cup {None}, revision : Nat, pending : BOOLEAN]
ReviewRow ==
  [state : {"unused", "open", "answered", "deleted"}, topic : Topic \cup {None},
   batch : Nat, position : Nat]
Entry ==
  [kind : {"explanation", "understood", "not-understood"}, of : Explanation,
   revision : Nat]

TypeOK ==
  /\ topic \in [Topic -> TopicRow]
  /\ schedule \in [Topic -> {"none", "new", "mastered", "partial", "forgotten"}]
  /\ due \subseteq Topic
  /\ explanation \in [Explanation -> ExplanationRow]
  /\ \A e \in Explanation :
       /\ explanation[e].pending => explanation[e].state = "active"
       /\ explanation[e].state \in {"active", "closed"} =>
            explanation[e].topic \in Topic /\ explanation[e].source \in Source
  /\ entries \subseteq Entry
  /\ review \in [Review -> ReviewRow]
  /\ batch \in Nat /\ batchActive \in BOOLEAN
  /\ requests \in [Request -> Fingerprint \cup {None}]
  /\ era \in Nat
  /\ answered \subseteq Request \X Fingerprint

NoExplanation(state) ==
  [state |-> state, topic |-> None, source |-> None, revision |-> 0, pending |-> FALSE]
NoReview(state) == [state |-> state, topic |-> None, batch |-> 0, position |-> 0]

Init ==
  /\ topic = [t \in Topic |-> [state |-> "absent", revision |-> 0]]
  /\ schedule = [t \in Topic |-> "none"] /\ due = {}
  /\ explanation = [e \in Explanation |-> NoExplanation("unused")]
  /\ entries = {}
  /\ review = [q \in Review |-> NoReview("unused")]
  /\ batch = 0 /\ batchActive = FALSE
  /\ requests = [r \in Request |-> None]
  /\ era = 0 /\ answered = {}

-----------------------------------------------------------------------------
TopicActive(t) ==
  \E e \in Explanation : explanation[e].state = "active" /\ explanation[e].topic = t
SourceActive(s) ==
  \E e \in Explanation : explanation[e].state = "active" /\ explanation[e].source = s

\* TOPIC_LEARNING_STATE: a mastered topic counts as learning while it is
\* explained once more, and after a weak review.
Mastered(t) ==
  /\ topic[t].state = "mastered" /\ ~TopicActive(t)
  /\ schedule[t] \notin {"partial", "forgotten"}

\* The random id of a topic row; the fault derives it from the key.
TopicIdFromKey(t) == <<t, 0>>
TopicId(t) == <<t, era>>

\* cancelActiveReviewForTopic: a question on the topic in the active round ends
\* the round and takes all its open questions away. The fault forgets to look.
CancelNothing(t) == UNCHANGED <<review, batchActive>>
CancelReviews(t) ==
  IF \E q \in Review : review[q].state = "open" /\ review[q].topic = t
                       /\ review[q].batch = batch /\ batchActive
  THEN /\ review' = [q \in Review |-> IF review[q].state = "open" /\ review[q].batch = batch
                                      THEN NoReview("deleted") ELSE review[q]]
       /\ batchActive' = FALSE
  ELSE UNCHANGED <<review, batchActive>>

\* What both kinds of new explanation do.
Explain(e, t, s) ==
  /\ explanation[e].state = "unused" /\ ~SourceActive(s) /\ ~TopicActive(t)
  /\ explanation' = [explanation EXCEPT ![e] =
       [state |-> "active", topic |-> t, source |-> s, revision |-> 1, pending |-> FALSE]]
  /\ entries' = entries \cup {[kind |-> "explanation", of |-> e, revision |-> 1]}
  /\ CancelReviews(t)
  /\ UNCHANGED <<schedule, due, batch, requests, era, answered>>

Revised(t, state) ==
  topic' = [topic EXCEPT ![t] = [state |-> state, revision |-> @.revision + 1]]

\* commitAutoDecision with an explanation: a topic row that exists keeps its state.
AutoExplained(e, t, s) ==
  /\ ~Mastered(t)
  /\ Explain(e, t, s)
  /\ Revised(t, IF topic[t].state = "absent" THEN "learning" ELSE topic[t].state)

\* commitManualExplanation: the learner asked, so the topic is learnt anew. The
\* fault does not ask whether the topic is being explained to another Session.
ManualOnBusyTopic(e, t, s) ==
  /\ explanation[e].state = "unused" /\ ~SourceActive(s)
  /\ explanation' = [explanation EXCEPT ![e] =
       [state |-> "active", topic |-> t, source |-> s, revision |-> 1, pending |-> FALSE]]
  /\ entries' = entries \cup {[kind |-> "explanation", of |-> e, revision |-> 1]}
  /\ CancelReviews(t) /\ Revised(t, "learning")
  /\ UNCHANGED <<schedule, due, batch, requests, era, answered>>
ManualExplained(e, t, s) == Explain(e, t, s) /\ Revised(t, "learning")

\* commitRephrase of the revision a target was made for.
RephrasedStillPending(e, n) ==
  /\ explanation[e].state = "active" /\ explanation[e].revision = n
  /\ explanation[e].pending /\ n < MaxRevision
  /\ explanation' = [explanation EXCEPT ![e].revision = n + 1]
  /\ entries' = entries \cup {[kind |-> "explanation", of |-> e, revision |-> n + 1]}
  /\ Revised(explanation[e].topic, topic[explanation[e].topic].state)
  /\ UNCHANGED <<schedule, due, review, batch, batchActive, requests, era, answered>>
Rephrased(e, n) ==
  /\ explanation[e].state = "active" /\ explanation[e].revision = n
  /\ explanation[e].pending /\ n < MaxRevision
  /\ explanation' = [explanation EXCEPT ![e].revision = n + 1, ![e].pending = FALSE]
  /\ entries' = entries \cup {[kind |-> "explanation", of |-> e, revision |-> n + 1]}
  /\ Revised(explanation[e].topic, topic[explanation[e].topic].state)
  /\ UNCHANGED <<schedule, due, review, batch, batchActive, requests, era, answered>>

-----------------------------------------------------------------------------
\* Mutations of the learner. One whose id is on record is answered from it, or
\* refused if it says something else.
Record(r, fingerprint) ==
  /\ requests[r] = None
  /\ requests' = [requests EXCEPT ![r] = fingerprint]
  /\ answered' = answered \cup {<<r, fingerprint>>}

Feedback(kind, e, n) == [kind |-> kind, of |-> e, revision |-> n]

\* The explanation is active at the revision the learner judges.
Judged(e, n) == explanation[e].state = "active" /\ explanation[e].revision = n

UnderstoodUnscheduled(r, e, n) ==
  LET t == explanation[e].topic
  IN /\ Judged(e, n)
     /\ Record(r, Feedback("understood", e, n))
     /\ explanation' = [explanation EXCEPT ![e].state = "closed", ![e].pending = FALSE]
     /\ entries' = entries \cup {Feedback("understood", e, n)}
     /\ Revised(t, "mastered")
     /\ UNCHANGED <<schedule, due, review, batch, batchActive, era>>
UnderstoodStillPending(r, e, n) ==
  LET t == explanation[e].topic
  IN /\ Judged(e, n)
     /\ Record(r, Feedback("understood", e, n))
     /\ explanation' = [explanation EXCEPT ![e].state = "closed"]
     /\ entries' = entries \cup {Feedback("understood", e, n)}
     /\ Revised(t, "mastered")
     /\ schedule' = [schedule EXCEPT ![t] = "new"] /\ due' = due \ {t}
     /\ UNCHANGED <<review, batch, batchActive, era>>
Understood(r, e, n) ==
  LET t == explanation[e].topic
  IN /\ Judged(e, n)
     /\ Record(r, Feedback("understood", e, n))
     /\ explanation' = [explanation EXCEPT ![e].state = "closed", ![e].pending = FALSE]
     /\ entries' = entries \cup {Feedback("understood", e, n)}
     /\ Revised(t, "mastered")
     /\ schedule' = [schedule EXCEPT ![t] = "new"] /\ due' = due \ {t}
     /\ UNCHANGED <<review, batch, batchActive, era>>

NotUnderstood(r, e, n) ==
  /\ Judged(e, n) /\ ~explanation[e].pending
  /\ Record(r, Feedback("not-understood", e, n))
  /\ explanation' = [explanation EXCEPT ![e].pending = TRUE]
  /\ entries' = entries \cup {Feedback("not-understood", e, n)}
  /\ UNCHANGED <<topic, schedule, due, review, batch, batchActive, era>>

\* While the rephrase is pending the request is recorded with the entry there is.
NotUnderstoodAgain(r, e, n) ==
  /\ Judged(e, n) /\ explanation[e].pending
  /\ Record(r, Feedback("not-understood", e, n))
  /\ UNCHANGED <<viewVars, due, era>>

ReopenTopic(r, id, n) ==
  LET t == id[1]
  IN /\ id = TopicId(t)
     /\ topic[t].state = "mastered" /\ topic[t].revision = n
     /\ Record(r, [kind |-> "reopen", of |-> id, revision |-> n])
     /\ Revised(t, "learning")
     /\ CancelReviews(t)
     /\ UNCHANGED <<schedule, due, explanation, entries, batch, era>>

-----------------------------------------------------------------------------
\* next_review_at of a scheduled topic passes.
BecomesDue(t) ==
  /\ schedule[t] # "none" /\ t \notin due
  /\ due' = due \cup {t}
  /\ UNCHANGED <<viewVars, requests, era, answered>>

Waiting == {q \in Review : review[q].state = "open" /\ review[q].batch = batch /\ batchActive}

\* The fault asks about a topic that is being explained once more.
DueWhileExplained == {t \in due : topic[t].state = "mastered"}
Due == {t \in due : topic[t].state = "mastered" /\ ~TopicActive(t)}

\* A round: questions on different topics, in some order.
StartRound(round, questions) ==
  /\ Cardinality(round) = IF Cardinality(Due) < BatchSize THEN Cardinality(Due) ELSE BatchSize
  /\ Cardinality(questions) = Cardinality(round)
  /\ \E about \in [questions -> round], at \in [questions -> 1..Cardinality(round)] :
       /\ \A p, q \in questions : p # q => about[p] # about[q] /\ at[p] # at[q]
       /\ review' = [q \in Review |->
            IF q \in questions
            THEN [state |-> "open", topic |-> about[q], batch |-> batch + 1, position |-> at[q]]
            ELSE review[q]]

\* startReview while no question waits. The code takes the topics that have been
\* due longest, in that order.
StartReview ==
  /\ Waiting = {} /\ Due # {}
  /\ \E round \in SUBSET Due :
     \E questions \in SUBSET {q \in Review : review[q].state = "unused"} :
       StartRound(round, questions)
  /\ batch' = batch + 1 /\ batchActive' = TRUE
  /\ UNCHANGED <<topic, schedule, due, explanation, entries, requests, era, answered>>

\* commitReviewAnswer: prepareReviewAnswer accepts only the first question that
\* waits, on a topic still mastered. The last answer completes the round. The
\* answer's own request id adds nothing: the question is answered only once.
AnswerLeavesBatch(q, result) ==
  LET t == review[q].topic
  IN /\ q \in Waiting /\ topic[t].state = "mastered" /\ schedule[t] # "none"
     /\ \A p \in Waiting : review[q].position <= review[p].position
     /\ review' = [review EXCEPT ![q].state = "answered"]
     /\ schedule' = [schedule EXCEPT ![t] = result] /\ due' = due \ {t}
     /\ Revised(t, topic[t].state)
     /\ UNCHANGED <<explanation, entries, batch, batchActive, requests, era, answered>>
ReviewAnswered(q, result) ==
  LET t == review[q].topic
  IN /\ q \in Waiting /\ topic[t].state = "mastered" /\ schedule[t] # "none"
     /\ \A p \in Waiting : review[q].position <= review[p].position
     /\ review' = [review EXCEPT ![q].state = "answered"]
     /\ schedule' = [schedule EXCEPT ![t] = result] /\ due' = due \ {t}
     /\ Revised(t, topic[t].state)
     /\ batchActive' = (Waiting # {q})
     /\ UNCHANGED <<explanation, entries, batch, requests, era, answered>>

\* clearLearningData.
Clear ==
  /\ era < MaxEra /\ era' = era + 1
  /\ topic' = [t \in Topic |-> [state |-> "absent", revision |-> 0]]
  /\ schedule' = [t \in Topic |-> "none"] /\ due' = {}
  /\ explanation' = [e \in Explanation |->
       NoExplanation(IF explanation[e].state = "unused" THEN "unused" ELSE "deleted")]
  /\ entries' = {}
  /\ review' = [q \in Review |->
       NoReview(IF review[q].state = "unused" THEN "unused" ELSE "deleted")]
  /\ batchActive' = FALSE
  /\ requests' = [r \in Request |-> None]
  /\ UNCHANGED <<batch, answered>>

-----------------------------------------------------------------------------
Next ==
  \/ \E e \in Explanation, t \in Topic, s \in Source :
       AutoExplained(e, t, s) \/ ManualExplained(e, t, s)
  \/ \E e \in Explanation, n \in 1..MaxRevision :
       \/ Rephrased(e, n)
       \/ \E r \in Request : \/ Understood(r, e, n) \/ NotUnderstood(r, e, n)
                             \/ NotUnderstoodAgain(r, e, n)
  \/ \E r \in Request, t \in Topic : \E n \in 1..topic[t].revision, k \in 0..era :
       ReopenTopic(r, <<t, k>>, n)
  \/ \E t \in Topic : BecomesDue(t)
  \/ StartReview
  \/ \E q \in Review, result \in {"mastered", "partial", "forgotten"} :
       ReviewAnswered(q, result)
  \/ Clear

Spec == Init /\ [][Next]_vars

-----------------------------------------------------------------------------
\* A Session has one active explanation at most and a topic has one: the unique
\* indexes of the schema never turn a commit into an error.
OneConversation ==
  \A d, e \in Explanation :
    d # e /\ explanation[d].state = "active" /\ explanation[e].state = "active"
    => /\ explanation[d].topic # explanation[e].topic
       /\ explanation[d].source # explanation[e].source

\* A question that waits can be answered: it is in the active round, and its
\* topic is scheduled, mastered and in no active explanation, however many
\* late explanations and reopenings came since the round began.
ReviewsAskMastered ==
  \A q \in Review : review[q].state = "open" =>
    LET t == review[q].topic
    IN /\ t \in Topic /\ review[q].batch = batch /\ batchActive
       /\ topic[t].state = "mastered" /\ ~TopicActive(t) /\ schedule[t] # "none"

\* An active round has a question that waits, so startReview never meets an
\* orphaned one, and no two of its questions share a topic or a position.
RoundIsOpen ==
  /\ batchActive => \E q \in Review : review[q].state = "open"
  /\ \A p, q \in Review :
       p # q /\ review[p].state = "open" /\ review[q].state = "open"
       => review[p].topic # review[q].topic /\ review[p].position # review[q].position

\* What startReview assumes of a mastered topic: a schedule, and a closed
\* explanation to ask about.
MasteredIsReviewable ==
  \A t \in Topic : topic[t].state = "mastered" =>
    /\ schedule[t] # "none"
    /\ \E e \in Explanation : explanation[e].state = "closed" /\ explanation[e].topic = t

\* What the joins of the store assume of the thread: every revision of a stored
\* explanation has its entry, and a pending rephrase the feedback that asked
\* for it at the active revision.
ThreadComplete ==
  \A e \in Explanation : explanation[e].state \in {"active", "closed"} =>
    /\ explanation[e].revision >= 1
    /\ \A n \in 1..explanation[e].revision :
         [kind |-> "explanation", of |-> e, revision |-> n] \in entries
    /\ explanation[e].pending =>
         Feedback("not-understood", e, explanation[e].revision) \in entries

Mutation(r, fingerprint) ==
  LET of == fingerprint.of
      n == fingerprint.revision
  IN CASE fingerprint.kind = "understood" -> Understood(r, of, n)
       [] fingerprint.kind = "not-understood" ->
            NotUnderstood(r, of, n) \/ NotUnderstoodAgain(r, of, n)
       [] OTHER -> ReopenTopic(r, of, n)

\* A mutation that was accepted once changes nothing when it comes again, in
\* whatever state it finds the store, after a clear too.
RetryChangesNothing ==
  [][ \A m \in answered : Mutation(m[1], m[2]) => UNCHANGED viewVars ]_vars

\* Every history of the store is one the learner was promised.
Life == [t \in Topic |-> IF TopicActive(t) THEN "explaining" ELSE topic[t].state]
Asked == {t \in Topic :
            \E q \in Review : review[q].state = "open" /\ review[q].topic = t}

Lifecycle == INSTANCE TopicLifecycle WITH life <- Life, asked <- Asked
KeepsPromise == Lifecycle!Spec
=============================================================================
