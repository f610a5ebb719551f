--------------------------- MODULE TopicLifecycle ---------------------------
(***************************************************************************)
(* What a learner is promised about one topic: it is explained before it    *)
(* can be mastered, only the learner's word masters it, and a review never  *)
(* asks about a topic that is being explained or was reopened. A topic that *)
(* leaves the round of questions it is asked in ends that round.            *)
(***************************************************************************)
CONSTANT Topic

VARIABLES life,   \* where each topic is
          asked   \* the topics whose review question waits for an answer

vars == <<life, asked>>

TypeOK ==
  /\ life \in [Topic -> {"absent", "explaining", "learning", "mastered"}]
  /\ asked \subseteq Topic

Init == life = [t \in Topic |-> "absent"] /\ asked = {}

Withdraw(t) == asked' = IF t \in asked THEN {} ELSE asked

Explain(t) ==
  /\ life[t] # "explaining"
  /\ life' = [life EXCEPT ![t] = "explaining"]
  /\ Withdraw(t)

Master(t) ==
  /\ life[t] = "explaining"
  /\ life' = [life EXCEPT ![t] = "mastered"]
  /\ UNCHANGED asked

Reopen(t) ==
  /\ life[t] = "mastered"
  /\ life' = [life EXCEPT ![t] = "learning"]
  /\ Withdraw(t)

Ask(round) ==
  /\ asked = {} /\ round # {}
  /\ \A t \in round : life[t] = "mastered"
  /\ asked' = round
  /\ UNCHANGED life

Answer(t) ==
  /\ t \in asked
  /\ asked' = asked \ {t}
  /\ UNCHANGED life

Forget == life' = [t \in Topic |-> "absent"] /\ asked' = {}

Next ==
  \/ \E t \in Topic : Explain(t) \/ Master(t) \/ Reopen(t) \/ Answer(t)
  \/ \E round \in SUBSET Topic : Ask(round)
  \/ Forget

Spec == Init /\ [][Next]_vars
=============================================================================
