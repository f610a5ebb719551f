-------------------------- MODULE MCLearningStore --------------------------
(* LearningStore with pages of one entry and a few changes of the host.    *)
EXTENDS LearningStore, TLC

\* Calls of loadOlder differ in nothing but their names.
Calls == Permutations(OlderCall)
=============================================================================
