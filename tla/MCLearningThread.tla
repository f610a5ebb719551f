-------------------------- MODULE MCLearningThread --------------------------
(* LearningThread with a few topics, Sessions, explanations and requests.  *)
EXTENDS LearningThread, TLC

ThreadSymmetry ==
  Permutations(Topic) \cup Permutations(Source) \cup Permutations(Explanation)
    \cup Permutations(Review) \cup Permutations(Request)
=============================================================================
