-------------------------- MODULE MCLearnerContext --------------------------
(* LearnerContext with two hosts, one field of each kind and two edits.    *)
EXTENDS LearnerContext, TLC

ContextSymmetry == Permutations(Host) \cup Permutations(Request)
=============================================================================
