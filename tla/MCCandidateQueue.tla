-------------------------- MODULE MCCandidateQueue --------------------------
(* CandidateQueue on two or three sources and a handful of turns.          *)
EXTENDS CandidateQueue, TLC

SourceSymmetry == Permutations(Source)

=============================================================================
