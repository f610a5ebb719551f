--------------------------- MODULE MCRuntimeLease ---------------------------
(* RuntimeLease with three hosts, so that a suspended owner can meet a     *)
(* row that was taken over, released and created anew.                     *)
EXTENDS RuntimeLease, TLC

HostSymmetry == Permutations(Host)

=============================================================================
