------------------------------ MODULE MCXrpQueue ------------------------------
(* The small instances of XrpQueue that TLC checks. *)
EXTENDS XrpQueue, TLC

\* The callers are interchangeable (for runs without liveness properties).
Symmetry == Permutations(Thread)
=============================================================================
