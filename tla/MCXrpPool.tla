------------------------------- MODULE MCXrpPool -------------------------------
(***************************************************************************)
(* Model checking of XrpPool: threads are interchangeable.                 *)
(***************************************************************************)
EXTENDS XrpPool, TLC

ThreadSymmetry == Permutations(Thread)
=============================================================================
