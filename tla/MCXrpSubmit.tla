----------------------------- MODULE MCXrpSubmit -----------------------------
(***************************************************************************)
(* Model checking of XrpSubmit: clients are interchangeable.               *)
(***************************************************************************)
EXTENDS XrpSubmitRefines, TLC

ClientSymmetry == Permutations(Client)
=============================================================================
