----------------------------- MODULE MCMbMaster -----------------------------
(***************************************************************************)
(* Instances of MbMaster for TLC: two blocks of the same size, which a     *)
(* stray reply can be mistaken for, and one tick per request.              *)
(***************************************************************************)
EXTENDS MbMaster, TLC

CONSTANTS b1, b2

MCWords == [b \in Blocks |-> 2]
BlockSymmetry == Permutations({b1, b2})
=============================================================================
