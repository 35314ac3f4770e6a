------------------------------ MODULE MCServer ------------------------------
(***************************************************************************)
(* Instances of Server for TLC: three sockets, one more than there are     *)
(* slots.  The clients are alike.                                          *)
(***************************************************************************)
EXTENDS Server, TLC

CONSTANTS s1, s2, s3
MCSocket   == {s1, s2, s3}
MCSymmetry == Permutations(MCSocket)
=============================================================================
