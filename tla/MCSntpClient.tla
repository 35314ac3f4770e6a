---------------------------- MODULE MCSntpClient ----------------------------
(***************************************************************************)
(* Instances of SntpClient for TLC: a second of a few milliseconds, a      *)
(* clock that is off by less and by more than that, both ways.             *)
(***************************************************************************)
EXTENDS SntpClient

MCErrs == {-8, 0, 3, 7}
=============================================================================
