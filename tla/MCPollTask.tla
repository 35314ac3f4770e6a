----------------------------- MODULE MCPollTask -----------------------------
(***************************************************************************)
(* Instances of PollTask for TLC.  The large blocks keep the shape of the  *)
(* MR801's (257 and 469 registers in pieces of 124): several pieces, then  *)
(* a remainder of more than one register.                                  *)
(***************************************************************************)
EXTENDS PollTask
=============================================================================
