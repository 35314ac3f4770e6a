--------------------------- MODULE MCReportControl --------------------------
(***************************************************************************)
(* Instances of ReportControl for TLC.                                     *)
(***************************************************************************)
EXTENDS ReportControl, TLC

CONSTANTS a, b
MCElement == {a, b}
=============================================================================
