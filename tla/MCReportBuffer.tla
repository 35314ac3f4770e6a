--------------------------- MODULE MCReportBuffer ---------------------------
(***************************************************************************)
(* Instances of ReportBuffer for TLC.                                      *)
(***************************************************************************)
EXTENDS ReportBuffer

MCChangeSizes == {2, 3}
=============================================================================
