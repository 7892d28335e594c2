-------------------------- MODULE MCReportRequests --------------------------
(* ReportRequests on a small instance.                                     *)
EXTENDS ReportRequests

OneReport == [k \in Kinds |-> IF k = "report" THEN 1 ELSE 0]
TwoReportsOneEarly == [k \in Kinds |-> IF k = "report" THEN 2 ELSE 1]
=============================================================================
