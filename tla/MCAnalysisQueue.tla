-------------------------- MODULE MCAnalysisQueue --------------------------
(* One run, two submissions that may both find no record of it, and two    *)
(* overlapping polls.                                                      *)
EXTENDS AnalysisQueue
=============================================================================
