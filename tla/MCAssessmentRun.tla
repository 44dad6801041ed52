--------------------------- MODULE MCAssessmentRun ---------------------------
(* A few runs of few checks, by the operator and by CLI processes.          *)
EXTENDS AssessmentRun

CONSTANTS r1, r2
==============================================================================
