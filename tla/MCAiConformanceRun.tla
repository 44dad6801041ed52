-------------------------- MODULE MCAiConformanceRun --------------------------
(* A few conformance runs of few requirements.                              *)
EXTENDS AiConformanceRun

CONSTANTS r1, r2
==============================================================================
