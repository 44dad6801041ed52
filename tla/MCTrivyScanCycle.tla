--------------------------- MODULE MCTrivyScanCycle ---------------------------
(* A few cycles over a few images.                                          *)
EXTENDS TrivyScanCycle

CONSTANTS c1, c2, i1, i2, v1, v2

\* An image is clean or has two vulnerabilities.
MCReports == {{}, {v1, v2}}
==============================================================================
