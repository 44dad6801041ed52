-------------------------- MODULE MCStatusPublisher --------------------------
(* The status publisher with two writes in flight.                          *)
EXTENDS StatusPublisher

CONSTANTS s1, s2
==============================================================================
