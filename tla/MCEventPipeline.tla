--------------------------- MODULE MCEventPipeline ---------------------------
(* The event pipeline with two ids for all its events, which collide.       *)
EXTENDS EventPipeline

CONSTANTS id1, id2
==============================================================================
