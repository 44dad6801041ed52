---------------------------- MODULE MCCollection ----------------------------
(***************************************************************************)
(* Three tasks stand for the three ways a callback ends: metadata rethrows *)
(* what processCollection throws, inventory hides it, and scan keeps no    *)
(* payload and can be switched off.                                        *)
(***************************************************************************)
EXTENDS Collection

MCTasks == {"metadata", "inventory", "scan"}
MCOutcomes == [metadata |-> {"ok", "invalid"}, inventory |-> {"ok", "error"},
               scan |-> {"ok"}]
MCConfigMin == [metadata |-> 1, inventory |-> 2, scan |-> 1]
MCMinInterval == [metadata |-> 2, inventory |-> 2, scan |-> 2]
MCHash == [metadata |-> 4, inventory |-> 3, scan |-> 5]
MCOffsetRange == [metadata |-> 2, inventory |-> 2, scan |-> 3]
MCOptional == {"scan"}
MCStoring == {"metadata", "inventory"}
MCSwallowing == {"inventory"}
MCEnv == {1, 3}
\* An interval that a timer cannot take.
MCEnvLong == {4}
=============================================================================
