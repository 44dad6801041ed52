--------------------------- MODULE MCSchemaMigration ---------------------------
(* The operator and CLI processes on one database.                           *)
EXTENDS SchemaMigration

CONSTANTS op, cli1, cli2
==============================================================================
