---------------------------- MODULE SchemaMigration ----------------------------
(***************************************************************************)
(* SchemaManager.initialize, executed on one database file by the operator *)
(* when it boots and by every CLI command that needs the database.  There  *)
(* is no transaction and no lock around it: each statement commits by      *)
(* itself, so that processes interleave between statements and a process   *)
(* can die between any two.                                                *)
(*                                                                         *)
(* Version 0 stands for the schema_version table and version 1 for the     *)
(* events table; both are created by every call.  A version's script is a  *)
(* number of CREATE ... IF NOT EXISTS statements.                          *)
(***************************************************************************)
EXTENDS Integers, FiniteSets

CONSTANTS Procs,       \* processes that open the database
          Operator,    \* the one the kubelet restarts
          Latest,      \* LATEST_SCHEMA_VERSION
          Statements,  \* statements in the script of a version
          MaxFaults    \* bound: kills and storage errors in a behaviour

ASSUME MigrationAssumption ==
    /\ Operator \in Procs
    /\ Latest \in Nat \ {0}
    /\ Statements \in Nat \ {0}
    /\ MaxFaults \in Nat

VARIABLES
    recorded,  \* the versions in schema_version
    made,      \* the tables and indexes that exist: <<version, statement>>
    opening,   \* opening[p]: where initialize is in process p
    ver,       \* ver[p]: the version whose script or record is next
    stmt,      \* stmt[p]: the next statement of that script
    faults     \* kills and storage errors so far

schemaVars == <<recorded, made, opening, ver, stmt, faults>>

Versions == 1..Latest
Script(v) == {<<v, i>> : i \in 1..Statements}
SchemaSteps == {"down", "create", "read", "apply", "record", "ready", "conflict", "failed"}
Stopped == {"down", "conflict", "failed"}

SchemaTypeOK ==
    /\ recorded \subseteq Versions
    /\ made \subseteq (0..Latest) \X (1..Statements)
    /\ opening \in [Procs -> SchemaSteps]
    /\ ver \in [Procs -> 0..Latest]
    /\ stmt \in [Procs -> 1..Statements]
    /\ faults \in 0..MaxFaults

SchemaInit ==
    /\ recorded = {}
    /\ made = {}
    /\ opening = [p \in Procs |-> "down"]
    /\ ver = [p \in Procs |-> 0]
    /\ stmt = [p \in Procs |-> 1]
    /\ faults = 0

OpeningAt(p, step) == opening' = [opening EXCEPT ![p] = step]

\* Version v is next in process p, from its first statement.
Turn(p, v) ==
    /\ ver' = [ver EXCEPT ![p] = v]
    /\ stmt' = [stmt EXCEPT ![p] = 1]

------------------------------------------------------------------------------
(* SchemaManager.initialize                                                *)

\* A process starts: initialize is called.
Start(p) ==
    /\ opening[p] \in Stopped
    /\ OpeningAt(p, "create")
    /\ Turn(p, 0)
    /\ UNCHANGED <<recorded, made, faults>>

\* Mutant: version 1 is recorded before the events table is created.
AfterScriptRecordEvents(p) ==
    IF ver[p] = 0 THEN OpeningAt(p, "record") /\ Turn(p, 1)
    ELSE /\ OpeningAt(p, IF ver[p] = 1 THEN "read" ELSE "record")
         /\ UNCHANGED <<ver, stmt>>

\* Where a process goes after the last statement of a script.
AfterScript(p) ==
    IF ver[p] = 0 THEN OpeningAt(p, "create") /\ Turn(p, 1)
    ELSE /\ OpeningAt(p, IF ver[p] = 1 THEN "read" ELSE "record")
         /\ UNCHANGED <<ver, stmt>>

\* Mutant: the statements have no IF NOT EXISTS.
ExecOnce(p) ==
    /\ opening[p] \in {"create", "apply"}
    /\ IF <<ver[p], stmt[p]>> \in made
       THEN OpeningAt(p, "failed") /\ UNCHANGED <<made, ver, stmt>>
       ELSE /\ made' = made \cup {<<ver[p], stmt[p]>>}
            /\ IF stmt[p] = Statements
               THEN AfterScript(p)
               ELSE stmt' = [stmt EXCEPT ![p] = @ + 1] /\ UNCHANGED <<opening, ver>>
    /\ UNCHANGED <<recorded, faults>>

\* One statement: a table or an index is created unless it exists.
Exec(p) ==
    /\ opening[p] \in {"create", "apply"}
    /\ made' = made \cup {<<ver[p], stmt[p]>>}
    /\ IF stmt[p] = Statements
       THEN AfterScript(p)
       ELSE stmt' = [stmt EXCEPT ![p] = @ + 1] /\ UNCHANGED <<opening, ver>>
    /\ UNCHANGED <<recorded, faults>>

\* getCurrentVersion: SELECT MAX(version), 0 for an empty table.
CurrentVersion(v) ==
    IF recorded = {} THEN v = 0 ELSE v \in recorded /\ \A u \in recorded : u <= v

\* Reads the current version: a new database gets version 1 recorded, an old
\* one the missing migrations.
ReadVersion(p) ==
    /\ opening[p] = "read"
    /\ \E v \in 0..Latest :
          /\ CurrentVersion(v)
          /\ IF v = Latest THEN OpeningAt(p, "ready") /\ UNCHANGED <<ver, stmt>>
             ELSE OpeningAt(p, IF v = 0 THEN "record" ELSE "apply") /\ Turn(p, v + 1)
    /\ UNCHANGED <<recorded, made, faults>>

\* After a version is recorded: the next migration, or the end.
NextMigration(p) ==
    IF ver[p] = Latest THEN OpeningAt(p, "ready") /\ UNCHANGED <<ver, stmt>>
    ELSE OpeningAt(p, "apply") /\ Turn(p, ver[p] + 1)

\* recordSchemaVersion: an INSERT, without ON CONFLICT.
RecordVersion(p) ==
    /\ opening[p] = "record"
    /\ ver[p] \notin recorded
    /\ recorded' = recorded \cup {ver[p]}
    /\ NextMigration(p)
    /\ UNCHANGED <<made, faults>>

\* Another process was first: the INSERT throws and the process exits with 1.
RecordConflicts(p) ==
    /\ opening[p] = "record"
    /\ ver[p] \in recorded
    /\ OpeningAt(p, "conflict")
    /\ UNCHANGED <<recorded, made, ver, stmt, faults>>

------------------------------------------------------------------------------
(* The environment                                                         *)

Fault(p, step) ==
    /\ opening[p] \notin Stopped
    /\ faults < MaxFaults
    /\ faults' = faults + 1
    /\ OpeningAt(p, step)
    /\ UNCHANGED <<recorded, made, ver, stmt>>

\* The process is killed, during or after initialize.
KillProcess(p) == Fault(p, "down")

\* A CLI command is done.
CommandEnds(p) ==
    /\ p # Operator /\ opening[p] = "ready"
    /\ OpeningAt(p, "down")
    /\ UNCHANGED <<recorded, made, ver, stmt, faults>>

\* A statement throws (busy, full, read-only): the process exits with 1.
StorageThrows(p) == opening[p] # "ready" /\ Fault(p, "failed")

SchemaNext ==
    \E p \in Procs :
        \/ Start(p)
        \/ Exec(p)
        \/ ReadVersion(p)
        \/ RecordVersion(p)
        \/ RecordConflicts(p)
        \/ CommandEnds(p)
        \/ KillProcess(p)
        \/ StorageThrows(p)

SchemaSpec == SchemaInit /\ [][SchemaNext]_schemaVars

------------------------------------------------------------------------------
(* SchemaFairness.  The statements of the operator execute and the kubelet       *)
(* starts it again; nothing is assumed of the CLI processes.               *)

SchemaFairness ==
    /\ WF_schemaVars(Start(Operator))
    /\ WF_schemaVars(Exec(Operator))
    /\ WF_schemaVars(ReadVersion(Operator))
    /\ WF_schemaVars(RecordVersion(Operator))
    /\ WF_schemaVars(RecordConflicts(Operator))

FairSchemaSpec == SchemaSpec /\ SchemaFairness

------------------------------------------------------------------------------
(* Safety                                                                  *)

\* A version is recorded only when every table and index of it exists, whoever
\* applied it and whoever died on the way: a restart skips nothing it needs.
RecordedVersionsAreApplied == \A v \in recorded : Script(v) \subseteq made

\* A process that gets through initialize finds the whole schema.
ReadyMeansMigrated ==
    \A p \in Procs : opening[p] = "ready" =>
        recorded = Versions /\ \A v \in 0..Latest : Script(v) \subseteq made

\* What is said to be applied is applied, for the next migration and for the user.
SchemaIsApplied == RecordedVersionsAreApplied /\ ReadyMeansMigrated

------------------------------------------------------------------------------
(* Liveness, under FairSchemaSpec                                                *)

\* Kills, storage errors and lost races cost restarts, but the operator gets
\* through initialize in the end.
OperatorGetsReady == []<>(opening[Operator] = "ready")
==============================================================================
