--------------------------- MODULE AiConformanceRun ---------------------------
(***************************************************************************)
(* Kubernetes AI Conformance runs and what is reported of them.            *)
(* AiConformanceRunner.run is executed by the operator (a scheduled tick;  *)
(* two ticks can overlap) and by CLI processes on the same database file.  *)
(* It evaluates the requirements of a checklist one after the other and    *)
(* then writes twice: its row in ai_conformance_runs, and all requirement  *)
(* results in a transaction of their own.  Whatever is thrown makes it     *)
(* write its row (again) as failed, a write whose own failure is ignored.  *)
(* Readers, the status writer and the command "latest", read the latest    *)
(* row and then its results, and others write in between.                  *)
(*                                                                         *)
(* Of a requirement only the status it evaluates to matters.  The operator *)
(* runs on one event loop: from the last evaluation of a run to the end of *)
(* its tick, and while it reads, no other callback of it runs.             *)
(***************************************************************************)
EXTENDS Integers, Sequences, FiniteSets

CONSTANTS Runs,             \* run ids
          Statuses,         \* the requirement statuses that occur
          Readers,          \* the status writer, "status", and the command, "cli"
          ChecklistSizes,   \* how many requirements the bundled checklists have
          MaxTime           \* bound: the last instant of the clock

ASSUME ConformanceAssumption ==
    /\ "not-evaluated" \in Statuses
    /\ Statuses \subseteq {"passed", "failed", "warning", "not-applicable",
                           "not-evaluated", "needs-evidence"}
    /\ "status" \in Readers /\ Readers \subseteq {"status", "cli"}
    /\ ChecklistSizes \subseteq Nat \ {0}
    /\ MaxTime \in Nat \ {0}

VARIABLES
    up,         \* the operator process is alive
    now,        \* the clock that stamps requested_at and completed_at
    owner,      \* owner[r]: none, operator or cli
    pc,         \* pc[r]: where run() is
    requested,  \* requested[r]: requestedAt of run()
    total,      \* total[r]: requirements of the checklist selected by run()
    results,    \* results[r]: the evaluations run() has collected
    row,        \* row[r]: the row in ai_conformance_runs, or NoRow
    stored,     \* stored[r]: the rows in ai_conformance_requirement_results
    snapshot,   \* lastRunSnapshot of the operator
    reading,    \* reading[x]: the row that reader x has read, or NotReading
    shown       \* shown[x]: the latest summary that reader x has shown

runVars == <<owner, pc, requested, total, results>>
dbVars == <<row, stored>>
readVars == <<reading, shown>>
vars == <<up, now, runVars, dbVars, snapshot, readVars>>

Owners == {"none", "operator", "cli"}
Steps == {"unused", "evaluating", "recording", "recorded", "failing", "returned", "died"}
Active == {"evaluating", "recording", "recorded", "failing"}
Writing == {"recording", "recorded", "failing"}

States == {"absent", "completed", "partial", "failed"}
Successes == {"completed", "partial"}

\* The results of a run in the order of its checklist, and their totals.
Evaluations == {s \in Seq(Statuses) : \E n \in {0} \cup ChecklistSizes : Len(s) <= n}
buildTotals(s) == [x \in Statuses |-> Cardinality({i \in DOMAIN s : s[i] = x})]

Rows == [state : States, requested : 0..MaxTime, completed : 0..MaxTime,
         total : {0} \cup ChecklistSizes, totals : [Statuses -> Nat]]
NoRow == [state |-> "absent", requested |-> 0, completed |-> 0, total |-> 0,
          totals |-> buildTotals(<<>>)]

RunIds == {{}} \cup {{r} : r \in Runs}
NotReading == [run |-> {}, record |-> NoRow]

\* A summary: the record of a run, whether it counts as a success, and results.
Outcome(record) ==
    CASE record.state = "failed" -> "failed"
      [] record.state \in Successes -> "success"
      [] OTHER -> "none"
Summary(ids, record, s) ==
    [run |-> ids, outcome |-> Outcome(record), record |-> record, requirements |-> s]
EmptySummary == Summary({}, NoRow, <<>>)
Summaries == [run : RunIds, outcome : {"none", "failed", "success"}, record : Rows,
              requirements : Evaluations]

TypeOK ==
    /\ up \in BOOLEAN
    /\ now \in 1..MaxTime
    /\ owner \in [Runs -> Owners]
    /\ pc \in [Runs -> Steps]
    /\ requested \in [Runs -> 0..MaxTime]
    /\ total \in [Runs -> {0} \cup ChecklistSizes]
    /\ results \in [Runs -> Evaluations]
    /\ row \in [Runs -> Rows]
    /\ stored \in [Runs -> Evaluations]
    /\ snapshot \in [outcome : {"none", "failed", "success"}, run : RunIds]
    /\ reading \in [Readers -> [run : RunIds, record : Rows]]
    /\ shown \in [Readers -> Summaries]

Init ==
    /\ up = TRUE
    /\ now = 1
    /\ owner = [r \in Runs |-> "none"]
    /\ pc = [r \in Runs |-> "unused"]
    /\ requested = [r \in Runs |-> 0]
    /\ total = [r \in Runs |-> 0]
    /\ results = [r \in Runs |-> <<>>]
    /\ row = [r \in Runs |-> NoRow]
    /\ stored = [r \in Runs |-> <<>>]
    /\ snapshot = [outcome |-> "none", run |-> {}]
    /\ reading = [x \in Readers |-> NotReading]
    /\ shown = [x \in Readers |-> EmptySummary]

\* The operator's event loop is free to run a callback.
OperatorFree ==
    /\ up
    /\ reading["status"] = NotReading
    /\ \A r \in Runs : owner[r] = "operator" => pc[r] \notin Writing

\* The end of a run: a tick keeps a snapshot, a command prints the record.
Settle(r, outcome) ==
    /\ pc' = [pc EXCEPT ![r] = "returned"]
    /\ snapshot' = IF owner[r] = "operator"
                   THEN [outcome |-> outcome, run |-> {r}] ELSE snapshot

\* upsertRun: an update keeps requested_at.
upsertRun(r, record) ==
    row' = [row EXCEPT ![r] = IF @.state = "absent" THEN record
                              ELSE [record EXCEPT !.requested = row[r].requested]]

------------------------------------------------------------------------------
(* AiConformanceRunner.run                                                 *)

\* The run is requested and a checklist of n requirements selected; when none
\* can be selected (n = 0) it fails before the first evaluation.
Begin(r, who, n) ==
    /\ pc[r] = "unused"
    /\ who = "operator" => OperatorFree
    /\ owner' = [owner EXCEPT ![r] = who]
    /\ requested' = [requested EXCEPT ![r] = now]
    /\ total' = [total EXCEPT ![r] = n]
    /\ pc' = [pc EXCEPT ![r] = IF n = 0 THEN "failing" ELSE "evaluating"]
    /\ UNCHANGED <<up, now, results, dbVars, snapshot, readVars>>

\* The tick does not get the cluster's version and starts no run.
TickThrows ==
    /\ OperatorFree
    /\ snapshot' = [outcome |-> "failed", run |-> {}]
    /\ UNCHANGED <<up, now, runVars, dbVars, readVars>>

\* The next requirement evaluates to s; an evaluator that throws yields not-evaluated.
Evaluate(r, s) ==
    /\ pc[r] = "evaluating"
    /\ owner[r] = "operator" => OperatorFree
    /\ results' = [results EXCEPT ![r] = Append(@, s)]
    /\ pc' = [pc EXCEPT ![r] = IF Len(results[r]) + 1 = total[r] THEN "recording" ELSE @]
    /\ UNCHANGED <<up, now, owner, requested, total, dbVars, snapshot, readVars>>

\* A run with a requirement that could not be evaluated is partial.
computeRunState(s) ==
    IF \E i \in DOMAIN s : s[i] = "not-evaluated" THEN "partial" ELSE "completed"

\* The record of an evaluated run, and the one of buildFailedRunRecord.
RunRecord(r) ==
    [state |-> computeRunState(results[r]), requested |-> requested[r], completed |-> now,
     total |-> total[r], totals |-> buildTotals(results[r])]
FailedRecord(r) ==
    [NoRow EXCEPT !.state = "failed", !.requested = requested[r], !.completed = now]

\* The first write.
RecordRun(r) ==
    /\ pc[r] = "recording"
    /\ upsertRun(r, RunRecord(r))
    /\ pc' = [pc EXCEPT ![r] = "recorded"]
    /\ UNCHANGED <<up, now, owner, requested, total, results, stored, snapshot, readVars>>

\* The second write, insertRequirementResults; the run returns.
InsertResults(r) ==
    /\ pc[r] = "recorded"
    /\ stored' = [stored EXCEPT ![r] = results[r]]
    /\ Settle(r, "success")
    /\ UNCHANGED <<up, now, owner, requested, total, results, row, readVars>>

\* Mutant: the results are inserted one by one, without a transaction.
WriteThrowsHalfway(r) ==
    /\ pc[r] \in {"recording", "recorded"}
    /\ pc' = [pc EXCEPT ![r] = "failing"]
    /\ stored' = [stored EXCEPT ![r] = IF pc[r] = "recorded" THEN <<Head(results[r])>> ELSE @]
    /\ UNCHANGED <<up, now, owner, requested, total, results, row, snapshot, readVars>>

\* One of the two writes throws and has no effect.
WriteThrows(r) ==
    /\ pc[r] \in {"recording", "recorded"}
    /\ pc' = [pc EXCEPT ![r] = "failing"]
    /\ UNCHANGED <<up, now, owner, requested, total, results, dbVars, snapshot, readVars>>

\* The catch branch writes the row as failed ...
RecordFailure(r) ==
    /\ pc[r] = "failing"
    /\ upsertRun(r, FailedRecord(r))
    /\ Settle(r, "failed")
    /\ UNCHANGED <<up, now, owner, requested, total, results, stored, readVars>>

\* ... and ignores that it cannot.
FailureUnrecorded(r) ==
    /\ pc[r] = "failing"
    /\ Settle(r, "failed")
    /\ UNCHANGED <<up, now, owner, requested, total, results, dbVars, readVars>>

RunContinues(r) ==
    RecordRun(r) \/ InsertResults(r) \/ WriteThrows(r) \/ RecordFailure(r) \/ FailureUnrecorded(r)

------------------------------------------------------------------------------
(* AiConformanceRepository.buildLatestSummary, for the status and for CLI  *)

Recorded == {r \in Runs : row[r].state # "absent"}

\* Mutant: the query has no ORDER BY.
IsLatestUnordered(r) == r \in Recorded

\* Mutant: the latest request instead of the latest completion.
IsLatestRequested(r) == r \in Recorded /\ \A q \in Recorded : row[q].requested <= row[r].requested

\* The row that ORDER BY COALESCE(completed_at, requested_at) DESC LIMIT 1
\* returns; every row has a completion time.
IsLatest(r) == r \in Recorded /\ \A q \in Recorded : row[q].completed <= row[r].completed

\* getLatestRun finds a row.
ReadRun(x) ==
    /\ reading[x] = NotReading
    /\ x = "status" => OperatorFree
    /\ \E r \in Runs : /\ IsLatest(r)
                       /\ reading' = [reading EXCEPT ![x] = [run |-> {r}, record |-> row[r]]]
    /\ UNCHANGED <<up, now, runVars, dbVars, snapshot, shown>>

\* getLatestRun finds nothing, or something throws: the status has the default
\* summary, a command prints that or an error.
ReadNothing(x) ==
    /\ x = "status" => OperatorFree \/ reading[x] # NotReading
    /\ reading' = [reading EXCEPT ![x] = NotReading]
    /\ shown' = [shown EXCEPT ![x] = EmptySummary]
    /\ UNCHANGED <<up, now, runVars, dbVars, snapshot>>

\* Mutant: the results are those of the run that is the latest by now.
ReadResultsOfLatest(x) ==
    /\ reading[x] # NotReading
    /\ \E r \in Runs : /\ IsLatest(r)
                       /\ shown' = [shown EXCEPT ![x] =
                             Summary(reading[x].run, reading[x].record, stored[r])]
    /\ reading' = [reading EXCEPT ![x] = NotReading]
    /\ UNCHANGED <<up, now, runVars, dbVars, snapshot>>

\* getRequirementResultsForRun of the run that was read; the summary is shown.
ReadResults(x) ==
    /\ reading[x] # NotReading
    /\ \E r \in Runs : /\ reading[x].run = {r}
                       /\ shown' = [shown EXCEPT ![x] =
                             Summary({r}, reading[x].record, stored[r])]
    /\ reading' = [reading EXCEPT ![x] = NotReading]
    /\ UNCHANGED <<up, now, runVars, dbVars, snapshot>>

------------------------------------------------------------------------------
(* The environment                                                         *)

CliKilled(r) ==
    /\ owner[r] = "cli" /\ pc[r] \in Active
    /\ pc' = [pc EXCEPT ![r] = "died"]
    /\ UNCHANGED <<up, now, owner, requested, total, results, dbVars, snapshot, readVars>>

\* The operator dies with its runs, its snapshot and what it was reading.
OperatorKilled ==
    /\ up
    /\ up' = FALSE
    /\ pc' = [r \in Runs |-> IF owner[r] = "operator" /\ pc[r] \in Active
                             THEN "died" ELSE pc[r]]
    /\ snapshot' = [outcome |-> "none", run |-> {}]
    /\ reading' = [reading EXCEPT !["status"] = NotReading]
    /\ UNCHANGED <<now, owner, requested, total, results, dbVars, shown>>

OperatorRestarts ==
    /\ ~up
    /\ up' = TRUE
    /\ UNCHANGED <<now, runVars, dbVars, snapshot, readVars>>

ClockTicks ==
    /\ now < MaxTime
    /\ now' = now + 1
    /\ UNCHANGED <<up, runVars, dbVars, snapshot, readVars>>

Next ==
    \/ \E r \in Runs :
          \/ \E who \in {"operator", "cli"}, n \in {0} \cup ChecklistSizes : Begin(r, who, n)
          \/ \E s \in Statuses : Evaluate(r, s)
          \/ RecordRun(r)
          \/ InsertResults(r)
          \/ WriteThrows(r)
          \/ RecordFailure(r)
          \/ FailureUnrecorded(r)
          \/ CliKilled(r)
    \/ TickThrows
    \/ \E x \in Readers : ReadRun(x) \/ ReadNothing(x) \/ ReadResults(x)
    \/ OperatorKilled
    \/ OperatorRestarts
    \/ ClockTicks

Spec == Init /\ [][Next]_vars

------------------------------------------------------------------------------
(* Fairness.  The event loop runs a run's continuations, the kubelet       *)
(* restarts the container, and the status writer's interval comes again    *)
(* and again and does not fail each time.  Nothing is assumed of the API   *)
(* calls of an evaluation, which have no timeout, or of the CLI.           *)

Fairness ==
    /\ \A r \in Runs : WF_vars(owner[r] = "operator" /\ RunContinues(r))
    /\ WF_vars(OperatorRestarts)
    /\ SF_vars(ReadRun("status"))
    /\ SF_vars(ReadResults("status"))

FairSpec == Spec /\ Fairness

------------------------------------------------------------------------------
(* Safety                                                                  *)

\* Stored results belong to a row that says success, and the row's state and
\* totals are those of exactly these results; a failed run has none.
Describes(record, s) ==
    /\ record.state \in Successes
    /\ record.state = "partial" <=> \E i \in DOMAIN s : s[i] = "not-evaluated"
    /\ record.total = Len(s)
    /\ record.totals = buildTotals(s)

ResultsAgreeWithRow ==
    \A r \in Runs : stored[r] # <<>> => Describes(row[r], stored[r])

\* A tick that says success has left a whole run behind, whoever wrote meanwhile.
SuccessfulTickIsStored ==
    snapshot.outcome = "success" =>
        \E r \in Runs : /\ snapshot.run = {r}
                        /\ stored[r] # <<>>
                        /\ row[r].state \in Successes

\* A run in the database is whole for whoever is told that it succeeded.
StoredRunsAreWhole == ResultsAgreeWithRow /\ SuccessfulTickIsStored

\* A summary never mixes runs: the requirements it lists are counted by its
\* totals, and a failed one lists none.  (It may list none although its row says
\* success: the two writes of a run are not one transaction.)
SummaryIsConsistent ==
    \A x \in Readers : shown[x].requirements # <<>> =>
        Describes(shown[x].record, shown[x].requirements)

\* A run that has stored its results, or that is recorded as failed, is not
\* written again.
SettledRunsAreFinal ==
    [][\A r \in Runs : stored[r] # <<>> \/ row[r].state = "failed" =>
          row'[r] = row[r] /\ stored'[r] = stored[r]]_vars

\* A reader is never shown a run older than the one it was shown before.
SummariesMoveForward ==
    [][\A x \in Readers : shown'[x].outcome # "none" =>
          shown'[x].record.completed >= shown[x].record.completed]_vars

\* Neither the database nor what a reader has seen of it is taken back.
RunsMoveForward == SettledRunsAreFinal /\ SummariesMoveForward

------------------------------------------------------------------------------
(* Liveness, under FairSpec                                                *)

\* What a run recorded is published, or something that completed later.
RecordedRunIsPublished ==
    \A t \in 1..MaxTime :
        (\E r \in Runs : row[r].completed >= t) ~> (shown["status"].record.completed >= t)
==============================================================================
