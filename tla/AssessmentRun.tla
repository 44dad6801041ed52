----------------------------- MODULE AssessmentRun -----------------------------
(***************************************************************************)
(* Assessment runs and what the status ConfigMap reports of them.          *)
(* AssessmentRunner.run is executed by the operator (a scheduled tick; two *)
(* ticks can overlap) and by CLI processes that share the database file.   *)
(* A run writes its row in assessments as queued and as running, one       *)
(* assessment_history row per check, and its row again with the totals,    *)
(* without a transaction: it can die or fail between any two writes.  The  *)
(* status writer combines the latest row with the operator's snapshot of   *)
(* its last tick.                                                          *)
(*                                                                         *)
(* Of a check only the status it settles with matters.  The operator runs  *)
(* on one event loop: between the two first writes of a run, and from its  *)
(* last check to the end of the tick, no other callback of it runs.        *)
(***************************************************************************)
EXTENDS Integers, Sequences, FiniteSets

CONSTANTS Runs,       \* run ids
          Outcomes,   \* the check statuses that occur
          MaxChecks,  \* bound: checks a run resolves to
          MaxTime     \* bound: the last instant of the clock

ASSUME AssessmentAssumption ==
    /\ "timeout" \in Outcomes
    /\ Outcomes \subseteq {"passing", "failing", "warning", "skipped", "error", "timeout"}
    /\ MaxChecks \in Nat
    /\ MaxTime \in Nat \ {0}

VARIABLES
    up,         \* the operator process is alive
    now,        \* the clock that stamps requested_at and completed_at
    owner,      \* owner[r]: none, operator or cli
    pc,         \* pc[r]: where run() is
    tally,      \* tally[r]: the counters passed, failed, ... of run()
    total,      \* total[r]: totalChecks of run()
    row,        \* row[r]: the row in assessments, or NoRow
    history,    \* history[r]: the rows in assessment_history, by check
    snapshot,   \* lastRunSnapshot of the operator
    published   \* the assessment summary in the status ConfigMap

runVars == <<owner, pc, tally, total>>
dbVars == <<row, history>>
vars == <<up, now, runVars, dbVars, snapshot, published>>

Owners == {"none", "operator", "cli"}
Steps == {"unused", "queued", "checking", "finishing", "returned", "threw", "died"}
Active == {"queued", "checking", "finishing"}
Settled == {"returned", "threw", "died"}

Tallies == [Outcomes -> 0..MaxChecks]
ZeroTally == [o \in Outcomes |-> 0]
States == {"absent", "queued", "running", "completed", "partial"}

Rows == [state : States, requested : 0..MaxTime, completed : 0..MaxTime,
         total : 0..MaxChecks, tally : Tallies]
NoRow == [state |-> "absent", requested |-> 0, completed |-> 0, total |-> 0,
          tally |-> ZeroTally]

\* What a summary says: at is its completion time, 0 when there is none.
Summary(outcome, at, r, record, checks) ==
    [outcome |-> outcome, at |-> at, run |-> r, state |-> record.state,
     total |-> record.total, tally |-> record.tally, checks |-> checks]
NoSummary == Summary("none", 0, {}, NoRow, <<>>)
FailedSummary(at) == Summary("failed", at, {}, NoRow, <<>>)

\* The results of a run, in the order of its checks, and how many of them are o.
Checks == {s \in Seq(Outcomes) : Len(s) <= MaxChecks}
Occurrences(o, checks) == Cardinality({i \in DOMAIN checks : checks[i] = o})
Summaries == [outcome : {"none", "failed", "success"}, at : 0..MaxTime,
              run : {{}} \cup {{r} : r \in Runs}, state : States,
              total : 0..MaxChecks, tally : Tallies, checks : Checks]

TypeOK ==
    /\ up \in BOOLEAN
    /\ now \in 1..MaxTime
    /\ owner \in [Runs -> Owners]
    /\ pc \in [Runs -> Steps]
    /\ tally \in [Runs -> Tallies]
    /\ total \in [Runs -> 0..MaxChecks]
    /\ row \in [Runs -> Rows]
    /\ history \in [Runs -> Checks]
    /\ snapshot \in Summaries
    /\ published \in Summaries

Init ==
    /\ up = TRUE
    /\ now = 1
    /\ owner = [r \in Runs |-> "none"]
    /\ pc = [r \in Runs |-> "unused"]
    /\ tally = [r \in Runs |-> ZeroTally]
    /\ total = [r \in Runs |-> 0]
    /\ row = [r \in Runs |-> NoRow]
    /\ history = [r \in Runs |-> <<>>]
    /\ snapshot = NoSummary
    /\ published = NoSummary

\* The operator's event loop is free to run a callback.
OperatorFree ==
    up /\ \A r \in Runs : owner[r] = "operator" => pc[r] \notin {"queued", "finishing"}

\* A tick that throws leaves a failed snapshot; a CLI run only exits with 1.
TickFailed(who) == snapshot' = IF who = "operator" THEN FailedSummary(now) ELSE snapshot

------------------------------------------------------------------------------
(* AssessmentRunner.run                                                    *)

\* The run is requested and its row inserted as queued.
Begin(r, who, n) ==
    /\ pc[r] = "unused"
    /\ who = "operator" => OperatorFree
    /\ owner' = [owner EXCEPT ![r] = who]
    /\ pc' = [pc EXCEPT ![r] = "queued"]
    /\ total' = [total EXCEPT ![r] = n]
    /\ row' = [row EXCEPT ![r] = [NoRow EXCEPT !.state = "queued", !.requested = now,
                                               !.total = n]]
    /\ UNCHANGED <<up, now, tally, history, snapshot, published>>

\* The tick or the command throws before or at the first write.
BeginFails(r, who) ==
    /\ pc[r] = "unused"
    /\ who = "operator" => OperatorFree
    /\ owner' = [owner EXCEPT ![r] = who]
    /\ pc' = [pc EXCEPT ![r] = "threw"]
    /\ TickFailed(who)
    /\ UNCHANGED <<up, now, tally, total, dbVars, published>>

\* The row becomes running.
MarkRunning(r) ==
    /\ pc[r] = "queued"
    /\ row' = [row EXCEPT ![r].state = "running"]
    /\ pc' = [pc EXCEPT ![r] = IF total[r] = 0 THEN "finishing" ELSE "checking"]
    /\ UNCHANGED <<up, now, owner, tally, total, history, snapshot, published>>

\* The check that is running settles with o and is counted.
Count(r, o) ==
    /\ pc[r] = "checking"
    /\ owner[r] = "operator" => OperatorFree
    /\ tally' = [tally EXCEPT ![r][o] = @ + 1]
    /\ pc' = [pc EXCEPT ![r] = IF Len(history[r]) + 1 = total[r] THEN "finishing" ELSE @]
    /\ UNCHANGED <<up, now, owner, total, row, snapshot, published>>

\* Mutant: a check whose result cannot be stored is skipped.
CheckSettlesUnstored(r, o) ==
    /\ Count(r, o)
    /\ history' = [history EXCEPT ![r] = IF Len(@) + 1 = total[r] THEN @ ELSE Append(@, o)]

\* The check that is running settles with o; its result is stored.
CheckSettles(r, o) ==
    /\ Count(r, o)
    /\ history' = [history EXCEPT ![r] = Append(@, o)]

\* runCheckWithIsolation: the check answers or throws ...
CheckAnswers(r) == \E o \in Outcomes \ {"timeout"} : CheckSettles(r, o)

\* Mutant: the check is not raced against a timer.
CheckTimesOutNot(r) == pc[r] = "died" /\ CheckSettles(r, "timeout")

\* ... or its timer fires first.
CheckTimesOut(r) == CheckSettles(r, "timeout")

\* Some check settled with one of these statuses.
AnyOf(t, statuses) == \E o \in Outcomes \cap statuses : t[o] > 0

\* computeFinalState, when all checks have settled.
FinalState(t) ==
    IF AnyOf(t, {"error", "timeout"}) /\ AnyOf(t, {"failing", "warning"})
    THEN "partial" ELSE "completed"

\* The final record of run().
FinalRecord(r) ==
    [row[r] EXCEPT !.state = FinalState(tally[r]), !.completed = now, !.tally = tally[r]]

\* The final write, and the snapshot of a tick.
Finish(r) ==
    /\ pc[r] = "finishing"
    /\ row' = [row EXCEPT ![r] = FinalRecord(r)]
    /\ snapshot' = IF owner[r] = "operator"
                   THEN Summary("success", now, {r}, FinalRecord(r), history[r])
                   ELSE snapshot
    /\ pc' = [pc EXCEPT ![r] = "returned"]
    /\ UNCHANGED <<up, now, owner, tally, total, history, published>>

\* The final write succeeds and reading the results back for the snapshot throws.
SummariesThrow(r) ==
    /\ pc[r] = "finishing" /\ owner[r] = "operator"
    /\ row' = [row EXCEPT ![r] = FinalRecord(r)]
    /\ TickFailed(owner[r])
    /\ pc' = [pc EXCEPT ![r] = "threw"]
    /\ UNCHANGED <<up, now, owner, tally, total, history, published>>

\* A later write throws: the run ends where it is.
StorageThrows(r) ==
    /\ pc[r] \in Active
    /\ owner[r] = "operator" /\ pc[r] = "checking" => OperatorFree
    /\ pc' = [pc EXCEPT ![r] = "threw"]
    /\ TickFailed(owner[r])
    /\ UNCHANGED <<up, now, owner, tally, total, dbVars, published>>

------------------------------------------------------------------------------
(* The status                                                              *)

Requested == {r \in Runs : row[r].state # "absent"}

\* The row that ORDER BY requested_at DESC LIMIT 1 returns.
IsLatest(r) == r \in Requested /\ \A q \in Requested : row[q].requested <= row[r].requested

\* Mutant: a row without completed_at counts as completed.
LoadLatestRunning ==
    IF Requested = {} THEN {NoSummary}
    ELSE {Summary("success", row[r].completed, {r}, row[r], history[r]) :
             r \in {q \in Requested : IsLatest(q)}}

\* loadLatestPersistedAssessment: nothing when the latest row is not completed.
LoadLatest ==
    IF Requested = {} THEN {NoSummary}
    ELSE {IF row[r].completed = 0 THEN NoSummary
          ELSE Summary("success", row[r].completed, {r}, row[r], history[r]) :
             r \in {q \in Requested : IsLatest(q)}}

\* Mutant: a failed tick is reported only when nothing is stored.
NewerIgnoringFailed(snap, db) ==
    IF db.outcome = "success" /\ (db.at >= snap.at \/ snap.outcome = "failed") THEN db ELSE snap

\* buildAssessmentStatusSummary: the newer one; a failed tick wins a tie.
Newer(snap, db) ==
    IF snap.outcome = "failed" /\ snap.at >= db.at THEN snap
    ELSE IF db.outcome = "success" /\ db.at >= snap.at THEN db
    ELSE snap

\* The status writer publishes a summary.
Publish ==
    /\ OperatorFree
    /\ \E db \in LoadLatest : published' = Newer(snapshot, db)
    /\ UNCHANGED <<up, now, runVars, dbVars, snapshot>>

------------------------------------------------------------------------------
(* The environment                                                         *)

CliKilled(r) ==
    /\ owner[r] = "cli" /\ pc[r] \in Active
    /\ pc' = [pc EXCEPT ![r] = "died"]
    /\ UNCHANGED <<up, now, owner, tally, total, dbVars, snapshot, published>>

\* The operator dies with its runs and its snapshot.
OperatorKilled ==
    /\ up
    /\ up' = FALSE
    /\ pc' = [r \in Runs |-> IF owner[r] = "operator" /\ pc[r] \in Active
                             THEN "died" ELSE pc[r]]
    /\ snapshot' = NoSummary
    /\ UNCHANGED <<now, owner, tally, total, dbVars, published>>

OperatorRestarts ==
    /\ ~up
    /\ up' = TRUE
    /\ UNCHANGED <<now, runVars, dbVars, snapshot, published>>

ClockTicks ==
    /\ now < MaxTime
    /\ now' = now + 1
    /\ UNCHANGED <<up, runVars, dbVars, snapshot, published>>

Next ==
    \/ \E r \in Runs :
          \/ \E who \in {"operator", "cli"} :
                \/ \E n \in 0..MaxChecks : Begin(r, who, n)
                \/ BeginFails(r, who)
          \/ MarkRunning(r)
          \/ CheckAnswers(r)
          \/ CheckTimesOut(r)
          \/ Finish(r)
          \/ SummariesThrow(r)
          \/ StorageThrows(r)
          \/ CliKilled(r)
    \/ Publish
    \/ OperatorKilled
    \/ OperatorRestarts
    \/ ClockTicks

Spec == Init /\ [][Next]_vars

------------------------------------------------------------------------------
(* Fairness.  The event loop runs the continuations and the check timers   *)
(* and publishes again and again; nothing is assumed of the checks         *)
(* themselves, which may never answer, or of the clock and the requests.   *)

Fairness ==
    /\ \A r \in Runs : /\ WF_vars(MarkRunning(r))
                       /\ WF_vars(CheckTimesOut(r))
                       /\ WF_vars(Finish(r))
    /\ WF_vars(Publish)

FairSpec == Spec /\ Fairness

------------------------------------------------------------------------------
(* Safety                                                                  *)

\* "All completed check results persisted before run marked complete": a row
\* with a completion time has one result per check, and totals that count them.
CompletedRunsAreWhole ==
    \A r \in Runs : row[r].completed # 0 =>
        /\ Len(history[r]) = row[r].total
        /\ \A o \in Outcomes : row[r].tally[o] = Occurrences(o, history[r])

\* A published success is a run that did complete, with the totals and the
\* results the database still holds for it, whoever made it and whoever died since.
IsStored(s) ==
    s.outcome = "success" =>
        \E r \in Runs : /\ s.run = {r}
                        /\ row[r].completed = s.at /\ row[r].completed # 0
                        /\ s.total = row[r].total
                        /\ s.tally = row[r].tally
                        /\ s.checks = history[r]

PublishedRunIsStored == IsStored(published)

\* What a completed row says is true from its completion on, for ever: no step
\* leaves one that is not whole, or writes one, or its results, again.
CompletedRunsHold ==
    [][/\ CompletedRunsAreWhole'
       /\ \A r \in Runs : row[r].completed # 0 =>
             row'[r] = row[r] /\ history'[r] = history[r]]_vars

\* What the operator publishes is never older than the outcome of its own last
\* tick; in particular a failed tick is not hidden behind an older success.
PublishedNotOlderThanTick ==
    [][published' # published => published'.at >= snapshot.at]_vars

------------------------------------------------------------------------------
(* Liveness, under FairSpec                                                *)

\* A run whose checks never answer ends all the same.
RunsSettle == \A r \in Runs : pc[r] \in Active ~> pc[r] \in Settled

\* The outcome of a tick reaches the ConfigMap, unless the operator dies first.
TicksArePublished ==
    \A t \in 1..MaxTime :
        (snapshot.at = t) ~> (published.at >= t \/ snapshot.outcome = "none")

\* A run ends and its outcome is seen, whatever the checks do.
RunsReachTheStatus == RunsSettle /\ TicksArePublished
==============================================================================
