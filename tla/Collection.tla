------------------------------ MODULE Collection ------------------------------
(***************************************************************************)
(* The collection system of the operator: the configured intervals, the    *)
(* CollectionScheduler with its timers, the executions it starts, the      *)
(* LocalStorage of payloads and the statistics that the final status       *)
(* reports.                                                                *)
(*                                                                         *)
(* A task's timers are those of Node.js: one that is due fires some time   *)
(* later, and a delay that does not fit in 31 bits is cut to one unit.     *)
(* Nothing keeps an execution from starting while an earlier one of its    *)
(* task still waits for the API server, so executions overlap and end in   *)
(* any order.  Each has a fresh random collection id, so the execution     *)
(* stands for its payload.  What the payload holds, and which collections  *)
(* can fail validation, is in Collectors.                                  *)
(***************************************************************************)
EXTENDS Integers, Sequences, FiniteSets, SequencesExt, FiniteSetsExt, Sums

CONSTANTS Tasks,          \* collection types
          Optional,       \* those that the configuration can switch off
          Storing,        \* those whose payload goes to LocalStorage
          Swallowing,     \* those whose processCollection does not rethrow
          Outcomes,       \* Outcomes[t]: ok, error or invalid
          EnvIntervals,   \* intervals that the environment can ask for
          ConfigMin,      \* ConfigMin[t]: what loadConfig accepts at least
          MinInterval,    \* MinInterval[t]: the minimum given to register
          Hash,           \* Hash[t]: the number made of the type's SHA-256
          OffsetRange,    \* OffsetRange[t]
          MaxTimer,       \* the longest delay a timer takes: 2^31 - 1 ms
          MaxCollections, \* capacity of LocalStorage
          MaxRuns,        \* bound: executions
          MaxTime         \* bound: the clock

ASSUME CollectionAssumption ==
    /\ IsFiniteSet(Tasks)
    /\ Optional \subseteq Tasks
    /\ Swallowing \subseteq Storing
    /\ Storing \subseteq Tasks
    /\ Outcomes \in [Tasks -> SUBSET {"ok", "error", "invalid"}]
    /\ EnvIntervals \subseteq Int
    /\ ConfigMin \in [Tasks -> Nat \ {0}]
    /\ MinInterval \in [Tasks -> Nat \ {0}]
    /\ Hash \in [Tasks -> Nat]
    /\ OffsetRange \in [Tasks -> Nat \ {0}]
    /\ MaxTimer \in Nat \ {0}
    /\ MaxCollections \in Nat \ {0}
    /\ MaxRuns \in Nat
    /\ MaxTime \in Nat

\* What Collectors shows of the collectors that do not rethrow: all they build
\* passes its validation.
ASSUME SwallowedAssumption == \A t \in Swallowing : "invalid" \notin Outcomes[t]

\* The intervals fit a timer.  The loader does not check it.
IntervalsFit == /\ \A i \in EnvIntervals : i <= MaxTimer
                /\ \A t \in Tasks : MinInterval[t] <= MaxTimer

VARIABLES
    phase,        \* boot, configured, running, flushing, stopped, final, exited
    env,          \* the intervals in the environment
    enabled,      \* the tasks that the configuration registers
    now,          \* the clock
    interval,     \* CollectionTask.intervalSeconds
    offsetDue,    \* when offsetTimeout is due, or Off
    intervalDue,  \* when intervalTimer is due next, or Off
    started,      \* how many executions have started: they are 1..started
    run,          \* run[r]: its task, state and times
    order,        \* LocalStorage.order, most recent first
    ids,          \* the keys of LocalStorage.storage
    storedCount,  \* CollectionStatsTracker.collectionsStoredCount
    stats,        \* CollectionStatsTracker.stats
    finalStats,   \* the statistics in the final status, or none
    log           \* history: all payloads ever stored, in order

clockVars == <<env, enabled, now>>
timerVars == <<interval, offsetDue, intervalDue>>
runVars == <<started, run>>
storeVars == <<order, ids, storedCount, log>>
vars == <<phase, clockVars, timerVars, runVars, storeVars, stats, finalStats>>

Off == -1
Never == -1
Phases == {"boot", "configured", "running", "flushing", "stopped", "final", "exited"}
Alive == Phases \ {"exited"}
RunIds == 1..MaxRuns
Unused == [task |-> "none", state |-> "unused", at |-> 0]
Zero == [success |-> 0, failure |-> 0, last |-> Never]
NoStats == [byType |-> [t \in Tasks |-> Zero], stored |-> 0]

Stats == [success : Nat, failure : Nat, last : Nat \cup {Never}]
Runs == [task : Tasks, state : {"collecting", "counted"}, at : Nat] \cup {Unused}

TypeOK ==
    /\ phase \in Phases
    /\ env \in [Tasks -> EnvIntervals]
    /\ enabled \in SUBSET Tasks
    /\ now \in Nat
    /\ interval \in [Tasks -> Int]
    /\ offsetDue \in [Tasks -> Int]
    /\ intervalDue \in [Tasks -> Int]
    /\ started \in 0..MaxRuns
    /\ run \in [RunIds -> Runs]
    /\ order \in Seq(RunIds)
    /\ ids \in SUBSET RunIds
    /\ storedCount \in Nat
    /\ stats \in [Tasks -> Stats]
    /\ finalStats \in [byType : [Tasks -> Stats], stored : Nat]
    /\ log \in Seq(RunIds)

Init ==
    /\ phase = "boot"
    /\ env \in [Tasks -> EnvIntervals]
    /\ enabled \in {S \in SUBSET Tasks : Tasks \ Optional \subseteq S}
    /\ now = 0
    /\ interval = [t \in Tasks |-> 0]
    /\ offsetDue = [t \in Tasks |-> Off]
    /\ intervalDue = [t \in Tasks |-> Off]
    /\ started = 0
    /\ run = [r \in RunIds |-> Unused]
    /\ order = <<>>
    /\ ids = {}
    /\ storedCount = 0
    /\ stats = [t \in Tasks |-> Zero]
    /\ finalStats = NoStats
    /\ log = <<>>

-----------------------------------------------------------------------------
(* Timers.                                                                 *)

\* setTimeout and setInterval: a delay under 1 or over MaxTimer becomes 1.
Delay(d) == IF d \in 1..MaxTimer THEN d ELSE 1

\* generateOffset.
Offset(t) == Hash[t] % OffsetRange[t]

\* Mutant: the minimum is not enforced.
EffectiveUnchecked(t) == env[t]

\* The interval that register stores.
Effective(t) == IF env[t] < MinInterval[t] THEN MinInterval[t] ELSE env[t]

\* parsePositiveInt.
Accepts(t) == env[t] >= ConfigMin[t]

\* loadConfig throws for an interval under its minimum, or for another setting
\* that is not valid, and the process exits.
LoadConfig ==
    /\ phase = "boot"
    /\ \/ phase' = "configured" /\ \A t \in Tasks : Accepts(t)
       \/ phase' = "exited"
    /\ UNCHANGED <<clockVars, timerVars, runVars, storeVars, stats, finalStats>>

\* startOperator registers the enabled tasks and starts the scheduler, all in
\* one turn of the event loop.
StartScheduler ==
    /\ phase = "configured"
    /\ phase' = "running"
    /\ interval' = [t \in Tasks |-> IF t \in enabled THEN Effective(t) ELSE 0]
    /\ offsetDue' = [t \in Tasks |->
                        IF t \in enabled THEN now + Delay(Offset(t)) ELSE Off]
    /\ UNCHANGED <<clockVars, intervalDue, runVars, storeVars, stats, finalStats>>

\* The set-up of the collection system throws: the operator goes on without it.
CollectionUnavailable ==
    /\ phase = "configured"
    /\ phase' = "running"
    /\ UNCHANGED <<clockVars, timerVars, runVars, storeVars, stats, finalStats>>

\* executeCollection, up to the callback's first await.
Execute(t) ==
    /\ started < MaxRuns
    /\ started' = started + 1
    /\ run' = [run EXCEPT ![started + 1] =
                 [task |-> t, state |-> "collecting", at |-> now]]

OffsetFires(t) ==
    /\ phase \in Alive
    /\ offsetDue[t] # Off
    /\ offsetDue[t] <= now
    /\ offsetDue' = [offsetDue EXCEPT ![t] = Off]
    /\ Execute(t)
    /\ intervalDue' = [intervalDue EXCEPT ![t] = now + Delay(interval[t])]
    /\ UNCHANGED <<phase, clockVars, interval, storeVars, stats, finalStats>>

IntervalFires(t) ==
    /\ phase \in Alive
    /\ intervalDue[t] # Off
    /\ intervalDue[t] <= now
    /\ Execute(t)
    /\ intervalDue' = [intervalDue EXCEPT ![t] = now + Delay(interval[t])]
    /\ UNCHANGED <<phase, clockVars, interval, offsetDue, storeVars, stats, finalStats>>

-----------------------------------------------------------------------------
(* The end of an execution: what the registered callback does with the     *)
(* outcome of its collector.                                               *)

\* Mutant: what ends during the shutdown is dropped.
CollectingUntilSignal(r) == /\ phase = "running"
                            /\ run[r].state = "collecting"

Collecting(r) == /\ phase \in Alive
                 /\ run[r].state = "collecting"

Settled(r) == run' = [run EXCEPT ![r].state = "counted"]

RecordSuccess(t) ==
    stats' = [stats EXCEPT ![t] = [success |-> @.success + 1,
                                   failure |-> @.failure, last |-> now]]

RecordFailure(t) == stats' = [stats EXCEPT ![t].failure = @ + 1]

\* LocalStorage.store: a payload whose id is there is replaced, the new one
\* goes to the front, and the last one is dropped when there are too many.
WithoutId(r) ==
    IF r \in ids THEN RemoveAt(order, SelectInSeq(order, LAMBDA o : o = r)) ELSE order

Push(r, kept) == [i \in 1..Len(kept) + 1 |-> IF i = 1 THEN r ELSE kept[i - 1]]

\* Mutants: the dropped payload stays in the map; the dropped ones are counted.
StoreLeaks(r) ==
    LET front == Push(r, WithoutId(r))
    IN  /\ order' = IF Len(front) > MaxCollections THEN Front(front) ELSE front
        /\ ids' = ids \cup {r}
        /\ storedCount' = Len(order')
        /\ log' = Append(log, r)

StoreCountsDropped(r) ==
    LET front == Push(r, WithoutId(r))
        full  == Len(front) > MaxCollections
    IN  /\ order' = IF full THEN Front(front) ELSE front
        /\ ids' = (ids \cup {r}) \ (IF full THEN {Last(front)} ELSE {})
        /\ storedCount' = Len(front) - MaxCollections
        /\ log' = Append(log, r)

Store(r) ==
    LET front == Push(r, WithoutId(r))
        full  == Len(front) > MaxCollections
    IN  /\ order' = IF full THEN Front(front) ELSE front
        /\ ids' = (ids \cup {r}) \ (IF full THEN {Last(front)} ELSE {})
        /\ storedCount' = Len(order')
        /\ log' = Append(log, r)

StorePayload(r) ==
    /\ Collecting(r)
    /\ run[r].task \in Storing
    /\ "ok" \in Outcomes[run[r].task]
    /\ Store(r)
    /\ RecordSuccess(run[r].task)
    /\ Settled(r)
    /\ UNCHANGED <<phase, clockVars, timerVars, started, finalStats>>

\* The callback of a task that keeps no payload here succeeds.
TaskSucceeds(r) ==
    /\ Collecting(r)
    /\ run[r].task \notin Storing
    /\ "ok" \in Outcomes[run[r].task]
    /\ RecordSuccess(run[r].task)
    /\ Settled(r)
    /\ UNCHANGED <<phase, clockVars, timerVars, started, storeVars, finalStats>>

\* collect throws, or the tick reports failed.
TaskFails(r) ==
    /\ Collecting(r)
    /\ "error" \in Outcomes[run[r].task]
    /\ RecordFailure(run[r].task)
    /\ Settled(r)
    /\ UNCHANGED <<phase, clockVars, timerVars, started, storeVars, finalStats>>

\* Mutant: every callback hides it.
PayloadInvalidHidden(r) ==
    /\ Collecting(r)
    /\ "invalid" \in Outcomes[run[r].task]
    /\ RecordSuccess(run[r].task)
    /\ Settled(r)
    /\ UNCHANGED <<phase, clockVars, timerVars, started, storeVars, finalStats>>

\* processCollection throws: some collectors hide it from the callback.
PayloadInvalid(r) ==
    /\ Collecting(r)
    /\ "invalid" \in Outcomes[run[r].task]
    /\ IF run[r].task \in Swallowing
       THEN RecordSuccess(run[r].task)
       ELSE RecordFailure(run[r].task)
    /\ Settled(r)
    /\ UNCHANGED <<phase, clockVars, timerVars, started, storeVars, finalStats>>

-----------------------------------------------------------------------------
(* Shutdown.                                                               *)

\* The scheduler goes on while the event queue is flushed.
Signal ==
    /\ phase = "running"
    /\ phase' = "flushing"
    /\ UNCHANGED <<clockVars, timerVars, runVars, storeVars, stats, finalStats>>

\* Mutant: the intervals are left.
StopSchedulerLeaves ==
    /\ phase = "flushing"
    /\ phase' = "stopped"
    /\ offsetDue' = [t \in Tasks |-> Off]
    /\ UNCHANGED <<clockVars, interval, intervalDue, runVars, storeVars, stats, finalStats>>

\* CollectionScheduler.stop.
StopScheduler ==
    /\ phase = "flushing"
    /\ phase' = "stopped"
    /\ offsetDue' = [t \in Tasks |-> Off]
    /\ intervalDue' = [t \in Tasks |-> Off]
    /\ UNCHANGED <<clockVars, interval, runVars, storeVars, stats, finalStats>>

\* getStats over a copy of the statistics by type: the total of the successes,
\* and the latest of the last ones.
TotalSuccess(byType) == SumOf([t \in Tasks |-> byType[t].success])
LastSuccess(byType) == Max({byType[t].last : t \in Tasks} \cup {Never})

\* gracefulShutdown builds the final status (StatusWriter reads the same numbers).
WriteFinalStatus ==
    /\ phase = "stopped"
    /\ phase' = "final"
    /\ finalStats' = [byType |-> stats, stored |-> storedCount]
    /\ UNCHANGED <<clockVars, timerVars, runVars, storeVars, stats>>

\* The process ends: after the final status, at the shutdown's time-out, or
\* killed.
Exit ==
    /\ phase \in Alive
    /\ phase' = "exited"
    /\ UNCHANGED <<clockVars, timerVars, runVars, storeVars, stats, finalStats>>

\* The clock counts from the start of the scheduler.
Tick ==
    /\ phase \in Alive \ {"boot", "configured"}
    /\ now < MaxTime
    /\ now' = now + 1
    /\ UNCHANGED <<phase, env, enabled, timerVars, runVars, storeVars, stats, finalStats>>

Finish(r) == \/ StorePayload(r)
             \/ TaskSucceeds(r)
             \/ TaskFails(r)
             \/ PayloadInvalid(r)

Fires(t) == OffsetFires(t) \/ IntervalFires(t)

Next ==
    \/ LoadConfig
    \/ StartScheduler
    \/ CollectionUnavailable
    \/ \E t \in Tasks : OffsetFires(t) \/ IntervalFires(t)
    \/ \E r \in RunIds : \/ StorePayload(r)
                         \/ TaskSucceeds(r)
                         \/ TaskFails(r)
                         \/ PayloadInvalid(r)
    \/ Signal
    \/ StopScheduler
    \/ WriteFinalStatus
    \/ Exit
    \/ Tick

\* Time passes, a due timer fires, an API call answers.
Fairness ==
    /\ WF_vars(Tick)
    /\ \A t \in Tasks : WF_vars(Fires(t))
    /\ \A r \in RunIds : WF_vars(Finish(r))

Spec == Init /\ [][Next]_vars /\ Fairness
-----------------------------------------------------------------------------
(* Properties.                                                             *)

Counted(t) == {r \in 1..started : run[r].task = t /\ run[r].state = "counted"}
Min2(a, b) == IF a < b THEN a ELSE b

\* The last n elements of s, the latest first.
Newest(s, n) == [i \in 1..Min2(Len(s), n) |-> s[Len(s) + 1 - i]]

\* LocalStorage holds the MaxCollections payloads stored last, the latest
\* first, in whatever order overlapping executions end; its map has the same
\* payloads as its list and the reported count is theirs.
StorageKeepsNewest ==
    /\ order = Newest(log, MaxCollections)
    /\ ids = {order[i] : i \in DOMAIN order}
    /\ storedCount = Len(order)

\* Every execution that ended was counted once, under its task.
EachRunIsCounted ==
    \A t \in Tasks : stats[t].success + stats[t].failure = Cardinality(Counted(t))

\* A success of a collector is a payload that was stored: a callback that
\* cannot see the failure of its processCollection does not report success.
SuccessIsStored ==
    \A t \in Storing :
        stats[t].success = Cardinality({r \in Counted(t) : \E i \in DOMAIN log : log[i] = r})

\* The final status reports no more payloads in store than successes, and a
\* last success exactly when there was one.
FinalStatsCohere ==
    phase = "final" =>
        /\ finalStats.stored <= Min2(TotalSuccess(finalStats.byType), MaxCollections)
        /\ LastSuccess(finalStats.byType) = Never <=> TotalSuccess(finalStats.byType) = 0

\* The statistics, and what the final status makes of them, are true of the
\* executions, however they overlap.
CountsAddUp == EachRunIsCounted /\ SuccessIsStored /\ FinalStatsCohere

\* Two executions of a task start at least its minimum interval apart, what-
\* ever the environment asks for and however late timers fire.
StartsAreSpaced ==
    \A r, s \in 1..started :
        (r < s /\ run[r].task = run[s].task) =>
            run[s].at - run[r].at >= MinInterval[run[r].task]

\* After CollectionScheduler.stop no execution starts any more, while those
\* that are under way go on.
NothingStartsAfterStop ==
    [][(phase \in {"stopped", "final", "exited"}) => (started' = started)]_vars

\* A task that was scheduled runs, and an execution that started is counted,
\* unless the process is stopped first.
TasksRunAndSettle ==
    /\ \A t \in Tasks :
         offsetDue[t] # Off ~> \/ \E r \in RunIds : run[r].task = t
                              \/ phase \in {"stopped", "final", "exited"}
    /\ \A r \in RunIds :
         run[r].state = "collecting" ~> run[r].state = "counted" \/ phase = "exited"
=============================================================================
