-------------------------- MODULE Collection_proofs --------------------------
(***************************************************************************)
(* For any set of tasks, any configuration whose intervals fit a timer and *)
(* any number of overlapping executions: LocalStorage holds the payloads   *)
(* stored last, every execution is counted once, the executions of a task  *)
(* start at least its minimum interval apart, and nothing starts once the  *)
(* scheduler is stopped.                                                   *)
(***************************************************************************)
EXTENDS Collection, Sums_proofs

\* Runs 1..started are those of tasks, the others are not used yet.
RunsOK == \A r \in RunIds : IF r <= started THEN run[r].task \in Tasks /\ run[r].state # "unused"
                                            ELSE run[r] = Unused

\* Before the scheduler starts, nothing is scheduled and nothing has run.
IdleOK == phase \in {"boot", "configured"} =>
              /\ started = 0
              /\ \A t \in Tasks : offsetDue[t] = Off /\ intervalDue[t] = Off

StoppedOK == phase \in {"stopped", "final"} =>
                 \A t \in Tasks : offsetDue[t] = Off /\ intervalDue[t] = Off

\* A task with a timer has an interval that is long enough and fits a timer.
IntervalOK(t) ==
    (offsetDue[t] # Off \/ intervalDue[t] # Off) =>
        interval[t] \in MinInterval[t]..MaxTimer

\* While the offset runs there is no execution; the interval is not due
\* before the last execution plus the minimum.
DueOK(t) ==
    /\ offsetDue[t] # Off => /\ intervalDue[t] = Off
                             /\ \A r \in 1..started : run[r].task # t
    /\ intervalDue[t] # Off =>
         \A r \in 1..started : run[r].task = t =>
             run[r].at + MinInterval[t] <= intervalDue[t]

TimersOK == \A t \in Tasks : IntervalOK(t) /\ DueOK(t)

\* A stored payload is that of an execution that was counted, stored once.
LogOK ==
    /\ \A i \in DOMAIN log : log[i] \in 1..started /\ run[log[i]].state = "counted"
    /\ \A i, j \in DOMAIN log : i # j => log[i] # log[j]

TypesInv == TypeOK /\ RunsOK
StorageInv == TypesInv /\ LogOK /\ StorageKeepsNewest
TimerInv == TypesInv /\ IdleOK /\ StoppedOK /\ TimersOK /\ StartsAreSpaced

-----------------------------------------------------------------------------
(* Types                                                                   *)

LEMMA Constants ==
    /\ \A t \in Tasks : /\ MinInterval[t] \in Nat \ {0}
                        /\ Offset(t) \in Nat
                        /\ Outcomes[t] \subseteq {"ok", "error", "invalid"}
    /\ \A d \in Int : Delay(d) \in Nat \ {0}
    /\ EnvIntervals \subseteq Int
    /\ MaxCollections \in Nat \ {0} /\ MaxRuns \in Nat
<1>1. \A t \in Tasks : Offset(t) \in Nat
  <2> TAKE t \in Tasks
  <2>1. Hash[t] \in Nat /\ OffsetRange[t] \in Nat \ {0}
    BY CollectionAssumption
  <2> QED BY <2>1 DEF Offset
<1> QED BY <1>1, CollectionAssumption DEF Delay

\* An execution that starts takes the next number.
LEMMA ExecuteKeepsTypes ==
    ASSUME TypesInv, NEW t \in Tasks, Execute(t)
    PROVE  /\ started' \in 0..MaxRuns
           /\ run' \in [RunIds -> Runs]
           /\ RunsOK'
           /\ started + 1 \in RunIds /\ started' = started + 1
           /\ run'[started + 1] = [task |-> t, state |-> "collecting", at |-> now]
           /\ \A r \in 1..started : r \in RunIds /\ run'[r] = run[r]
<1>1. started \in 0..MaxRuns /\ started < MaxRuns /\ MaxRuns \in Nat /\ now \in Nat
      /\ run \in [RunIds -> Runs] /\ started + 1 \in RunIds /\ started' = started + 1
  BY Constants DEF TypesInv, TypeOK, Execute, RunIds
<1> DEFINE first == [task |-> t, state |-> "collecting", at |-> now]
<1>2. first \in Runs
  BY <1>1 DEF Runs
<1>3. run' = [run EXCEPT ![started + 1] = first]
  BY DEF Execute
<1>4. /\ run' \in [RunIds -> Runs]
      /\ run'[started + 1] = first
      /\ \A r \in RunIds : r # started + 1 => run'[r] = run[r]
  BY <1>1, <1>2, <1>3
<1>5. RunsOK'
  BY <1>1, <1>4 DEF TypesInv, RunsOK, RunIds
<1>6. \A r \in 1..started : r \in RunIds /\ r # started + 1
  BY <1>1 DEF RunIds
<1> QED BY <1>1, <1>4, <1>5, <1>6

\* An execution that ends has a task, and changes only its state.
LEMMA SettledKeepsTypes ==
    ASSUME TypesInv, NEW r \in RunIds, Collecting(r), Settled(r), UNCHANGED started
    PROVE  /\ r \in 1..started /\ run[r].task \in Tasks
           /\ run' \in [RunIds -> Runs]
           /\ RunsOK'
           /\ run'[r].state = "counted"
           /\ \A s \in RunIds : /\ run'[s].task = run[s].task /\ run'[s].at = run[s].at
                                /\ s # r => run'[s] = run[s]
<1>1. run[r].state = "collecting" /\ run[r] # Unused /\ r <= started
  BY DEF TypesInv, TypeOK, RunsOK, Collecting, Unused
<1>2. run[r] \in [task : Tasks, state : {"collecting", "counted"}, at : Nat]
  BY <1>1 DEF TypesInv, TypeOK, Runs
<1>3. run'[r] = [run[r] EXCEPT !.state = "counted"] /\ \A s \in RunIds : s # r => run'[s] = run[s]
  BY DEF Settled, TypesInv, TypeOK
<1>4. run'[r] = [task |-> run[r].task, state |-> "counted", at |-> run[r].at]
  BY <1>2, <1>3
<1>5. run' \in [RunIds -> Runs]
  BY <1>2, <1>3, <1>4 DEF TypesInv, TypeOK, Settled, Runs
<1> QED BY <1>1, <1>2, <1>3, <1>4, <1>5 DEF TypesInv, RunsOK, RunIds, Unused

\* Counting an outcome keeps the statistics well formed.
LEMMA RecordKeepsTypes ==
    ASSUME TypeOK, NEW t \in Tasks, RecordSuccess(t) \/ RecordFailure(t)
    PROVE  stats' \in [Tasks -> Stats]
<1>1. stats[t].success \in Nat /\ stats[t].failure \in Nat
      /\ stats[t].last \in Nat \cup {Never} /\ now \in Nat
  BY DEF TypeOK, Stats
<1>2. CASE RecordSuccess(t)
  <2>1. [success |-> stats[t].success + 1, failure |-> stats[t].failure, last |-> now] \in Stats
    BY <1>1 DEF Stats
  <2> QED BY <1>2, <2>1 DEF TypeOK, RecordSuccess
<1>3. CASE RecordFailure(t)
  <2>1. stats[t] \in Stats
    BY DEF TypeOK
  <2>2. [stats[t] EXCEPT !.failure = @ + 1] \in Stats
    BY <2>1 DEF Stats
  <2> QED BY <1>3, <2>2 DEF TypeOK, RecordFailure
<1> QED BY <1>2, <1>3

-----------------------------------------------------------------------------
(* Storage                                                                 *)

LEMMA NewestIsSeq ==
    ASSUME NEW s \in Seq(RunIds)
    PROVE  /\ Newest(s, MaxCollections) \in Seq(RunIds)
           /\ Len(Newest(s, MaxCollections)) = Min2(Len(s), MaxCollections)
           /\ \A i \in 1..Min2(Len(s), MaxCollections) :
                 /\ Newest(s, MaxCollections)[i] = s[Len(s) + 1 - i]
                 /\ Len(s) + 1 - i \in DOMAIN s
<1>1. MaxCollections \in Nat \ {0} /\ Len(s) \in Nat /\ DOMAIN s = 1..Len(s)
  BY Constants
<1>2. Min2(Len(s), MaxCollections) \in Nat /\ Min2(Len(s), MaxCollections) <= Len(s)
  BY <1>1 DEF Min2
<1>3. \A i \in 1..Min2(Len(s), MaxCollections) : s[Len(s) + 1 - i] \in RunIds /\ Len(s) + 1 - i \in DOMAIN s
  BY <1>1, <1>2
<1> QED BY <1>2, <1>3 DEF Newest

\* A payload that is stored is new, goes to the front, and takes the place of
\* the oldest one when the storage is full.
LEMMA StoreKeepsNewest ==
    ASSUME StorageInv, NEW r \in RunIds, run[r].state = "collecting", Store(r)
    PROVE  /\ StorageKeepsNewest'
           /\ log' = Append(log, r) /\ log' \in Seq(RunIds)
           /\ order' \in Seq(RunIds)
           /\ ids' \in SUBSET RunIds
           /\ storedCount' \in Nat
           /\ \A i \in DOMAIN log : log[i] # r
<1> DEFINE M == MaxCollections
           n == Len(log)
           k == Len(order)
           front == Push(r, order)
<1>1. /\ log \in Seq(RunIds) /\ order \in Seq(RunIds) /\ n \in Nat /\ M \in Nat \ {0}
      /\ order = Newest(log, M) /\ ids = {order[i] : i \in DOMAIN order}
  BY Constants DEF StorageInv, TypesInv, TypeOK, StorageKeepsNewest
<1>2. /\ k = Min2(n, M) /\ k \in Nat /\ DOMAIN order = 1..k
      /\ \A i \in 1..k : order[i] = log[n + 1 - i] /\ n + 1 - i \in DOMAIN log
  <2>1. /\ Newest(log, M) \in Seq(RunIds) /\ Len(Newest(log, M)) = Min2(n, M)
        /\ \A i \in 1..Min2(n, M) : /\ Newest(log, M)[i] = log[n + 1 - i]
                                    /\ n + 1 - i \in DOMAIN log
    BY <1>1, NewestIsSeq
  <2>2. k = Min2(n, M) /\ Min2(n, M) \in Nat
    BY <2>1, <1>1 DEF Min2
  <2>3. DOMAIN order = 1..k
    BY <1>1
  <2> HIDE DEF k, n, M
  <2> QED BY <2>1, <2>2, <2>3, <1>1
<1>3. \A i \in DOMAIN log : log[i] # r
  BY DEF StorageInv, LogOK
<1>4. r \notin ids /\ WithoutId(r) = order
  BY <1>1, <1>2, <1>3 DEF WithoutId
<1>0. k = Len(order) /\ n = Len(log) /\ M = MaxCollections /\ front = Push(r, order)
  OBVIOUS
<1> HIDE DEF k, n, M, front
<1>5. /\ front \in Seq(RunIds) /\ Len(front) = k + 1 /\ DOMAIN front = 1..k+1
      /\ front[1] = r /\ \A i \in 1..k : front[i + 1] = order[i]
      /\ \A i \in 2..k+1 : front[i] = log[n + 2 - i]
  <2>1. \A i \in 1..k+1 : (IF i = 1 THEN r ELSE order[i - 1]) \in RunIds
    BY <1>1, <1>2
  <2>2. front = [i \in 1..k+1 |-> IF i = 1 THEN r ELSE order[i - 1]]
    BY <1>0 DEF Push
  <2>3. front \in Seq(RunIds) /\ Len(front) = k + 1 /\ DOMAIN front = 1..k+1
    BY <2>1, <2>2, <1>2
  <2>4. \A i \in 2..k+1 : i - 1 \in 1..k /\ front[i] = order[i - 1] /\ n + 1 - (i - 1) = n + 2 - i
    BY <2>2, <1>2, <1>1
  <2>5. \A i \in 1..k : i + 1 \in 2..k+1 /\ (i + 1) - 1 = i
    BY <1>2
  <2>6. front[1] = r
    BY <2>2, <1>2
  <2>7. \A i \in 2..k+1 : front[i] = log[n + 2 - i]
    <3> TAKE i \in 2..k+1
    <3>1. order[i - 1] = log[n + 1 - (i - 1)]
      BY <2>4, <1>2
    <3> QED BY <3>1, <2>4
  <2> QED BY <2>3, <2>4, <2>5, <2>6, <2>7
<1>6. /\ log' = Append(log, r) /\ log' \in Seq(RunIds) /\ Len(log') = n + 1
      /\ log'[n + 1] = r /\ \A i \in 1..n : log'[i] = log[i]
  BY <1>0, <1>1 DEF Store
<1>7. \A i \in 1..k+1 : front[i] = log'[n + 2 - i]
  <2> TAKE i \in 1..k+1
  <2>1. CASE i = 1
    BY <2>1, <1>5, <1>6, <1>1
  <2>2. CASE i # 1
    <3>1. i \in 2..k+1 /\ n + 2 - i \in 1..n
      BY <2>2, <1>1, <1>2 DEF Min2
    <3> QED BY <3>1, <1>5, <1>6
  <2> QED BY <2>1, <2>2
<1>8. CASE k + 1 <= M
  <2>1. order' = front /\ ids' = ids \cup {r} /\ storedCount' = k + 1
    BY <1>0, <1>1, <1>4, <1>5, <1>8, <1>2 DEF Store
  <2>2. Min2(n + 1, M) = k + 1
    BY <1>1, <1>2, <1>8 DEF Min2
  <2>3. order' = Newest(log', M)
    <3>1. \A i \in 1..k+1 : front[i] = log'[Len(log') + 1 - i]
      BY <1>1, <1>2, <1>6, <1>7
    <3>2. front = [i \in 1..k+1 |-> front[i]]
      BY <1>5
    <3>3. Newest(log', M) = [i \in 1..k+1 |-> log'[Len(log') + 1 - i]]
      BY <2>2, <1>6 DEF Newest
    <3> QED BY <3>1, <3>2, <3>3, <2>1
  <2>4. ids' = {front[i] : i \in 1..k+1}
    <3>1. \A i \in 1..k+1 : i = 1 \/ (i - 1 \in 1..k /\ front[i] = order[i - 1])
      BY <1>2, <1>5
    <3>2. \A i \in 1..k : i + 1 \in 1..k+1 /\ front[i + 1] = order[i]
      BY <1>2, <1>5
    <3>3. ids = {order[i] : i \in 1..k} /\ 1 \in 1..k+1
      BY <1>1, <1>2
    <3>4. ids' \subseteq {front[i] : i \in 1..k+1}
      BY <3>2, <3>3, <2>1, <1>5
    <3>5. {front[i] : i \in 1..k+1} \subseteq ids'
      BY <3>1, <3>3, <2>1, <1>5
    <3> QED BY <3>4, <3>5
  <2>5. ids' \in SUBSET RunIds
    BY <2>4, <1>5
  <2>6. Len(order') = k + 1 /\ DOMAIN order' = 1..k+1 /\ order' \in Seq(RunIds)
    BY <2>1, <1>5
  <2>7. ids' = {order'[i] : i \in DOMAIN order'}
    BY <2>1, <2>4, <2>6
  <2>8. storedCount' = Len(order') /\ storedCount' \in Nat
    BY <2>1, <2>6, <1>2
  <2>9. StorageKeepsNewest'
    BY <2>3, <2>7, <2>8, <1>0 DEF StorageKeepsNewest
  <2> QED BY <2>5, <2>6, <2>8, <2>9, <1>3, <1>6
<1>9. CASE k + 1 > M
  <2>1. k = M /\ n >= M
    BY <1>1, <1>2, <1>9 DEF Min2
  <2>2. order' = Front(front) /\ ids' = (ids \cup {r}) \ {Last(front)} /\ storedCount' = Len(order')
    BY <1>0, <1>4, <1>5, <1>9, <1>2 DEF Store
  <2>3. /\ order' \in Seq(RunIds) /\ Len(order') = k /\ DOMAIN order' = 1..k
        /\ \A i \in 1..k : order'[i] = front[i]
    BY <2>2, <1>5, <1>2 DEF Front
  <2>4. Last(front) = order[k] /\ k \in 1..k /\ k >= 1
    <3>1. k \in 1..k /\ k >= 1
      BY <2>1, <1>1
    <3>2. Last(front) = front[k + 1]
      BY <1>5 DEF Last
    <3> QED BY <3>1, <3>2, <1>5
  <2>5. Min2(n + 1, M) = k
    BY <2>1, <1>1 DEF Min2
  <2>6. order' = Newest(log', M)
    <3>1. \A i \in 1..k : order'[i] = log'[n + 2 - i] /\ n + 2 - i = Len(log') + 1 - i
      <4> TAKE i \in 1..k
      <4>1. i \in 1..k+1 /\ n + 2 - i = (n + 1) + 1 - i
        BY <1>1, <1>2
      <4> QED BY <4>1, <2>3, <1>7, <1>6
    <3>2. order' = [i \in 1..k |-> order'[i]]
      BY <2>3
    <3>3. Newest(log', M) = [i \in 1..k |-> log'[Len(log') + 1 - i]]
      BY <2>5, <1>6 DEF Newest
    <3> QED BY <3>1, <3>2, <3>3
  <2>7. \A i \in 1..k : i # k => order[i] # order[k]
    <3> TAKE i \in 1..k
    <3> HAVE i # k
    <3>1. n + 1 - i # n + 1 - k
      BY <1>1, <1>2
    <3> QED BY <3>1, <1>2, <2>4 DEF StorageInv, LogOK
  <2>8. ids' = {order'[i] : i \in 1..k}
    <3>1. \A i \in 1..k : i = 1 \/ (i - 1 \in 1..k /\ i - 1 # k /\ order'[i] = order[i - 1])
      <4> TAKE i \in 1..k
      <4> SUFFICES ASSUME i # 1 PROVE i - 1 \in 1..k /\ i - 1 # k /\ order'[i] = order[i - 1]
        OBVIOUS
      <4>1. i - 1 \in 1..k /\ i - 1 # k /\ (i - 1) + 1 = i
        BY <1>2
      <4> QED BY <4>1, <2>3, <1>5
    <3>2. \A i \in 1..k : i # k => i + 1 \in 1..k /\ order'[i + 1] = order[i]
      BY <1>2, <1>5, <2>3
    <3>3. order'[1] = r /\ 1 \in 1..k /\ order[k] # r
      BY <2>3, <2>4, <1>5, <1>4, <1>1, <1>2
    <3>4. ids = {order[i] : i \in 1..k}
      BY <1>1, <1>2
    <3>5. ids' \subseteq {order'[i] : i \in 1..k}
      BY <3>2, <3>3, <3>4, <2>2, <2>4
    <3>6. {order'[i] : i \in 1..k} \subseteq ids'
      BY <3>1, <3>3, <3>4, <2>2, <2>4, <2>7
    <3> QED BY <3>5, <3>6
  <2>9. ids' \in SUBSET RunIds
    BY <2>8, <2>3
  <2> QED BY <2>2, <2>3, <2>6, <2>8, <2>9, <1>0, <1>2, <1>3, <1>6 DEF StorageKeepsNewest
<1> QED BY <1>2, <1>1, <1>8, <1>9

\* The steps that leave the executions and the storage alone.
Quiet == UNCHANGED <<runVars, storeVars, stats>>

LEMMA QuietKeepsStorage ==
    ASSUME StorageInv, Quiet, TypeOK'
    PROVE  StorageInv'
BY DEF StorageInv, TypesInv, RunsOK, LogOK, StorageKeepsNewest, Quiet, runVars, storeVars

LEMMA EffectiveIsInt == TypeOK => \A t \in Tasks : Effective(t) \in Int
<1> SUFFICES ASSUME TypeOK, NEW t \in Tasks PROVE Effective(t) \in Int
  OBVIOUS
<1>1. env[t] \in EnvIntervals
  BY DEF TypeOK
<1>2. EnvIntervals \subseteq Int /\ MinInterval[t] \in Int
  BY Constants
<1> QED BY <1>1, <1>2 DEF Effective

\* What every step does to the executions and the storage.
LEMMA QuietSteps ==
    ASSUME TypeOK,
           \/ LoadConfig \/ StartScheduler \/ CollectionUnavailable \/ Signal
           \/ StopScheduler \/ WriteFinalStatus \/ Exit \/ Tick \/ UNCHANGED vars
    PROVE  TypeOK' /\ Quiet
<1> USE DEF TypeOK, Quiet, Phases, clockVars, timerVars, runVars, storeVars
<1>1. ASSUME LoadConfig PROVE TypeOK' /\ Quiet
  BY <1>1 DEF LoadConfig
<1>2. ASSUME StartScheduler PROVE TypeOK' /\ Quiet
  <2>1. \A t \in Tasks : /\ (IF t \in enabled THEN Effective(t) ELSE 0) \in Int
                         /\ (IF t \in enabled THEN now + Delay(Offset(t)) ELSE Off) \in Int
    <3> TAKE t \in Tasks
    <3>1. Effective(t) \in Int
      BY EffectiveIsInt
    <3>2. Delay(Offset(t)) \in Nat
      BY Constants
    <3> QED BY <3>1, <3>2 DEF Off
  <2> QED BY <1>2, <2>1 DEF StartScheduler
<1>3. ASSUME CollectionUnavailable PROVE TypeOK' /\ Quiet
  BY <1>3 DEF CollectionUnavailable
<1>4. ASSUME Signal PROVE TypeOK' /\ Quiet
  BY <1>4 DEF Signal
<1>5. ASSUME StopScheduler PROVE TypeOK' /\ Quiet
  BY <1>5 DEF StopScheduler, Off
<1>6. ASSUME WriteFinalStatus PROVE TypeOK' /\ Quiet
  BY <1>6 DEF WriteFinalStatus
<1>7. ASSUME Exit PROVE TypeOK' /\ Quiet
  BY <1>7 DEF Exit
<1>8. ASSUME Tick PROVE TypeOK' /\ Quiet
  BY <1>8 DEF Tick
<1>9. ASSUME UNCHANGED vars PROVE TypeOK' /\ Quiet
  BY <1>9 DEF vars
<1> QED BY <1>1, <1>2, <1>3, <1>4, <1>5, <1>6, <1>7, <1>8, <1>9

\* A timer fires: an execution starts.
LEMMA FiringSteps ==
    ASSUME StorageInv, NEW t \in Tasks, OffsetFires(t) \/ IntervalFires(t)
    PROVE  StorageInv' /\ Execute(t)
<1>1. Execute(t) /\ UNCHANGED <<phase, env, enabled, now, interval, storeVars, stats, finalStats>>
  BY DEF OffsetFires, IntervalFires, clockVars
<1>2. /\ started' \in 0..MaxRuns /\ run' \in [RunIds -> Runs] /\ RunsOK'
      /\ started' = started + 1 /\ started \in Nat
      /\ \A r \in 1..started : run'[r] = run[r]
  <2>1. TypesInv /\ started \in Nat
    BY DEF StorageInv, TypesInv, TypeOK
  <2> QED BY <1>1, <2>1, ExecuteKeepsTypes
<1>3. offsetDue' \in [Tasks -> Int] /\ intervalDue' \in [Tasks -> Int]
  <2>1. interval[t] \in Int /\ now \in Int
    BY DEF StorageInv, TypesInv, TypeOK
  <2>2. now + Delay(interval[t]) \in Int
    BY <2>1, Constants
  <2> QED BY <2>2 DEF OffsetFires, IntervalFires, StorageInv, TypesInv, TypeOK, Off
<1>4. TypeOK'
  BY <1>1, <1>2, <1>3 DEF StorageInv, TypesInv, TypeOK, storeVars
<1>5. LogOK'
  BY <1>1, <1>2 DEF StorageInv, LogOK, storeVars
<1>6. StorageKeepsNewest'
  BY <1>1 DEF StorageInv, StorageKeepsNewest, storeVars
<1> QED BY <1>1, <1>2, <1>4, <1>5, <1>6 DEF StorageInv, TypesInv

\* An execution ends: its payload is stored, or nothing is.
LEMMA FinishingSteps ==
    ASSUME StorageInv, NEW r \in RunIds, Finish(r)
    PROVE  StorageInv' /\ Collecting(r) /\ Settled(r) /\ UNCHANGED <<phase, clockVars, timerVars, started>>
<1>1. /\ Collecting(r) /\ Settled(r)
      /\ UNCHANGED <<phase, clockVars, timerVars, started, finalStats>>
      /\ RecordSuccess(run[r].task) \/ RecordFailure(run[r].task)
      /\ Store(r) \/ UNCHANGED storeVars
  BY DEF Finish, StorePayload, TaskSucceeds, TaskFails, PayloadInvalid
<1>2. /\ r \in 1..started /\ run[r].task \in Tasks /\ run[r].state = "collecting"
      /\ run' \in [RunIds -> Runs] /\ RunsOK' /\ run'[r].state = "counted"
      /\ \A s \in RunIds : s # r => run'[s] = run[s]
  BY <1>1, SettledKeepsTypes DEF StorageInv, Collecting
<1>3. stats' \in [Tasks -> Stats]
  BY <1>1, <1>2, RecordKeepsTypes DEF StorageInv, TypesInv
<1>4. /\ log' \in Seq(RunIds) /\ order' \in Seq(RunIds) /\ ids' \in SUBSET RunIds
      /\ storedCount' \in Nat /\ StorageKeepsNewest' /\ LogOK'
  <2>1. CASE Store(r)
    <3>1. /\ StorageKeepsNewest' /\ log' = Append(log, r) /\ log' \in Seq(RunIds)
          /\ order' \in Seq(RunIds) /\ ids' \in SUBSET RunIds /\ storedCount' \in Nat
          /\ \A i \in DOMAIN log : log[i] # r
      BY <2>1, <1>2, StoreKeepsNewest
    <3>2. log \in Seq(RunIds) /\ Len(log) \in Nat /\ DOMAIN log = 1..Len(log)
      BY DEF StorageInv, TypesInv, TypeOK
    <3>3. /\ DOMAIN log' = 1..Len(log) + 1 /\ log'[Len(log) + 1] = r
          /\ \A i \in DOMAIN log : log'[i] = log[i]
      BY <3>1, <3>2
    <3>4. \A i \in DOMAIN log' : log'[i] \in 1..started' /\ run'[log'[i]].state = "counted"
      <4> TAKE i \in DOMAIN log'
      <4>1. CASE i \in DOMAIN log
        <5>1. log'[i] = log[i] /\ log[i] \in RunIds /\ log[i] \in 1..started
              /\ run[log[i]].state = "counted"
          BY <4>1, <3>2, <3>3 DEF StorageInv, LogOK
        <5> QED BY <5>1, <1>1, <1>2
      <4>2. CASE i \notin DOMAIN log
        <5>1. log'[i] = r
          BY <4>2, <3>2, <3>3
        <5> QED BY <5>1, <1>1, <1>2
      <4> QED BY <4>1, <4>2
    <3>5. \A i, j \in DOMAIN log' : i # j => log'[i] # log'[j]
      BY <3>1, <3>2, <3>3 DEF StorageInv, LogOK
    <3> QED BY <3>1, <3>4, <3>5 DEF LogOK
  <2>2. CASE UNCHANGED storeVars
    <3>1. \A i \in DOMAIN log : log[i] \in RunIds
      BY DEF StorageInv, TypesInv, TypeOK
    <3> QED BY <2>2, <3>1, <1>1, <1>2 DEF StorageInv, TypesInv, TypeOK, LogOK, StorageKeepsNewest, storeVars
  <2> QED BY <1>1, <2>1, <2>2
<1>5. TypeOK'
  BY <1>1, <1>2, <1>3, <1>4 DEF StorageInv, TypesInv, TypeOK, clockVars, timerVars
<1> QED BY <1>1, <1>2, <1>4, <1>5 DEF StorageInv, TypesInv

LEMMA StorageInit == Init => StorageInv
<1> SUFFICES ASSUME Init PROVE StorageInv
  OBVIOUS
<1>1. RunsOK
  BY DEF Init, RunsOK, RunIds
<1>2. TypeOK
  <2>1. Zero \in Stats /\ NoStats \in [byType : [Tasks -> Stats], stored : Nat]
    BY DEF Zero, NoStats, Stats, Never
  <2>2. 0 \in 0..MaxRuns /\ <<>> \in Seq(RunIds) /\ Unused \in Runs
    BY Constants DEF Runs
  <2> QED BY <2>1, <2>2 DEF Init, TypeOK, Phases, Off
<1>3. LogOK
  BY DEF Init, LogOK
<1>4. StorageKeepsNewest
  BY Constants DEF Init, StorageKeepsNewest, Newest, Min2
<1> QED BY <1>1, <1>2, <1>3, <1>4 DEF StorageInv, TypesInv

LEMMA StorageStep == StorageInv /\ [Next]_vars => StorageInv'
<1> SUFFICES ASSUME StorageInv, [Next]_vars PROVE StorageInv'
  OBVIOUS
<1>1. CASE \/ LoadConfig \/ StartScheduler \/ CollectionUnavailable \/ Signal
           \/ StopScheduler \/ WriteFinalStatus \/ Exit \/ Tick \/ UNCHANGED vars
  BY <1>1, QuietSteps, QuietKeepsStorage DEF StorageInv, TypesInv
<1>2. CASE \E t \in Tasks : OffsetFires(t) \/ IntervalFires(t)
  BY <1>2, FiringSteps
<1>3. CASE \E r \in RunIds : Finish(r)
  BY <1>3, FinishingSteps
<1> QED BY <1>1, <1>2, <1>3 DEF Next, Finish

\* The executions, the storage and the statistics keep their shape: executions
\* are numbered as they start, and each has the task that started it.
THEOREM TypesTheorem == Spec => []TypeOK
<1>1. StorageInv => TypeOK
  BY DEF StorageInv, TypesInv
<1> QED BY <1>1, StorageInit, StorageStep, PTL DEF Spec

\* The storage holds the payloads stored last, the latest first, however
\* executions overlap.
THEOREM StorageTheorem == Spec => []StorageKeepsNewest
<1>1. StorageInv => StorageKeepsNewest
  BY DEF StorageInv
<1> QED BY <1>1, StorageInit, StorageStep, PTL DEF Spec

-----------------------------------------------------------------------------
(* Statistics                                                              *)

Stored(t) == {r \in Counted(t) : \E i \in DOMAIN log : log[i] = r}
CountsInv == EachRunIsCounted /\ \A t \in Storing : stats[t].success = Cardinality(Stored(t))

LEMMA CountsInvIsBoth == CountsInv <=> EachRunIsCounted /\ SuccessIsStored
BY DEF CountsInv, SuccessIsStored, Stored

\* The executions are numbers up to a bound, so sets of them can be counted.
LEMMA CountedIsFinite ==
    ASSUME TypeOK, NEW t \in Tasks
    PROVE  /\ IsFiniteSet(Counted(t)) /\ Cardinality(Counted(t)) \in Nat
           /\ IsFiniteSet(Stored(t)) /\ Cardinality(Stored(t)) \in Nat
<1>1. started \in Int /\ IsFiniteSet(1..started)
  <2>1. started \in Int /\ 1 \in Int
    BY Constants DEF TypeOK
  <2> QED BY <2>1, FS_Interval
<1>2. Stored(t) \subseteq Counted(t) /\ Counted(t) \subseteq 1..started
  BY DEF Counted, Stored
<1>3. IsFiniteSet(Counted(t)) /\ IsFiniteSet(Stored(t))
  BY <1>1, <1>2, FS_Subset
<1> QED BY <1>3, FS_CardinalityType

\* An execution that only starts is not counted yet.
LEMMA FiringKeepsCounts ==
    ASSUME StorageInv, CountsInv, NEW t \in Tasks, OffsetFires(t) \/ IntervalFires(t)
    PROVE  CountsInv'
<1>1. TypesInv /\ Execute(t) /\ started \in Nat /\ stats' = stats /\ log' = log
  BY DEF StorageInv, TypesInv, TypeOK, OffsetFires, IntervalFires, storeVars
<1>2. /\ started' = started + 1 /\ run'[started + 1].state = "collecting"
      /\ \A r \in 1..started : run'[r] = run[r]
  <2>1. /\ run'[started + 1] = [task |-> t, state |-> "collecting", at |-> now]
        /\ started' = started + 1 /\ \A r \in 1..started : run'[r] = run[r]
    BY <1>1, ExecuteKeepsTypes
  <2> QED BY <2>1
<1>3. \A r \in 1..started' : r \in 1..started \/ r = started + 1
  BY <1>1, <1>2
<1>4. 1..started \subseteq 1..started'
  BY <1>1, <1>2
<1>5. \A s \in Tasks : Counted(s)' = Counted(s)
  BY <1>2, <1>3, <1>4 DEF Counted
<1>6. \A s \in Tasks : Stored(s)' = Stored(s)
  BY <1>5, <1>1 DEF Stored
<1>7. Storing \subseteq Tasks
  BY CollectionAssumption
<1> QED BY <1>1, <1>5, <1>6, <1>7, Zenon DEF CountsInv, EachRunIsCounted

\* An execution that ends joins those counted for its task, and no other.
LEMMA CountedGrows ==
    ASSUME TypesInv, NEW r \in RunIds, Collecting(r), Settled(r), UNCHANGED started,
           NEW t \in Tasks, t = run[r].task
    PROVE  /\ Counted(t)' = Counted(t) \cup {r}
           /\ \A s \in Tasks : /\ r \notin Counted(s)
                               /\ s # t => Counted(s)' = Counted(s)
<1>1. /\ r \in 1..started /\ run'[r].state = "counted" /\ run[r].state = "collecting"
      /\ \A s \in RunIds : /\ run'[s].task = run[s].task
                           /\ s # r => run'[s] = run[s]
  BY SettledKeepsTypes DEF Collecting
<1>2. 1..started \subseteq RunIds
  BY Constants DEF TypesInv, TypeOK, RunIds
<1> QED BY <1>1, <1>2 DEF Counted

\* Its outcome is counted once, and as a success of a collector only when its
\* payload is stored: none of those that hide a bad payload can have one.
LEMMA FinishingKeepsCounts ==
    ASSUME StorageInv, CountsInv, NEW r \in RunIds, Finish(r)
    PROVE  CountsInv'
<1>0. /\ TypesInv /\ TypeOK /\ Collecting(r) /\ Settled(r) /\ UNCHANGED started
      /\ r \in 1..started /\ run[r].task \in Tasks
  BY FinishingSteps, SettledKeepsTypes DEF StorageInv, TypesInv
<1> PICK t \in Tasks : t = run[r].task
  BY <1>0
<1>1. /\ TypesInv /\ TypeOK /\ Collecting(r) /\ Settled(r) /\ UNCHANGED started
      /\ t = run[r].task
  BY <1>0
<1>2. /\ Counted(t)' = Counted(t) \cup {r}
      /\ \A s \in Tasks : r \notin Counted(s) /\ (s # t => Counted(s)' = Counted(s))
  BY <1>1, CountedGrows
<1>3. Cardinality(Counted(t)') = Cardinality(Counted(t)) + 1
  BY <1>1, <1>2, CountedIsFinite, FS_AddElement
<1>4. /\ stats \in [Tasks -> Stats]
      /\ \A i \in DOMAIN log : log[i] # r
      /\ log \in Seq(RunIds)
  <2>1. run[r].state # "counted"
    BY <1>1 DEF Collecting
  <2> QED BY <2>1 DEF StorageInv, TypesInv, TypeOK, LogOK
<1>5. RecordSuccess(t) \/ RecordFailure(t)
  BY <1>1 DEF Finish, StorePayload, TaskSucceeds, TaskFails, PayloadInvalid
<1>6. \A s \in Tasks : s # t => stats'[s] = stats[s]
  BY <1>4, <1>5 DEF RecordSuccess, RecordFailure
<1>7. /\ stats[t].success \in Nat /\ stats[t].failure \in Nat
      /\ RecordSuccess(t) => /\ stats'[t].success = stats[t].success + 1
                             /\ stats'[t].failure = stats[t].failure
      /\ RecordFailure(t) => /\ stats'[t].success = stats[t].success
                             /\ stats'[t].failure = stats[t].failure + 1
  BY <1>1, <1>4 DEF RecordSuccess, RecordFailure, Stats
<1>8. EachRunIsCounted'
  <2> SUFFICES ASSUME NEW s \in Tasks
               PROVE  stats'[s].success + stats'[s].failure = Cardinality(Counted(s)')
    BY DEF EachRunIsCounted
  <2>1. stats[s].success + stats[s].failure = Cardinality(Counted(s))
    BY DEF CountsInv, EachRunIsCounted
  <2>2. CASE s = t
    BY <2>1, <2>2, <1>3, <1>5, <1>7
  <2>3. CASE s # t
    BY <2>1, <2>3, <1>2, <1>6
  <2> QED BY <2>2, <2>3
<1>9. \A s \in Storing : stats'[s].success = Cardinality(Stored(s)')
  <2> SUFFICES ASSUME NEW s \in Storing
               PROVE  stats'[s].success = Cardinality(Stored(s)')
    OBVIOUS
  <2>1. s \in Tasks /\ stats[s].success = Cardinality(Stored(s))
    BY CollectionAssumption DEF CountsInv
  <2>2. CASE StorePayload(r)
    <3>1. RecordSuccess(t) /\ log' = Append(log, r)
      BY <2>2, <1>1 DEF StorePayload, Store
    <3>2. \A x : (\E i \in DOMAIN log' : log'[i] = x) <=> (x = r \/ \E i \in DOMAIN log : log[i] = x)
      <4>1. /\ DOMAIN log' = 1..Len(log) + 1 /\ log'[Len(log) + 1] = r /\ Len(log) \in Nat
            /\ DOMAIN log = 1..Len(log) /\ \A i \in DOMAIN log : log'[i] = log[i]
        BY <3>1, <1>4
      <4>2. Len(log) + 1 \in DOMAIN log' /\ \A i \in DOMAIN log' : i \in DOMAIN log \/ i = Len(log) + 1
        BY <4>1
      <4>3. \A i \in DOMAIN log : i \in DOMAIN log'
        BY <4>1
      <4> QED BY <4>1, <4>2, <4>3, Zenon
    <3>3. CASE s = t
      <4>1. Stored(s)' = Stored(s) \cup {r}
        BY <3>2, <3>3, <1>2 DEF Stored
      <4>2. r \notin Stored(s)
        BY <2>1, <1>2 DEF Stored
      <4>3. Cardinality(Stored(s)') = Cardinality(Stored(s)) + 1
        BY <4>1, <4>2, <2>1, <1>1, CountedIsFinite, FS_AddElement
      <4> QED BY <4>3, <3>1, <3>3, <2>1, <1>7
    <3>4. CASE s # t
      <4>1. Stored(s)' = Stored(s)
        BY <3>2, <3>4, <2>1, <1>2 DEF Stored
      <4> QED BY <4>1, <3>4, <2>1, <1>6
    <3> QED BY <3>3, <3>4
  <2>3. CASE ~StorePayload(r)
    <3>1. log' = log
      BY <2>3 DEF Finish, TaskSucceeds, TaskFails, PayloadInvalid, storeVars
    <3>2. Stored(s)' = Stored(s)
      <4>1. CASE s = t
        BY <4>1, <3>1, <1>2, <1>4 DEF Stored
      <4>2. CASE s # t
        BY <4>2, <3>1, <2>1, <1>2 DEF Stored
      <4> QED BY <4>1, <4>2
    <3>3. CASE s = t
      <4>1. RecordFailure(t)
        BY <2>3, <3>3, <1>1, SwallowedAssumption DEF Finish, TaskSucceeds, TaskFails, PayloadInvalid
      <4> QED BY <4>1, <3>2, <3>3, <2>1, <1>7
    <3>4. CASE s # t
      BY <3>4, <3>2, <2>1, <1>6
    <3> QED BY <3>3, <3>4
  <2> QED BY <2>2, <2>3
<1> QED BY <1>8, <1>9 DEF CountsInv

LEMMA CountsInit == Init => CountsInv
<1> SUFFICES ASSUME Init PROVE CountsInv
  OBVIOUS
<1>1. \A t \in Tasks : Counted(t) = {} /\ Stored(t) = {}
  BY DEF Init, Counted, Stored
<1>2. \A t \in Tasks : stats[t].success = 0 /\ stats[t].failure = 0
  BY DEF Init, Zero
<1>3. Storing \subseteq Tasks /\ Cardinality({}) = 0
  BY CollectionAssumption, FS_EmptySet
<1>4. EachRunIsCounted
  <2>1. \A t \in Tasks : Cardinality(Counted(t)) = 0
    BY <1>1, <1>3
  <2> QED BY <1>2, <2>1 DEF EachRunIsCounted
<1>5. \A t \in Storing : stats[t].success = Cardinality(Stored(t))
  BY <1>1, <1>2, <1>3
<1> QED BY <1>4, <1>5 DEF CountsInv

LEMMA CountsStep == StorageInv /\ CountsInv /\ [Next]_vars => CountsInv'
<1> SUFFICES ASSUME StorageInv, CountsInv, [Next]_vars PROVE CountsInv'
  OBVIOUS
<1>1. CASE \/ LoadConfig \/ StartScheduler \/ CollectionUnavailable \/ Signal
           \/ StopScheduler \/ WriteFinalStatus \/ Exit \/ Tick \/ UNCHANGED vars
  <2>1. UNCHANGED <<started, run, log, stats>>
    BY <1>1, QuietSteps DEF StorageInv, TypesInv, Quiet, runVars, storeVars
  <2> QED BY <2>1 DEF CountsInv, EachRunIsCounted, Counted, Stored
<1>2. CASE \E t \in Tasks : OffsetFires(t) \/ IntervalFires(t)
  BY <1>2, FiringKeepsCounts
<1>3. CASE \E r \in RunIds : Finish(r)
  BY <1>3, FinishingKeepsCounts
<1> QED BY <1>1, <1>2, <1>3 DEF Next, Finish

\* Of the statistics by type: a task has a last success just when it has one.
LastIsSuccess(byType) ==
    \A t \in Tasks : byType[t].last = Never <=> byType[t].success = 0

\* No payload was stored without a success, and the final status is a copy of
\* statistics of which this was true.
FinalInv ==
    /\ Len(log) <= TotalSuccess(stats)
    /\ LastIsSuccess(stats)
    /\ phase = "final" =>
         /\ finalStats.stored <= Min2(TotalSuccess(finalStats.byType), MaxCollections)
         /\ LastIsSuccess(finalStats.byType)

\* The total is a sum of natural numbers, and 0 when each of them is.
LEMMA TotalIsNat ==
    ASSUME NEW byType \in [Tasks -> Stats]
    PROVE  /\ TotalSuccess(byType) \in Nat
           /\ TotalSuccess(byType) = 0 <=> \A t \in Tasks : byType[t].success = 0
<1> DEFINE f == [t \in Tasks |-> byType[t].success]
<1>1. DOMAIN f = Tasks /\ IsFiniteSet(DOMAIN f) /\ \A t \in Tasks : f[t] = byType[t].success
  BY CollectionAssumption
<1>2. \A t \in DOMAIN f : f[t] \in Nat
  BY DEF Stats
<1>3. TotalSuccess(byType) = SumOf(f)
  BY DEF TotalSuccess
<1> HIDE DEF f
<1> QED BY <1>1, <1>2, <1>3, SumCountsUnits, SumIsZero

\* The last success of all tasks is missing when each of them has none.
LEMMA LastIsNever ==
    ASSUME NEW byType \in [Tasks -> Stats]
    PROVE  LastSuccess(byType) = Never <=> \A t \in Tasks : byType[t].last = Never
<1> DEFINE L == {byType[t].last : t \in Tasks}
           last == [t \in Tasks |-> byType[t].last]
<1>1. \A t \in Tasks : byType[t].last \in Nat \cup {Never}
  BY DEF Stats
<1>2. IsFiniteSet(L)
  <2>1. last \in Surjection(Tasks, L)
    BY DEF Surjection
  <2> QED BY <2>1, CollectionAssumption, FS_Surjection
<1>3. LastSuccess(byType) = Max(L \cup {Never})
  BY DEF LastSuccess
<1>4. /\ L \subseteq Nat \cup {Never} /\ L \cup {Never} \subseteq Int
      /\ IsFiniteSet(L \cup {Never}) /\ L \cup {Never} # {}
  BY <1>1, <1>2, FS_AddElement DEF Never
<1>5. (\A t \in Tasks : byType[t].last = Never) <=> L \subseteq {Never}
  OBVIOUS
<1> HIDE DEF L
<1>6. /\ Max(L \cup {Never}) \in L \cup {Never}
      /\ \A y \in L \cup {Never} : y <= Max(L \cup {Never})
  BY <1>4, MaxOfFinite
<1>7. Max(L \cup {Never}) = Never => L \subseteq {Never}
  <2> SUFFICES ASSUME Max(L \cup {Never}) = Never, NEW y \in L PROVE y = Never
    OBVIOUS
  <2>1. y <= Never /\ y \in Nat \cup {Never}
    BY <1>4, <1>6
  <2> QED BY <2>1 DEF Never
<1> QED BY <1>3, <1>5, <1>6, <1>7

LEMMA FinalIsCoherent == TypeOK /\ FinalInv => FinalStatsCohere
<1> SUFFICES ASSUME TypeOK, FinalInv, phase = "final" PROVE FinalStatsCohere
  BY DEF FinalStatsCohere
<1>1. finalStats.byType \in [Tasks -> Stats]
  BY DEF TypeOK
<1>2. LastSuccess(finalStats.byType) = Never <=> TotalSuccess(finalStats.byType) = 0
  BY <1>1, LastIsNever, TotalIsNat DEF FinalInv, LastIsSuccess
<1> QED BY <1>2 DEF FinalInv, FinalStatsCohere

\* A success adds one to the total, a failure nothing.
LEMMA RecordCounts ==
    ASSUME TypeOK, NEW t \in Tasks, RecordSuccess(t) \/ RecordFailure(t)
    PROVE  /\ TotalSuccess(stats') = TotalSuccess(stats) + IF RecordSuccess(t) THEN 1 ELSE 0
           /\ LastIsSuccess(stats) => LastIsSuccess(stats')
<1> DEFINE f == [u \in Tasks |-> stats[u].success]
           g == [u \in Tasks |-> stats'[u].success]
<1>1. /\ stats \in [Tasks -> Stats] /\ stats[t].success \in Nat /\ now \in Nat
      /\ TotalSuccess(stats) = SumOf(f) /\ TotalSuccess(stats') = SumOf(g)
  BY DEF TypeOK, Stats, TotalSuccess
<1>2. CASE RecordSuccess(t)
  <2>1. /\ stats'[t] = [success |-> stats[t].success + 1, failure |-> stats[t].failure, last |-> now]
        /\ \A u \in Tasks : u # t => stats'[u] = stats[u]
    BY <1>1, <1>2 DEF RecordSuccess
  <2>2. g = [f EXCEPT ![t] = @ + 1]
    <3>1. g[t] = f[t] + 1 /\ \A u \in Tasks : u # t => g[u] = f[u]
      BY <2>1
    <3>2. DOMAIN g = Tasks /\ DOMAIN f = Tasks /\ g = [u \in Tasks |-> g[u]] /\ f = [u \in Tasks |-> f[u]]
      OBVIOUS
    <3> HIDE DEF f, g
    <3> QED BY <3>1, <3>2
  <2>3. DOMAIN f = Tasks /\ IsFiniteSet(DOMAIN f) /\ \A u \in DOMAIN f : f[u] \in Nat
    BY <1>1, CollectionAssumption DEF Stats
  <2>4. LastIsSuccess(stats) => LastIsSuccess(stats')
    <3>1. stats'[t].last # Never /\ stats'[t].success # 0
      BY <1>1, <2>1 DEF Never
    <3> QED BY <2>1, <3>1 DEF LastIsSuccess
  <2> HIDE DEF f, g
  <2>5. SumOf(g) = SumOf(f) + 1
    BY <2>2, <2>3, SumOfOneMore
  <2> QED BY <1>1, <1>2, <2>4, <2>5
<1>3. CASE ~RecordSuccess(t)
  <2>1. stats' = [stats EXCEPT ![t].failure = @ + 1]
    BY <1>3 DEF RecordFailure
  <2>2. \A u \in Tasks : stats'[u].success = stats[u].success /\ stats'[u].last = stats[u].last
    BY <1>1, <2>1 DEF Stats
  <2>3. g = f
    BY <2>2
  <2>4. TotalSuccess(stats) \in Nat
    BY <1>1, TotalIsNat
  <2> QED BY <1>1, <1>3, <2>2, <2>3, <2>4 DEF LastIsSuccess
<1> QED BY <1>2, <1>3

LEMMA FinalInit == Init => FinalInv
<1> SUFFICES ASSUME Init PROVE FinalInv
  OBVIOUS
<1>1. TypeOK
  BY StorageInit DEF StorageInv, TypesInv
<1>2. TotalSuccess(stats) \in Nat
  BY <1>1, TotalIsNat DEF TypeOK
<1>3. Len(log) = 0 /\ LastIsSuccess(stats) /\ phase # "final"
  BY DEF Init, LastIsSuccess, Zero
<1> QED BY <1>2, <1>3 DEF FinalInv

LEMMA FinalStep == StorageInv /\ FinalInv /\ [Next]_vars => FinalInv'
<1> SUFFICES ASSUME StorageInv, FinalInv, [Next]_vars PROVE FinalInv'
  OBVIOUS
<1>0. /\ TypeOK /\ stats \in [Tasks -> Stats] /\ TotalSuccess(stats) \in Nat
      /\ log \in Seq(RunIds) /\ Len(log) \in Nat /\ MaxCollections \in Nat
  <2>1. TypeOK
    BY DEF StorageInv, TypesInv
  <2>2. stats \in [Tasks -> Stats] /\ log \in Seq(RunIds)
    BY <2>1 DEF TypeOK
  <2> QED BY <2>1, <2>2, TotalIsNat, Constants
<1>1. CASE \E r \in RunIds : Finish(r)
  <2> PICK r \in RunIds : Finish(r)
    BY <1>1
  <2>1. run[r].task \in Tasks
    BY FinishingSteps, SettledKeepsTypes DEF StorageInv, TypesInv
  <2> PICK t \in Tasks : t = run[r].task
    BY <2>1
  <2>2. RecordSuccess(t) \/ RecordFailure(t)
    BY DEF Finish, StorePayload, TaskSucceeds, TaskFails, PayloadInvalid
  <2>3. UNCHANGED <<phase, finalStats>>
    BY DEF Finish, StorePayload, TaskSucceeds, TaskFails, PayloadInvalid
  <2>4. IF StorePayload(r) THEN RecordSuccess(t) /\ log' = Append(log, r) ELSE log' = log
    BY DEF Finish, StorePayload, Store, TaskSucceeds, TaskFails, PayloadInvalid, storeVars
  <2>5. /\ TotalSuccess(stats') = TotalSuccess(stats) + IF RecordSuccess(t) THEN 1 ELSE 0
        /\ LastIsSuccess(stats')
    BY <1>0, <2>2, RecordCounts DEF FinalInv
  <2>6. Len(log') <= TotalSuccess(stats')
    <3>1. Len(log') = Len(log) + IF StorePayload(r) THEN 1 ELSE 0
      BY <1>0, <2>4
    <3>2. Len(log) <= TotalSuccess(stats)
      BY DEF FinalInv
    <3> QED BY <3>1, <3>2, <2>4, <2>5, <1>0
  <2> QED BY <2>3, <2>5, <2>6 DEF FinalInv
<1>2. CASE WriteFinalStatus
  <2>1. /\ finalStats' = [byType |-> stats, stored |-> storedCount]
        /\ UNCHANGED <<log, stats>>
    BY <1>2 DEF WriteFinalStatus, storeVars
  <2>2. storedCount = Min2(Len(log), MaxCollections)
    BY <1>0, NewestIsSeq DEF StorageInv, StorageKeepsNewest
  <2>3. storedCount <= Min2(TotalSuccess(stats), MaxCollections)
    BY <2>2, <1>0 DEF FinalInv, Min2
  <2>4. finalStats'.byType = stats /\ finalStats'.stored = storedCount
    BY <2>1
  <2> QED BY <2>1, <2>3, <2>4 DEF FinalInv
<1>3. CASE \/ LoadConfig \/ StartScheduler \/ CollectionUnavailable \/ Signal
           \/ StopScheduler \/ Exit \/ Tick \/ UNCHANGED vars
  <2>1. UNCHANGED <<log, stats, finalStats>> /\ (phase' = "final" => phase = "final")
    BY <1>3 DEF LoadConfig, StartScheduler, CollectionUnavailable, Signal, StopScheduler, Exit,
                Tick, vars, storeVars
  <2> QED BY <2>1 DEF FinalInv
<1>4. CASE \E t \in Tasks : OffsetFires(t) \/ IntervalFires(t)
  <2>1. UNCHANGED <<log, stats, finalStats, phase>>
    BY <1>4 DEF OffsetFires, IntervalFires, storeVars
  <2> QED BY <2>1 DEF FinalInv
<1> QED BY <1>1, <1>2, <1>3, <1>4 DEF Next, Finish

\* Of CollectionStatsTracker, whatever overlaps: each execution that ended was
\* counted once, a success of a collector is a payload that was stored, and the
\* final status made of it says the same.
THEOREM CountsTheorem == Spec => []CountsAddUp
<1>1. TypesInv /\ CountsInv /\ FinalInv => CountsAddUp
  BY CountsInvIsBoth, FinalIsCoherent DEF CountsAddUp, TypesInv
<1>2. StorageInv => TypesInv
  BY DEF StorageInv
<1> QED BY <1>1, <1>2, StorageInit, StorageStep, CountsInit, CountsStep, FinalInit, FinalStep,
           PTL DEF Spec

-----------------------------------------------------------------------------
(* Timers                                                                  *)

IInv == StorageInv /\ TimerInv

\* A configured interval that fits a timer is kept by register, or raised.
LEMMA EffectiveFits ==
    ASSUME IntervalsFit, TypeOK, NEW t \in Tasks
    PROVE  Effective(t) \in MinInterval[t]..MaxTimer
<1>1. env[t] \in EnvIntervals
  BY DEF TypeOK
<1>2. env[t] \in Int /\ env[t] <= MaxTimer /\ MinInterval[t] \in Nat /\ MinInterval[t] <= MaxTimer
  BY <1>1, Constants DEF IntervalsFit
<1> QED BY <1>2, CollectionAssumption DEF Effective

\* A timer that fires leaves the next one a minimum interval away.
LEMMA FiringKeepsTimers ==
    ASSUME IInv, NEW t \in Tasks, OffsetFires(t) \/ IntervalFires(t)
    PROVE  TimerInv'
<1>1. /\ TypesInv /\ Execute(t) /\ now \in Nat /\ started \in Nat
      /\ UNCHANGED <<phase, now, interval>>
  BY DEF IInv, StorageInv, TypesInv, TypeOK, OffsetFires, IntervalFires, clockVars
<1>2. /\ run'[started + 1] = [task |-> t, state |-> "collecting", at |-> now]
      /\ started' = started + 1 /\ started + 1 \in RunIds
      /\ \A r \in 1..started : r \in RunIds /\ run'[r] = run[r]
  BY <1>1, ExecuteKeepsTypes
<1>3. TypesInv'
  BY FiringSteps DEF IInv, StorageInv
<1>4. interval[t] \in MinInterval[t]..MaxTimer /\ Delay(interval[t]) = interval[t]
  <2>1. interval[t] \in MinInterval[t]..MaxTimer
    BY DEF IInv, TimerInv, TimersOK, IntervalOK, OffsetFires, IntervalFires
  <2>2. MinInterval[t] \in Nat \ {0} /\ MaxTimer \in Nat
    BY CollectionAssumption
  <2> QED BY <2>1, <2>2 DEF Delay
<1>5. /\ intervalDue' = [intervalDue EXCEPT ![t] = now + interval[t]]
      /\ offsetDue' \in {offsetDue, [offsetDue EXCEPT ![t] = Off]}
      /\ offsetDue'[t] = Off
      /\ offsetDue \in [Tasks -> Int] /\ intervalDue \in [Tasks -> Int]
  <2>1. offsetDue \in [Tasks -> Int] /\ intervalDue \in [Tasks -> Int]
    BY DEF IInv, StorageInv, TypesInv, TypeOK
  <2>2. IntervalFires(t) => offsetDue[t] = Off
    BY DEF IInv, TimerInv, TimersOK, DueOK, IntervalFires
  <2> QED BY <2>1, <2>2, <1>4 DEF OffsetFires, IntervalFires
<1>6. \A r \in 1..started : run[r].task = t =>
          run[r].at \in Nat /\ run[r].at + MinInterval[t] <= now /\ MinInterval[t] \in Nat
  <2> SUFFICES ASSUME NEW r \in 1..started, run[r].task = t
               PROVE  run[r].at \in Nat /\ run[r].at + MinInterval[t] <= now /\ MinInterval[t] \in Nat
    OBVIOUS
  <2>1. run[r] \in Runs /\ run[r].at \in Nat
    BY <1>2 DEF IInv, StorageInv, TypesInv, TypeOK, Runs, Unused
  <2>2. IntervalFires(t)
    BY DEF IInv, TimerInv, TimersOK, DueOK, OffsetFires
  <2>3. run[r].at + MinInterval[t] <= intervalDue[t] /\ intervalDue[t] <= now
    BY <2>2 DEF IInv, TimerInv, TimersOK, DueOK, IntervalFires
  <2> QED BY <2>1, <2>3, <1>1, <1>5, Constants
<1>7. StartsAreSpaced'
  <2> SUFFICES ASSUME NEW r \in 1..started', NEW s \in 1..started',
                      r < s, run'[r].task = run'[s].task
               PROVE  run'[s].at - run'[r].at >= MinInterval[run'[r].task]
    BY DEF StartsAreSpaced
  <2>1. r \in 1..started /\ run'[r] = run[r]
    BY <1>1, <1>2
  <2>2. CASE s = started + 1
    <3>1. run'[s].at = now /\ run[r].task = t
      BY <2>1, <2>2, <1>2
    <3> QED BY <3>1, <2>1, <1>1, <1>6
  <2>3. CASE s # started + 1
    <3>1. s \in 1..started /\ run'[s] = run[s]
      BY <2>3, <1>1, <1>2
    <3> QED BY <3>1, <2>1 DEF IInv, TimerInv, StartsAreSpaced
  <2> QED BY <2>2, <2>3
<1>8. TimersOK'
  <2> SUFFICES ASSUME NEW u \in Tasks PROVE IntervalOK(u)' /\ DueOK(u)'
    BY DEF TimersOK
  <2>1. CASE u = t
    <3>1. offsetDue'[t] = Off /\ intervalDue'[t] = now + interval[t]
      BY <1>5
    <3>2. \A r \in 1..started' : run'[r].task = t =>
              run'[r].at + MinInterval[t] <= now + interval[t]
      <4> SUFFICES ASSUME NEW r \in 1..started', run'[r].task = t
                   PROVE  run'[r].at + MinInterval[t] <= now + interval[t]
        OBVIOUS
      <4>1. CASE r = started + 1
        BY <4>1, <1>2, <1>4, <1>1, Constants
      <4>2. CASE r # started + 1
        <5>1. r \in 1..started /\ run'[r] = run[r]
          BY <4>2, <1>1, <1>2
        <5> QED BY <5>1, <1>6, <1>4, <1>1, Constants
      <4> QED BY <4>1, <4>2
    <3>3. IntervalOK(t)'
      BY <1>1, <1>4 DEF IntervalOK
    <3>4. DueOK(t)'
      BY <3>1, <3>2 DEF DueOK
    <3> QED BY <2>1, <3>3, <3>4
  <2>2. CASE u # t
    <3>1. offsetDue'[u] = offsetDue[u] /\ intervalDue'[u] = intervalDue[u] /\ interval'[u] = interval[u]
      BY <2>2, <1>1, <1>5
    <3>2. IntervalOK(u) /\ DueOK(u)
      BY DEF IInv, TimerInv, TimersOK
    <3>3. \A r \in 1..started' : run'[r].task = u => r \in 1..started /\ run'[r] = run[r]
      BY <2>2, <1>1, <1>2
    <3>4. IntervalOK(u)'
      BY <3>1, <3>2 DEF IntervalOK
    <3>5. DueOK(u)'
      BY <3>1, <3>2, <3>3 DEF DueOK
    <3> QED BY <3>4, <3>5
  <2> QED BY <2>1, <2>2
<1>9. phase \notin {"boot", "configured", "stopped", "final"}
  BY DEF IInv, TimerInv, IdleOK, StoppedOK, OffsetFires, IntervalFires
<1> QED BY <1>1, <1>3, <1>7, <1>8, <1>9 DEF TimerInv, IdleOK, StoppedOK

\* An execution that ends leaves the timers alone.
LEMMA FinishingKeepsTimers ==
    ASSUME IInv, NEW r \in RunIds, Finish(r)
    PROVE  TimerInv'
<1>1. /\ UNCHANGED <<phase, timerVars, started>> /\ TypesInv'
      /\ \A s \in RunIds : run'[s].task = run[s].task /\ run'[s].at = run[s].at
  BY FinishingSteps, SettledKeepsTypes DEF IInv, StorageInv
<1>2. 1..started \subseteq RunIds
  BY Constants DEF IInv, StorageInv, TypesInv, TypeOK, RunIds
<1>3. \A s \in 1..started : run'[s].task = run[s].task /\ run'[s].at = run[s].at
  BY <1>1, <1>2
<1>4. StartsAreSpaced'
  BY <1>1, <1>3 DEF IInv, TimerInv, StartsAreSpaced
<1>5. TimersOK'
  BY <1>1, <1>3 DEF IInv, TimerInv, TimersOK, IntervalOK, DueOK, timerVars
<1> QED BY <1>1, <1>4, <1>5 DEF IInv, TimerInv, IdleOK, StoppedOK, timerVars

LEMMA TimerInit == Init => TimerInv
<1> SUFFICES ASSUME Init PROVE TimerInv
  OBVIOUS
<1>1. TypesInv
  BY StorageInit DEF StorageInv
<1> QED BY <1>1 DEF Init, TimerInv, IdleOK, StoppedOK, TimersOK, IntervalOK, DueOK, StartsAreSpaced

LEMMA TimerStep == IntervalsFit /\ IInv /\ [Next]_vars => TimerInv'
<1> SUFFICES ASSUME IntervalsFit, IInv, [Next]_vars PROVE TimerInv'
  OBVIOUS
<1>1. TypesInv' /\ TypesInv /\ TypeOK
  BY StorageStep DEF IInv, StorageInv, TypesInv
<1>2. CASE \/ LoadConfig \/ CollectionUnavailable \/ Signal \/ WriteFinalStatus \/ Exit
           \/ Tick \/ UNCHANGED vars
  <2>1. /\ UNCHANGED <<timerVars, runVars>>
        /\ phase' \in {"boot", "configured"} => phase \in {"boot", "configured"}
        /\ phase' \in {"stopped", "final"} => phase \in {"stopped", "final"}
    BY <1>2 DEF LoadConfig, CollectionUnavailable, Signal, WriteFinalStatus, Exit, Tick, vars
  <2> QED BY <2>1, <1>1 DEF IInv, TimerInv, IdleOK, StoppedOK, TimersOK, IntervalOK, DueOK,
                            StartsAreSpaced, timerVars, runVars
<1>3. CASE StartScheduler
  <2>1. /\ UNCHANGED <<runVars, intervalDue>> /\ started = 0 /\ phase' = "running"
        /\ \A t \in Tasks : intervalDue[t] = Off
    BY <1>3 DEF StartScheduler, IInv, TimerInv, IdleOK
  <2>2. \A t \in Tasks : offsetDue'[t] # Off => interval'[t] = Effective(t)
    BY <1>3 DEF StartScheduler
  <2>3. TimersOK'
    BY <2>1, <2>2, <1>1, EffectiveFits DEF TimersOK, IntervalOK, DueOK, runVars
  <2> QED BY <2>1, <2>3, <1>1 DEF TimerInv, IdleOK, StoppedOK, StartsAreSpaced, runVars
<1>4. CASE StopScheduler
  <2>1. /\ UNCHANGED <<runVars, interval>> /\ phase' = "stopped"
        /\ \A t \in Tasks : offsetDue'[t] = Off /\ intervalDue'[t] = Off
    BY <1>4 DEF StopScheduler
  <2> QED BY <2>1, <1>1 DEF IInv, TimerInv, IdleOK, StoppedOK, TimersOK, IntervalOK, DueOK,
                            StartsAreSpaced, runVars
<1>5. CASE \E t \in Tasks : OffsetFires(t) \/ IntervalFires(t)
  BY <1>5, FiringKeepsTimers
<1>6. CASE \E r \in RunIds : Finish(r)
  BY <1>6, FinishingKeepsTimers
<1> QED BY <1>2, <1>3, <1>4, <1>5, <1>6 DEF Next, Finish

\* When the configured intervals fit a timer, the executions of a task start
\* at least its minimum interval apart, however late the timers fire; without
\* that condition Node.js makes a long interval the shortest one.
THEOREM SpacingTheorem == IntervalsFit /\ Spec => []StartsAreSpaced
<1>1. IInv => StartsAreSpaced
  BY DEF IInv, TimerInv
<1>2. Init => IInv
  BY StorageInit, TimerInit DEF IInv
<1>3. IntervalsFit /\ IInv /\ [Next]_vars => IInv'
  BY StorageStep, TimerStep DEF IInv
<1> QED
  <2> SUFFICES ASSUME IntervalsFit PROVE Spec => []StartsAreSpaced
    OBVIOUS
  <2>1. IInv /\ [Next]_vars => IInv'
    BY <1>3
  <2> QED BY <1>1, <1>2, <2>1, PTL DEF Spec

\* Stopping the scheduler leaves no timer, and only a timer that fires starts
\* the next one.
LEMMA StoppedStep == StoppedOK /\ [Next]_vars => StoppedOK'
<1> SUFFICES ASSUME StoppedOK, [Next]_vars, phase' \in {"stopped", "final"}
             PROVE  \A t \in Tasks : offsetDue'[t] = Off /\ intervalDue'[t] = Off
  BY DEF StoppedOK
<1>1. CASE \E t \in Tasks : OffsetFires(t) \/ IntervalFires(t)
  <2> PICK t \in Tasks : OffsetFires(t) \/ IntervalFires(t)
    BY <1>1
  <2>1. /\ phase \in {"stopped", "final"}
        /\ offsetDue[t] # Off \/ intervalDue[t] # Off
    BY DEF OffsetFires, IntervalFires
  <2> QED BY <2>1 DEF StoppedOK
<1>2. CASE StopScheduler
  BY <1>2 DEF StopScheduler
<1>3. CASE \/ LoadConfig \/ StartScheduler \/ CollectionUnavailable \/ Signal
  BY <1>3 DEF LoadConfig, StartScheduler, CollectionUnavailable, Signal
<1>4. CASE \/ \E r \in RunIds : Finish(r)
           \/ WriteFinalStatus \/ Exit \/ Tick \/ UNCHANGED vars
  <2>1. UNCHANGED timerVars /\ phase \in {"stopped", "final"}
    BY <1>4 DEF Finish, StorePayload, TaskSucceeds, TaskFails, PayloadInvalid,
                WriteFinalStatus, Exit, Tick, vars, timerVars
  <2> QED BY <2>1 DEF StoppedOK, timerVars
<1> QED BY <1>1, <1>2, <1>3, <1>4 DEF Next, Finish

LEMMA StoppedIsFinal ==
    StoppedOK /\ phase # "exited" /\ [Next]_vars =>
        ((phase \in {"stopped", "final", "exited"}) => (started' = started))
<1> SUFFICES ASSUME StoppedOK, [Next]_vars, phase \in {"stopped", "final"}
             PROVE  started' = started
  OBVIOUS
<1>1. CASE \E t \in Tasks : OffsetFires(t) \/ IntervalFires(t)
  <2> PICK t \in Tasks : OffsetFires(t) \/ IntervalFires(t)
    BY <1>1
  <2>1. offsetDue[t] # Off \/ intervalDue[t] # Off
    BY DEF OffsetFires, IntervalFires
  <2> QED BY <2>1 DEF StoppedOK
<1>2. CASE \E r \in RunIds : Finish(r)
  BY <1>2 DEF Finish, StorePayload, TaskSucceeds, TaskFails, PayloadInvalid
<1>3. CASE \/ LoadConfig \/ StartScheduler \/ CollectionUnavailable \/ Signal
           \/ StopScheduler \/ WriteFinalStatus \/ Exit \/ Tick \/ UNCHANGED vars
  BY <1>3 DEF LoadConfig, StartScheduler, CollectionUnavailable, Signal, StopScheduler,
              WriteFinalStatus, Exit, Tick, vars, runVars
<1> QED BY <1>1, <1>2, <1>3 DEF Next, Finish

\* Once the scheduler is stopped no execution starts, and none starts in a
\* process that has ended.
THEOREM StopTheorem == Spec => NothingStartsAfterStop
<1> DEFINE Down == phase \in {"stopped", "final", "exited"}
<1>1. Init => StoppedOK
  BY DEF Init, StoppedOK
<1>2. StoppedOK /\ [Next]_vars => StoppedOK'
  BY StoppedStep
<1>3. StoppedOK /\ [Next]_vars => [Down => (started' = started)]_vars
  <2>1. phase = "exited" /\ Next => started' = started
    <3> SUFFICES ASSUME phase = "exited", Next PROVE started' = started
      OBVIOUS
    <3> QED BY DEF Next, LoadConfig, StartScheduler, CollectionUnavailable, OffsetFires,
               IntervalFires, StorePayload, TaskSucceeds, TaskFails, PayloadInvalid, Collecting,
               Signal, StopScheduler, WriteFinalStatus, Exit, Tick, Alive
  <2> QED BY <2>1, StoppedIsFinal
<1> QED BY <1>1, <1>2, <1>3, PTL DEF Spec, NothingStartsAfterStop
=============================================================================
