----------------------- MODULE AiConformanceRun_proofs -----------------------
(***************************************************************************)
(* For any number of runs, checklists of any size and any set of readers:  *)
(* stored results agree with their row, settled runs are final, and a      *)
(* reader, who reads the row and the results of a run at two moments,      *)
(* neither mixes runs nor goes back.                                       *)
(***************************************************************************)
EXTENDS AiConformanceRun, FiniteSetTheorems, SequenceTheorems, TLAPS

\* Where run() is determines what is in the database of it.
RunOK(r) ==
    /\ row[r].state = "absent" => row[r] = NoRow
    /\ row[r].completed <= now
    /\ pc[r] \in {"unused", "evaluating", "recording"} => row[r].state = "absent"
    /\ pc[r] # "returned" => stored[r] = <<>> /\ row[r].state # "failed"
    /\ pc[r] = "unused" => results[r] = <<>>
    /\ pc[r] = "evaluating" => total[r] \in ChecklistSizes /\ Len(results[r]) < total[r]
    /\ pc[r] \in {"recording", "recorded"} => total[r] # 0 /\ Len(results[r]) = total[r]
    /\ pc[r] = "recorded" => Describes(row[r], results[r])
    /\ stored[r] # <<>> => Describes(row[r], stored[r])

\* What a reader has read is still the row, or the row of a run that failed
\* since and has no results; it is not older than what the reader has shown.
ReadOK(x) ==
    reading[x] # NotReading =>
        \E r \in Runs :
            /\ reading[x].run = {r}
            /\ row[r].state # "absent"
            /\ reading[x].record.completed <= row[r].completed
            /\ reading[x].record = row[r] \/ (pc[r] = "returned" /\ stored[r] = <<>>)
            /\ shown[x].record.completed <= reading[x].record.completed

\* What is shown is consistent, and some row is at least as new.
ShownOK(x) ==
    /\ shown[x].requirements # <<>> => Describes(shown[x].record, shown[x].requirements)
    /\ \/ shown[x].record.completed = 0
       \/ \E r \in Runs : /\ row[r].state # "absent"
                          /\ shown[x].record.completed <= row[r].completed

IInv ==
    /\ TypeOK
    /\ \A r \in Runs : RunOK(r)
    /\ SuccessfulTickIsStored
    /\ \A x \in Readers : ReadOK(x) /\ ShownOK(x)

------------------------------------------------------------------------------
(* Types                                                                   *)

\* The totals of a sequence of results are natural numbers.
LEMMA TotalsType ==
    ASSUME NEW s \in Seq(Statuses)
    PROVE  buildTotals(s) \in [Statuses -> Nat]
<1>1. ASSUME NEW x \in Statuses PROVE Cardinality({i \in DOMAIN s : s[i] = x}) \in Nat
  <2>1. DOMAIN s = 1..Len(s) /\ Len(s) \in Nat
    BY LenProperties
  <2>2. IsFiniteSet(1..Len(s))
    BY <2>1, FS_Interval, 1 \in Int
  <2>3. IsFiniteSet({i \in DOMAIN s : s[i] = x})
    BY <2>1, <2>2, FS_Subset, {i \in DOMAIN s : s[i] = x} \subseteq 1..Len(s)
  <2> QED BY <2>3, FS_CardinalityType
<1> QED BY <1>1 DEF buildTotals

\* Results are a sequence of statuses; none is one of them.
LEMMA EvaluationsType ==
    /\ \A s \in Evaluations : s \in Seq(Statuses) /\ Len(s) \in Nat
    /\ <<>> \in Evaluations
<1>1. \A s \in Seq(Statuses) : Len(s) \in Nat
  BY LenProperties
<1>2. <<>> \in Seq(Statuses) /\ Len(<<>>) <= 0
  OBVIOUS
<1> QED BY <1>1, <1>2 DEF Evaluations

\* The absent row has the type of a row.
LEMMA NoRowType == NoRow \in Rows
<1>1. buildTotals(<<>>) \in [Statuses -> Nat]
  BY TotalsType, <<>> \in Seq(Statuses)
<1>2. 0 \in 0..MaxTime
  BY ConformanceAssumption
<1> QED BY <1>1, <1>2 DEF NoRow, Rows, States

\* The two records that run() can write are rows.
LEMMA RecordTypes ==
    ASSUME TypeOK, NEW r \in Runs
    PROVE  RunRecord(r) \in Rows /\ FailedRecord(r) \in Rows
<1>1. results[r] \in Seq(Statuses) /\ requested[r] \in 0..MaxTime /\ total[r] \in {0} \cup ChecklistSizes
  BY EvaluationsType DEF TypeOK
<1>2. now \in 0..MaxTime
  BY ConformanceAssumption DEF TypeOK
<1>3. buildTotals(results[r]) \in [Statuses -> Nat]
  BY <1>1, TotalsType
<1>4. computeRunState(results[r]) \in States
  BY DEF computeRunState, States
<1>5. RunRecord(r) \in Rows
  BY <1>1, <1>2, <1>3, <1>4 DEF RunRecord, Rows
<1>6. FailedRecord(r) \in Rows
  BY <1>1, <1>2, NoRowType DEF FailedRecord, Rows, States
<1> QED BY <1>5, <1>6

\* A summary of a row and results of a run has the type of a summary.
LEMMA SummaryType ==
    ASSUME NEW record \in Rows, NEW ids \in RunIds, NEW s \in Evaluations
    PROVE  Summary(ids, record, s) \in Summaries
<1>1. Outcome(record) \in {"none", "failed", "success"}
  BY DEF Outcome, Successes
<1> QED BY <1>1 DEF Summary, Summaries

\* So do the default summary and the reading of nothing.
LEMMA EmptySummaryType == EmptySummary \in Summaries /\ NotReading \in [run : RunIds, record : Rows]
<1>1. {} \in RunIds
  BY DEF RunIds
<1> QED BY <1>1, NoRowType, EvaluationsType, SummaryType DEF EmptySummary, NotReading

\* What run() records describes what it collected.
LEMMA RecordDescribes ==
    ASSUME NEW r \in Runs, Len(results[r]) = total[r]
    PROVE  /\ Describes(RunRecord(r), results[r])
           /\ RunRecord(r).state \notin {"absent", "failed"}
BY DEF RunRecord, Describes, computeRunState, Successes

------------------------------------------------------------------------------
(* Frames                                                                  *)

\* Init satisfies the inductive invariant.
LEMMA InitIInv == Init => IInv
<1> SUFFICES ASSUME Init PROVE IInv
  OBVIOUS
<1>1. 0 \in 0..MaxTime /\ 1 \in 1..MaxTime
  BY ConformanceAssumption
<1>2. TypeOK
  BY <1>1, NoRowType, EvaluationsType, EmptySummaryType
  DEF Init, TypeOK, Owners, Steps, RunIds
<1>3. \A r \in Runs : RunOK(r)
  BY <1>1 DEF Init, RunOK, NoRow
<1>4. SuccessfulTickIsStored
  BY DEF Init, SuccessfulTickIsStored
<1>5. \A x \in Readers : ReadOK(x) /\ ShownOK(x)
  BY DEF Init, ReadOK, ShownOK, EmptySummary, Summary, NoRow
<1> QED BY <1>2, <1>3, <1>4, <1>5 DEF IInv

\* How a step may change the database: a row appears, its results appear, or it
\* is rewritten at the end of a run that has none.
RunMoves(r) ==
    /\ pc[r] = "returned" => pc'[r] = "returned"
    /\ \/ row'[r] = row[r] /\ stored'[r] = stored[r]
       \/ row'[r] = row[r] /\ pc[r] = "recorded"
       \/ /\ row[r].state = "absent" /\ row'[r].state # "absent"
          /\ row[r].completed <= row'[r].completed
       \/ /\ row'[r].state # "absent" /\ row[r].completed <= row'[r].completed
          /\ pc'[r] = "returned" /\ stored'[r] = <<>>

\* Such a step keeps what readers rely on.
LEMMA ReadersStay ==
    ASSUME TypeOK, TypeOK', \A r \in Runs : RunMoves(r),
           \A x \in Readers : ReadOK(x) /\ ShownOK(x),
           reading' = reading, shown' = shown
    PROVE  \A x \in Readers : ReadOK(x)' /\ ShownOK(x)'
<1> SUFFICES ASSUME NEW x \in Readers PROVE ReadOK(x)' /\ ShownOK(x)'
  OBVIOUS
<1>1. /\ shown[x].record.completed \in Nat /\ reading[x].record.completed \in Nat
      /\ \A r \in Runs : row[r].completed \in Nat /\ row'[r].completed \in Nat
  BY DEF TypeOK, Summaries, Rows
<1>2. ASSUME NEW r \in Runs, row[r].state # "absent"
      PROVE  row'[r].state # "absent" /\ row[r].completed <= row'[r].completed
  BY <1>1, <1>2 DEF RunMoves
<1>3. ReadOK(x)'
  <2> SUFFICES ASSUME reading[x] # NotReading PROVE ReadOK(x)'
    BY DEF ReadOK
  <2>1. PICK r \in Runs : /\ reading[x].run = {r}
                          /\ row[r].state # "absent"
                          /\ reading[x].record.completed <= row[r].completed
                          /\ reading[x].record = row[r] \/ (pc[r] = "returned" /\ stored[r] = <<>>)
                          /\ shown[x].record.completed <= reading[x].record.completed
    BY DEF ReadOK
  <2>2. reading[x].record.completed <= row'[r].completed
    BY <1>1, <1>2, <2>1
  <2>3. reading[x].record = row'[r] \/ (pc'[r] = "returned" /\ stored'[r] = <<>>)
    BY <2>1 DEF RunMoves
  <2> QED BY <1>2, <2>1, <2>2, <2>3 DEF ReadOK
<1>4. ShownOK(x)'
  <2>1. CASE shown[x].record.completed = 0
    BY <2>1 DEF ShownOK, Describes
  <2>2. ASSUME NEW r \in Runs, row[r].state # "absent",
               shown[x].record.completed <= row[r].completed
        PROVE  ShownOK(x)'
    <3>1. shown[x].record.completed <= row'[r].completed
      BY <1>1, <1>2, <2>2
    <3> QED BY <1>2, <2>2, <3>1 DEF ShownOK, Describes
  <2> QED BY <2>1, <2>2 DEF ShownOK
<1> QED BY <1>3, <1>4

\* What a step does not touch of a run keeps the run in order.
LEMMA OtherRuns ==
    ASSUME NEW r \in Runs, \A q \in Runs : RunOK(q), RunOK(r)', now' = now,
           \A q \in Runs \ {r} : /\ pc'[q] = pc[q] /\ total'[q] = total[q]
                                 /\ results'[q] = results[q]
                                 /\ row'[q] = row[q] /\ stored'[q] = stored[q]
    PROVE  \A q \in Runs : RunOK(q)'
BY DEF RunOK, Describes

\* A tick that succeeded stays stored while settled runs are final.
LEMMA TickStays ==
    ASSUME SuccessfulTickIsStored,
           snapshot' = snapshot \/ snapshot'.outcome # "success",
           \A r \in Runs : stored[r] # <<>> => row'[r] = row[r] /\ stored'[r] = stored[r]
    PROVE  SuccessfulTickIsStored'
BY DEF SuccessfulTickIsStored
------------------------------------------------------------------------------
(* The steps of run()                                                      *)

\* Begin starts an unused run.
LEMMA StepBegin ==
    ASSUME IInv, NEW r \in Runs, NEW who \in {"operator", "cli"},
           NEW n \in {0} \cup ChecklistSizes, Begin(r, who, n)
    PROVE  IInv'
<1> USE DEF IInv, Begin, runVars, dbVars, readVars
<1>1. TypeOK'
  BY ConformanceAssumption DEF TypeOK, Owners, Steps
<1>2. \A q \in Runs : RunOK(q)'
  <2>1. RunOK(r)'
    <3>1. results[r] = <<>> /\ row[r].state = "absent" /\ stored[r] = <<>>
      BY DEF RunOK
    <3>2. pc'[r] = IF n = 0 THEN "failing" ELSE "evaluating"
      BY DEF TypeOK
    <3>3. total'[r] = n /\ (n # 0 => Len(results[r]) < n)
      BY <3>1, ConformanceAssumption DEF TypeOK
    <3> QED BY <3>1, <3>2, <3>3 DEF RunOK
  <2> QED BY <2>1, OtherRuns DEF TypeOK
<1>3. SuccessfulTickIsStored'
  BY TickStays
<1>4. \A x \in Readers : ReadOK(x)' /\ ShownOK(x)'
  BY <1>1, ReadersStay DEF RunMoves, TypeOK
<1> QED BY <1>1, <1>2, <1>3, <1>4

\* Evaluate collects one more result.
LEMMA StepEvaluate ==
    ASSUME IInv, NEW r \in Runs, NEW s \in Statuses, Evaluate(r, s)
    PROVE  IInv'
<1> USE DEF IInv, Evaluate, dbVars, readVars
<1> DEFINE more == Append(results[r], s)
<1>1. /\ results[r] \in Seq(Statuses) /\ Len(results[r]) \in Nat
      /\ total[r] \in ChecklistSizes /\ total[r] \in Nat \ {0}
      /\ Len(results[r]) < total[r]
  BY EvaluationsType, ConformanceAssumption DEF TypeOK, RunOK
<1>2. more \in Seq(Statuses) /\ Len(more) = Len(results[r]) + 1
  BY <1>1, AppendProperties
<1>3. more \in Evaluations
  BY <1>1, <1>2 DEF Evaluations
<1>4. TypeOK'
  BY <1>3 DEF TypeOK, Steps
<1>5. \A q \in Runs : RunOK(q)'
  <2>1. RunOK(r)'
    <3>1. results'[r] = more /\ pc'[r] \in {"evaluating", "recording"}
      BY DEF TypeOK
    <3>2. pc'[r] = "evaluating" => Len(more) < total[r]
      BY <1>1, <1>2 DEF TypeOK
    <3>3. pc'[r] = "recording" => Len(more) = total[r]
      BY <1>1, <1>2 DEF TypeOK
    <3> QED BY <1>1, <3>1, <3>2, <3>3 DEF RunOK
  <2> QED BY <2>1, OtherRuns DEF TypeOK
<1>6. SuccessfulTickIsStored'
  BY TickStays
<1>7. \A x \in Readers : ReadOK(x)' /\ ShownOK(x)'
  BY <1>4, ReadersStay DEF RunMoves, TypeOK
<1> QED BY <1>4, <1>5, <1>6, <1>7

\* RecordRun writes the row of a run that has none.
LEMMA StepRecordRun ==
    ASSUME IInv, NEW r \in Runs, RecordRun(r)
    PROVE  IInv'
<1> USE DEF IInv, RecordRun, readVars
<1>1. row[r] = NoRow /\ stored[r] = <<>> /\ Len(results[r]) = total[r] /\ total[r] # 0
  BY DEF RunOK
<1>2. row' = [row EXCEPT ![r] = RunRecord(r)]
  BY <1>1 DEF upsertRun, NoRow
<1>3. TypeOK'
  BY <1>2, RecordTypes DEF TypeOK, Steps
<1>4. Describes(RunRecord(r), results[r]) /\ RunRecord(r).state \notin {"absent", "failed"}
  BY <1>1, RecordDescribes
<1>5. row'[r] = RunRecord(r) /\ pc'[r] = "recorded" /\ RunRecord(r).completed = now
  BY <1>2 DEF TypeOK, RunRecord
<1>6. \A q \in Runs : RunOK(q)'
  <2>1. RunOK(r)'
    BY <1>1, <1>4, <1>5 DEF RunOK, Describes, TypeOK
  <2> QED BY <1>2, <2>1, OtherRuns DEF TypeOK
<1>7. SuccessfulTickIsStored'
  BY <1>1, <1>2, TickStays DEF TypeOK
<1>8. \A x \in Readers : ReadOK(x)' /\ ShownOK(x)'
  <2>1. RunMoves(r)
    BY <1>1, <1>4, <1>5, ConformanceAssumption DEF RunMoves, NoRow, TypeOK
  <2>2. \A q \in Runs \ {r} : RunMoves(q)
    BY <1>2 DEF RunMoves, TypeOK
  <2> QED BY <1>3, <2>1, <2>2, ReadersStay
<1> QED BY <1>3, <1>6, <1>7, <1>8

\* InsertResults stores what the row describes.
LEMMA StepInsertResults ==
    ASSUME IInv, NEW r \in Runs, InsertResults(r)
    PROVE  IInv'
<1> USE DEF IInv, InsertResults, Settle, readVars
<1>1. /\ stored[r] = <<>> /\ results[r] \in Evaluations /\ results[r] # <<>>
      /\ Describes(row[r], results[r])
  BY EvaluationsType DEF RunOK, TypeOK
<1>2. TypeOK'
  BY <1>1 DEF TypeOK, Steps, RunIds
<1>3. stored'[r] = results[r] /\ pc'[r] = "returned" /\ row'[r] = row[r]
  BY DEF TypeOK
<1>4. \A q \in Runs : RunOK(q)'
  <2>1. RunOK(r)'
    BY <1>1, <1>3 DEF RunOK, Describes
  <2> QED BY <2>1, OtherRuns DEF TypeOK
<1>5. SuccessfulTickIsStored'
  <2>1. CASE owner[r] = "operator"
    BY <1>1, <1>3, <2>1 DEF SuccessfulTickIsStored, Describes
  <2>2. CASE owner[r] # "operator"
    BY <1>1, <2>2, TickStays DEF TypeOK
  <2> QED BY <2>1, <2>2
<1>6. \A x \in Readers : ReadOK(x)' /\ ShownOK(x)'
  BY <1>2, ReadersStay DEF RunMoves, TypeOK
<1> QED BY <1>2, <1>4, <1>5, <1>6

\* WriteThrows leaves the database alone.
LEMMA StepWriteThrows ==
    ASSUME IInv, NEW r \in Runs, WriteThrows(r)
    PROVE  IInv'
<1> USE DEF IInv, WriteThrows, dbVars, readVars
<1>1. TypeOK'
  BY DEF TypeOK, Steps
<1>2. \A q \in Runs : RunOK(q)'
  <2>1. RunOK(r)'
    BY DEF RunOK, Describes, TypeOK
  <2> QED BY <2>1, OtherRuns DEF TypeOK
<1>3. SuccessfulTickIsStored'
  BY TickStays
<1>4. \A x \in Readers : ReadOK(x)' /\ ShownOK(x)'
  BY <1>1, ReadersStay DEF RunMoves, TypeOK
<1> QED BY <1>1, <1>2, <1>3, <1>4

\* RecordFailure rewrites the row of a run without results.
LEMMA StepRecordFailure ==
    ASSUME IInv, NEW r \in Runs, RecordFailure(r)
    PROVE  IInv'
<1> USE DEF IInv, RecordFailure, Settle, readVars
<1>1. stored[r] = <<>> /\ row[r].completed <= now
  BY DEF RunOK
<1>2. PICK record \in Rows : /\ row' = [row EXCEPT ![r] = record]
                             /\ record.state = "failed" /\ record.completed = now
  <2>1. FailedRecord(r) \in Rows /\ row[r].requested \in 0..MaxTime
    BY RecordTypes DEF TypeOK, Rows
  <2>2. FailedRecord(r).state = "failed" /\ FailedRecord(r).completed = now
    BY DEF FailedRecord, NoRow
  <2>3. CASE row[r].state = "absent"
    BY <2>1, <2>2, <2>3 DEF upsertRun
  <2>4. CASE row[r].state # "absent"
    <3>1. [FailedRecord(r) EXCEPT !.requested = row[r].requested] \in Rows
      BY <2>1 DEF Rows
    <3>2. /\ [FailedRecord(r) EXCEPT !.requested = row[r].requested].state = "failed"
          /\ [FailedRecord(r) EXCEPT !.requested = row[r].requested].completed = now
      BY <2>1, <2>2 DEF Rows
    <3> QED BY <2>4, <3>1, <3>2 DEF upsertRun
  <2> QED BY <2>3, <2>4
<1>3. TypeOK'
  BY <1>2 DEF TypeOK, Steps, RunIds
<1>4. row'[r] = record /\ pc'[r] = "returned" /\ stored'[r] = <<>>
  BY <1>1, <1>2 DEF TypeOK
<1>5. \A q \in Runs : RunOK(q)'
  <2>1. RunOK(r)'
    BY <1>2, <1>4 DEF RunOK, TypeOK
  <2> QED BY <1>2, <2>1, OtherRuns DEF TypeOK
<1>6. SuccessfulTickIsStored'
  BY <1>1, <1>2, TickStays DEF TypeOK
<1>7. \A x \in Readers : ReadOK(x)' /\ ShownOK(x)'
  <2>1. RunMoves(r)
    BY <1>1, <1>2, <1>4 DEF RunMoves
  <2>2. \A q \in Runs \ {r} : RunMoves(q)
    BY <1>2 DEF RunMoves, TypeOK
  <2> QED BY <1>3, <2>1, <2>2, ReadersStay
<1> QED BY <1>3, <1>5, <1>6, <1>7

\* FailureUnrecorded ends the run and leaves the database alone.
LEMMA StepFailureUnrecorded ==
    ASSUME IInv, NEW r \in Runs, FailureUnrecorded(r)
    PROVE  IInv'
<1> USE DEF IInv, FailureUnrecorded, Settle, dbVars, readVars
<1>1. TypeOK'
  BY DEF TypeOK, Steps, RunIds
<1>2. \A q \in Runs : RunOK(q)'
  <2>1. RunOK(r)'
    BY DEF RunOK, Describes, TypeOK
  <2> QED BY <2>1, OtherRuns DEF TypeOK
<1>3. SuccessfulTickIsStored'
  BY TickStays
<1>4. \A x \in Readers : ReadOK(x)' /\ ShownOK(x)'
  BY <1>1, ReadersStay DEF RunMoves, TypeOK
<1> QED BY <1>1, <1>2, <1>3, <1>4
------------------------------------------------------------------------------
(* The steps of readers                                                    *)

\* ReadRun reads a row that is at least as new as what was shown.
LEMMA StepReadRun ==
    ASSUME IInv, NEW x \in Readers, ReadRun(x)
    PROVE  IInv'
<1> USE DEF IInv, ReadRun, runVars, dbVars
<1>1. PICK r \in Runs : IsLatest(r) /\ reading' = [reading EXCEPT ![x] =
                                         [run |-> {r}, record |-> row[r]]]
  OBVIOUS
<1>2. TypeOK'
  BY <1>1 DEF TypeOK, RunIds
<1>3. \A q \in Runs : RunOK(q)'
  BY DEF RunOK, Describes
<1>4. SuccessfulTickIsStored'
  BY DEF SuccessfulTickIsStored
<1>5. ASSUME NEW y \in Readers PROVE ReadOK(y)' /\ ShownOK(y)'
  <2>1. ShownOK(y)'
    BY DEF ShownOK, Describes
  <2>2. CASE y = x
    <3>1. /\ reading'[x].run = {r} /\ reading'[x].record = row[r]
          /\ row[r].state # "absent"
      BY <1>1 DEF TypeOK, IsLatest, Recorded
    <3>2. shown[x].record.completed \in Nat /\ \A q \in Runs : row[q].completed \in Nat
      BY DEF TypeOK, Summaries, Rows
    <3>3. shown[x].record.completed <= row[r].completed
      BY <1>1, <3>2 DEF ShownOK, IsLatest, Recorded
    <3> QED BY <2>1, <2>2, <3>1, <3>2, <3>3 DEF ReadOK
  <2>3. CASE y # x
    BY <1>1, <2>1, <2>3 DEF ReadOK, TypeOK
  <2> QED BY <2>2, <2>3
<1> QED BY <1>2, <1>3, <1>4, <1>5

\* ReadNothing shows the default summary.
LEMMA StepReadNothing ==
    ASSUME IInv, NEW x \in Readers, ReadNothing(x)
    PROVE  IInv'
<1> USE DEF IInv, ReadNothing, runVars, dbVars
<1>1. TypeOK'
  BY EmptySummaryType DEF TypeOK
<1>2. \A q \in Runs : RunOK(q)'
  BY DEF RunOK, Describes
<1>3. SuccessfulTickIsStored'
  BY DEF SuccessfulTickIsStored
<1>4. ASSUME NEW y \in Readers PROVE ReadOK(y)' /\ ShownOK(y)'
  <2>1. CASE y = x
    BY <2>1 DEF ReadOK, ShownOK, TypeOK, EmptySummary, Summary, NoRow
  <2>2. CASE y # x
    BY <2>2 DEF ReadOK, ShownOK, Describes, TypeOK
  <2> QED BY <2>1, <2>2
<1> QED BY <1>1, <1>2, <1>3, <1>4

\* What ReadResults shows is described by what was read before.
LEMMA ShowsWhatWasRead ==
    ASSUME IInv, NEW x \in Readers, ReadResults(x)
    PROVE  \E r \in Runs :
              /\ reading[x].run = {r}
              /\ shown' = [shown EXCEPT ![x] = Summary({r}, reading[x].record, stored[r])]
              /\ stored[r] # <<>> => Describes(reading[x].record, stored[r])
              /\ row[r].state # "absent"
              /\ reading[x].record.completed <= row[r].completed
              /\ shown[x].record.completed <= reading[x].record.completed
<1>1. PICK r \in Runs : /\ reading[x].run = {r}
                        /\ shown' = [shown EXCEPT ![x] =
                              Summary({r}, reading[x].record, stored[r])]
  BY DEF ReadResults
<1>2. reading[x] # NotReading /\ ReadOK(x)
  BY DEF ReadResults, IInv
<1>3. PICK q \in Runs : /\ reading[x].run = {q}
                        /\ row[q].state # "absent"
                        /\ reading[x].record.completed <= row[q].completed
                        /\ reading[x].record = row[q] \/ (pc[q] = "returned" /\ stored[q] = <<>>)
                        /\ shown[x].record.completed <= reading[x].record.completed
  BY <1>2 DEF ReadOK
<1>4. q = r
  BY <1>1, <1>3
<1>5. stored[r] # <<>> => Describes(reading[x].record, stored[r])
  BY <1>3, <1>4 DEF IInv, RunOK
<1> QED BY <1>1, <1>3, <1>4, <1>5

\* ReadResults shows a consistent summary that is backed by a row.
LEMMA StepReadResults ==
    ASSUME IInv, NEW x \in Readers, ReadResults(x)
    PROVE  IInv'
<1> USE DEF IInv
<1>1. PICK r \in Runs :
              /\ reading[x].run = {r}
              /\ shown' = [shown EXCEPT ![x] = Summary({r}, reading[x].record, stored[r])]
              /\ stored[r] # <<>> => Describes(reading[x].record, stored[r])
              /\ row[r].state # "absent"
              /\ reading[x].record.completed <= row[r].completed
  BY ShowsWhatWasRead
<1>2. TypeOK'
  <2>1. Summary({r}, reading[x].record, stored[r]) \in Summaries
    BY SummaryType DEF TypeOK, RunIds
  <2> QED BY <1>1, <2>1, EmptySummaryType DEF TypeOK, ReadResults, runVars, dbVars
<1>3. \A q \in Runs : RunOK(q)'
  BY DEF ReadResults, runVars, dbVars, RunOK, Describes
<1>4. SuccessfulTickIsStored'
  BY DEF ReadResults, runVars, dbVars, SuccessfulTickIsStored
<1>5. ASSUME NEW y \in Readers PROVE ReadOK(y)' /\ ShownOK(y)'
  <2>1. CASE y = x
    <3>1. shown'[x] = Summary({r}, reading[x].record, stored[r]) /\ reading'[x] = NotReading
      BY <1>1 DEF ReadResults, TypeOK
    <3>2. shown'[x].record = reading[x].record /\ shown'[x].requirements = stored[r]
      BY <3>1 DEF Summary
    <3>3. row'[r] = row[r]
      BY DEF ReadResults, dbVars
    <3>4. ReadOK(x)'
      BY <3>1 DEF ReadOK
    <3>5. shown'[x].requirements # <<>> =>
              Describes(shown'[x].record, shown'[x].requirements)
      BY <1>1, <3>2 DEF Describes
    <3>6. row'[r].state # "absent" /\ shown'[x].record.completed <= row'[r].completed
      BY <1>1, <3>2, <3>3
    <3> QED BY <2>1, <3>4, <3>5, <3>6 DEF ShownOK, Describes
  <2>2. CASE y # x
    BY <2>2, <1>1 DEF ReadResults, runVars, dbVars, ReadOK, ShownOK, Describes, TypeOK
  <2> QED BY <2>1, <2>2
<1> QED BY <1>2, <1>3, <1>4, <1>5

------------------------------------------------------------------------------
(* The steps of the environment                                            *)

\* CliKilled ends a run where it is.
LEMMA StepCliKilled ==
    ASSUME IInv, NEW r \in Runs, CliKilled(r)
    PROVE  IInv'
<1> USE DEF IInv, CliKilled, dbVars, readVars
<1>1. TypeOK'
  BY DEF TypeOK, Steps
<1>2. \A q \in Runs : RunOK(q)'
  <2>1. RunOK(r)'
    BY DEF RunOK, Describes, TypeOK, Active
  <2> QED BY <2>1, OtherRuns DEF TypeOK
<1>3. SuccessfulTickIsStored'
  BY TickStays
<1>4. \A x \in Readers : ReadOK(x)' /\ ShownOK(x)'
  BY <1>1, ReadersStay DEF RunMoves, TypeOK, Active
<1> QED BY <1>1, <1>2, <1>3, <1>4

\* OperatorKilled ends all runs of the operator and its reading.
LEMMA StepOperatorKilled ==
    ASSUME IInv, OperatorKilled
    PROVE  IInv'
<1> USE DEF IInv, OperatorKilled, dbVars
<1>1. TypeOK'
  BY EmptySummaryType DEF TypeOK, Steps, RunIds
<1>2. \A q \in Runs : RunOK(q)'
  BY DEF RunOK, Describes, TypeOK, Active
<1>3. SuccessfulTickIsStored'
  BY DEF SuccessfulTickIsStored
<1>4. ASSUME NEW y \in Readers PROVE ReadOK(y)' /\ ShownOK(y)'
  <2>1. ShownOK(y)'
    BY DEF ShownOK, Describes
  <2>2. reading'[y] = reading[y] \/ reading'[y] = NotReading
    BY DEF TypeOK
  <2>3. \A r \in Runs : pc[r] = "returned" => pc'[r] = "returned"
    BY DEF Active
  <2> QED BY <2>1, <2>2, <2>3 DEF ReadOK
<1> QED BY <1>1, <1>2, <1>3, <1>4

\* The steps that touch no run: a tick that throws, a restart, the clock.
LEMMA StepOthers ==
    ASSUME IInv, TickThrows \/ OperatorRestarts \/ ClockTicks \/ UNCHANGED vars
    PROVE  IInv'
<1> USE DEF IInv, TickThrows, OperatorRestarts, ClockTicks, vars, runVars, dbVars, readVars
<1>1. TypeOK'
  <2>1. now' \in 1..MaxTime
    BY ConformanceAssumption DEF TypeOK
  <2>2. snapshot' \in [outcome : {"none", "failed", "success"}, run : RunIds]
    BY DEF TypeOK, RunIds
  <2> QED BY <2>1, <2>2 DEF TypeOK
<1>2. \A q \in Runs : RunOK(q)'
  <2>1. now \in Int /\ now <= now' /\ \A q \in Runs : row[q].completed \in Int
    BY <1>1 DEF TypeOK, Rows
  <2> QED BY <1>1, <2>1 DEF RunOK, Describes, TypeOK
<1>3. SuccessfulTickIsStored'
  BY TickStays
<1>4. \A x \in Readers : ReadOK(x)' /\ ShownOK(x)'
  BY DEF ReadOK, ShownOK, Describes
<1> QED BY <1>1, <1>2, <1>3, <1>4

\* Every step keeps the inductive invariant.
LEMMA NextIInv == IInv /\ [Next]_vars => IInv'
<1> SUFFICES ASSUME IInv, [Next]_vars PROVE IInv'
  OBVIOUS
<1>1. ASSUME NEW r \in Runs, NEW who \in {"operator", "cli"},
             NEW n \in {0} \cup ChecklistSizes, Begin(r, who, n)
      PROVE  IInv'
  BY <1>1, StepBegin
<1>2. ASSUME NEW r \in Runs, NEW s \in Statuses, Evaluate(r, s) PROVE IInv'
  BY <1>2, StepEvaluate
<1>3. ASSUME NEW r \in Runs, RunContinues(r) PROVE IInv'
  BY <1>3, StepRecordRun, StepInsertResults, StepWriteThrows, StepRecordFailure,
     StepFailureUnrecorded DEF RunContinues
<1>4. ASSUME NEW r \in Runs, CliKilled(r) PROVE IInv'
  BY <1>4, StepCliKilled
<1>5. ASSUME NEW x \in Readers, ReadRun(x) \/ ReadNothing(x) \/ ReadResults(x) PROVE IInv'
  BY <1>5, StepReadRun, StepReadNothing, StepReadResults
<1>6. CASE OperatorKilled
  BY <1>6, StepOperatorKilled
<1>7. CASE TickThrows \/ OperatorRestarts \/ ClockTicks \/ UNCHANGED vars
  BY <1>7, StepOthers
<1> QED BY <1>1, <1>2, <1>3, <1>4, <1>5, <1>6, <1>7 DEF Next, RunContinues

------------------------------------------------------------------------------
(* Theorems                                                                *)

\* The inductive invariant holds in every reachable state.
THEOREM Inductive == Spec => []IInv
<1>1. Init => IInv
  BY InitIInv
<1>2. IInv /\ [Next]_vars => IInv'
  BY NextIInv
<1> QED BY <1>1, <1>2, PTL DEF Spec

\* Every variable keeps its type.
THEOREM TypeCorrect == Spec => []TypeOK
<1>1. IInv => TypeOK
  BY DEF IInv
<1> QED BY <1>1, Inductive, PTL

\* The results that are stored of a run are those its row counts, and a run
\* recorded as failed has none: insertRequirementResults and upsertRun agree.
THEOREM ResultsAgree == Spec => []ResultsAgreeWithRow
<1>1. IInv => ResultsAgreeWithRow
  BY DEF IInv, RunOK, ResultsAgreeWithRow
<1> QED BY <1>1, Inductive, PTL

\* A tick that says success has stored a whole run.
THEOREM SuccessIsStored == Spec => []SuccessfulTickIsStored
<1>1. IInv => SuccessfulTickIsStored
  BY DEF IInv
<1> QED BY <1>1, Inductive, PTL

\* buildLatestSummary, with others writing between its two reads, mixes no runs.
THEOREM SummaryConsistent == Spec => []SummaryIsConsistent
<1>1. IInv => SummaryIsConsistent
  BY DEF IInv, ShownOK, SummaryIsConsistent
<1> QED BY <1>1, Inductive, PTL

\* No step rewrites a run that has results or has been recorded as failed.
THEOREM SettledIsFinal == Spec => SettledRunsAreFinal
<1> DEFINE Final == \A r \in Runs : stored[r] # <<>> \/ row[r].state = "failed" =>
                       row'[r] = row[r] /\ stored'[r] = stored[r]
<1>1. ASSUME IInv, [Next]_vars PROVE Final
  <2> SUFFICES ASSUME NEW q \in Runs, stored[q] # <<>> \/ row[q].state = "failed"
               PROVE  row'[q] = row[q] /\ stored'[q] = stored[q]
    OBVIOUS
  <2>1. pc[q] = "returned" /\ TypeOK
    BY <1>1 DEF IInv, RunOK
  <2>2. ASSUME NEW r \in Runs, RunContinues(r) PROVE r # q
    BY <2>1, <2>2
    DEF RunContinues, RecordRun, InsertResults, WriteThrows, RecordFailure, FailureUnrecorded
  <2>3. ASSUME NEW r \in Runs, RunContinues(r)
        PROVE  row'[q] = row[q] /\ stored'[q] = stored[q]
    BY <2>1, <2>2, <2>3
    DEF RunContinues, RecordRun, InsertResults, WriteThrows, RecordFailure, FailureUnrecorded,
        upsertRun, dbVars, TypeOK
  <2> QED BY <1>1, <2>3
          DEF Next, RunContinues, Begin, Evaluate, CliKilled, TickThrows, ReadRun, ReadNothing,
              ReadResults, OperatorKilled, OperatorRestarts, ClockTicks, vars, dbVars
<1>2. IInv /\ [Next]_vars => [Final]_vars
  BY <1>1
<1> QED BY <1>2, Inductive, PTL DEF Spec, SettledRunsAreFinal

\* No reader is shown an older run than before, although it reads twice.
THEOREM SummariesForward == Spec => SummariesMoveForward
<1> DEFINE Forward == \A x \in Readers : shown'[x].outcome # "none" =>
                         shown'[x].record.completed >= shown[x].record.completed
<1>1. ASSUME IInv, [Next]_vars PROVE Forward
  <2> SUFFICES ASSUME NEW y \in Readers, shown'[y].outcome # "none"
               PROVE  shown'[y].record.completed >= shown[y].record.completed
    OBVIOUS
  <2>1. shown[y].record.completed \in Nat
    BY <1>1 DEF IInv, TypeOK, Summaries, Rows
  <2>2. CASE shown'[y] = shown[y]
    BY <2>1, <2>2
  <2>3. ASSUME NEW x \in Readers, ReadNothing(x)
        PROVE  shown'[y].record.completed >= shown[y].record.completed
    <3>1. shown' = [shown EXCEPT ![x] = EmptySummary] /\ EmptySummary.outcome = "none"
      BY <2>3 DEF ReadNothing, EmptySummary, Summary, Outcome, NoRow, Successes
    <3>2. x # y
      BY <1>1, <3>1 DEF IInv, TypeOK
    <3> QED BY <1>1, <2>1, <3>1, <3>2 DEF IInv, TypeOK
  <2>4. ASSUME NEW x \in Readers, ReadResults(x)
        PROVE  shown'[y].record.completed >= shown[y].record.completed
    <3>1. PICK r \in Runs :
              /\ shown' = [shown EXCEPT ![x] = Summary({r}, reading[x].record, stored[r])]
              /\ shown[x].record.completed <= reading[x].record.completed
      BY <1>1, <2>4, ShowsWhatWasRead
    <3>2. CASE x = y
      <4>1. shown'[y].record = reading[y].record
        BY <1>1, <3>1, <3>2 DEF IInv, TypeOK, Summary
      <4>2. reading[y].record.completed \in Nat
        BY <1>1 DEF IInv, TypeOK, Rows
      <4> QED BY <2>1, <3>1, <3>2, <4>1, <4>2
    <3>3. CASE x # y
      BY <1>1, <2>1, <3>1, <3>3 DEF IInv, TypeOK
    <3> QED BY <3>2, <3>3
  <2> QED BY <1>1, <2>2, <2>3, <2>4
          DEF Next, Begin, Evaluate, RecordRun, InsertResults, WriteThrows, RecordFailure,
              FailureUnrecorded, CliKilled, TickThrows, ReadRun, OperatorKilled,
              OperatorRestarts, ClockTicks, vars, readVars
<1>2. IInv /\ [Next]_vars => [Forward]_vars
  BY <1>1
<1> QED BY <1>2, Inductive, PTL DEF Spec, SummariesMoveForward

\* A run in the database is whole for whoever is told that it succeeded.
THEOREM StoredIsWhole == Spec => []StoredRunsAreWhole
BY ResultsAgree, SuccessIsStored, PTL DEF StoredRunsAreWhole

\* Neither the database nor what a reader has seen of it is taken back.
THEOREM Forward == Spec => RunsMoveForward
BY SettledIsFinal, SummariesForward DEF RunsMoveForward
==============================================================================
