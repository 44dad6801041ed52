------------------------ MODULE AssessmentRun_proofs ------------------------
(***************************************************************************)
(* For any number of runs, checks and instants: what a completed run has   *)
(* stored is whole and final, and what is published of it is what is       *)
(* stored.  The properties are not inductive; what is missing is how the   *)
(* counters, the rows and the place of each run are related, RunOK.        *)
(***************************************************************************)
EXTENDS AssessmentRun, FiniteSetTheorems, SequenceTheorems, TLAPS

Counts(checks) == [o \in Outcomes |-> Occurrences(o, checks)]

\* Where run() is determines its row; the counters count what is stored.
RunOK(r) ==
    /\ tally[r] = Counts(history[r])
    /\ pc[r] = "unused" => row[r] = NoRow
    /\ pc[r] \in {"unused", "queued"} => history[r] = <<>>
    /\ pc[r] \in Active => row[r].completed = 0 /\ row[r].total = total[r]
    /\ pc[r] = "checking" => Len(history[r]) < total[r]
    /\ pc[r] = "finishing" => Len(history[r]) = total[r]
    /\ row[r].completed # 0 => Len(history[r]) = row[r].total /\ row[r].tally = Counts(history[r])

IInv ==
    /\ TypeOK
    /\ \A r \in Runs : RunOK(r)
    /\ IsStored(snapshot)
    /\ IsStored(published)

------------------------------------------------------------------------------
(* Counting the results of a run                                           *)

\* The count of a status lies between zero and the number of results.
LEMMA OccurrencesBounded ==
    ASSUME NEW s \in Seq(Outcomes), NEW o
    PROVE  Occurrences(o, s) \in 0..Len(s)
<1> DEFINE S == {i \in DOMAIN s : s[i] = o}
<1>1. DOMAIN s = 1..Len(s) /\ Len(s) \in Nat
  BY LenProperties
<1>2. IsFiniteSet(1..Len(s)) /\ Cardinality(1..Len(s)) = Len(s)
  BY <1>1, FS_Interval, 0 \in Int, 1 \in Int
<1>3. S \subseteq 1..Len(s)
  BY <1>1
<1>4. IsFiniteSet(S) /\ Cardinality(S) <= Len(s)
  BY <1>2, <1>3, FS_Subset
<1>5. Cardinality(S) \in Nat
  BY <1>4, FS_CardinalityType
<1> QED BY <1>1, <1>4, <1>5 DEF Occurrences

\* Storing one more result adds one to the count of its status.
LEMMA OccurrencesAppend ==
    ASSUME NEW s \in Seq(Outcomes), NEW x \in Outcomes
    PROVE  Counts(Append(s, x)) = [Counts(s) EXCEPT ![x] = @ + 1]
<1> DEFINE S(o) == {i \in DOMAIN s : s[i] = o}
           T(o) == {i \in DOMAIN Append(s, x) : Append(s, x)[i] = o}
           n == Len(s) + 1
<1>1. DOMAIN s = 1..Len(s) /\ Len(s) \in Nat
  BY LenProperties
<1>2. /\ DOMAIN Append(s, x) = 1..n
      /\ \A i \in 1..Len(s) : Append(s, x)[i] = s[i]
      /\ Append(s, x)[n] = x
  BY <1>1, AppendProperties, LenProperties
<1>3. ASSUME NEW o \in Outcomes
      PROVE  IsFiniteSet(S(o)) /\ n \notin S(o)
  <2>1. IsFiniteSet(1..Len(s))
    BY <1>1, FS_Interval, 1 \in Int
  <2>2. S(o) \subseteq 1..Len(s)
    BY <1>1
  <2> QED BY <1>1, <2>1, <2>2, FS_Subset
<1>4. ASSUME NEW o \in Outcomes, o # x
      PROVE  Occurrences(o, Append(s, x)) = Occurrences(o, s)
  <2>1. T(o) = S(o)
    BY <1>1, <1>2, <1>4
  <2> QED BY <2>1 DEF Occurrences
<1>5. Occurrences(x, Append(s, x)) = Occurrences(x, s) + 1
  <2>1. T(x) = S(x) \cup {n}
    BY <1>1, <1>2
  <2>2. Cardinality(S(x) \cup {n}) = Cardinality(S(x)) + 1
    BY <1>3, FS_AddElement
  <2> QED BY <2>1, <2>2 DEF Occurrences
<1> QED BY <1>4, <1>5 DEF Counts

\* The counts of no results.
LEMMA CountsOfNothing == Counts(<<>>) = ZeroTally
<1>1. ASSUME NEW o \in Outcomes PROVE Occurrences(o, <<>>) = 0
  <2>1. <<>> \in Seq(Outcomes) /\ Len(<<>>) = 0
    OBVIOUS
  <2>2. Occurrences(o, <<>>) \in 0..0
    BY <2>1, OccurrencesBounded
  <2> QED BY <2>2
<1> QED BY <1>1 DEF Counts, ZeroTally

\* The counts of at most MaxChecks results are counters of a run.
LEMMA CountsAreTallies ==
    ASSUME NEW s \in Checks
    PROVE  Counts(s) \in Tallies
<1>1. s \in Seq(Outcomes) /\ Len(s) \in Nat /\ Len(s) <= MaxChecks
  BY DEF Checks
<1>2. \A o \in Outcomes : Occurrences(o, s) \in 0..MaxChecks
  BY <1>1, OccurrencesBounded, AssessmentAssumption
<1> QED BY <1>2 DEF Counts, Tallies

------------------------------------------------------------------------------
(* Frames                                                                  *)

\* What a step does not touch of a run keeps the run in order.
LEMMA OtherRuns ==
    ASSUME NEW r \in Runs, \A q \in Runs : RunOK(q), RunOK(r)',
           \A q \in Runs \ {r} : /\ pc'[q] = pc[q] /\ tally'[q] = tally[q]
                                 /\ total'[q] = total[q] /\ row'[q] = row[q]
                                 /\ history'[q] = history[q]
    PROVE  \A q \in Runs : RunOK(q)'
BY DEF RunOK

\* As long as completed runs are final, a published success stays stored.
LEMMA StoredStays ==
    ASSUME IsStored(snapshot), IsStored(published),
           \A r \in Runs : row[r].completed # 0 =>
               row'[r] = row[r] /\ history'[r] = history[r]
    PROVE  /\ snapshot' = snapshot => IsStored(snapshot)'
           /\ published' = published => IsStored(published)'
BY DEF IsStored

\* A failed or an absent summary claims nothing.
LEMMA NothingStored ==
    ASSUME TypeOK, NEW who, TickFailed(who)
    PROVE  /\ snapshot' \in Summaries
           /\ snapshot' = snapshot \/ snapshot'.outcome # "success"
<1>1. FailedSummary(now) \in Summaries
  <2>1. 0 \in 0..MaxTime /\ 0 \in 0..MaxChecks /\ now \in 0..MaxTime
    BY AssessmentAssumption DEF TypeOK
  <2>2. ZeroTally \in Tallies /\ <<>> \in Checks
    BY AssessmentAssumption DEF ZeroTally, Tallies, Checks
  <2> QED BY <2>1, <2>2 DEF FailedSummary, Summary, NoRow, Summaries, States
<1>2. FailedSummary(now).outcome # "success"
  BY DEF FailedSummary, Summary
<1> QED BY <1>1, <1>2 DEF TickFailed, TypeOK

\* Init satisfies the inductive invariant.
LEMMA InitIInv == Init => IInv
<1> SUFFICES ASSUME Init PROVE IInv
  OBVIOUS
<1>1. 0 \in 0..MaxTime /\ 0 \in 0..MaxChecks /\ 1 \in 1..MaxTime
  BY AssessmentAssumption
<1>2. ZeroTally \in Tallies /\ <<>> \in Checks
  BY AssessmentAssumption DEF ZeroTally, Tallies, Checks
<1>3. NoRow \in Rows
  BY <1>1, <1>2 DEF NoRow, Rows, States
<1>4. NoSummary \in Summaries
  BY <1>1, <1>2 DEF NoSummary, Summary, NoRow, Summaries, States
<1>5. TypeOK
  BY <1>1, <1>2, <1>3, <1>4 DEF Init, TypeOK, Owners, Steps
<1>6. \A r \in Runs : RunOK(r)
  BY CountsOfNothing DEF Init, RunOK, NoRow, Active
<1>7. IsStored(snapshot) /\ IsStored(published)
  BY DEF Init, IsStored, NoSummary, Summary
<1> QED BY <1>5, <1>6, <1>7 DEF IInv

------------------------------------------------------------------------------
(* The steps                                                               *)

\* No step changes a completed row or its results.
Final == \A r \in Runs : row[r].completed # 0 => row'[r] = row[r] /\ history'[r] = history[r]

LEMMA BeginStep ==
    ASSUME IInv, NEW r \in Runs, NEW who \in {"operator", "cli"}, NEW n \in 0..MaxChecks,
           Begin(r, who, n)
    PROVE  IInv' /\ Final
<1> DEFINE new == [NoRow EXCEPT !.state = "queued", !.requested = now, !.total = n]
<1>1. now \in 0..MaxTime /\ 0 \in 0..MaxTime /\ 0 \in 0..MaxChecks
  BY AssessmentAssumption DEF IInv, TypeOK
<1>2. ZeroTally \in Tallies
  BY AssessmentAssumption DEF ZeroTally, Tallies
<1>3. new \in Rows /\ new.completed = 0 /\ new.total = n
  <2>1. NoRow \in Rows /\ NoRow.completed = 0
    BY <1>1, <1>2 DEF NoRow, Rows, States
  <2> QED BY <1>1, <2>1 DEF Rows, States
<1>4. TypeOK'
  BY <1>3 DEF Begin, IInv, TypeOK, Owners, Steps
<1>5. row[r].completed = 0
  BY DEF Begin, IInv, RunOK, NoRow
<1>6. Final
  BY <1>5 DEF Begin, Final, IInv, TypeOK
<1>7. RunOK(r)'
  BY <1>3 DEF Begin, IInv, TypeOK, RunOK, Active
<1>8. \A q \in Runs : RunOK(q)'
  <2>1. \A q \in Runs \ {r} : /\ pc'[q] = pc[q] /\ tally'[q] = tally[q]
                              /\ total'[q] = total[q] /\ row'[q] = row[q]
                              /\ history'[q] = history[q]
    BY DEF Begin, IInv, TypeOK
  <2> QED BY <1>7, <2>1, OtherRuns DEF IInv
<1>9. (IsStored(snapshot) /\ IsStored(published))'
  BY <1>6, StoredStays DEF Begin, IInv, Final
<1> QED BY <1>4, <1>6, <1>8, <1>9 DEF IInv

\* The steps that only move a run on, from an open row to an open row.
LEMMA BeginFailsStep ==
    ASSUME IInv, NEW r \in Runs, NEW who \in {"operator", "cli"}, BeginFails(r, who)
    PROVE  IInv' /\ Final
<1>1. TickFailed(who) /\ TypeOK
  BY DEF BeginFails, dbVars, IInv
<1>2. TypeOK'
  BY <1>1, NothingStored DEF BeginFails, dbVars, TypeOK, Owners, Steps
<1>3. Final
  BY DEF BeginFails, dbVars, Final
<1>4. RunOK(r)'
  BY DEF BeginFails, dbVars, IInv, TypeOK, RunOK, Active
<1>5. \A q \in Runs : RunOK(q)'
  <2>1. \A q \in Runs \ {r} : /\ pc'[q] = pc[q] /\ tally'[q] = tally[q]
                              /\ total'[q] = total[q] /\ row'[q] = row[q]
                              /\ history'[q] = history[q]
    BY <1>1 DEF BeginFails, dbVars, TypeOK
  <2> QED BY <1>4, <2>1, OtherRuns DEF IInv
<1>6. IsStored(snapshot)'
  BY <1>1, <1>3, NothingStored, StoredStays DEF IInv, Final, IsStored
<1>7. IsStored(published)'
  BY <1>3, StoredStays DEF BeginFails, dbVars, IInv, Final
<1> QED BY <1>2, <1>3, <1>5, <1>6, <1>7 DEF IInv

LEMMA MarkRunningStep ==
    ASSUME IInv, NEW r \in Runs, MarkRunning(r)
    PROVE  IInv' /\ Final
<1> DEFINE new == [row[r] EXCEPT !.state = "running"]
<1>1. /\ row[r] \in Rows /\ row[r].completed = 0 /\ row[r].total = total[r]
      /\ history[r] = <<>> /\ total[r] \in 0..MaxChecks
  BY DEF MarkRunning, IInv, TypeOK, RunOK, Active
<1>2. new \in Rows /\ new.completed = 0 /\ new.total = total[r]
  BY <1>1 DEF Rows, States
<1>3. row' = [row EXCEPT ![r] = new]
  BY DEF MarkRunning
<1>4. TypeOK'
  BY <1>2, <1>3 DEF MarkRunning, IInv, TypeOK, Steps
<1>5. Final
  BY <1>1 DEF MarkRunning, Final, IInv, TypeOK
<1>6. RunOK(r)'
  <2>1. row'[r] = new /\ pc'[r] = (IF total[r] = 0 THEN "finishing" ELSE "checking")
    BY <1>3 DEF MarkRunning, IInv, TypeOK
  <2> QED BY <1>1, <1>2, <2>1, AssessmentAssumption DEF MarkRunning, IInv, TypeOK, RunOK, Active
<1>7. \A q \in Runs : RunOK(q)'
  <2>1. \A q \in Runs \ {r} : /\ pc'[q] = pc[q] /\ tally'[q] = tally[q]
                              /\ total'[q] = total[q] /\ row'[q] = row[q]
                              /\ history'[q] = history[q]
    BY DEF MarkRunning, IInv, TypeOK
  <2> QED BY <1>6, <2>1, OtherRuns DEF IInv
<1>8. (IsStored(snapshot) /\ IsStored(published))'
  BY <1>5, StoredStays DEF MarkRunning, IInv, Final
<1> QED BY <1>4, <1>5, <1>7, <1>8 DEF IInv

LEMMA CheckSettlesStep ==
    ASSUME IInv, NEW r \in Runs, NEW o \in Outcomes, CheckSettles(r, o)
    PROVE  IInv' /\ Final
<1> DEFINE results == Append(history[r], o)
<1>1. /\ pc[r] = "checking" /\ history[r] \in Seq(Outcomes)
      /\ Len(history[r]) \in Nat /\ Len(history[r]) < total[r]
      /\ total[r] \in 0..MaxChecks /\ row[r].completed = 0 /\ row[r].total = total[r]
      /\ tally[r] = Counts(history[r])
  BY DEF CheckSettles, Count, IInv, TypeOK, RunOK, Checks, Active
<1>2. results \in Checks /\ Len(results) = Len(history[r]) + 1
  BY <1>1, AssessmentAssumption DEF Checks
<1>3. tally'[r] = Counts(results) /\ history'[r] = results
  <2>1. tally'[r] = [tally[r] EXCEPT ![o] = @ + 1] /\ history'[r] = results
    BY DEF CheckSettles, Count, IInv, TypeOK
  <2> QED BY <1>1, <2>1, OccurrencesAppend
<1>4. TypeOK'
  <2>1. tally' \in [Runs -> Tallies]
    <3>1. tally' = [tally EXCEPT ![r] = Counts(results)]
      BY <1>3 DEF CheckSettles, Count, IInv, TypeOK
    <3> QED BY <1>2, <3>1, CountsAreTallies DEF IInv, TypeOK
  <2>2. history' \in [Runs -> Checks]
    BY <1>2 DEF CheckSettles, IInv, TypeOK
  <2> QED BY <2>1, <2>2 DEF CheckSettles, Count, IInv, TypeOK, Steps
<1>5. Final
  BY <1>1 DEF CheckSettles, Count, Final, IInv, TypeOK
<1>6. RunOK(r)'
  <2>1. /\ pc'[r] = (IF Len(history[r]) + 1 = total[r] THEN "finishing" ELSE "checking")
        /\ row'[r] = row[r] /\ total'[r] = total[r]
    BY <1>1 DEF CheckSettles, Count, IInv, TypeOK
  <2> QED BY <1>1, <1>2, <1>3, <2>1 DEF RunOK, Active
<1>7. \A q \in Runs : RunOK(q)'
  <2>1. \A q \in Runs \ {r} : /\ pc'[q] = pc[q] /\ tally'[q] = tally[q]
                              /\ total'[q] = total[q] /\ row'[q] = row[q]
                              /\ history'[q] = history[q]
    BY DEF CheckSettles, Count, IInv, TypeOK
  <2> QED BY <1>6, <2>1, OtherRuns DEF IInv
<1>8. (IsStored(snapshot) /\ IsStored(published))'
  BY <1>5, StoredStays DEF CheckSettles, Count, IInv, Final
<1> QED BY <1>4, <1>5, <1>7, <1>8 DEF IInv

\* A final record is whole, and the summary that repeats it is a stored one.
LEMMA FinalRecords ==
    ASSUME IInv, NEW r \in Runs, pc[r] = "finishing"
    PROVE  /\ FinalRecord(r) \in Rows
           /\ FinalRecord(r).completed = now /\ now # 0
           /\ FinalRecord(r).total = Len(history[r])
           /\ FinalRecord(r).tally = Counts(history[r])
           /\ row[r].completed = 0
           /\ Summary("success", now, {r}, FinalRecord(r), history[r]) \in Summaries
<1> DEFINE s == FinalState(tally[r])
<1>1. /\ row[r] \in Rows /\ row[r].completed = 0 /\ row[r].total = total[r]
      /\ Len(history[r]) = total[r] /\ tally[r] = Counts(history[r])
      /\ history[r] \in Checks /\ tally[r] \in Tallies
  BY DEF IInv, TypeOK, RunOK, Active
<1>2. now \in 0..MaxTime /\ now # 0
  BY AssessmentAssumption DEF IInv, TypeOK
<1>3. s \in States
  BY DEF FinalState, States
<1>4. FinalRecord(r) = [row[r] EXCEPT !.state = s, !.completed = now, !.tally = tally[r]]
  BY DEF FinalRecord
<1>5. /\ FinalRecord(r) \in Rows
      /\ FinalRecord(r).completed = now
      /\ FinalRecord(r).total = row[r].total
      /\ FinalRecord(r).tally = tally[r]
  BY <1>1, <1>2, <1>3, <1>4 DEF Rows
<1>6. Summary("success", now, {r}, FinalRecord(r), history[r]) \in Summaries
  BY <1>1, <1>2, <1>5 DEF Summary, Summaries, Rows
<1> QED BY <1>1, <1>2, <1>5, <1>6

\* What a run leaves when its final write has succeeded, however the tick ends.
LEMMA FinalWrite ==
    ASSUME IInv, NEW r \in Runs, NEW step \in Settled, pc[r] = "finishing",
           row' = [row EXCEPT ![r] = FinalRecord(r)], pc' = [pc EXCEPT ![r] = step],
           UNCHANGED <<up, now, owner, tally, total, history, published>>,
           snapshot' \in Summaries
    PROVE  /\ TypeOK' /\ Final /\ IsStored(published)'
           /\ \A q \in Runs : RunOK(q)'
<1>1. TypeOK'
  BY FinalRecords DEF IInv, TypeOK, Steps, Settled
<1>2. Final
  BY FinalRecords DEF Final, IInv, TypeOK
<1>3. RunOK(r)'
  <2>1. row'[r] = FinalRecord(r) /\ pc'[r] = step /\ tally[r] = Counts(history[r])
    BY DEF IInv, TypeOK, RunOK
  <2> QED BY <2>1, FinalRecords DEF RunOK, Active, Settled
<1>4. \A q \in Runs : RunOK(q)'
  <2>1. \A q \in Runs \ {r} : /\ pc'[q] = pc[q] /\ tally'[q] = tally[q]
                              /\ total'[q] = total[q] /\ row'[q] = row[q]
                              /\ history'[q] = history[q]
    BY DEF IInv, TypeOK
  <2> QED BY <1>3, <2>1, OtherRuns DEF IInv
<1>5. IsStored(published)'
  BY <1>2, StoredStays DEF IInv, Final
<1> QED BY <1>1, <1>2, <1>4, <1>5

LEMMA FinishStep ==
    ASSUME IInv, NEW r \in Runs, Finish(r)
    PROVE  IInv' /\ Final
<1> DEFINE sum == Summary("success", now, {r}, FinalRecord(r), history[r])
<1>1. pc[r] = "finishing" /\ snapshot' = (IF owner[r] = "operator" THEN sum ELSE snapshot)
  BY DEF Finish
<1>2. snapshot' \in Summaries
  BY <1>1, FinalRecords DEF IInv, TypeOK
<1>3. /\ TypeOK' /\ Final /\ IsStored(published)'
      /\ \A q \in Runs : RunOK(q)'
  <2>1. "returned" \in Settled
    BY DEF Settled
  <2> QED BY <1>1, <1>2, <2>1, FinalWrite DEF Finish
<1>4. IsStored(snapshot)'
  <2>1. CASE owner[r] = "operator"
    <3>1. row'[r] = FinalRecord(r) /\ history'[r] = history[r]
      BY DEF Finish, IInv, TypeOK
    <3>2. snapshot' = sum
      BY <1>1, <2>1
    <3>3. /\ sum.run = {r} /\ sum.at = now /\ sum.total = FinalRecord(r).total
          /\ sum.tally = FinalRecord(r).tally /\ sum.checks = history[r]
      BY DEF Summary
    <3> QED BY <1>1, <3>1, <3>2, <3>3, FinalRecords DEF IsStored
  <2>2. CASE owner[r] # "operator"
    BY <1>1, <1>3, <2>2, StoredStays DEF IInv, Final
  <2> QED BY <2>1, <2>2
<1> QED BY <1>3, <1>4 DEF IInv

LEMMA SummariesThrowStep ==
    ASSUME IInv, NEW r \in Runs, SummariesThrow(r)
    PROVE  IInv' /\ Final
<1>1. TickFailed(owner[r]) /\ TypeOK
  BY DEF SummariesThrow, IInv
<1>2. snapshot' \in Summaries /\ (snapshot' = snapshot \/ snapshot'.outcome # "success")
  BY <1>1, NothingStored
<1>3. /\ TypeOK' /\ Final /\ IsStored(published)'
      /\ \A q \in Runs : RunOK(q)'
  <2>1. "threw" \in Settled
    BY DEF Settled
  <2> QED BY <1>2, <2>1, FinalWrite DEF SummariesThrow
<1>4. IsStored(snapshot)'
  BY <1>2, <1>3, StoredStays DEF IInv, Final, IsStored
<1> QED BY <1>3, <1>4 DEF IInv

\* Runs that stop where they are leave the database as it is.
LEMMA RunsStop ==
    ASSUME IInv, pc' \in [Runs -> Steps],
           \A r \in Runs : pc'[r] = pc[r] \/ (pc[r] \in Active /\ pc'[r] \in Settled),
           UNCHANGED <<now, owner, tally, total, row, history, published>>,
           up' \in BOOLEAN, snapshot' \in Summaries,
           snapshot' = snapshot \/ snapshot'.outcome # "success"
    PROVE  IInv' /\ Final
<1>1. TypeOK'
  BY DEF IInv, TypeOK
<1>2. Final
  BY DEF Final
<1>3. \A r \in Runs : RunOK(r)'
  BY DEF IInv, RunOK, Active, Settled
<1>4. (IsStored(snapshot) /\ IsStored(published))'
  BY <1>2, StoredStays DEF IInv, Final, IsStored
<1> QED BY <1>1, <1>2, <1>3, <1>4 DEF IInv

LEMMA StorageThrowsStep ==
    ASSUME IInv, NEW r \in Runs, StorageThrows(r)
    PROVE  IInv' /\ Final
<1>1. TickFailed(owner[r]) /\ TypeOK
  BY DEF StorageThrows, IInv
<1>2. snapshot' \in Summaries /\ (snapshot' = snapshot \/ snapshot'.outcome # "success")
  BY <1>1, NothingStored
<1>3. /\ pc' \in [Runs -> Steps]
      /\ \A q \in Runs : pc'[q] = pc[q] \/ (pc[q] \in Active /\ pc'[q] \in Settled)
  BY DEF StorageThrows, IInv, TypeOK, Steps, Settled
<1> QED BY <1>1, <1>2, <1>3, RunsStop DEF StorageThrows, dbVars, TypeOK

LEMMA CliKilledStep ==
    ASSUME IInv, NEW r \in Runs, CliKilled(r)
    PROVE  IInv' /\ Final
<1>1. /\ pc' \in [Runs -> Steps]
      /\ \A q \in Runs : pc'[q] = pc[q] \/ (pc[q] \in Active /\ pc'[q] \in Settled)
  BY DEF CliKilled, IInv, TypeOK, Steps, Settled
<1> QED BY <1>1, RunsStop DEF CliKilled, dbVars, IInv, TypeOK

LEMMA OperatorKilledStep ==
    ASSUME IInv, OperatorKilled
    PROVE  IInv' /\ Final
<1>1. /\ pc' \in [Runs -> Steps]
      /\ \A q \in Runs : pc'[q] = pc[q] \/ (pc[q] \in Active /\ pc'[q] \in Settled)
  BY DEF OperatorKilled, IInv, TypeOK, Steps, Settled
<1>2. NoSummary \in Summaries /\ NoSummary.outcome # "success"
  <2>1. 0 \in 0..MaxTime /\ 0 \in 0..MaxChecks
    BY AssessmentAssumption
  <2>2. ZeroTally \in Tallies /\ <<>> \in Checks
    BY AssessmentAssumption DEF ZeroTally, Tallies, Checks
  <2> QED BY <2>1, <2>2 DEF NoSummary, Summary, NoRow, Summaries, States
<1> QED BY <1>1, <1>2, RunsStop DEF OperatorKilled, dbVars

\* What the database has to say is the stored summary of a completed run, or nothing.
LEMMA LoadedIsStored ==
    ASSUME IInv, NEW db \in LoadLatest
    PROVE  db \in Summaries /\ IsStored(db)
<1>1. NoSummary \in Summaries /\ NoSummary.outcome # "success"
  <2>1. 0 \in 0..MaxTime /\ 0 \in 0..MaxChecks
    BY AssessmentAssumption
  <2>2. ZeroTally \in Tallies /\ <<>> \in Checks
    BY AssessmentAssumption DEF ZeroTally, Tallies, Checks
  <2> QED BY <2>1, <2>2 DEF NoSummary, Summary, NoRow, Summaries, States
<1>2. CASE db = NoSummary
  BY <1>1, <1>2 DEF IsStored
<1>3. CASE db # NoSummary
  <2>1. PICK r \in Runs : /\ row[r].completed # 0
                          /\ db = Summary("success", row[r].completed, {r}, row[r], history[r])
    BY <1>3 DEF LoadLatest, Requested
  <2>2. row[r] \in Rows /\ history[r] \in Checks
    BY DEF IInv, TypeOK
  <2>3. db \in Summaries
    BY <2>1, <2>2 DEF Summary, Summaries, Rows
  <2>4. IsStored(db)
    BY <2>1 DEF Summary, IsStored
  <2> QED BY <2>3, <2>4
<1> QED BY <1>2, <1>3

LEMMA PublishStep ==
    ASSUME IInv, Publish
    PROVE  IInv' /\ Final /\ published'.at >= snapshot.at
<1>1. PICK db \in LoadLatest : published' = Newer(snapshot, db)
  BY DEF Publish
<1>2. db \in Summaries /\ IsStored(db)
  BY LoadedIsStored
<1>3. /\ published' = snapshot \/ published' = db
      /\ published' = db => db.at >= snapshot.at \/ snapshot = db
  BY <1>1 DEF Newer
<1>4. TypeOK'
  BY <1>2, <1>3 DEF Publish, runVars, dbVars, IInv, TypeOK
<1>5. (\A r \in Runs : RunOK(r)') /\ Final
  BY DEF Publish, runVars, dbVars, IInv, RunOK, Final
<1>6. (IsStored(snapshot) /\ IsStored(published))'
  BY <1>2, <1>3 DEF Publish, dbVars, IInv, IsStored
<1>7. published'.at >= snapshot.at
  <2>1. snapshot.at \in Nat
    BY DEF IInv, TypeOK, Summaries
  <2> QED BY <1>3, <2>1
<1> QED BY <1>4, <1>5, <1>6, <1>7 DEF IInv

------------------------------------------------------------------------------
(* The theorems                                                            *)

\* Every step keeps the inductive invariant and every completed row, and no
\* step publishes something older than the operator's last tick.
LEMMA StepIInv ==
    ASSUME IInv, [Next]_vars
    PROVE  /\ IInv' /\ Final
           /\ published' # published => published'.at >= snapshot.at
<1>1. ASSUME NEW r \in Runs, NEW who \in {"operator", "cli"}, NEW n \in 0..MaxChecks,
             Begin(r, who, n)
      PROVE  IInv' /\ Final /\ published' = published
  BY <1>1, BeginStep DEF Begin
<1>2. ASSUME NEW r \in Runs, NEW who \in {"operator", "cli"}, BeginFails(r, who)
      PROVE  IInv' /\ Final /\ published' = published
  BY <1>2, BeginFailsStep DEF BeginFails
<1>3. ASSUME NEW r \in Runs, MarkRunning(r)
      PROVE  IInv' /\ Final /\ published' = published
  BY <1>3, MarkRunningStep DEF MarkRunning
<1>4. ASSUME NEW r \in Runs, CheckAnswers(r) \/ CheckTimesOut(r)
      PROVE  IInv' /\ Final /\ published' = published
  <2>1. PICK o \in Outcomes : CheckSettles(r, o)
    BY <1>4, AssessmentAssumption DEF CheckAnswers, CheckTimesOut
  <2> QED BY <2>1, CheckSettlesStep DEF CheckSettles, Count
<1>5. ASSUME NEW r \in Runs, Finish(r)
      PROVE  IInv' /\ Final /\ published' = published
  BY <1>5, FinishStep DEF Finish
<1>6. ASSUME NEW r \in Runs, SummariesThrow(r)
      PROVE  IInv' /\ Final /\ published' = published
  BY <1>6, SummariesThrowStep DEF SummariesThrow
<1>7. ASSUME NEW r \in Runs, StorageThrows(r)
      PROVE  IInv' /\ Final /\ published' = published
  BY <1>7, StorageThrowsStep DEF StorageThrows
<1>8. ASSUME NEW r \in Runs, CliKilled(r)
      PROVE  IInv' /\ Final /\ published' = published
  BY <1>8, CliKilledStep DEF CliKilled
<1>9. ASSUME Publish
      PROVE  IInv' /\ Final /\ published'.at >= snapshot.at
  BY <1>9, PublishStep
<1>10. ASSUME OperatorKilled
       PROVE  IInv' /\ Final /\ published' = published
  BY <1>10, OperatorKilledStep DEF OperatorKilled
<1>11. ASSUME OperatorRestarts \/ ClockTicks \/ UNCHANGED vars
       PROVE  IInv' /\ Final /\ published' = published
  <2>1. UNCHANGED <<runVars, dbVars, snapshot, published>> /\ TypeOK'
    <3>1. CASE OperatorRestarts
      BY <3>1 DEF OperatorRestarts, runVars, dbVars, IInv, TypeOK
    <3>2. CASE ClockTicks
      BY <3>2, AssessmentAssumption DEF ClockTicks, runVars, dbVars, IInv, TypeOK
    <3>3. CASE UNCHANGED vars
      BY <3>3 DEF vars, runVars, dbVars, IInv, TypeOK
    <3> QED BY <1>11, <3>1, <3>2, <3>3
  <2> QED BY <2>1 DEF runVars, dbVars, IInv, RunOK, IsStored, Final
<1> QED BY <1>1, <1>2, <1>3, <1>4, <1>5, <1>6, <1>7, <1>8, <1>9, <1>10, <1>11 DEF Next

\* The inductive invariant holds in every behaviour.
THEOREM Invariance == Spec => []IInv
BY InitIInv, StepIInv, PTL DEF Spec

\* Every variable keeps its type, the counters and the history within their bounds.
THEOREM TypeCorrect == Spec => []TypeOK
<1>1. IInv => TypeOK
  BY DEF IInv
<1> QED BY Invariance, <1>1, PTL

\* A row that AssessmentRunner.run completed has one result per check and
\* counts them, for any number of runs, overlaps, kills and storage failures.
THEOREM CompletedIsWhole == Spec => []CompletedRunsAreWhole
<1>1. IInv => CompletedRunsAreWhole
  BY DEF IInv, RunOK, Counts, CompletedRunsAreWhole
<1> QED BY Invariance, <1>1, PTL

\* What buildAssessmentStatusSummary publishes as a success is stored as published.
THEOREM PublishedIsStored == Spec => []PublishedRunIsStored
<1>1. IInv => PublishedRunIsStored
  BY DEF IInv, PublishedRunIsStored
<1> QED BY Invariance, <1>1, PTL

\* What a completed row says is true from its completion on: no write of any
\* process touches the row or its results again.
THEOREM CompletedHolds == Spec => CompletedRunsHold
<1>1. IInv => CompletedRunsAreWhole
  BY DEF IInv, RunOK, Counts, CompletedRunsAreWhole
<1>2. IInv' => CompletedRunsAreWhole'
  BY <1>1, PTL
<1>3. IInv /\ [Next]_vars =>
        [\A r \in Runs : row[r].completed # 0 => row'[r] = row[r] /\ history'[r] = history[r]]_vars
  BY StepIInv DEF Final
<1>4. IInv /\ IInv' /\ [Next]_vars =>
        [/\ CompletedRunsAreWhole'
         /\ \A r \in Runs : row[r].completed # 0 =>
               row'[r] = row[r] /\ history'[r] = history[r]]_vars
  BY <1>2, <1>3
<1> QED BY Invariance, <1>4, PTL DEF Spec, CompletedRunsHold

\* No publication is older than the outcome of the operator's own last tick.
THEOREM TickIsNotHidden == Spec => PublishedNotOlderThanTick
<1>1. IInv /\ [Next]_vars => [published' # published => published'.at >= snapshot.at]_vars
  BY StepIInv
<1> QED BY Invariance, <1>1, PTL DEF Spec, PublishedNotOlderThanTick
=============================================================================
