---------------------------- MODULE Storage_proofs ----------------------------
(***************************************************************************)
(* What the operator leaves behind it: the image scans in its database,    *)
(* the schema of the database, and the status ConfigMap.  The three        *)
(* components share no state; each is proved about by itself.              *)
(*                                                                         *)
(* For any number of cycles, images and vulnerabilities: what the database *)
(* holds of a scan is whole or accounted for, and the metrics follow it.   *)
(* For any number of processes, versions and statements: the schema a      *)
(* process finds after initialize is whole; the safety properties are not  *)
(* inductive, what is missing is how far each process has come, InStep.    *)
(* For any number of overlapping writes: after the final status has been   *)
(* computed nothing more is started, and a final write that had the        *)
(* ConfigMap to itself is what a clean exit leaves there.                  *)
(***************************************************************************)
EXTENDS TrivyScanCycle, SchemaMigration, StatusPublisher, FiniteSetTheorems, TLAPS

\* Where a cycle is, it has an image at hand or not, and attempts left or not.
AtHand == {"scanning", "backoff", "inserting", "replacing"}
PlaceOK(c) ==
    /\ pc[c] \in {"unused", "collecting"} => toScan[c] = {}
    /\ pc[c] \in AtHand => image[c] # {}
    /\ image[c] # {} => pc[c] \in AtHand \cup {"died"}
    /\ pc[c] = "backoff" => attempt[c] < MaxAttempts

TallyOK(c) ==
    /\ toScan[c] = succeeded[c] \cup failed[c] \cup todo[c] \cup image[c]
    /\ succeeded[c] \cap failed[c] = {}
    /\ (succeeded[c] \cup failed[c]) \cap (todo[c] \cup image[c]) = {}
    /\ todo[c] \cap image[c] = {}
    /\ pc[c] = "settled" => todo[c] = {} /\ image[c] = {}

\* What the database holds of a scan follows from how its cycle counts it.
StoreOK(c, i) ==
    /\ i \in succeeded[c] => Whole(c, i)
    /\ i \notin succeeded[c] => RowsOf(c, i) = {}
    /\ <<c, i>> \in scans => \/ i \in succeeded[c] \cup failed[c]
                             \/ image[c] = {i} /\ pc[c] \in {"replacing", "died"}
    /\ image[c] = {i} /\ pc[c] = "replacing" => <<c, i>> \in scans

CycleOK(c) ==
    /\ PlaceOK(c)
    /\ TallyOK(c)
    /\ \A i \in Images : StoreOK(c, i)

\* The gauges lag behind only while a cycle is scanning, or after a failed refresh.
GaugeOK ==
    /\ CompletedRows = vulns
    /\ gauge \subseteq vulns
    /\ fresh /\ (\A c \in Cycles : pc[c] \notin Active \ {"collecting"}) => gauge = vulns

IInv ==
    /\ TypeOK
    /\ \A c \in Cycles : CycleOK(c)
    /\ GaugeOK

------------------------------------------------------------------------------
(* Types                                                                   *)

\* An image at hand is one of the images.
LEMMA ImageAtHand ==
    ASSUME IInv, NEW c \in Cycles, pc[c] \in AtHand
    PROVE  \E i \in Images : image[c] = {i}
BY DEF IInv, CycleOK, PlaceOK, TypeOK, AtMostOne

\* What is at hand is a set of images; none and one are allowed.
LEMMA AtMostOneType ==
    /\ {} \in AtMostOne
    /\ \A i \in Images : {i} \in AtMostOne
    /\ \A s \in AtMostOne : s \subseteq Images
BY DEF AtMostOne

\* The initial states have the types.
LEMMA InitTypeOK == Init => TypeOK
<1> SUFFICES ASSUME Init PROVE TypeOK
  OBVIOUS
<1>1. 0 \in 0..MaxAttempts /\ "unused" \in Steps
  BY ScanAssumption DEF Steps
<1>2. /\ image \in [Cycles -> AtMostOne]
      /\ attempt \in [Cycles -> 0..MaxAttempts]
      /\ pc \in [Cycles -> Steps]
  BY <1>1, AtMostOneType DEF Init
<1>3. reported \in [Cycles -> [Images -> SUBSET Vulns]]
  BY DEF Init
<1> QED BY <1>2, <1>3 DEF Init, TypeOK

\* Every step keeps the types; that an attempt does not pass the limit needs IInv.
LEMMA NextTypeOK == IInv /\ [Next]_vars => TypeOK'
<1> SUFFICES ASSUME IInv, [Next]_vars PROVE TypeOK'
  OBVIOUS
<1> USE ScanAssumption, AtMostOneType
<1>0. TypeOK /\ \A c \in Cycles : PlaceOK(c)
  BY DEF IInv, CycleOK
<1>1. gauge \subseteq Cycles \X Images \X Vulns /\ CompletedRows \subseteq Cycles \X Images \X Vulns
  BY <1>0 DEF TypeOK, CompletedRows
<1>2. ASSUME NEW c \in Cycles, CycleStarts(c) \/ CollectThrows(c) \/ SkipScans(c) \/ FinishCycle(c)
             \/ TimeoutBacksOff(c)
      PROVE  TypeOK'
  BY <1>0, <1>1, <1>2 DEF TypeOK, CycleStarts, CollectThrows, SkipScans, FinishCycle, TimeoutBacksOff,
     Goto, RefreshMetrics, Steps, countVars, dbVars, gaugeVars
<1>3. ASSUME NEW c \in Cycles, NEW images \in SUBSET Images, StartScans(c, images)
      PROVE  TypeOK'
  BY <1>0, <1>3 DEF TypeOK, StartScans, Goto, Steps, countVars, dbVars, gaugeVars
<1>4. ASSUME NEW c \in Cycles, NEW i \in Images, BeginScan(c, i) \/ NotDetected(c, i)
      PROVE  TypeOK'
  <2>1. todo[c] \ {i} \in SUBSET Images /\ failed[c] \cup {i} \in SUBSET Images
        /\ {i} \in AtMostOne /\ 1 \in 0..MaxAttempts
    BY <1>0 DEF TypeOK
  <2>2. CASE BeginScan(c, i)
    <3>1. /\ todo' = [todo EXCEPT ![c] = @ \ {i}] /\ image' = [image EXCEPT ![c] = {i}]
          /\ attempt' = [attempt EXCEPT ![c] = 1] /\ pc' = [pc EXCEPT ![c] = "scanning"]
          /\ UNCHANGED <<up, detected, toScan, succeeded, failed, reported, scans, vulns, gauge, fresh>>
      BY <2>2 DEF BeginScan, Goto, countVars, dbVars, gaugeVars
    <3> QED BY <1>0, <2>1, <3>1 DEF TypeOK, Steps
  <2>3. CASE NotDetected(c, i)
    <3>1. /\ todo' = [todo EXCEPT ![c] = @ \ {i}] /\ failed' = [failed EXCEPT ![c] = @ \cup {i}]
          /\ UNCHANGED <<up, detected, toScan, pc, image, attempt, succeeded, reported, scans, vulns,
                         gauge, fresh>>
      BY <2>3 DEF NotDetected, dbVars, gaugeVars
    <3> QED BY <1>0, <2>1, <3>1 DEF TypeOK
  <2> QED BY <1>4, <2>2, <2>3
<1>5. ASSUME NEW c \in Cycles, CliFails(c) \/ LastTimeout(c) \/ PersistThrows(c)
      PROVE  TypeOK'
  <2>1. failed[c] \cup image[c] \in SUBSET Images /\ 0 \in 0..MaxAttempts
    BY <1>0 DEF TypeOK
  <2>2. /\ failed' = [failed EXCEPT ![c] = failed[c] \cup image[c]] /\ image' = [image EXCEPT ![c] = {}]
        /\ attempt' = [attempt EXCEPT ![c] = 0] /\ pc' = [pc EXCEPT ![c] = "next"]
        /\ UNCHANGED <<up, detected, toScan, todo, succeeded, reported, scans, vulns, gauge, fresh>>
    BY <1>5 DEF CliFails, LastTimeout, PersistThrows, CountFailure, EndScan, Goto, dbVars, gaugeVars
  <2> QED BY <1>0, <2>1, <2>2 DEF TypeOK, Steps
<1>6. ASSUME NEW c \in Cycles, RetryScan(c)
      PROVE  TypeOK'
  <2>1. attempt[c] + 1 \in 0..MaxAttempts
    BY <1>0, <1>6 DEF TypeOK, PlaceOK, RetryScan
  <2> QED BY <1>0, <1>6, <2>1 DEF TypeOK, RetryScan, Goto, Steps, countVars, dbVars, gaugeVars
<1>7. ASSUME NEW c \in Cycles, NEW report \in Reports, ReportArrives(c, report)
      PROVE  TypeOK'
  <2>1. PICK i \in image[c] : reported' = [reported EXCEPT ![c][i] = report]
    BY <1>7 DEF ReportArrives
  <2>2. i \in Images /\ report \in SUBSET Vulns
    BY <1>0 DEF TypeOK
  <2>3. reported' \in [Cycles -> [Images -> SUBSET Vulns]]
    BY <1>0, <2>1, <2>2 DEF TypeOK
  <2> QED BY <1>0, <1>7, <2>3 DEF TypeOK, ReportArrives, Goto, Steps, countVars, dbVars, gaugeVars
<1>8. ASSUME NEW c \in Cycles, UpsertScan(c)
      PROVE  TypeOK'
  <2>1. {c} \X image[c] \subseteq Cycles \X Images
    BY <1>0 DEF TypeOK
  <2> QED BY <1>0, <1>8, <2>1 DEF TypeOK, UpsertScan, Goto, Steps, countVars, dbVars, gaugeVars
<1>9. ASSUME NEW c \in Cycles, ReplaceVulnerabilities(c)
      PROVE  TypeOK'
  <2>1. PICK i \in image[c] : vulns' = (vulns \ RowsOf(c, i)) \cup ({c} \X {i} \X reported[c][i])
    BY <1>9 DEF ReplaceVulnerabilities
  <2>2. i \in Images /\ reported[c][i] \subseteq Vulns
    BY <1>0 DEF TypeOK
  <2>3. vulns' \subseteq Cycles \X Images \X Vulns
    BY <1>0, <2>1, <2>2 DEF TypeOK
  <2>4. succeeded[c] \cup image[c] \in SUBSET Images /\ 0 \in 0..MaxAttempts
    BY <1>0 DEF TypeOK
  <2> QED BY <1>0, <1>9, <2>3, <2>4 DEF TypeOK, ReplaceVulnerabilities, EndScan, Goto, Steps,
         countVars, dbVars, gaugeVars
<1>10. ASSUME NEW found \in BOOLEAN, PeriodicCheck(found) \/ Restarts
       PROVE  TypeOK'
  BY <1>0, <1>10 DEF TypeOK, PeriodicCheck, Restarts, cycleVars, countVars, dbVars, gaugeVars
<1>11. CASE Killed
  BY <1>0, <1>11 DEF TypeOK, Killed, Steps, countVars, dbVars
<1>12. CASE UNCHANGED vars
  BY <1>0, <1>12 DEF TypeOK, vars, cycleVars, countVars, dbVars, gaugeVars
<1> QED
  BY <1>2, <1>3, <1>4, <1>5, <1>6, <1>7, <1>8, <1>9, <1>10, <1>11, <1>12 DEF Next

------------------------------------------------------------------------------
(* The cycles                                                              *)

\* A step of one cycle, with what it scans or has been given.
StepOf(c) ==
    \/ CycleStarts(c) \/ CollectThrows(c) \/ SkipScans(c) \/ FinishCycle(c)
    \/ \E images \in SUBSET Images : StartScans(c, images)
    \/ \E i \in Images : BeginScan(c, i) \/ NotDetected(c, i)
    \/ CliFails(c) \/ TimeoutBacksOff(c) \/ LastTimeout(c) \/ RetryScan(c)
    \/ \E report \in Reports : ReportArrives(c, report)
    \/ UpsertScan(c) \/ ReplaceVulnerabilities(c) \/ PersistThrows(c)

\* What a step leaves alone of cycle d.
LocalsKept(d) ==
    /\ pc'[d] = pc[d] /\ toScan'[d] = toScan[d] /\ todo'[d] = todo[d]
    /\ image'[d] = image[d] /\ attempt'[d] = attempt[d]
    /\ succeeded'[d] = succeeded[d] /\ failed'[d] = failed[d]
    /\ reported'[d] = reported[d]
StoredKept(d) ==
    \A i \in Images : /\ <<d, i>> \in scans' <=> <<d, i>> \in scans
                      /\ RowsOf(d, i)' = RowsOf(d, i)

\* A cycle is in order after a step that leaves it alone.
LEMMA KeptIsOK ==
    ASSUME NEW d \in Cycles, CycleOK(d), LocalsKept(d), StoredKept(d)
    PROVE  CycleOK(d)'
<1>1. PlaceOK(d)' /\ TallyOK(d)'
  BY DEF CycleOK, PlaceOK, TallyOK, LocalsKept
<1>2. ASSUME NEW i \in Images PROVE StoreOK(d, i)'
  <2>1. Whole(d, i) => Whole(d, i)'
    BY DEF Whole, LocalsKept, StoredKept
  <2> QED BY <2>1 DEF CycleOK, StoreOK, LocalsKept, StoredKept
<1> QED BY <1>1, <1>2 DEF CycleOK

\* Rows of one scan are not rows of another.
LEMMA RowsApart ==
    ASSUME NEW c, NEW i, NEW d, NEW j, NEW R, <<c, i>> # <<d, j>>,
           vulns' = (vulns \ RowsOf(c, i)) \cup ({c} \X {i} \X R)
    PROVE  RowsOf(d, j)' = RowsOf(d, j)
<1>1. \A x \in {c} \X {i} \X R : x[1] = c /\ x[2] = i
  OBVIOUS
<1>2. \A x \in RowsOf(c, i) : x[1] = c /\ x[2] = i
  BY DEF RowsOf
<1> QED BY <1>1, <1>2 DEF RowsOf

\* The rows of a scan are replaced by those of its report.
LEMMA RowsReplaced ==
    ASSUME NEW c, NEW i, NEW R,
           vulns' = (vulns \ RowsOf(c, i)) \cup ({c} \X {i} \X R)
    PROVE  RowsOf(c, i)' = {c} \X {i} \X R
<1>1. \A x \in {c} \X {i} \X R : x[1] = c /\ x[2] = i
  OBVIOUS
<1> QED BY <1>1 DEF RowsOf

\* A step of one cycle leaves the others alone.
LEMMA OthersKept ==
    ASSUME IInv, NEW c \in Cycles, StepOf(c), NEW d \in Cycles, d # c
    PROVE  LocalsKept(d) /\ StoredKept(d)
<1>1. TypeOK
  BY DEF IInv
<1>2. LocalsKept(d)
  BY <1>1 DEF StepOf, LocalsKept, TypeOK, CycleStarts, CollectThrows, SkipScans, FinishCycle,
     StartScans, BeginScan, NotDetected, CliFails, TimeoutBacksOff, LastTimeout, RetryScan,
     ReportArrives, UpsertScan, ReplaceVulnerabilities, PersistThrows, CountFailure, EndScan,
     Goto, countVars
<1>3. CASE UNCHANGED dbVars
  <2>1. scans' = scans /\ vulns' = vulns
    BY <1>3 DEF dbVars
  <2>2. ASSUME NEW j \in Images PROVE RowsOf(d, j)' = RowsOf(d, j)
    BY <2>1, Zenon DEF RowsOf
  <2> QED BY <1>2, <2>1, <2>2, Zenon DEF StoredKept
<1>4. CASE UpsertScan(c)
  <2>1. scans' = scans \cup ({c} \X image[c]) /\ vulns' = vulns
    BY <1>4 DEF UpsertScan
  <2>2. ASSUME NEW j \in Images PROVE RowsOf(d, j)' = RowsOf(d, j)
    BY <2>1, Zenon DEF RowsOf
  <2>3. ASSUME NEW j \in Images PROVE <<d, j>> \in scans' <=> <<d, j>> \in scans
    BY <2>1
  <2> QED BY <1>2, <2>2, <2>3, Zenon DEF StoredKept
<1>5. CASE ReplaceVulnerabilities(c)
  <2>1. PICK i, R : vulns' = (vulns \ RowsOf(c, i)) \cup ({c} \X {i} \X R)
    BY <1>5 DEF ReplaceVulnerabilities
  <2>2. ASSUME NEW j \in Images PROVE RowsOf(d, j)' = RowsOf(d, j)
    <3>1. <<c, i>> # <<d, j>>
      OBVIOUS
    <3> QED BY <2>1, <3>1, RowsApart
  <2>3. scans' = scans
    BY <1>5 DEF ReplaceVulnerabilities
  <2> QED BY <1>2, <2>2, <2>3, Zenon DEF StoredKept
<1>6. UNCHANGED dbVars \/ UpsertScan(c) \/ ReplaceVulnerabilities(c)
  BY DEF StepOf, CycleStarts, CollectThrows, SkipScans, FinishCycle,
     StartScans, BeginScan, NotDetected, CliFails, TimeoutBacksOff, LastTimeout, RetryScan,
     ReportArrives, PersistThrows
<1> QED BY <1>2, <1>3, <1>4, <1>5, <1>6

\* A step that does not write to the database keeps a cycle's scans in order,
\* when an image whose row has been stored is counted as failed by it.
LEMMA StoreKept ==
    ASSUME NEW c \in Cycles, CycleOK(c), UNCHANGED <<scans, vulns>>,
           reported'[c] = reported[c], succeeded'[c] = succeeded[c], failed[c] \subseteq failed'[c],
           pc[c] # "died", pc'[c] # "replacing", pc[c] = "replacing" => image[c] \subseteq failed'[c]
    PROVE  \A i \in Images : StoreOK(c, i)'
<1> SUFFICES ASSUME NEW i \in Images PROVE StoreOK(c, i)'
  OBVIOUS
<1>1. RowsOf(c, i)' = RowsOf(c, i)
  BY Zenon DEF RowsOf
<1>2. Whole(c, i) => Whole(c, i)'
  BY <1>1 DEF Whole
<1> QED BY <1>1, <1>2 DEF CycleOK, StoreOK

\* The steps of a cycle that neither store nor report anything.
LEMMA QuietStepOK ==
    ASSUME IInv, NEW c \in Cycles,
           \/ CycleStarts(c) \/ CollectThrows(c) \/ SkipScans(c) \/ FinishCycle(c)
           \/ \E images \in SUBSET Images : StartScans(c, images)
           \/ \E i \in Images : BeginScan(c, i) \/ NotDetected(c, i)
           \/ CliFails(c) \/ TimeoutBacksOff(c) \/ LastTimeout(c) \/ RetryScan(c) \/ PersistThrows(c)
    PROVE  CycleOK(c)'
<1>0. TypeOK /\ CycleOK(c)
  BY DEF IInv
<1> USE <1>0 DEF countVars, dbVars, gaugeVars, Goto
<1>1. ASSUME CycleStarts(c) \/ CollectThrows(c) \/ SkipScans(c) \/ FinishCycle(c)
             \/ TimeoutBacksOff(c) \/ RetryScan(c)
      PROVE  CycleOK(c)'
  <2>1. /\ UNCHANGED <<scans, vulns, reported, succeeded, failed, toScan, todo, image>>
        /\ pc[c] \notin {"died", "replacing"} /\ pc'[c] \notin {"died", "replacing"}
    BY <1>1 DEF TypeOK, CycleStarts, CollectThrows, SkipScans, FinishCycle, TimeoutBacksOff, RetryScan
  <2>2. \A i \in Images : StoreOK(c, i)'
    BY <2>1, StoreKept
  <2>3. PlaceOK(c)' /\ TallyOK(c)'
    BY <1>1 DEF TypeOK, CycleOK, PlaceOK, TallyOK, AtHand, CycleStarts, CollectThrows, SkipScans,
       FinishCycle, TimeoutBacksOff, RetryScan
  <2> QED BY <2>2, <2>3 DEF CycleOK
<1>2. ASSUME NEW images \in SUBSET Images, StartScans(c, images)
      PROVE  CycleOK(c)'
  <2>1. \A i \in Images : StoreOK(c, i)'
    BY <1>2, StoreKept DEF TypeOK, StartScans
  <2>2. PlaceOK(c)' /\ TallyOK(c)'
    BY <1>2 DEF TypeOK, CycleOK, PlaceOK, TallyOK, AtHand, StartScans
  <2> QED BY <2>1, <2>2 DEF CycleOK
<1>3. ASSUME NEW i \in Images, BeginScan(c, i) \/ NotDetected(c, i)
      PROVE  CycleOK(c)'
  <2>1. \A j \in Images : StoreOK(c, j)'
    BY <1>3, StoreKept DEF TypeOK, BeginScan, NotDetected
  <2>2. pc[c] = "next" /\ i \in todo[c] /\ image[c] = {} /\ todo'[c] = todo[c] \ {i}
    BY <1>3 DEF TypeOK, CycleOK, PlaceOK, AtHand, BeginScan, NotDetected
  <2>3. CASE BeginScan(c, i)
    <3>1. /\ image'[c] = {i} /\ pc'[c] = "scanning"
          /\ UNCHANGED <<toScan, succeeded, failed>>
      BY <2>3 DEF TypeOK, BeginScan
    <3> QED BY <2>1, <2>2, <3>1 DEF CycleOK, PlaceOK, TallyOK, AtHand
  <2>4. CASE NotDetected(c, i)
    <3>1. /\ failed'[c] = failed[c] \cup {i}
          /\ UNCHANGED <<toScan, succeeded, pc, image, attempt>>
      BY <2>4 DEF TypeOK, NotDetected
    <3> QED BY <2>1, <2>2, <3>1 DEF CycleOK, PlaceOK, TallyOK, AtHand
  <2> QED BY <1>3, <2>3, <2>4
<1>4. ASSUME CliFails(c) \/ LastTimeout(c) \/ PersistThrows(c)
      PROVE  CycleOK(c)'
  <2>1. /\ UNCHANGED <<scans, vulns, reported, succeeded, toScan, todo>>
        /\ failed'[c] = failed[c] \cup image[c] /\ image'[c] = {} /\ pc'[c] = "next"
        /\ pc[c] \in AtHand
    BY <1>4 DEF TypeOK, CliFails, LastTimeout, PersistThrows, CountFailure, EndScan, AtHand
  <2>2. \A i \in Images : StoreOK(c, i)'
    BY <2>1, StoreKept DEF AtHand
  <2>3. PlaceOK(c)' /\ TallyOK(c)'
    BY <2>1 DEF CycleOK, PlaceOK, TallyOK, AtHand
  <2> QED BY <2>2, <2>3 DEF CycleOK
<1> QED BY <1>1, <1>2, <1>3, <1>4

\* The steps that report and store a scan.
LEMMA StoringStepOK ==
    ASSUME IInv, NEW c \in Cycles,
           \/ \E report \in Reports : ReportArrives(c, report)
           \/ UpsertScan(c) \/ ReplaceVulnerabilities(c)
    PROVE  CycleOK(c)'
<1>0. TypeOK /\ CycleOK(c)
  BY DEF IInv
<1>1. PICK i \in Images : image[c] = {i}
  BY ImageAtHand DEF ReportArrives, UpsertScan, ReplaceVulnerabilities, AtHand
<1>2. i \notin succeeded[c]
  BY <1>0, <1>1 DEF CycleOK, TallyOK
<1> USE <1>0, <1>1, <1>2 DEF countVars, dbVars, gaugeVars, Goto
<1>3. ASSUME NEW report \in Reports, ReportArrives(c, report)
      PROVE  CycleOK(c)'
  <2>1. /\ UNCHANGED <<scans, vulns, succeeded, failed, toScan, todo, image, attempt>>
        /\ pc[c] = "scanning" /\ pc'[c] = "inserting"
        /\ \A j \in Images : j # i => reported'[c][j] = reported[c][j]
    BY <1>3 DEF TypeOK, ReportArrives
  <2>2. ASSUME NEW j \in Images PROVE StoreOK(c, j)'
    <3>1. RowsOf(c, j)' = RowsOf(c, j)
      BY <2>1, Zenon DEF RowsOf
    <3>2. j # i => (Whole(c, j) => Whole(c, j)')
      BY <2>1, <3>1 DEF Whole
    <3> QED BY <2>1, <3>1, <3>2 DEF CycleOK, StoreOK
  <2>3. PlaceOK(c)' /\ TallyOK(c)'
    BY <2>1 DEF CycleOK, PlaceOK, TallyOK, AtHand
  <2> QED BY <2>2, <2>3 DEF CycleOK
<1>4. ASSUME UpsertScan(c)
      PROVE  CycleOK(c)'
  <2>1. /\ UNCHANGED <<vulns, reported, succeeded, failed, toScan, todo, image, attempt>>
        /\ pc[c] = "inserting" /\ pc'[c] = "replacing"
        /\ scans' = scans \cup {<<c, i>>}
    BY <1>4 DEF TypeOK, UpsertScan
  <2>2. ASSUME NEW j \in Images PROVE StoreOK(c, j)'
    <3>1. RowsOf(c, j)' = RowsOf(c, j)
      BY <2>1, Zenon DEF RowsOf
    <3>2. Whole(c, j) => Whole(c, j)'
      BY <2>1, <3>1 DEF Whole
    <3>3. <<c, j>> \in scans' => <<c, j>> \in scans \/ j = i
      BY <2>1
    <3>4. <<c, i>> \in scans'
      BY <2>1
    <3> QED BY <2>1, <3>1, <3>2, <3>3, <3>4 DEF CycleOK, StoreOK
  <2>3. PlaceOK(c)' /\ TallyOK(c)'
    BY <2>1 DEF CycleOK, PlaceOK, TallyOK, AtHand
  <2> QED BY <2>2, <2>3 DEF CycleOK
<1>5. ASSUME ReplaceVulnerabilities(c)
      PROVE  CycleOK(c)'
  <2>1. /\ UNCHANGED <<scans, reported, failed, toScan, todo>>
        /\ pc[c] = "replacing" /\ pc'[c] = "next" /\ image'[c] = {}
        /\ succeeded'[c] = succeeded[c] \cup {i}
    BY <1>5 DEF TypeOK, ReplaceVulnerabilities, EndScan
  <2>2. PICK R : R = reported[c][i] /\ vulns' = (vulns \ RowsOf(c, i)) \cup ({c} \X {i} \X R)
    BY <1>5 DEF ReplaceVulnerabilities
  <2>3. <<c, i>> \in scans
    BY <2>1 DEF CycleOK, StoreOK
  <2>4. StoreOK(c, i)'
    <3>1. RowsOf(c, i)' = {c} \X {i} \X R
      BY <2>2, RowsReplaced
    <3> QED BY <2>1, <2>2, <2>3, <3>1 DEF StoreOK, Whole
  <2>5. ASSUME NEW j \in Images, j # i PROVE StoreOK(c, j)'
    <3>1. RowsOf(c, j)' = RowsOf(c, j)
      <4>1. <<c, i>> # <<c, j>>
        BY <2>5
      <4> QED BY <2>2, <4>1, RowsApart
    <3> QED BY <2>1, <2>5, <3>1 DEF CycleOK, StoreOK, Whole
  <2>6. PlaceOK(c)' /\ TallyOK(c)'
    BY <2>1 DEF CycleOK, PlaceOK, TallyOK, AtHand
  <2> QED BY <2>4, <2>5, <2>6 DEF CycleOK
<1> QED BY <1>3, <1>4, <1>5

\* Every step keeps every cycle in order.
LEMMA NextCycleOK == IInv /\ [Next]_vars => \A d \in Cycles : CycleOK(d)'
<1> SUFFICES ASSUME IInv, [Next]_vars, NEW d \in Cycles PROVE CycleOK(d)'
  OBVIOUS
<1>0. TypeOK /\ CycleOK(d)
  BY DEF IInv
<1>1. ASSUME NEW c \in Cycles, StepOf(c) PROVE CycleOK(d)'
  <2>1. CASE c = d
    BY <1>1, <2>1, QuietStepOK, StoringStepOK DEF StepOf
  <2>2. CASE c # d
    BY <1>0, <1>1, <2>2, OthersKept, KeptIsOK
  <2> QED BY <2>1, <2>2
<1>2. ASSUME UNCHANGED <<cycleVars, dbVars>> PROVE CycleOK(d)'
  <2>1. LocalsKept(d)
    BY <1>2 DEF LocalsKept, cycleVars, countVars
  <2>2. scans' = scans /\ vulns' = vulns
    BY <1>2 DEF dbVars
  <2>3. \A i \in Images : RowsOf(d, i)' = RowsOf(d, i)
    BY <2>2, Zenon DEF RowsOf
  <2>4. StoredKept(d)
    BY <2>2, <2>3, Zenon DEF StoredKept
  <2> QED BY <1>0, <2>1, <2>4, KeptIsOK
<1>3. CASE Killed
  <2>1. /\ UNCHANGED <<toScan, todo, image, attempt, succeeded, failed, reported, scans, vulns>>
        /\ pc'[d] = IF pc[d] \in Active THEN "died" ELSE pc[d]
    BY <1>3 DEF Killed, countVars, dbVars
  <2>2. ASSUME NEW i \in Images PROVE StoreOK(d, i)'
    <3>1. RowsOf(d, i)' = RowsOf(d, i)
      BY <2>1, Zenon DEF RowsOf
    <3>2. Whole(d, i) => Whole(d, i)'
      BY <2>1, <3>1 DEF Whole
    <3> QED BY <1>0, <2>1, <3>1, <3>2 DEF CycleOK, StoreOK, Active, Sync
  <2>3. PlaceOK(d)' /\ TallyOK(d)'
    BY <1>0, <2>1 DEF CycleOK, PlaceOK, TallyOK, AtHand, Active, Sync
  <2> QED BY <2>2, <2>3 DEF CycleOK
<1>4. \/ \E c \in Cycles : StepOf(c)
      \/ UNCHANGED <<cycleVars, dbVars>>
      \/ Killed
  BY DEF Next, StepOf, PeriodicCheck, Restarts, vars
<1> QED BY <1>1, <1>2, <1>3, <1>4

------------------------------------------------------------------------------
(* The gauges                                                              *)

\* Every step keeps the gauges within what is stored, and they lag behind only
\* while a cycle is scanning.
LEMMA NextGaugeOK == IInv /\ [Next]_vars => GaugeOK' /\ (up' => gauge \subseteq gauge')
<1> SUFFICES ASSUME IInv, [Next]_vars PROVE GaugeOK' /\ (up' => gauge \subseteq gauge')
  OBVIOUS
<1>0. TypeOK /\ GaugeOK /\ CompletedRows = vulns /\ gauge \subseteq vulns
  BY DEF IInv, GaugeOK
<1>1. ASSUME NEW c \in Cycles, SkipScans(c) \/ FinishCycle(c)
      PROVE  GaugeOK' /\ gauge \subseteq gauge'
  <2>1. scans' = scans /\ vulns' = vulns
    BY <1>1 DEF SkipScans, FinishCycle, dbVars
  <2>2. CompletedRows' = vulns'
    BY <1>0, <2>1, Zenon DEF CompletedRows
  <2>3. (gauge' = vulns /\ fresh' = TRUE) \/ (gauge' = gauge /\ fresh' = FALSE)
    BY <1>0, <1>1 DEF SkipScans, FinishCycle, RefreshMetrics
  <2> QED BY <1>0, <2>1, <2>2, <2>3 DEF GaugeOK
<1>2. ASSUME UNCHANGED <<dbVars, gaugeVars>>,
             \A c \in Cycles : pc[c] \in Active \ {"collecting"} => pc'[c] \in Active \ {"collecting"}
      PROVE  GaugeOK' /\ gauge \subseteq gauge'
  <2>1. scans' = scans /\ vulns' = vulns /\ gauge' = gauge /\ fresh' = fresh
    BY <1>2 DEF dbVars, gaugeVars
  <2>2. CompletedRows' = vulns'
    BY <1>0, <2>1, Zenon DEF CompletedRows
  <2> QED BY <1>0, <1>2, <2>1, <2>2 DEF GaugeOK
<1>3. ASSUME NEW c \in Cycles, UpsertScan(c) \/ ReplaceVulnerabilities(c)
      PROVE  GaugeOK' /\ gauge \subseteq gauge'
  <2>1. pc'[c] \in Active \ {"collecting"} /\ gauge' = gauge
    BY <1>0, <1>3 DEF TypeOK, UpsertScan, ReplaceVulnerabilities, EndScan, Goto, Active, Sync, gaugeVars
  <2>2. scans \subseteq scans'
    BY <1>3 DEF UpsertScan, ReplaceVulnerabilities
  <2>3. vulns \subseteq vulns' /\ \A x \in vulns' : <<x[1], x[2]>> \in scans'
    <3>1. CASE UpsertScan(c)
      <4>1. vulns' = vulns /\ \A x \in vulns : <<x[1], x[2]>> \in scans
        BY <1>0, <3>1 DEF UpsertScan, CompletedRows
      <4> QED BY <2>2, <4>1
    <3>2. CASE ReplaceVulnerabilities(c)
      <4>1. PICK i \in Images : image[c] = {i} /\ i \notin succeeded[c]
        <5>1. PICK i \in Images : image[c] = {i}
          BY <3>2, ImageAtHand DEF ReplaceVulnerabilities, AtHand
        <5> QED BY <5>1 DEF IInv, CycleOK, TallyOK
      <4>2. PICK R : vulns' = (vulns \ RowsOf(c, i)) \cup ({c} \X {i} \X R)
        BY <3>2, <4>1 DEF ReplaceVulnerabilities
      <4>3. RowsOf(c, i) = {} /\ <<c, i>> \in scans
        BY <3>2, <4>1 DEF IInv, CycleOK, StoreOK, ReplaceVulnerabilities
      <4>4. \A x \in {c} \X {i} \X R : x[1] = c /\ x[2] = i
        OBVIOUS
      <4>5. \A x \in vulns : <<x[1], x[2]>> \in scans
        BY <1>0 DEF CompletedRows
      <4> QED BY <2>2, <4>2, <4>3, <4>4, <4>5
    <3> QED BY <1>3, <3>1, <3>2
  <2>4. CompletedRows' = vulns'
    BY <2>3 DEF CompletedRows
  <2> QED BY <1>0, <2>1, <2>3, <2>4 DEF GaugeOK
<1>4. CASE Killed
  <2>1. scans' = scans /\ vulns' = vulns /\ gauge' = {} /\ fresh' = FALSE /\ ~up'
    BY <1>4 DEF Killed, dbVars
  <2>2. CompletedRows' = vulns'
    BY <1>0, <2>1, Zenon DEF CompletedRows
  <2> QED BY <2>1, <2>2 DEF GaugeOK
<1>5. ASSUME NEW c \in Cycles,
             \/ CycleStarts(c) \/ CollectThrows(c)
             \/ \E images \in SUBSET Images : StartScans(c, images)
             \/ \E i \in Images : BeginScan(c, i) \/ NotDetected(c, i)
             \/ CliFails(c) \/ TimeoutBacksOff(c) \/ LastTimeout(c) \/ RetryScan(c)
             \/ \E report \in Reports : ReportArrives(c, report)
             \/ PersistThrows(c)
      PROVE  GaugeOK' /\ gauge \subseteq gauge'
  <2>1. UNCHANGED <<dbVars, gaugeVars>>
    BY <1>5 DEF CycleStarts, CollectThrows, StartScans, BeginScan, NotDetected, CliFails,
       TimeoutBacksOff, LastTimeout, RetryScan, ReportArrives, PersistThrows
  <2>2. /\ \A d \in Cycles : d # c => pc'[d] = pc[d]
        /\ pc[c] \in Active \ {"collecting"} => pc'[c] \in Active \ {"collecting"}
    BY <1>0, <1>5 DEF TypeOK, CycleStarts, CollectThrows, StartScans, BeginScan, NotDetected, CliFails,
       TimeoutBacksOff, LastTimeout, RetryScan, ReportArrives, PersistThrows, CountFailure, EndScan,
       Goto, Active, Sync
  <2> QED BY <1>2, <2>1, <2>2
<1>6. CASE UNCHANGED <<cycleVars, dbVars, gaugeVars>>
  BY <1>2, <1>6 DEF cycleVars
<1>7. \/ \E c \in Cycles : StepOf(c)
      \/ UNCHANGED <<cycleVars, dbVars, gaugeVars>>
      \/ Killed
  BY DEF Next, StepOf, PeriodicCheck, Restarts, vars
<1> QED BY <1>1, <1>3, <1>4, <1>5, <1>6, <1>7 DEF StepOf

------------------------------------------------------------------------------
(* The theorems                                                            *)

\* The invariant holds initially ...
LEMMA InitIInv == Init => IInv
<1> SUFFICES ASSUME Init PROVE IInv
  OBVIOUS
<1>1. TypeOK
  BY InitTypeOK
<1>2. ASSUME NEW c \in Cycles PROVE CycleOK(c)
  <2>1. PlaceOK(c) /\ TallyOK(c)
    BY DEF Init, PlaceOK, TallyOK, AtHand
  <2>2. \A i \in Images : StoreOK(c, i)
    BY DEF Init, StoreOK, RowsOf
  <2> QED BY <2>1, <2>2 DEF CycleOK
<1>3. GaugeOK
  BY DEF Init, GaugeOK, CompletedRows
<1> QED BY <1>1, <1>2, <1>3 DEF IInv

\* ... and every step keeps it.
LEMMA NextIInv == IInv /\ [Next]_vars => IInv'
BY NextTypeOK, NextCycleOK, NextGaugeOK DEF IInv

LEMMA Invariance == Spec => []IInv
BY InitIInv, NextIInv, PTL DEF Spec

\* Every variable keeps its type; no scan is tried more than MaxAttempts times.
THEOREM TypeCorrect == Spec => []TypeOK
<1>1. IInv => TypeOK
  BY DEF IInv
<1> QED BY Invariance, <1>1, PTL

\* A scan that counts as succeeded has exactly the reported vulnerabilities
\* stored; a completed row without them has none at all, and is that of a failed
\* scan or of a cycle cut off between the two writes.
THEOREM ScansAccounted == Spec => []StoredScansAreAccounted
<1>1. IInv => SucceededScansAreWhole
  BY DEF IInv, TypeOK, CycleOK, StoreOK, SucceededScansAreWhole
<1>2. IInv => BareScansAreAccounted
  BY DEF IInv, CycleOK, StoreOK, BareScansAreAccounted
<1>3. IInv => StoredScansAreAccounted
  BY <1>1, <1>2 DEF StoredScansAreAccounted
<1> QED BY Invariance, <1>3, PTL

\* Each image a cycle was to scan is counted once.
THEOREM TallyCorrect == Spec => []TallyAddsUp
<1>1. IInv => TallyAddsUp
  BY DEF IInv, CycleOK, TallyOK, TallyAddsUp
<1> QED BY Invariance, <1>1, PTL

\* Once all cycles have ended and the last refresh worked, the gauges show
\* all that is stored.
THEOREM GaugesCurrent == Spec => []GaugesCatchUp
<1>1. IInv => GaugesCatchUp
  BY DEF IInv, GaugeOK, GaugesCatchUp
<1> QED BY Invariance, <1>1, PTL

\* The gauges follow the database: no step of a process makes them lose a
\* finding, and after a refresh that worked, with no cycle left, they are current.
THEOREM GaugesFollow == Spec => GaugesFollowDatabase
<1>1. IInv /\ [Next]_vars => [up' => gauge \subseteq gauge']_vars
  BY NextGaugeOK
<1>2. ASSUME IInv, IInv', [Next]_vars
      PROVE  [GaugesCatchUp' /\ (up' => gauge \subseteq gauge')]_vars
  <2>1. GaugesCatchUp'
    BY <1>2 DEF IInv, GaugeOK, GaugesCatchUp
  <2> QED BY <1>1, <1>2, <2>1
<1> QED BY Invariance, <1>2, PTL DEF Spec, GaugesFollowDatabase
-----------------------------------------------------------------------------
(* The schema of the database.                                             *)

\* The recorded versions have no gap, so that MAX(version) says which are missing.
RecordedVersionsHaveNoGap == \A v \in recorded : 1..v \subseteq recorded

\* The first n statements of the script of v have been executed.
Executed(v, n) == \A i \in 1..n : <<v, i>> \in made

\* What has been made and recorded when a process is where it is.
InStep(p) ==
    /\ opening[p] = "create" => ver[p] \in {0, 1} /\ (ver[p] = 1 => Executed(0, Statements))
    /\ opening[p] = "read" => ver[p] = 1
    /\ opening[p] = "apply" => ver[p] >= 2
    /\ opening[p] = "record" => ver[p] >= 1 /\ Executed(ver[p], Statements)
    /\ opening[p] \in {"create", "apply"} => Executed(ver[p], stmt[p] - 1)
    /\ opening[p] \in {"read", "apply", "record", "ready"} =>
           Executed(0, Statements) /\ Executed(1, Statements)
    /\ opening[p] \in {"apply", "record"} => \A v \in Versions : v < ver[p] => v \in recorded
    /\ opening[p] = "ready" => recorded = Versions

RecordedApplied == \A v \in recorded : Executed(v, Statements)

NoGap == \A v \in recorded : \A u \in Versions : u <= v => u \in recorded

SchemaInv ==
    /\ SchemaTypeOK
    /\ RecordedApplied
    /\ NoGap
    /\ \A p \in Procs : InStep(p)

------------------------------------------------------------------------------

\* What is made and recorded stays so: the steps of a process do not disturb
\* what another has reached.
LEMMA InStepIsStable ==
    ASSUME SchemaTypeOK, NEW p \in Procs, InStep(p),
           made \subseteq made', recorded \subseteq recorded', recorded' \subseteq Versions,
           opening'[p] = opening[p], ver'[p] = ver[p], stmt'[p] = stmt[p]
    PROVE  InStep(p)'
BY DEF InStep, Executed, SchemaTypeOK

\* A step that adds no version and removes nothing keeps the recorded versions
\* applied and without a gap.
LEMMA RecordsAreStable ==
    ASSUME RecordedApplied, NoGap, made \subseteq made', recorded' = recorded
    PROVE  RecordedApplied' /\ NoGap'
BY DEF RecordedApplied, NoGap, Executed

\* SchemaInit satisfies the inductive invariant.
LEMMA SchemaStarts == SchemaInit => SchemaInv
BY MigrationAssumption DEF SchemaInit, SchemaInv, SchemaTypeOK, RecordedApplied, NoGap, InStep, Executed, SchemaSteps

\* A step of p that leaves p where InStep says it may be does so for every process.
LEMMA OtherProcesses ==
    ASSUME SchemaTypeOK, NEW p \in Procs, \A q \in Procs : InStep(q),
           made \subseteq made', recorded \subseteq recorded', recorded' \subseteq Versions,
           \A q \in Procs \ {p} : opening'[q] = opening[q] /\ ver'[q] = ver[q] /\ stmt'[q] = stmt[q],
           InStep(p)'
    PROVE  \A q \in Procs : InStep(q)'
BY InStepIsStable

\* A step of a process keeps the invariant.
LEMMA SchemaGoesOn == SchemaInv /\ [SchemaNext]_schemaVars => SchemaInv'
<1> SUFFICES ASSUME SchemaInv, [SchemaNext]_schemaVars PROVE SchemaInv'
  OBVIOUS
<1> USE MigrationAssumption
<1>1. CASE UNCHANGED schemaVars
  BY <1>1 DEF schemaVars, SchemaInv, SchemaTypeOK, RecordedApplied, NoGap, InStep, Executed
<1>2. ASSUME NEW p \in Procs, Start(p) PROVE SchemaInv'
  <2>1. SchemaTypeOK'
    BY <1>2 DEF SchemaInv, SchemaTypeOK, Start, OpeningAt, Turn, SchemaSteps, Stopped
  <2>2. made' = made /\ recorded' = recorded /\ recorded' \subseteq Versions
    BY <1>2 DEF Start, SchemaInv, SchemaTypeOK
  <2>3. InStep(p)'
    BY <1>2 DEF Start, OpeningAt, Turn, InStep, Executed, SchemaInv, SchemaTypeOK
  <2>4. \A q \in Procs \ {p} : opening'[q] = opening[q] /\ ver'[q] = ver[q] /\ stmt'[q] = stmt[q]
    BY <1>2 DEF Start, OpeningAt, Turn, SchemaInv, SchemaTypeOK
  <2> QED
    BY <2>1, <2>2, <2>3, <2>4, OtherProcesses, RecordsAreStable DEF SchemaInv
<1>3. ASSUME NEW p \in Procs, Exec(p) PROVE SchemaInv'
  <2>1. SchemaTypeOK'
    BY <1>3 DEF SchemaInv, SchemaTypeOK, Exec, AfterScript, OpeningAt, Turn, SchemaSteps, InStep
  <2>2. made \subseteq made' /\ recorded' = recorded /\ recorded' \subseteq Versions
    BY <1>3 DEF Exec, SchemaInv, SchemaTypeOK
  <2>3. InStep(p)'
    <3>0. stmt[p] \in 1..Statements /\ ver[p] \in 0..Latest
      BY DEF SchemaInv, SchemaTypeOK
    <3>1. \A i \in 1..stmt[p] : <<ver[p], i>> \in made'
      <4>1. \A i \in 1..(stmt[p] - 1) : <<ver[p], i>> \in made
        BY <1>3 DEF Exec, Executed, InStep, SchemaInv
      <4>2. made' = made \cup {<<ver[p], stmt[p]>>}
        BY <1>3 DEF Exec
      <4>3. \A i \in 1..stmt[p] : i = stmt[p] \/ i \in 1..(stmt[p] - 1)
        BY <3>0
      <4> QED
        BY <4>1, <4>2, <4>3
    <3>2. CASE stmt[p] # Statements
      BY <1>3, <3>0, <3>1, <3>2, <2>2 DEF Exec, InStep, Executed, SchemaInv, SchemaTypeOK
    <3>3. CASE stmt[p] = Statements /\ ver[p] = 0
      BY <1>3, <3>0, <3>1, <3>3, <2>2 DEF Exec, AfterScript, OpeningAt, Turn, InStep, Executed, SchemaInv, SchemaTypeOK
    <3>4. CASE stmt[p] = Statements /\ ver[p] = 1
      BY <1>3, <3>0, <3>1, <3>4, <2>2 DEF Exec, AfterScript, OpeningAt, Turn, InStep, Executed, SchemaInv, SchemaTypeOK
    <3>5. CASE stmt[p] = Statements /\ ver[p] >= 2
      BY <1>3, <3>0, <3>1, <3>5, <2>2 DEF Exec, AfterScript, OpeningAt, Turn, InStep, Executed, SchemaInv, SchemaTypeOK
    <3> QED
      BY <3>0, <3>2, <3>3, <3>4, <3>5
  <2>4. \A q \in Procs \ {p} : opening'[q] = opening[q] /\ ver'[q] = ver[q] /\ stmt'[q] = stmt[q]
    BY <1>3 DEF Exec, AfterScript, OpeningAt, Turn, SchemaInv, SchemaTypeOK
  <2> QED
    BY <2>1, <2>2, <2>3, <2>4, OtherProcesses, RecordsAreStable DEF SchemaInv
<1>4. ASSUME NEW p \in Procs, ReadVersion(p) PROVE SchemaInv'
  <2>0. PICK v \in 0..Latest :
          /\ CurrentVersion(v)
          /\ IF v = Latest THEN OpeningAt(p, "ready") /\ UNCHANGED <<ver, stmt>>
             ELSE OpeningAt(p, IF v = 0 THEN "record" ELSE "apply") /\ Turn(p, v + 1)
    BY <1>4 DEF ReadVersion
  <2>1. SchemaTypeOK'
    BY <1>4, <2>0 DEF SchemaInv, SchemaTypeOK, ReadVersion, OpeningAt, Turn, SchemaSteps
  <2>2. made' = made /\ recorded' = recorded /\ recorded' \subseteq Versions
    BY <1>4 DEF ReadVersion, SchemaInv, SchemaTypeOK
  <2>3. InStep(p)'
    <3>1. \A u \in Versions : u < v + 1 => u \in recorded
      BY <2>0 DEF CurrentVersion, SchemaInv, NoGap, Versions, SchemaTypeOK
    <3>2. Executed(0, Statements)' /\ Executed(1, Statements)'
      BY <1>4, <2>2 DEF ReadVersion, SchemaInv, InStep, Executed
    <3>3. CASE v = Latest
      <4>0. \A u \in Versions : u \in recorded'
        BY <3>1, <3>3, <2>2 DEF Versions
      <4>1. recorded' = Versions
        BY <4>0, <2>2
      <4> QED
        BY <1>4, <2>0, <3>2, <3>3, <4>1 DEF OpeningAt, InStep, SchemaInv, SchemaTypeOK
    <3>4. CASE v # Latest
      <4>1. opening'[p] = (IF v = 0 THEN "record" ELSE "apply") /\ ver'[p] = v + 1 /\ stmt'[p] = 1
        BY <2>0, <3>4 DEF OpeningAt, Turn, SchemaInv, SchemaTypeOK
      <4>2. Executed(ver[p], stmt[p] - 1)'
        BY <4>1 DEF Executed
      <4> QED
        BY <2>2, <3>1, <3>2, <4>1, <4>2 DEF InStep, Executed, Versions
    <3> QED
      BY <3>3, <3>4
  <2>4. \A q \in Procs \ {p} : opening'[q] = opening[q] /\ ver'[q] = ver[q] /\ stmt'[q] = stmt[q]
    BY <2>0 DEF OpeningAt, Turn, SchemaInv, SchemaTypeOK
  <2> QED
    BY <2>1, <2>2, <2>3, <2>4, OtherProcesses, RecordsAreStable DEF SchemaInv
<1>5. ASSUME NEW p \in Procs, RecordVersion(p) PROVE SchemaInv'
  <2>0. ver[p] \in Versions
    BY <1>5 DEF RecordVersion, InStep, SchemaInv, SchemaTypeOK, Versions
  <2>1. SchemaTypeOK'
    <3>1. recorded' \subseteq Versions
      BY <1>5, <2>0 DEF RecordVersion, SchemaInv, SchemaTypeOK
    <3>2. opening' \in [Procs -> SchemaSteps]
      BY <1>5 DEF RecordVersion, NextMigration, OpeningAt, SchemaInv, SchemaTypeOK, SchemaSteps
    <3>3. ver' \in [Procs -> 0..Latest] /\ stmt' \in [Procs -> 1..Statements]
      BY <1>5, <2>0 DEF RecordVersion, NextMigration, OpeningAt, Turn, SchemaInv, SchemaTypeOK, Versions
    <3> QED
      BY <1>5, <3>1, <3>2, <3>3 DEF RecordVersion, SchemaInv, SchemaTypeOK
  <2>2. made' = made /\ recorded' = recorded \cup {ver[p]} /\ recorded' \subseteq Versions
    BY <1>5, <2>1 DEF RecordVersion, SchemaTypeOK
  <2>3. RecordedApplied' /\ NoGap'
    BY <1>5, <2>2 DEF RecordVersion, RecordedApplied, NoGap, InStep, Executed, SchemaInv, SchemaTypeOK, Versions
  <2>4. InStep(p)'
    <3>1. \A u \in Versions : u <= ver[p] => u \in recorded'
      BY <1>5, <2>2 DEF RecordVersion, InStep, SchemaInv, SchemaTypeOK, Versions
    <3>2. Executed(0, Statements)' /\ Executed(1, Statements)'
      BY <1>5, <2>2 DEF RecordVersion, SchemaInv, InStep, Executed
    <3>3. CASE ver[p] = Latest
      <4>0. \A u \in Versions : u \in recorded'
        BY <3>1, <3>3, <2>2 DEF Versions
      <4>1. recorded' = Versions
        BY <4>0, <2>2
      <4> QED
        BY <1>5, <3>2, <3>3, <4>1 DEF RecordVersion, NextMigration, OpeningAt, InStep, SchemaInv, SchemaTypeOK
    <3>4. CASE ver[p] # Latest
      <4>1. opening'[p] = "apply" /\ ver'[p] = ver[p] + 1 /\ stmt'[p] = 1
        BY <1>5, <3>4 DEF RecordVersion, NextMigration, OpeningAt, Turn, SchemaInv, SchemaTypeOK
      <4>2. Executed(ver[p], stmt[p] - 1)'
        BY <4>1 DEF Executed
      <4>3. ver[p] \in Nat /\ ver[p] >= 1
        BY <1>5 DEF RecordVersion, InStep, SchemaInv, SchemaTypeOK
      <4> QED
        BY <2>2, <3>1, <3>2, <4>1, <4>2, <4>3 DEF InStep, Executed, Versions
    <3> QED
      BY <3>3, <3>4
  <2>5. \A q \in Procs \ {p} : opening'[q] = opening[q] /\ ver'[q] = ver[q] /\ stmt'[q] = stmt[q]
    BY <1>5 DEF RecordVersion, NextMigration, OpeningAt, Turn, SchemaInv, SchemaTypeOK
  <2> QED
    BY <2>1, <2>2, <2>3, <2>4, <2>5, OtherProcesses DEF SchemaInv
<1>6. ASSUME NEW p \in Procs, NEW step \in {"conflict", "failed", "down"}, OpeningAt(p, step),
             UNCHANGED <<recorded, made, ver, stmt>>, faults' \in 0..MaxFaults
      PROVE SchemaInv'
  \* A process that stops.
  <2>1. SchemaTypeOK'
    BY <1>6 DEF SchemaInv, SchemaTypeOK, OpeningAt, SchemaSteps
  <2>2. made' = made /\ recorded' = recorded /\ recorded' \subseteq Versions
    BY <1>6 DEF SchemaInv, SchemaTypeOK
  <2>3. InStep(p)'
    BY <1>6 DEF OpeningAt, InStep, SchemaInv, SchemaTypeOK
  <2>4. \A q \in Procs \ {p} : opening'[q] = opening[q] /\ ver'[q] = ver[q] /\ stmt'[q] = stmt[q]
    BY <1>6 DEF OpeningAt, SchemaInv, SchemaTypeOK
  <2> QED
    BY <2>1, <2>2, <2>3, <2>4, OtherProcesses, RecordsAreStable DEF SchemaInv
<1>7. ASSUME NEW p \in Procs, RecordConflicts(p) PROVE SchemaInv'
  BY <1>6, <1>7 DEF RecordConflicts, SchemaInv, SchemaTypeOK
<1>8. ASSUME NEW p \in Procs, CommandEnds(p) PROVE SchemaInv'
  BY <1>6, <1>8 DEF CommandEnds, SchemaInv, SchemaTypeOK
<1>9. ASSUME NEW p \in Procs, KillProcess(p) PROVE SchemaInv'
  BY <1>6, <1>9 DEF KillProcess, Fault, SchemaInv, SchemaTypeOK
<1>10. ASSUME NEW p \in Procs, StorageThrows(p) PROVE SchemaInv'
  BY <1>6, <1>10 DEF StorageThrows, Fault, SchemaInv, SchemaTypeOK
<1> QED
  BY <1>1, <1>2, <1>3, <1>4, <1>5, <1>7, <1>8, <1>9, <1>10 DEF SchemaNext

------------------------------------------------------------------------------

\* The inductive invariant holds in every behaviour.
THEOREM SchemaInvariance == SchemaSpec => []SchemaInv
BY SchemaStarts, SchemaGoesOn, PTL DEF SchemaSpec

\* Every variable keeps its type.
THEOREM SchemaTypes == SchemaSpec => []SchemaTypeOK
<1>1. SchemaInv => SchemaTypeOK
  BY DEF SchemaInv
<1> QED
  BY <1>1, SchemaInvariance, PTL

\* No process, and no crash between two statements, can leave a version recorded
\* whose tables or indexes are missing: SchemaManager may skip what is recorded.
THEOREM RecordedIsApplied == SchemaSpec => []RecordedVersionsAreApplied
<1>1. SchemaInv => RecordedVersionsAreApplied
  BY DEF SchemaInv, RecordedApplied, RecordedVersionsAreApplied, Executed, Script
<1> QED
  BY <1>1, SchemaInvariance, PTL

\* The versions are recorded in order, without a gap, so that getCurrentVersion,
\* which reads only the maximum, misses none.
THEOREM RecordedInOrder == SchemaSpec => []RecordedVersionsHaveNoGap
<1>1. SchemaInv => RecordedVersionsHaveNoGap
  BY MigrationAssumption DEF SchemaInv, NoGap, RecordedVersionsHaveNoGap, SchemaTypeOK, Versions
<1> QED
  BY <1>1, SchemaInvariance, PTL

\* Whoever gets through initialize, racing with any number of other processes,
\* finds the whole schema.
THEOREM SchemaIsWhole == SchemaSpec => []ReadyMeansMigrated
<1>1. SchemaInv => ReadyMeansMigrated
  <2> SUFFICES ASSUME SchemaInv, NEW p \in Procs, opening[p] = "ready"
               PROVE  recorded = Versions /\ \A v \in 0..Latest : Script(v) \subseteq made
    BY DEF ReadyMeansMigrated
  <2>1. recorded = Versions /\ Executed(0, Statements)
    BY DEF SchemaInv, InStep
  <2>2. \A v \in 0..Latest : Executed(v, Statements)
    BY <2>1, MigrationAssumption DEF SchemaInv, RecordedApplied, Versions
  <2> QED
    BY <2>1, <2>2 DEF Executed, Script
<1> QED
  BY <1>1, SchemaInvariance, PTL

\* What is said to be applied is applied.
THEOREM SchemaApplied == SchemaSpec => []SchemaIsApplied
  BY RecordedIsApplied, SchemaIsWhole, PTL DEF SchemaIsApplied

-----------------------------------------------------------------------------
(* The status ConfigMap.                                                   *)

\* No periodic update is started after the final status has been computed, so
\* that a ConfigMap can only lose the final status to a write already in flight.
NoUpdateStartsAfterFinal ==
    [][phase = "final" => \A s \in Slots : writing[s] = "idle" => writing'[s] = "idle"]_publisherVars

\* The interval exists only between start() and stop().
IntervalStopped == phase \in {"boot", "draining", "final", "exited"} => ~intervalOn

\* quiet is decided when the final write starts and kept until a restart.
QuietIsLate == quiet => phase \in {"final", "exited"}

\* When nothing else was in flight then, every write still in flight is final,
\* and once it has settled the ConfigMap holds the final status, if any.
OnlyFinalInFlight ==
    quiet => \A s \in Slots : writing[s] # "idle" =>
                 kind[s] = "final" /\ (writing[s] = "ok" => cm \in {"final", "absent"})

ExitReports ==
    exitCode = "0" => /\ phase = "exited"
                      /\ quiet => finalOutcome = "error" \/ cm \in {"final", "absent"}

PublisherInv ==
    /\ PublisherTypeOK
    /\ IntervalStopped
    /\ QuietIsLate
    /\ OnlyFinalInFlight
    /\ ExitReports

------------------------------------------------------------------------------

\* A dead process leaves only what it had sent.
LEMMA OrphanedType ==
    ASSUME NEW step \in WriteSteps
    PROVE  Orphaned(step) \in WriteSteps \ {"ok"} /\ (step = "idle" => Orphaned(step) = "idle")
BY DEF Orphaned, WriteSteps

\* PublisherInit satisfies the inductive invariant.
LEMMA PublisherStarts == PublisherInit => PublisherInv
BY DEF PublisherInit, PublisherInv, PublisherTypeOK, IntervalStopped, QuietIsLate, OnlyFinalInFlight, ExitReports,
       Kinds, WriteSteps, Phases

\* An exit keeps the invariant, provided a clean one reports the shutdown.
LEMMA ExitKeepsInv ==
    ASSUME PublisherInv, NEW code \in {"0", "1", "killed"}, Exit(code), finalOutcome' \in {"none", "ok", "error"},
           code = "0" /\ quiet => finalOutcome' = "error" \/ cm \in {"final", "absent"}
    PROVE  PublisherInv'
<1>1. PublisherTypeOK'
  <2>1. writing' \in [Slots -> WriteSteps]
    BY OrphanedType DEF Exit, PublisherInv, PublisherTypeOK
  <2> QED
    BY <2>1 DEF Exit, PublisherInv, PublisherTypeOK, Phases
<1>2. OnlyFinalInFlight'
  BY OrphanedType DEF Exit, PublisherInv, PublisherTypeOK, OnlyFinalInFlight
<1>3. IntervalStopped' /\ QuietIsLate' /\ ExitReports'
  BY DEF Exit, PublisherInv, PublisherTypeOK, IntervalStopped, QuietIsLate, ExitReports
<1> QED
  BY <1>1, <1>2, <1>3 DEF PublisherInv

\* Every step keeps the invariant.
LEMMA PublisherGoesOn == PublisherInv /\ [PublisherNext]_publisherVars => PublisherInv'
<1> SUFFICES ASSUME PublisherInv, [PublisherNext]_publisherVars PROVE PublisherInv'
  OBVIOUS
<1> USE DEF PublisherInv, PublisherTypeOK, IntervalStopped, QuietIsLate, OnlyFinalInFlight, ExitReports,
            Kinds, WriteSteps, Phases
<1>1. CASE UNCHANGED publisherVars
  BY <1>1 DEF publisherVars
<1>2. ASSUME NEW s \in Slots, StartWriter(s) PROVE PublisherInv'
  BY <1>2 DEF StartWriter, Begin
<1>3. ASSUME NEW s \in Slots, UpdateStatus(s) PROVE PublisherInv'
  BY <1>3 DEF UpdateStatus, Begin, Alive
<1>4. CASE UpdateStatusThrows
  BY <1>4 DEF UpdateStatusThrows, Alive
<1>5. ASSUME NEW s \in Slots, ReadAnswered(s) PROVE PublisherInv'
  BY <1>5 DEF ReadAnswered, WritingAt
<1>6. ASSUME NEW s \in Slots, WriteSucceeds(s) PROVE PublisherInv'
  BY <1>6 DEF WriteSucceeds, WritingAt
<1>7. ASSUME NEW s \in Slots, WriteConflicts(s) PROVE PublisherInv'
  BY <1>7 DEF WriteConflicts, WritingAt
<1>8. ASSUME NEW s \in Slots, RequestFails(s) PROVE PublisherInv'
  BY <1>8 DEF RequestFails, WritingAt
<1>9. ASSUME NEW s \in Slots, AnswerLost(s) PROVE PublisherInv'
  BY <1>9 DEF AnswerLost, WritingAt
<1>10. ASSUME NEW s \in Slots, UpdateSettled(s) PROVE PublisherInv'
  BY <1>10 DEF UpdateSettled, WritingAt
<1>11. CASE GracefulShutdown
  BY <1>11 DEF GracefulShutdown
<1>12. CASE WorkerStopped
  BY <1>12 DEF WorkerStopped
<1>13. ASSUME NEW s \in Slots, WriteFinalStatus(s) PROVE PublisherInv'
  BY <1>13 DEF WriteFinalStatus, Begin
<1>14. CASE FinalStatusThrows
  BY <1>14, ExitKeepsInv DEF FinalStatusThrows
<1>15. ASSUME NEW s \in Slots, FinalSettled(s) PROVE PublisherInv'
  BY <1>15, ExitKeepsInv DEF FinalSettled
<1>16. CASE DeadlinePasses
  BY <1>16 DEF DeadlinePasses
<1>17. CASE ForceExit
  BY <1>17, ExitKeepsInv DEF ForceExit
<1>18. CASE KillPublisher
  BY <1>18, ExitKeepsInv DEF KillPublisher
<1>19. CASE Restart
  BY <1>19 DEF Restart
<1>20. ASSUME NEW s \in Slots, OrphanSettles(s) PROVE PublisherInv'
  BY <1>20 DEF OrphanSettles, WritingAt
<1>21. CASE ConfigMapDeleted
  BY <1>21 DEF ConfigMapDeleted
<1> QED
  BY <1>1, <1>2, <1>3, <1>4, <1>5, <1>6, <1>7, <1>8, <1>9, <1>10, <1>11, <1>12, <1>13,
     <1>14, <1>15, <1>16, <1>17, <1>18, <1>19, <1>20, <1>21 DEF PublisherNext

------------------------------------------------------------------------------

\* The inductive invariant holds in every behaviour.
THEOREM PublisherInvariance == PublisherSpec => []PublisherInv
BY PublisherStarts, PublisherGoesOn, PTL DEF PublisherSpec

\* Every variable keeps its type.
THEOREM PublisherTypes == PublisherSpec => []PublisherTypeOK
<1>1. PublisherInv => PublisherTypeOK
  BY DEF PublisherInv
<1> QED
  BY <1>1, PublisherInvariance, PTL

\* A clean exit whose final write had the ConfigMap to itself leaves the final
\* status there, however many writes overlapped before.
THEOREM QuietExit == PublisherSpec => []QuietExitReportsShutdown
<1>1. PublisherInv => QuietExitReportsShutdown
  BY DEF PublisherInv, ExitReports, QuietExitReportsShutdown
<1> QED
  BY <1>1, PublisherInvariance, PTL

\* stop() is early enough: no periodic update starts once the final status is
\* being written.
THEOREM NothingStartsLate == PublisherSpec => NoUpdateStartsAfterFinal
<1>1. PublisherInv /\ [PublisherNext]_publisherVars =>
          [phase = "final" => \A s \in Slots : writing[s] = "idle" => writing'[s] = "idle"]_publisherVars
  <2> SUFFICES ASSUME PublisherInv, PublisherNext, phase = "final", NEW t \in Slots, writing[t] = "idle"
               PROVE  writing'[t] = "idle"
    OBVIOUS
  <2>1. ~intervalOn
    BY DEF PublisherInv, IntervalStopped
  <2>2. ASSUME NEW s \in Slots, writing[s] # "idle", NEW step, WritingAt(s, step) PROVE writing'[t] = "idle"
    BY <2>2 DEF WritingAt, PublisherInv, PublisherTypeOK
  <2>3. ASSUME NEW code, Exit(code) PROVE writing'[t] = "idle"
    BY <2>3, OrphanedType DEF Exit, PublisherInv, PublisherTypeOK
  <2>4. ASSUME NEW s \in Slots,
               \/ ReadAnswered(s) \/ WriteSucceeds(s) \/ WriteConflicts(s) \/ RequestFails(s)
               \/ AnswerLost(s) \/ UpdateSettled(s) \/ OrphanSettles(s)
        PROVE  writing'[t] = "idle"
    BY <2>2, <2>4 DEF ReadAnswered, WriteSucceeds, WriteConflicts, RequestFails, AnswerLost,
                      UpdateSettled, OrphanSettles
  <2>5. ASSUME NEW s \in Slots, StartWriter(s) \/ UpdateStatus(s) \/ WriteFinalStatus(s)
        PROVE  FALSE
    BY <2>1, <2>5 DEF StartWriter, UpdateStatus, WriteFinalStatus
  <2>6. CASE FinalStatusThrows \/ ForceExit \/ KillPublisher \/ \E s \in Slots : FinalSettled(s)
    BY <2>3, <2>6 DEF FinalStatusThrows, ForceExit, KillPublisher, FinalSettled
  <2>7. CASE UpdateStatusThrows \/ GracefulShutdown \/ WorkerStopped \/ DeadlinePasses
             \/ Restart \/ ConfigMapDeleted
    BY <2>7 DEF UpdateStatusThrows, GracefulShutdown, WorkerStopped, DeadlinePasses, Restart,
                ConfigMapDeleted
  <2> QED
    BY <2>4, <2>5, <2>6, <2>7 DEF PublisherNext
<1> QED
  BY <1>1, PublisherInvariance, PTL DEF PublisherSpec, NoUpdateStartsAfterFinal
=============================================================================
