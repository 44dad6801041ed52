----------------------------- MODULE ArgoCd_proofs -----------------------------
(***************************************************************************)
(* Proofs about ArgoCd, for any number of overlapping checks, collections, *)
(* servers and Applications: type correctness, and that the published      *)
(* status, what the drift cycle remembers and the transitions it logs are  *)
(* true of the cluster and of Argo CD.                                     *)
(***************************************************************************)
EXTENDS ArgoCd, TLAPS

-----------------------------------------------------------------------------
(* The operators that make statuses, snapshots and reports.                *)

\* The status of a server deployment is a status.
LEMMA DetectedType ==
    /\ \A d \in Servers : Detected(d) \in Statuses
    /\ \A s \in Statuses : /\ s.detected \in BOOLEAN
                           /\ ~s.detected => s = NotDetected
                           /\ s.detected => \E d \in Servers : s = Detected(d)
<1>1. \A d \in Servers : Detected(d) \in Statuses BY DEF Statuses
<1>2. \A d \in Servers : Detected(d).detected = TRUE BY DEF Detected
<1>3. NotDetected.detected = FALSE BY DEF NotDetected
<1> QED BY <1>1, <1>2, <1>3 DEF Statuses

\* A raw status becomes a snapshot, and is never taken for a missing one.
LEMMA SnapshotType ==
    ASSUME NEW raw
    PROVE  /\ Snapshot(raw) \in [sync : Phases, health : Healths]
           /\ Snapshot(raw) # Absent /\ Snapshot(raw).sync # None
           /\ Snapshot(raw).sync = NormSync(raw.sync)
<1>1. NormSync(raw.sync) \in Phases BY DEF NormSync, Phases
<1>2. NormHealth(raw.health) \in Healths BY DEF NormHealth, Healths
<1>3. Snapshot(raw).sync = NormSync(raw.sync) BY DEF Snapshot
<1>4. "absent" \notin Phases /\ None \notin Phases BY DEF Phases, None
<1>5. Snapshot(raw) # Absent
  <2>1. Absent.sync = "absent" BY DEF Absent
  <2> QED BY <1>1, <1>3, <1>4, <2>1
<1> QED BY <1>1, <1>2, <1>3, <1>4, <1>5 DEF Snapshot

\* Every snapshot has a drift.
LEMMA ClassifyType ==
    ASSUME NEW s \in [sync : Phases, health : Healths]
    PROVE  ClassifyDrift(s) \in Drifts
<1>1. Severity(s) \in {"none", "info", "warning", "critical"} BY DEF Severity
<1> QED BY <1>1 DEF ClassifyDrift, Drifts

\* Which transitions have which name.
LEMMA KindMeaning ==
    ASSUME NEW from \in Phases \cup {None}, NEW to \in Phases
    PROVE  /\ TransitionKind(from, to) \in Kinds
           /\ TransitionKind(from, to) = "became_synced" <=> from = "OutOfSync" /\ to = "Synced"
           /\ TransitionKind(from, to) = "became_out_of_sync"
                <=> from = "Synced" /\ to = "OutOfSync"
           /\ TransitionKind(from, to) # None <=> from \notin {None, to}
BY DEF TransitionKind, Kinds, Phases, None

\* One line of the log.
LEMMA ReportType ==
    ASSUME NEW a \in Apps, NEW from \in Phases \cup {None}, NEW raw
    PROVE  Report(a, from, Snapshot(raw)) \in Reports
<1> DEFINE s == Snapshot(raw)
<1>1. s \in [sync : Phases, health : Healths] BY SnapshotType
<1>2. ClassifyDrift(s) \in Drifts BY <1>1, ClassifyType
<1>3. s.sync \in Phases BY <1>1
<1>4. TransitionKind(from, s.sync) \in Kinds BY <1>3, KindMeaning
<1> HIDE DEF s
<1>5. Report(a, from, s) \in Reports BY <1>2, <1>3, <1>4 DEF Report, Reports
<1> QED BY <1>5 DEF s
-----------------------------------------------------------------------------
(* Types                                                                   *)

Stages == {"idle", "crd", "namespace", "deployments", "answered"}
Checking == [stage : Stages, result : Statuses]
Windows == [servers : SUBSET Servers, complete : BOOLEAN, failed : BOOLEAN]
Running == [state : {"unused"} \cup Active \cup Over, at : Nat, apps : AppStates]

\* The records that the actions build.
LEMMA Builders ==
    ASSUME TypeOK
    PROVE  /\ Window \in Windows /\ NoWindow \in Windows
           /\ Idle \in Checking /\ NotDetected \in Statuses
           /\ FirstStage \in Stages
           /\ NoAnswer \in AppStates /\ NoBatch \in Batches
           /\ \A s \in {"unused"} \cup Active \cup Over : RunIn(s) \in Running
           /\ past[Now] \in AppStates
<1>1. NotDetected \in Statuses BY DEF Statuses
<1>2. Installed(cluster) \in BOOLEAN BY DEF TypeOK, Installed
<1>3. Window \in Windows BY <1>2 DEF Window, Windows, TypeOK
<1>4. NoWindow \in Windows BY DEF NoWindow, Windows
<1>5. Idle \in Checking BY <1>1 DEF Idle, Checking, Stages
<1>6. FirstStage \in Stages BY DEF FirstStage, Stages
<1>7. NoAnswer \in AppStates BY DEF NoAnswer, AppStates
<1>8. NoBatch \in Batches BY <1>7, ArgoCdAssumption DEF NoBatch, Batches
<1>9. \A s \in {"unused"} \cup Active \cup Over : RunIn(s) \in Running
  BY <1>7 DEF RunIn, Running
<1>10. past[Now] \in AppStates BY DEF TypeOK, Now
<1> QED BY <1>1, <1>3, <1>4, <1>5, <1>6, <1>7, <1>8, <1>9, <1>10

LEMMA TypeInit == Init => TypeOK
<1> SUFFICES ASSUME Init PROVE TypeOK OBVIOUS
<1>1. NotDetected \in Statuses BY DEF Statuses
<1>2. cluster \in [crd : BOOLEAN, namespace : BOOLEAN, servers : SUBSET Servers]
  BY ArgoCdAssumption DEF Init
<1>3. Installed(cluster) \in BOOLEAN BY <1>2 DEF Installed
<1>4. Window \in Windows /\ NoWindow \in Windows BY <1>2, <1>3 DEF Window, NoWindow, Windows
<1>5. FirstStage \in Stages BY DEF FirstStage, Stages
<1>6. check \in [Checks -> Checking] /\ window \in [Checks -> Windows]
  BY <1>1, <1>4, <1>5 DEF Init, Idle, Checking, Stages
<1>7. NoAnswer \in AppStates BY DEF NoAnswer, AppStates
<1>8. NoBatch \in Batches BY <1>7, ArgoCdAssumption DEF NoBatch, Batches
<1>9. run \in [Runs -> Running] BY <1>7 DEF Init, Unused, RunIn, Running
<1>10. past \in Seq(AppStates) /\ Now = 1
  <2>1. past \in [1..1 -> [Apps -> FirstStatuses]] BY DEF Init
  <2>2. [Apps -> FirstStatuses] \subseteq AppStates BY ArgoCdAssumption DEF AppStates
  <2>3. past \in [1..1 -> AppStates] BY <2>1, <2>2
  <2>4. past \in Seq(AppStates) BY <2>3
  <2> QED BY <2>3, <2>4 DEF Now
<1>11. previous \in [Apps -> Snapshots] BY DEF Init, NoAnswer, Snapshots
<1> QED
  BY <1>1, <1>2, <1>6, <1>8, <1>9, <1>10, <1>11, ArgoCdAssumption
  DEF Init, TypeOK, Checking, Stages, Windows, Running

\* One step of a check, of a collection or of the cluster.
LEMMA TypeDetection ==
    ASSUME TypeOK, NEW c \in Checks, DetectionStep(c)
    PROVE  TypeOK'
<1> USE Builders
<1>0. check \in [Checks -> Checking] /\ window \in [Checks -> Windows] /\ check[c] \in Checking
  BY DEF TypeOK, Checking, Stages, Windows
<1>a. \A stage \in Stages : At(c, stage) \in [Checks -> Checking]
  BY <1>0 DEF At, Checking
<1>1. CASE PerformPeriodicCheck(c)
  <2>1. check' \in [Checks -> Checking] /\ window' \in [Checks -> Windows]
    BY <1>1, <1>0 DEF PerformPeriodicCheck, DetectArgoCD, Checking
  <2> QED BY <1>1, <2>1 DEF PerformPeriodicCheck, collection, TypeOK, Checking, Stages, Windows, Now
<1>2. CASE CrdAnswered(c) \/ NamespaceAnswered(c) \/ DeploymentsAnswered(c)
  <2>1. check' \in [Checks -> Checking]
    <3>1. CASE CrdAnswered(c) BY <3>1, <1>a DEF CrdAnswered, Stages
    <3>2. CASE NamespaceAnswered(c) BY <3>2, <1>a DEF NamespaceAnswered, Stages
    <3>3. CASE DeploymentsAnswered(c)
      <4>1. PICK result \in Statuses :
              check' = [check EXCEPT ![c] = [stage |-> "answered", result |-> result]]
        <5>1. cluster.servers \subseteq Servers BY DEF TypeOK
        <5>2. (IF cluster.servers = {} \/ ~cluster.namespace THEN {NotDetected}
               ELSE {Detected(d) : d \in cluster.servers}) \subseteq Statuses
          BY <5>1, DetectedType
        <5> QED BY <3>3, <5>2 DEF DeploymentsAnswered
      <4> QED BY <4>1, <1>0 DEF Checking, Stages
    <3> QED BY <1>2, <3>1, <3>2, <3>3
  <2>2. UNCHANGED <<config, phase, cluster, installs, window, tracker, current, last, collection>>
    BY <1>2 DEF CrdAnswered, NamespaceAnswered, DeploymentsAnswered
  <2> QED BY <2>1, <2>2 DEF collection, TypeOK, Checking, Stages, Windows, Now
<1>3. CASE DetectionRequestFails(c)
  <2>1. check' \in [Checks -> Checking] BY <1>3, <1>a DEF DetectionRequestFails, Stages
  <2>2. window' \in [Checks -> Windows] BY <1>3, <1>0 DEF DetectionRequestFails, Windows
  <2> QED
    BY <1>3, <2>1, <2>2 DEF DetectionRequestFails, collection, TypeOK, Checking, Stages, Windows, Now
<1>4. ASSUME NEW status \in Statuses, NEW failed \in BOOLEAN, CheckEnds(c, status, failed)
      PROVE  TypeOK'
  <2>1. check' \in [Checks -> Checking] /\ window' \in [Checks -> Windows]
    BY <1>4, <1>0 DEF CheckEnds
  <2>2. tracker' \in Statuses /\ current' \in Statuses BY <1>4 DEF CheckEnds, TypeOK
  <2>3. phase' \in {"boot", "running", "stopped"} BY <1>4 DEF CheckEnds, TypeOK
  <2>4. last' \in [result : Statuses, servers : SUBSET Servers, excused : BOOLEAN]
    <3>1. window[c] \in Windows BY <1>0
    <3>2. window[c].servers \in SUBSET Servers BY <3>1 DEF Windows
    <3>3. (~status.detected /\ (failed \/ window[c].failed \/ ~window[c].complete)) \in BOOLEAN
      OBVIOUS
    <3>4. (IF status.detected THEN window[c].servers ELSE {}) \in SUBSET Servers BY <3>2
    <3> QED BY <1>4, <3>3, <3>4 DEF CheckEnds
  <2> QED
    BY <1>4, <2>1, <2>2, <2>3, <2>4
    DEF CheckEnds, collection, TypeOK, Checking, Stages, Windows, Now
<1>5. CASE ResultArrives(c) BY <1>5, <1>4, <1>0 DEF ResultArrives, Checking
<1>6. CASE DetectionTimesOut(c) BY <1>6, <1>4 DEF DetectionTimesOut
<1> QED BY <1>1, <1>2, <1>3, <1>5, <1>6 DEF DetectionStep

LEMMA TypeCollection ==
    ASSUME TypeOK, NEW r \in Runs, CollectionStep(r)
    PROVE  TypeOK'
<1> USE Builders
<1>0. run \in [Runs -> Running] /\ run[r] \in Running BY DEF TypeOK, Running
<1>1. CASE ArgoCdAnswers(r)
  <2>1. run' \in [Runs -> Running] BY <1>1, <1>0 DEF ArgoCdAnswers, Running, Active, TypeOK
  <2> QED BY <1>1, <2>1 DEF ArgoCdAnswers, detection, TypeOK, Running, Now
<1>2. CASE FetchFails(r)
  <2>1. run' \in [Runs -> Running] BY <1>2, <1>0 DEF FetchFails, Over
  <2> QED BY <1>2, <2>1 DEF FetchFails, detection, TypeOK, Running, Now
<1>5. CASE BodyStalls(r)
  <2>1. run' \in [Runs -> Running] BY <1>5, <1>0 DEF BodyStalls, Active
  <2> QED BY <1>5, <2>1 DEF BodyStalls, detection, TypeOK, Running, Now
<1>3. CASE StoreBatch(r)
  <2>1. run' \in [Runs -> Running] BY <1>3, <1>0 DEF StoreBatch, Active
  <2>2. lastBatch' \in Batches
    BY <1>3, <1>0, ArgoCdAssumption DEF StoreBatch, Batches, Running, Runs
  <2> QED BY <1>3, <2>1, <2>2 DEF StoreBatch, detection, TypeOK, Running, Now
<1>4. CASE DriftCycle(r)
  <2>1. run' \in [Runs -> Running] BY <1>4, <1>0 DEF DriftCycle, Over
  <2>2. previous' \in [Apps -> Snapshots]
    BY <1>4, SnapshotType DEF DriftCycle, NewPrevious, Snapshots, TypeOK
  <2>3. reported' \subseteq Reports
    <3>1. \A a \in Apps : FromOf(a) \in Phases \cup {None}
      BY DEF FromOf, TypeOK, Snapshots
    <3> QED BY <1>4, <3>1, ReportType DEF DriftCycle, Present
  <2> QED BY <1>4, <2>1, <2>2, <2>3 DEF DriftCycle, detection, TypeOK, Running, Now
<1> QED BY <1>1, <1>2, <1>3, <1>4, <1>5 DEF CollectionStep

LEMMA TypeCluster ==
    ASSUME TypeOK, StartCollection \/ InstallationChanges \/ ApplicationChanges \/ Stop
    PROVE  TypeOK'
<1> USE Builders
<1>1. CASE StartCollection
  <2>1. started + 1 \in Runs /\ started' \in 0..MaxRuns
    BY <1>1, ArgoCdAssumption DEF StartCollection, TypeOK, Runs
  <2>2. run' \in [Runs -> Running]
    BY <1>1, <2>1 DEF StartCollection, TypeOK, Running, Active, Over
  <2>3. together' \subseteq SUBSET Runs BY <1>1, <2>1 DEF StartCollection, TypeOK
  <2> QED BY <1>1, <2>1, <2>2, <2>3 DEF StartCollection, detection, TypeOK, Running, Now
<1>2. CASE InstallationChanges
  <2>1. cluster' \in [crd : BOOLEAN, namespace : BOOLEAN, servers : SUBSET Servers]
    <3>1. cluster \in [crd : BOOLEAN, namespace : BOOLEAN, servers : SUBSET Servers]
      BY DEF TypeOK
    <3>2. CASE cluster' = [cluster EXCEPT !.crd = ~@] BY <3>1, <3>2
    <3>3. CASE cluster' = [cluster EXCEPT !.namespace = ~@, !.servers = {}] BY <3>1, <3>3
    <3>4. ASSUME NEW d \in Servers,
                 cluster' = [cluster EXCEPT !.servers = IF d \in @ THEN @ \ {d} ELSE @ \cup {d}]
          PROVE  cluster' \in [crd : BOOLEAN, namespace : BOOLEAN, servers : SUBSET Servers]
      BY <3>1, <3>4
    <3> QED BY <1>2, <3>2, <3>3, <3>4 DEF InstallationChanges
  <2>2. window' \in [Checks -> Windows]
    <3>1. Installed(cluster') \in BOOLEAN /\ Installed(cluster)' \in BOOLEAN
      BY <2>1 DEF Installed
    <3>2. ASSUME NEW c \in Checks
          PROVE  (IF check[c] = Idle THEN NoWindow
                  ELSE [window[c] EXCEPT !.servers = @ \cup cluster'.servers,
                                         !.complete = @ /\ Installed(cluster')]) \in Windows
      BY <2>1, <3>1, <3>2 DEF TypeOK, Windows
    <3> QED BY <1>2, <3>2 DEF InstallationChanges
  <2>3. installs' \in 0..MaxInstalls
    <3>1. installs' = installs + 1 /\ installs < MaxInstalls BY <1>2 DEF InstallationChanges
    <3> QED BY <3>1, ArgoCdAssumption DEF TypeOK
  <2> QED BY <1>2, <2>1, <2>2, <2>3 DEF InstallationChanges, collection, TypeOK, Windows, Now
<1>3. CASE ApplicationChanges
  <2>1. PICK a \in Apps, s \in RawStatuses \cup {Absent} :
          past' = Append(past, [past[Now] EXCEPT ![a] = s])
    BY <1>3 DEF ApplicationChanges
  <2>2. [past[Now] EXCEPT ![a] = s] \in AppStates BY DEF AppStates
  <2>3. past' \in Seq(AppStates) /\ Len(past') = Len(past) + 1 BY <2>1, <2>2 DEF TypeOK
  <2>4. Now' \in 1..(MaxChanges + 1)
    BY <1>3, <2>3, ArgoCdAssumption DEF ApplicationChanges, TypeOK, Now
  <2> QED BY <1>3, <2>3, <2>4 DEF ApplicationChanges, detection, TypeOK
<1>4. CASE Stop BY <1>4 DEF Stop, collection, TypeOK, Now
<1> QED BY <1>1, <1>2, <1>3, <1>4

LEMMA TypeStep == TypeOK /\ [Next]_vars => TypeOK'
<1> SUFFICES ASSUME TypeOK, [Next]_vars PROVE TypeOK' OBVIOUS
<1>1. CASE Next BY <1>1, TypeDetection, TypeCollection, TypeCluster DEF Next
<1>2. CASE UNCHANGED vars BY <1>2 DEF vars, detection, collection, TypeOK, Now
<1> QED BY <1>1, <1>2

\* The state has its types in every reachable state.
THEOREM TypeTheorem == Spec => []TypeOK
BY TypeInit, TypeStep, PTL DEF Spec
-----------------------------------------------------------------------------
(* Detection                                                               *)

\* What a check under way may say of what it could see so far.
CheckOK(c) ==
    check[c].stage # "idle" =>
      /\ cluster.servers \subseteq window[c].servers
      /\ window[c].complete => Installed(cluster)
      /\ check[c].result # NotDetected =>
           /\ ~Disabled
           /\ \E d \in window[c].servers : d \in Servers /\ check[c].result = Detected(d)
      /\ check[c].stage = "answered" /\ check[c].result = NotDetected =>
           Disabled \/ window[c].failed \/ ~window[c].complete
      /\ check[c].stage # "answered" => ~Disabled
      /\ check[c].stage = "crd" => config.enabled # "true"

DetectionInv ==
    /\ TypeOK /\ DetectionIsSound
    /\ \A c \in Checks : CheckOK(c)
    /\ phase # "boot" => current = tracker

\* A status is that of a server, or NotDetected.
LEMMA StatusMeaning ==
    /\ NotDetected.detected = FALSE
    /\ \A d : Detected(d).detected = TRUE /\ Detected(d).version = ExtractVersion(d)
    /\ \A d : Detected(d) # NotDetected
    /\ \A s, t \in Statuses : s.detected = t.detected /\ s.version = t.version => s = t
<1>1. NotDetected.detected = FALSE /\ NotDetected.version = None BY DEF NotDetected
<1>2. \A d : Detected(d).detected = TRUE /\ Detected(d).version = ExtractVersion(d)
  BY DEF Detected
<1>3. \A d : Detected(d) # NotDetected BY <1>1, <1>2
<1>4. ASSUME NEW s \in Statuses, NEW t \in Statuses, s.detected = t.detected, s.version = t.version
      PROVE  s = t
  <2>1. CASE s = NotDetected /\ t = NotDetected BY <2>1
  <2>2. CASE s = NotDetected /\ t # NotDetected
    <3>1. PICK e \in Servers : t = Detected(e) BY <2>2 DEF Statuses
    <3> QED BY <3>1, <2>2, <1>1, <1>2, <1>4
  <2>3. CASE s # NotDetected /\ t = NotDetected
    <3>1. PICK d \in Servers : s = Detected(d) BY <2>3 DEF Statuses
    <3> QED BY <3>1, <2>3, <1>1, <1>2, <1>4
  <2>4. CASE s # NotDetected /\ t # NotDetected
    <3>1. PICK d \in Servers : s = Detected(d) BY <2>4 DEF Statuses
    <3>2. PICK e \in Servers : t = Detected(e) BY <2>4 DEF Statuses
    <3>3. ExtractVersion(d) = ExtractVersion(e) BY <3>1, <3>2, <1>2, <1>4
    <3> QED BY <3>1, <3>2, <3>3 DEF Detected
  <2> QED BY <2>1, <2>2, <2>3, <2>4
<1> QED BY <1>1, <1>2, <1>3, <1>4

LEMMA DetectionInit == Init => DetectionInv
<1> SUFFICES ASSUME Init PROVE DetectionInv OBVIOUS
<1>1. TypeOK BY TypeInit
<1>2. DetectionIsSound BY StatusMeaning DEF Init, DetectionIsSound
<1>3. ASSUME NEW c \in Checks PROVE CheckOK(c)
  <2>1. PICK first \in Checks :
          /\ check = [b \in Checks |-> IF b = first
                                       THEN [stage |-> FirstStage, result |-> NotDetected] ELSE Idle]
          /\ window = [b \in Checks |-> IF b = first THEN Window ELSE NoWindow]
    BY DEF Init
  <2>2. CASE c = first
    <3>1. /\ check[c].stage = FirstStage /\ check[c].result = NotDetected
          /\ window[c] = Window
      BY <2>1, <2>2
    <3> QED BY <3>1 DEF CheckOK, FirstStage, Window
  <2>3. CASE c # first BY <2>1, <2>3 DEF CheckOK, Idle
  <2> QED BY <2>2, <2>3
<1> QED BY <1>1, <1>2, <1>3 DEF DetectionInv, Init

\* The end of a check, whose status has its reason in the window.
LEMMA CheckEndsSound ==
    ASSUME DetectionInv, NEW c \in Checks, NEW status \in Statuses, NEW failed \in BOOLEAN,
           CheckEnds(c, status, failed),
           status # NotDetected =>
             ~Disabled /\ \E d \in window[c].servers : d \in Servers /\ status = Detected(d),
           status = NotDetected =>
             Disabled \/ failed \/ window[c].failed \/ ~window[c].complete
    PROVE  DetectionIsSound' /\ (\A b \in Checks : CheckOK(b)')
           /\ (phase # "boot" => current = tracker)'
<1>0. /\ TypeOK /\ check \in [Checks -> Checking] /\ window \in [Checks -> Windows]
      /\ tracker \in Statuses /\ current \in Statuses
  BY DEF DetectionInv, TypeOK, Checking, Stages, Windows
<1>1. UNCHANGED <<config, cluster>> /\ (Disabled' <=> Disabled) BY DEF CheckEnds, Disabled
<1>2. phase' # "boot" => tracker' = status /\ current' = status
  <2>1. CASE phase = "boot" \/ HasStatusChanged(status) BY <2>1 DEF CheckEnds
  <2>2. CASE phase # "boot" /\ ~HasStatusChanged(status)
    <3>1. current = status BY <2>2, <1>0, StatusMeaning DEF HasStatusChanged
    <3>2. current = tracker BY <2>2 DEF DetectionInv
    <3> QED BY <3>1, <3>2, <2>2 DEF CheckEnds
  <2> QED BY <2>1, <2>2
<1>3. last'.result = status BY DEF CheckEnds
<1>4. CASE status = NotDetected
  <2>1. ~status.detected BY <1>4, StatusMeaning
  <2>2. Disabled' \/ last'.excused BY <1>4, <2>1, <1>1 DEF CheckEnds
  <2>3. DetectionIsSound' BY <1>2, <1>3, <2>1, <2>2 DEF DetectionIsSound
  <2>4. ASSUME NEW b \in Checks PROVE CheckOK(b)'
    <3>1. CASE b = c BY <3>1, <1>0 DEF CheckEnds, CheckOK, Idle
    <3>2. CASE b # c
      <4>1. check'[b] = check[b] /\ window'[b] = window[b] BY <3>2, <1>0 DEF CheckEnds
      <4>2. CheckOK(b) BY DEF DetectionInv
      <4> QED BY <4>1, <4>2, <1>1 DEF CheckOK, Installed
    <3> QED BY <3>1, <3>2
  <2> QED BY <1>2, <2>3, <2>4
<1>5. CASE status # NotDetected
  <2>1. PICK d \in window[c].servers : d \in Servers /\ status = Detected(d) BY <1>5
  <2>2. status.detected /\ status.version = ExtractVersion(d) BY <2>1, StatusMeaning
  <2>3. last'.servers = window[c].servers BY <2>2 DEF CheckEnds
  <2>4. DetectionIsSound' BY <1>2, <1>3, <1>5, <2>1, <2>2, <2>3, <1>1 DEF DetectionIsSound
  <2>5. ASSUME NEW b \in Checks PROVE CheckOK(b)'
    <3>1. CASE b = c BY <3>1, <1>0 DEF CheckEnds, CheckOK, Idle
    <3>2. CASE b # c
      <4>1. check'[b] = check[b] /\ window'[b] = window[b] BY <3>2, <1>0 DEF CheckEnds
      <4>2. CheckOK(b) BY DEF DetectionInv
      <4> QED BY <4>1, <4>2, <1>1 DEF CheckOK, Installed
    <3> QED BY <3>1, <3>2
  <2> QED BY <1>2, <2>4, <2>5
<1> QED BY <1>4, <1>5

LEMMA DetectionStepSound ==
    ASSUME DetectionInv, NEW c \in Checks, DetectionStep(c)
    PROVE  DetectionInv'
<1>0. /\ TypeOK /\ check \in [Checks -> Checking] /\ window \in [Checks -> Windows]
  BY DEF DetectionInv, TypeOK, Checking, Stages, Windows
<1>1. TypeOK' BY <1>0, TypeDetection
<1>2. CheckOK(c) BY DEF DetectionInv
<1>3. CASE PerformPeriodicCheck(c) \/ CrdAnswered(c) \/ NamespaceAnswered(c)
             \/ DeploymentsAnswered(c) \/ DetectionRequestFails(c)
  <2>1. UNCHANGED <<config, phase, cluster, tracker, current, last>>
    BY <1>3 DEF PerformPeriodicCheck, CrdAnswered, NamespaceAnswered, DeploymentsAnswered,
                DetectionRequestFails
  <2>2. DetectionIsSound' /\ (phase # "boot" => current = tracker)'
    BY <2>1 DEF DetectionInv, DetectionIsSound, Disabled
  <2>3. ASSUME NEW b \in Checks, b # c PROVE CheckOK(b)'
    <3>1. check'[b] = check[b] /\ window'[b] = window[b]
      BY <1>3, <2>3, <1>0 DEF PerformPeriodicCheck, DetectArgoCD, CrdAnswered, NamespaceAnswered,
                              DeploymentsAnswered, DetectionRequestFails, At
    <3>2. CheckOK(b) BY DEF DetectionInv
    <3> QED BY <3>1, <3>2, <2>1 DEF CheckOK, Installed, Disabled
  <2>4. CheckOK(c)'
    <3>1. CASE PerformPeriodicCheck(c)
      <4>1. /\ check'[c].stage = FirstStage /\ check'[c].result = NotDetected
            /\ window'[c] = Window
        BY <3>1, <1>0 DEF PerformPeriodicCheck, DetectArgoCD
      <4> QED BY <4>1, <2>1 DEF CheckOK, FirstStage, Window, Installed, Disabled
    <3>2. CASE CrdAnswered(c)
      <4>1. /\ window' = window /\ check'[c].result = check[c].result
            /\ check'[c].stage = IF cluster.crd THEN "namespace" ELSE "answered"
        BY <3>2, <1>0 DEF CrdAnswered, At, Checking
      <4>2. check[c].stage = "crd" BY <3>2 DEF CrdAnswered
      <4> QED BY <4>1, <4>2, <1>2, <2>1 DEF CheckOK, Installed, Disabled
    <3>3. CASE NamespaceAnswered(c)
      <4>1. /\ window' = window /\ check'[c].result = check[c].result
            /\ check'[c].stage = IF cluster.namespace THEN "deployments" ELSE "answered"
        BY <3>3, <1>0 DEF NamespaceAnswered, At, Checking
      <4>2. check[c].stage = "namespace" BY <3>3 DEF NamespaceAnswered
      <4> QED BY <4>1, <4>2, <1>2, <2>1 DEF CheckOK, Installed, Disabled
    <3>4. CASE DeploymentsAnswered(c)
      <4>1. check[c].stage = "deployments" /\ window' = window BY <3>4 DEF DeploymentsAnswered
      <4>2. check'[c].stage = "answered" BY <3>4, <1>0 DEF DeploymentsAnswered
      <4>3. CASE cluster.servers = {} \/ ~cluster.namespace
        <5>1. check'[c].result = NotDetected BY <3>4, <4>3, <1>0 DEF DeploymentsAnswered
        <5>2. ~Installed(cluster) BY <4>3 DEF Installed
        <5> QED BY <4>1, <4>2, <5>1, <5>2, <1>2, <2>1 DEF CheckOK, Disabled, Installed
      <4>4. CASE ~(cluster.servers = {} \/ ~cluster.namespace)
        <5>1. PICK d \in cluster.servers : check'[c].result = Detected(d)
          BY <3>4, <4>4, <1>0 DEF DeploymentsAnswered
        <5>2. d \in Servers BY <5>1, <1>0 DEF TypeOK
        <5> QED BY <4>1, <4>2, <5>1, <5>2, <1>2, <2>1, StatusMeaning DEF CheckOK, Disabled, Installed
      <4> QED BY <4>3, <4>4
    <3>5. CASE DetectionRequestFails(c)
      <4>1. /\ check'[c].stage = "answered" /\ check'[c].result = check[c].result
            /\ window'[c].failed /\ window'[c].servers = window[c].servers
            /\ window'[c].complete = window[c].complete
            /\ check[c].stage # "idle"
        BY <3>5, <1>0 DEF DetectionRequestFails, At, Checking, Windows
      <4> QED BY <4>1, <1>2, <2>1 DEF CheckOK, Installed, Disabled
    <3> QED BY <1>3, <3>1, <3>2, <3>3, <3>4, <3>5
  <2> QED BY <1>1, <2>2, <2>3, <2>4 DEF DetectionInv
<1>4. CASE ResultArrives(c)
  <2>1. check[c].stage = "answered" /\ CheckEnds(c, check[c].result, FALSE) BY <1>4 DEF ResultArrives
  <2>2. check[c].result \in Statuses BY <1>0 DEF Checking
  <2> QED BY <2>1, <2>2, <1>1, <1>2, CheckEndsSound DEF CheckOK, DetectionInv
<1>5. CASE DetectionTimesOut(c)
  <2>1. CheckEnds(c, NotDetected, TRUE) BY <1>5 DEF DetectionTimesOut
  <2>2. NotDetected \in Statuses BY DEF Statuses
  <2> QED BY <2>1, <2>2, <1>1, CheckEndsSound DEF DetectionInv
<1> QED BY <1>3, <1>4, <1>5 DEF DetectionStep

LEMMA DetectionKept ==
    ASSUME DetectionInv, InstallationChanges \/ Stop \/ UNCHANGED detection, TypeOK'
    PROVE  DetectionInv'
<1>0. /\ TypeOK /\ check \in [Checks -> Checking] /\ window \in [Checks -> Windows]
  BY DEF DetectionInv, TypeOK, Checking, Stages, Windows
<1>1. UNCHANGED <<config, tracker, current, last>> /\ (phase' = "boot" <=> phase = "boot")
  BY DEF InstallationChanges, Stop, detection
<1>2. DetectionIsSound' /\ (phase # "boot" => current = tracker)'
  BY <1>1 DEF DetectionInv, DetectionIsSound, Disabled
<1>3. ASSUME NEW c \in Checks PROVE CheckOK(c)'
  <2>1. CheckOK(c) BY DEF DetectionInv
  <2>2. CASE InstallationChanges
    <3>1. check' = check BY <2>2 DEF InstallationChanges
    <3>2. CASE check[c] = Idle BY <3>1, <3>2 DEF CheckOK, Idle
    <3>3. CASE check[c] # Idle
      <4>1. window'[c] = [window[c] EXCEPT !.servers = @ \cup cluster'.servers,
                                           !.complete = @ /\ Installed(cluster')]
        BY <2>2, <3>3 DEF InstallationChanges
      <4>2. window[c] \in Windows BY <1>0
      <4>3. window'[c].servers = window[c].servers \cup cluster'.servers
        BY <4>1, <4>2 DEF Windows
      <4>4. window'[c].failed = window[c].failed BY <4>1, <4>2 DEF Windows
      <4>5. window'[c].complete => window[c].complete /\ Installed(cluster')
        BY <4>1, <4>2 DEF Windows
      <4>6. Installed(cluster') <=> Installed(cluster)' BY <1>1 DEF Installed
      <4> QED BY <2>1, <3>1, <4>3, <4>4, <4>5, <4>6, <1>1 DEF CheckOK, Disabled
    <3> QED BY <3>2, <3>3
  <2>3. CASE Stop \/ UNCHANGED detection
    BY <2>1, <2>3 DEF CheckOK, Stop, detection, Installed, Disabled
  <2> QED BY <2>2, <2>3
<1> QED BY <1>2, <1>3 DEF DetectionInv

\* The published status has its reason in what the last check could see,
\* however many checks overlap.
THEOREM DetectionTheorem == Spec => []DetectionIsSound
<1>1. DetectionInv /\ [Next]_vars => DetectionInv'
  <2> SUFFICES ASSUME DetectionInv, [Next]_vars PROVE DetectionInv' OBVIOUS
  <2>1. TypeOK' BY TypeStep DEF DetectionInv
  <2>2. ASSUME NEW r \in Runs, CollectionStep(r) PROVE DetectionInv'
    BY <2>1, <2>2, DetectionKept
    DEF CollectionStep, ArgoCdAnswers, FetchFails, BodyStalls, StoreBatch, DriftCycle
  <2>3. CASE StartCollection \/ ApplicationChanges
    BY <2>1, <2>3, DetectionKept DEF StartCollection, ApplicationChanges
  <2>4. CASE InstallationChanges \/ Stop BY <2>1, <2>4, DetectionKept
  <2>5. CASE UNCHANGED vars BY <2>1, <2>5, DetectionKept DEF vars
  <2> QED BY <2>2, <2>3, <2>4, <2>5, DetectionStepSound DEF Next
<1>2. DetectionInv => DetectionIsSound BY DEF DetectionInv
<1> QED BY DetectionInit, <1>1, <1>2, PTL DEF Spec
-----------------------------------------------------------------------------
(* Collections and drift                                                   *)

\* A batch is what Argo CD had at its time, by a collection that has begun,
\* and is not still to be stored.
BatchOK(b) ==
    /\ b.by = 0 => b = NoBatch
    /\ b.by # 0 => /\ b.by \in 1..started
                   /\ run[b.by].state \notin {"unused", "fetching", "answered"}
                   /\ b.at \in 1..Now /\ b.apps = past[b.at]

\* A collection with an answer has it from after the batch, or overlaps with
\* the collection of the batch.
AnswersOK(b) ==
    \A r \in Runs : run[r].state = "answered" =>
        b.at <= run[r].at \/ Overlapped(b.by, r)

\* Batch c is not from before batch b, unless the two overlap.
Follows(b, c) == b.at <= c.at \/ Overlapped(b.by, c.by)

RunsOK ==
    /\ \A r \in Runs : r > started => run[r].state = "unused"
    /\ \A p, q \in Runs : p # q /\ run[p].state \in Active /\ run[q].state \in Active
                             => Overlapped(p, q)
    /\ \A r \in Runs : run[r].state = "answered" =>
         run[r].at \in 1..Now /\ run[r].apps = past[run[r].at]

BatchesOK ==
    /\ BatchOK(lastBatch) /\ BatchOK(processed) /\ BatchOK(before)
    /\ AnswersOK(lastBatch) /\ AnswersOK(processed)
    /\ Follows(processed, lastBatch) /\ Follows(before, processed)

\* What was logged, in terms of the batches and of Argo CD's own history.
ReportsOK ==
    /\ {p.app : p \in reported} = Present(processed)
    /\ \A p \in reported :
         /\ p.to = NormSync(past[processed.at][p.app].sync)
         /\ IF p.app \in Present(before)
            THEN p.from = NormSync(past[before.at][p.app].sync) ELSE p.from = None
         /\ p.kind = TransitionKind(p.from, p.to)

CollectionInv == TypeOK /\ RunsOK /\ BatchesOK /\ ReportsOK /\ PreviousIsOneAnswer

LEMMA CollectionInit == Init => CollectionInv
<1> SUFFICES ASSUME Init PROVE CollectionInv OBVIOUS
<1>1. TypeOK BY TypeInit
<1>2. \A r \in Runs : run[r].state = "unused" BY DEF Init, Unused, RunIn
<1>3. RunsOK BY <1>2 DEF RunsOK, Active
<1>4. lastBatch = NoBatch /\ processed = NoBatch /\ before = NoBatch BY DEF Init
<1>5. NoBatch.by = 0 /\ NoBatch.at = 0 /\ NoBatch.apps = NoAnswer BY DEF NoBatch
<1>6. BatchesOK BY <1>2, <1>4, <1>5 DEF BatchesOK, BatchOK, AnswersOK, Follows
<1>7. Present(NoBatch) = {} BY <1>5 DEF Present, NoAnswer
<1>8. ReportsOK BY <1>4, <1>7 DEF Init, ReportsOK
<1>9. previous = PreviousOf(NoBatch) BY <1>7 DEF Init, PreviousOf, NoAnswer
<1> QED BY <1>1, <1>3, <1>4, <1>5, <1>6, <1>8, <1>9 DEF CollectionInv, PreviousIsOneAnswer

\* What stays when the batches stay and the runs only move on.
LEMMA BatchKept ==
    ASSUME TypeOK, NEW b \in Batches, BatchOK(b), started' \in Nat, started <= started',
           \A r \in Runs : run[r].state \notin {"unused", "fetching", "answered"} =>
                            run'[r].state \notin {"unused", "fetching", "answered"},
           past' = past \/ \E s : past' = Append(past, s)
    PROVE  BatchOK(b)'
<1>1. CASE b.by = 0 BY <1>1 DEF BatchOK, NoBatch, NoAnswer
<1>2. CASE b.by # 0
  <2>1. b.by \in 1..started' BY <1>2 DEF BatchOK, TypeOK
  <2>2. b.by \in Runs BY <1>2, ArgoCdAssumption DEF BatchOK, TypeOK, Runs
  <2>3. b.at \in 1..Now' /\ past'[b.at] = past[b.at]
    BY <1>2 DEF BatchOK, TypeOK, Now
  <2> QED BY <1>2, <2>1, <2>2, <2>3 DEF BatchOK
<1> QED BY <1>1, <1>2

LEMMA StartKeeps == CollectionInv /\ StartCollection => CollectionInv'
<1> SUFFICES ASSUME CollectionInv, StartCollection PROVE CollectionInv' OBVIOUS
<1>0. TypeOK /\ TypeOK' /\ run \in [Runs -> Running]
  BY TypeCluster DEF CollectionInv, TypeOK, Running
<1>1. /\ started' = started + 1 /\ started' \in Runs /\ started \in Nat
      /\ UNCHANGED <<past, lastBatch, previous, reported, processed, before>>
  BY <1>0, ArgoCdAssumption DEF StartCollection, TypeOK, Runs
<1> DEFINE n == started + 1
<1>2. n \in Runs /\ run[n].state = "unused" BY <1>1 DEF CollectionInv, RunsOK, TypeOK
<1>3. run'[n].state \in {"fetching", "failed", "success"}
  BY <1>0, <1>1 DEF StartCollection, RunIn
<1>4. \A r \in Runs : r # n => run'[r] = run[r] BY <1>0, <1>1 DEF StartCollection
<1>5. together' = together \cup {{q, n} : q \in {p \in Runs : run[p].state \in Active}}
  BY DEF StartCollection
<1>6. RunsOK'
  <2>1. \A r \in Runs : r > started' => run'[r].state = "unused"
    BY <1>1, <1>4 DEF CollectionInv, RunsOK, Runs
  <2>2. ASSUME NEW p \in Runs, NEW q \in Runs, p # q, run'[p].state \in Active,
               run'[q].state \in Active
        PROVE  {p, q} \in together'
    <3>1. CASE p = n /\ q # n
      <4>1. run[q].state \in Active BY <2>2, <3>1, <1>4
      <4>2. {q, n} \in together' BY <4>1, <1>5
      <4> QED BY <4>2, <3>1
    <3>2. CASE p # n /\ q = n
      <4>1. run[p].state \in Active BY <2>2, <3>2, <1>4
      <4> QED BY <4>1, <1>5, <3>2
    <3>3. CASE p # n /\ q # n
      <4>1. {p, q} \in together BY <2>2, <3>3, <1>4 DEF CollectionInv, RunsOK, Overlapped
      <4> QED BY <4>1, <1>5
    <3> QED BY <2>2, <3>1, <3>2, <3>3
  <2>3. \A r \in Runs : run'[r].state = "answered" =>
          run'[r].at \in 1..Now' /\ run'[r].apps = past'[run'[r].at]
    BY <1>1, <1>2, <1>3, <1>4 DEF CollectionInv, RunsOK, Now
  <2> QED BY <2>1, <2>2, <2>3 DEF RunsOK, Overlapped
<1>7. BatchesOK'
  <2>1. \A r \in Runs : run[r].state \notin {"unused", "fetching", "answered"} =>
                         run'[r].state \notin {"unused", "fetching", "answered"}
    BY <1>2, <1>4
  <2>2. lastBatch \in Batches /\ processed \in Batches /\ before \in Batches BY <1>0 DEF TypeOK
  <2>3. started' \in Nat /\ started <= started' BY <1>1
  <2>4. BatchOK(lastBatch)' /\ BatchOK(processed)' /\ BatchOK(before)'
    BY <2>1, <2>2, <2>3, <1>0, <1>1, BatchKept DEF CollectionInv, BatchesOK, BatchOK
  <2>5. \A x, y : Overlapped(x, y) => Overlapped(x, y)' BY <1>5 DEF Overlapped
  <2>6. \A r \in Runs : run'[r].state = "answered" => run[r].state = "answered" /\ run'[r] = run[r]
    BY <1>3, <1>4
  <2>7. AnswersOK(lastBatch)' /\ AnswersOK(processed)'
    BY <2>5, <2>6, <1>1 DEF CollectionInv, BatchesOK, AnswersOK
  <2>8. Follows(processed, lastBatch)' /\ Follows(before, processed)'
    BY <2>5, <1>1 DEF CollectionInv, BatchesOK, Follows
  <2> QED BY <2>4, <2>7, <2>8 DEF BatchesOK
<1>8. ReportsOK' /\ PreviousIsOneAnswer'
  BY <1>1 DEF CollectionInv, ReportsOK, PreviousIsOneAnswer, PreviousOf, Present
<1> QED BY <1>0, <1>6, <1>7, <1>8 DEF CollectionInv

LEMMA AnswerKeeps ==
    ASSUME CollectionInv, NEW r \in Runs, ArgoCdAnswers(r) \/ FetchFails(r) \/ BodyStalls(r)
    PROVE  CollectionInv'
<1>0. TypeOK /\ TypeOK' /\ run \in [Runs -> Running]
  BY TypeCollection DEF CollectionInv, TypeOK, Running, CollectionStep
<1>1. /\ UNCHANGED <<past, started, lastBatch, previous, reported, processed, before, together>>
      /\ run[r].state \in {"fetching", "answered"}
      /\ \A q \in Runs : q # r => run'[q] = run[q]
      /\ \/ run'[r].state \in {"failed", "hanging"}
         \/ run'[r].state = "answered" /\ run'[r].at = Now /\ run'[r].apps = past[Now]
  BY <1>0 DEF ArgoCdAnswers, FetchFails, BodyStalls, RunIn
<1>2. run[r].state \in Active BY <1>1 DEF Active
<1>3. \A q \in Runs : run'[q].state \in Active => run[q].state \in Active
  BY <1>1, <1>2
<1>4. Now \in Nat /\ Now >= 1 /\ Now' = Now BY <1>0, <1>1 DEF TypeOK, Now
<1>5. RunsOK'
  <2>1. \A q \in Runs : q > started => q # r BY <1>1 DEF CollectionInv, RunsOK
  <2>2. \A q \in Runs : q > started' => run'[q].state = "unused"
    BY <1>1, <2>1 DEF CollectionInv, RunsOK
  <2>3. \A p, q \in Runs : p # q /\ run'[p].state \in Active /\ run'[q].state \in Active
                             => {p, q} \in together'
    BY <1>1, <1>3 DEF CollectionInv, RunsOK, Overlapped
  <2>4. \A q \in Runs : run'[q].state = "answered" =>
          run'[q].at \in 1..Now' /\ run'[q].apps = past'[run'[q].at]
    BY <1>1, <1>4 DEF CollectionInv, RunsOK
  <2> QED BY <2>2, <2>3, <2>4 DEF RunsOK, Overlapped
<1>6. BatchesOK'
  <2>1. \A q \in Runs : run[q].state \notin {"unused", "fetching", "answered"} =>
                         run'[q].state \notin {"unused", "fetching", "answered"}
    BY <1>1
  <2>2. lastBatch \in Batches /\ processed \in Batches /\ before \in Batches BY <1>0 DEF TypeOK
  <2>3. started' \in Nat /\ started <= started' BY <1>0, <1>1 DEF TypeOK
  <2>4. BatchOK(lastBatch)' /\ BatchOK(processed)' /\ BatchOK(before)'
    BY <2>1, <2>2, <2>3, <1>0, <1>1, BatchKept DEF CollectionInv, BatchesOK, BatchOK
  <2>5. ASSUME NEW b \in Batches, BatchOK(b), AnswersOK(b) PROVE AnswersOK(b)'
    <3>1. b.at <= Now /\ b.at \in Nat BY <2>5, <1>4 DEF BatchOK, NoBatch, Batches
    <3>2. SUFFICES ASSUME NEW q \in Runs, run'[q].state = "answered"
                   PROVE  b.at <= run'[q].at \/ {b.by, q} \in together'
      BY DEF AnswersOK, Overlapped
    <3>3. CASE q = r BY <3>1, <3>2, <3>3, <2>5, <1>1
    <3>4. CASE q # r BY <3>2, <3>4, <2>5, <1>1 DEF AnswersOK, Overlapped
    <3> QED BY <3>3, <3>4
  <2>6. AnswersOK(lastBatch)' /\ AnswersOK(processed)'
    BY <2>2, <2>5, <1>1 DEF CollectionInv, BatchesOK
  <2>7. Follows(processed, lastBatch)' /\ Follows(before, processed)'
    BY <1>1 DEF CollectionInv, BatchesOK, Follows, Overlapped
  <2> QED BY <2>4, <2>6, <2>7 DEF BatchesOK
<1>7. ReportsOK' /\ PreviousIsOneAnswer'
  BY <1>1 DEF CollectionInv, ReportsOK, PreviousIsOneAnswer, PreviousOf, Present
<1> QED BY <1>0, <1>5, <1>6, <1>7 DEF CollectionInv

LEMMA StoreKeeps ==
    ASSUME CollectionInv, NEW r \in Runs, StoreBatch(r)
    PROVE  CollectionInv'
<1>0. TypeOK /\ TypeOK' /\ run \in [Runs -> Running]
  BY TypeCollection DEF CollectionInv, TypeOK, Running, CollectionStep
<1> DEFINE b == [by |-> r, at |-> run[r].at, apps |-> run[r].apps]
<1>1. /\ UNCHANGED <<past, started, previous, reported, processed, before, together>>
      /\ lastBatch' = b
      /\ run[r].state = "answered" /\ run'[r].state = "stored"
      /\ \A q \in Runs : q # r => run'[q] = run[q]
  BY <1>0 DEF StoreBatch, RunIn
<1>2. \A q \in Runs : run'[q].state \in Active => run[q].state \in Active
  BY <1>1 DEF Active
<1>3. Now' = Now BY <1>1 DEF Now
<1>4. RunsOK'
  <2>1. \A q \in Runs : q > started' => run'[q].state = "unused"
    BY <1>1 DEF CollectionInv, RunsOK
  <2>2. \A p, q \in Runs : p # q /\ run'[p].state \in Active /\ run'[q].state \in Active
                             => {p, q} \in together'
    BY <1>1, <1>2 DEF CollectionInv, RunsOK, Overlapped
  <2>3. \A q \in Runs : run'[q].state = "answered" =>
          run'[q].at \in 1..Now' /\ run'[q].apps = past'[run'[q].at]
    BY <1>1, <1>3 DEF CollectionInv, RunsOK
  <2> QED BY <2>1, <2>2, <2>3 DEF RunsOK, Overlapped
<1>5. BatchesOK'
  <2>1. \A q \in Runs : run[q].state \notin {"unused", "fetching", "answered"} =>
                         run'[q].state \notin {"unused", "fetching", "answered"}
    BY <1>1
  <2>2. lastBatch \in Batches /\ processed \in Batches /\ before \in Batches BY <1>0 DEF TypeOK
  <2>3. started' \in Nat /\ started <= started' BY <1>0, <1>1 DEF TypeOK
  <2>4. BatchOK(processed)' /\ BatchOK(before)'
    BY <2>1, <2>2, <2>3, <1>0, <1>1, BatchKept DEF CollectionInv, BatchesOK, BatchOK
  <2>5. r \in 1..started
    BY <1>0, <1>1 DEF CollectionInv, RunsOK, Runs, TypeOK
  <2>6. run[r].at \in 1..Now /\ run[r].apps = past[run[r].at]
    BY <1>1 DEF CollectionInv, RunsOK
  <2>7. b.by = r /\ b.at = run[r].at /\ b.apps = run[r].apps OBVIOUS
  <2> HIDE DEF b
  <2>8. BatchOK(lastBatch)'
    BY <1>1, <1>3, <2>5, <2>6, <2>7, ArgoCdAssumption DEF BatchOK, Runs
  <2>9. AnswersOK(lastBatch)'
    <3>1. SUFFICES ASSUME NEW q \in Runs, run'[q].state = "answered"
                   PROVE  {r, q} \in together'
      BY <1>1, <2>7 DEF AnswersOK, Overlapped
    <3>2. q # r /\ run[q].state = "answered" BY <1>1, <3>1
    <3> QED BY <1>1, <3>2 DEF CollectionInv, RunsOK, Active, Overlapped
  <2>10. AnswersOK(processed)' BY <1>1 DEF CollectionInv, BatchesOK, AnswersOK, Overlapped
  <2>11. processed.at <= run[r].at \/ Overlapped(processed.by, r)
    BY <1>1 DEF CollectionInv, BatchesOK, AnswersOK
  <2>12. Follows(processed, lastBatch)' BY <1>1, <2>7, <2>11 DEF Follows, Overlapped
  <2>13. Follows(before, processed)' BY <1>1 DEF CollectionInv, BatchesOK, Follows, Overlapped
  <2> QED BY <2>4, <2>8, <2>9, <2>10, <2>12, <2>13 DEF BatchesOK
<1>6. ReportsOK' /\ PreviousIsOneAnswer'
  BY <1>1 DEF CollectionInv, ReportsOK, PreviousIsOneAnswer, PreviousOf, Present
<1> QED BY <1>0, <1>4, <1>5, <1>6 DEF CollectionInv

LEMMA DriftKeeps ==
    ASSUME CollectionInv, NEW r \in Runs, DriftCycle(r)
    PROVE  CollectionInv'
<1>0. TypeOK /\ TypeOK' /\ run \in [Runs -> Running]
  BY TypeCollection DEF CollectionInv, TypeOK, Running, CollectionStep
<1>1. /\ UNCHANGED <<past, started, lastBatch, together>>
      /\ before' = processed /\ processed' = lastBatch /\ previous' = NewPrevious
      /\ reported' = {Report(a, FromOf(a), Snapshot(lastBatch.apps[a])) : a \in Present(lastBatch)}
      /\ run[r].state = "stored" /\ run'[r].state = "success"
      /\ \A q \in Runs : q # r => run'[q] = run[q]
  BY <1>0 DEF DriftCycle, RunIn
<1>2. \A q \in Runs : run'[q].state \in Active => run[q].state \in Active
  BY <1>1 DEF Active
<1>3. Now' = Now BY <1>1 DEF Now
<1>4. RunsOK'
  <2>1. \A q \in Runs : q > started' => run'[q].state = "unused"
    BY <1>1 DEF CollectionInv, RunsOK
  <2>2. \A p, q \in Runs : p # q /\ run'[p].state \in Active /\ run'[q].state \in Active
                             => {p, q} \in together'
    BY <1>1, <1>2 DEF CollectionInv, RunsOK, Overlapped
  <2>3. \A q \in Runs : run'[q].state = "answered" =>
          run'[q].at \in 1..Now' /\ run'[q].apps = past'[run'[q].at]
    BY <1>1, <1>3 DEF CollectionInv, RunsOK
  <2> QED BY <2>1, <2>2, <2>3 DEF RunsOK, Overlapped
<1>5. BatchesOK'
  <2>1. \A q \in Runs : run[q].state \notin {"unused", "fetching", "answered"} =>
                         run'[q].state \notin {"unused", "fetching", "answered"}
    BY <1>1
  <2>2. lastBatch \in Batches /\ processed \in Batches BY <1>0 DEF TypeOK
  <2>3. started' \in Nat /\ started <= started' BY <1>0, <1>1 DEF TypeOK
  <2>4. BatchOK(lastBatch)' /\ BatchOK(processed)' /\ BatchOK(before)'
    BY <2>1, <2>2, <2>3, <1>0, <1>1, BatchKept DEF CollectionInv, BatchesOK, BatchOK
  <2>5. AnswersOK(lastBatch)' BY <1>1 DEF CollectionInv, BatchesOK, AnswersOK, Overlapped
  <2>6. AnswersOK(processed)' BY <2>5, <1>1 DEF AnswersOK
  <2>7. Follows(before, processed)' BY <1>1 DEF CollectionInv, BatchesOK, Follows, Overlapped
  <2>8. Follows(processed, lastBatch)'
    BY <1>0, <1>1 DEF Follows, TypeOK, Batches
  <2> QED BY <2>4, <2>5, <2>6, <2>7, <2>8 DEF BatchesOK
<1>6. previous = PreviousOf(processed) BY DEF CollectionInv, PreviousIsOneAnswer
<1>7. \A a \in Apps : a \in Present(processed) <=> previous[a] # Absent
  BY <1>6, SnapshotType DEF PreviousOf
<1>8. ReportsOK'
  <2>1. \A a \in Present(lastBatch) : lastBatch.by # 0
    BY DEF CollectionInv, BatchesOK, BatchOK, NoBatch, NoAnswer, Present
  <2>2. \A a \in Present(processed) : processed.by # 0
    BY DEF CollectionInv, BatchesOK, BatchOK, NoBatch, NoAnswer, Present
  <2>3. ASSUME NEW a \in Present(lastBatch)
        PROVE  /\ Snapshot(lastBatch.apps[a]).sync = NormSync(past[lastBatch.at][a].sync)
               /\ IF a \in Present(processed)
                  THEN FromOf(a) = NormSync(past[processed.at][a].sync) ELSE FromOf(a) = None
    <3>1. a \in Apps BY DEF Present
    <3>2. lastBatch.apps = past[lastBatch.at] BY <2>1 DEF CollectionInv, BatchesOK, BatchOK
    <3>3. CASE a \in Present(processed)
      <4>1. processed.apps = past[processed.at] BY <3>3, <2>2 DEF CollectionInv, BatchesOK, BatchOK
      <4>2. previous[a] = Snapshot(processed.apps[a]) BY <3>1, <3>3, <1>6 DEF PreviousOf
      <4>3. FromOf(a) = Snapshot(processed.apps[a]).sync BY <4>2, SnapshotType DEF FromOf
      <4> QED BY <3>2, <3>3, <4>1, <4>3, SnapshotType
    <3>4. CASE a \notin Present(processed)
      BY <3>1, <3>2, <3>4, <1>7, SnapshotType DEF FromOf
    <3> QED BY <3>3, <3>4
  <2>4. \A a, from, s : /\ Report(a, from, s).app = a /\ Report(a, from, s).from = from
                        /\ Report(a, from, s).to = s.sync
                        /\ Report(a, from, s).kind = TransitionKind(from, s.sync)
    BY DEF Report
  <2>5. Present(processed)' = Present(lastBatch) /\ Present(before)' = Present(processed)
    BY <1>1 DEF Present
  <2>6. {p.app : p \in reported'} = Present(lastBatch) BY <1>1, <2>4
  <2>7. ASSUME NEW p \in reported'
        PROVE  /\ p.to = NormSync(past'[lastBatch.at][p.app].sync)
               /\ IF p.app \in Present(processed)
                  THEN p.from = NormSync(past'[processed.at][p.app].sync) ELSE p.from = None
               /\ p.kind = TransitionKind(p.from, p.to)
    <3>1. PICK a \in Present(lastBatch) : p = Report(a, FromOf(a), Snapshot(lastBatch.apps[a]))
      BY <1>1
    <3> QED BY <3>1, <2>3, <2>4, <1>1
  <2> QED BY <2>5, <2>6, <2>7, <1>1 DEF ReportsOK
<1>9. PreviousIsOneAnswer'
  <2>1. NewPrevious = PreviousOf(lastBatch) BY DEF NewPrevious, PreviousOf, Pruned
  <2>2. lastBatch.by # 0 => lastBatch.apps = past[lastBatch.at]
    BY DEF CollectionInv, BatchesOK, BatchOK
  <2>3. PreviousOf(processed)' = PreviousOf(lastBatch) BY <1>1 DEF PreviousOf, Present
  <2> QED BY <1>1, <2>1, <2>2, <2>3 DEF PreviousIsOneAnswer
<1> QED BY <1>0, <1>4, <1>5, <1>8, <1>9 DEF CollectionInv

LEMMA ChangeKeeps == CollectionInv /\ ApplicationChanges => CollectionInv'
<1> SUFFICES ASSUME CollectionInv, ApplicationChanges PROVE CollectionInv' OBVIOUS
<1>0. TypeOK /\ TypeOK' BY TypeCluster DEF CollectionInv
<1>1. UNCHANGED <<started, run, lastBatch, previous, reported, processed, before, together>>
  BY DEF ApplicationChanges
<1>2. PICK s : past' = Append(past, s) BY DEF ApplicationChanges
<1>3. Now' = Now + 1 /\ Now \in Nat /\ \A i \in 1..Now : past'[i] = past[i]
  BY <1>0, <1>2 DEF TypeOK, Now
<1>4. RunsOK'
  <2>1. \A q \in Runs : run'[q].state = "answered" =>
          run'[q].at \in 1..Now' /\ run'[q].apps = past'[run'[q].at]
    BY <1>1, <1>3 DEF CollectionInv, RunsOK
  <2> QED BY <1>1, <2>1 DEF CollectionInv, RunsOK, Overlapped
<1>5. BatchesOK'
  <2>1. lastBatch \in Batches /\ processed \in Batches /\ before \in Batches BY <1>0 DEF TypeOK
  <2>2. started' \in Nat /\ started <= started' BY <1>0, <1>1 DEF TypeOK
  <2>3. BatchOK(lastBatch)' /\ BatchOK(processed)' /\ BatchOK(before)'
    BY <2>1, <2>2, <1>0, <1>1, <1>2, BatchKept DEF CollectionInv, BatchesOK, BatchOK
  <2> QED BY <1>1, <2>3 DEF CollectionInv, BatchesOK, AnswersOK, Follows, Overlapped
<1>6. \A b \in {processed, before} : b.by # 0 => past'[b.at] = past[b.at]
  BY <1>3 DEF CollectionInv, BatchesOK, BatchOK
<1>7. \A b \in {processed, before} : \A a \in Present(b) : b.by # 0
  BY DEF CollectionInv, BatchesOK, BatchOK, NoBatch, NoAnswer, Present
<1>8. ReportsOK'
  <2>1. Present(processed)' = Present(processed) /\ Present(before)' = Present(before)
    BY <1>1 DEF Present
  <2>2. {p.app : p \in reported} = Present(processed) BY DEF CollectionInv, ReportsOK
  <2>3. \A p \in reported : p.app \in Present(processed) BY <2>2
  <2>4. \A p \in reported : past'[processed.at] = past[processed.at] BY <2>3, <1>6, <1>7
  <2>5. \A p \in reported : p.app \in Present(before) => past'[before.at] = past[before.at]
    BY <1>6, <1>7
  <2> QED BY <1>1, <2>1, <2>2, <2>4, <2>5 DEF CollectionInv, ReportsOK
<1>9. PreviousIsOneAnswer'
  BY <1>1, <1>6 DEF CollectionInv, PreviousIsOneAnswer, PreviousOf, Present
<1> QED BY <1>0, <1>4, <1>5, <1>8, <1>9 DEF CollectionInv

LEMMA CollectionKept ==
    ASSUME CollectionInv, UNCHANGED collection, TypeOK'
    PROVE  CollectionInv'
BY DEF CollectionInv, collection, RunsOK, BatchesOK, BatchOK, AnswersOK, Follows, ReportsOK,
       PreviousIsOneAnswer, PreviousOf, Present, Overlapped, Now

LEMMA CollectionStepKeeps == CollectionInv /\ [Next]_vars => CollectionInv'
<1> SUFFICES ASSUME CollectionInv, [Next]_vars PROVE CollectionInv' OBVIOUS
<1>1. TypeOK' BY TypeStep DEF CollectionInv
<1>2. ASSUME NEW c \in Checks, DetectionStep(c) PROVE UNCHANGED collection
  BY <1>2 DEF DetectionStep, PerformPeriodicCheck, CrdAnswered, NamespaceAnswered,
              DeploymentsAnswered, DetectionRequestFails, ResultArrives, DetectionTimesOut, CheckEnds
<1>3. ASSUME NEW r \in Runs, CollectionStep(r) PROVE CollectionInv'
  BY <1>3, AnswerKeeps, StoreKeeps, DriftKeeps DEF CollectionStep
<1>4. CASE InstallationChanges \/ Stop \/ UNCHANGED vars
  BY <1>1, <1>4, CollectionKept DEF InstallationChanges, Stop, vars
<1> QED BY <1>1, <1>2, <1>3, <1>4, CollectionKept, StartKeeps, ChangeKeeps DEF Next

\* The drift cycle remembers one answer of Argo CD, whole, whatever the order
\* in which the answers of overlapping collections arrive.
THEOREM PreviousTheorem == Spec => []PreviousIsOneAnswer
<1>1. CollectionInv => PreviousIsOneAnswer BY DEF CollectionInv
<1> QED BY CollectionInit, CollectionStepKeeps, <1>1, PTL DEF Spec

\* The logged transitions are those of Argo CD's own history, and go back in
\* time only between collections that overlap.
THEOREM TransitionTheorem == Spec => []TransitionsAreReal
<1>1. CollectionInv => TransitionsAreReal
  <2> SUFFICES ASSUME CollectionInv PROVE TransitionsAreReal OBVIOUS
  <2>1. Follows(before, processed) BY DEF CollectionInv, BatchesOK
  <2>2. ASSUME NEW p \in reported
        PROVE  /\ p.kind = "became_synced" <=> p.from = "OutOfSync" /\ p.to = "Synced"
               /\ p.kind = "became_out_of_sync" <=> p.from = "Synced" /\ p.to = "OutOfSync"
               /\ p.kind # None <=> p.from \notin {None, p.to}
    <3>1. p.from \in Phases \cup {None} /\ p.to \in Phases
      BY DEF CollectionInv, TypeOK, Reports
    <3>2. p.kind = TransitionKind(p.from, p.to) BY DEF CollectionInv, ReportsOK
    <3> QED BY <3>1, <3>2, KindMeaning
  <2> QED BY <2>1, <2>2 DEF CollectionInv, ReportsOK, TransitionsAreReal, Follows
<1> QED BY CollectionInit, CollectionStepKeeps, <1>1, PTL DEF Spec
=============================================================================
