-------------------------------- MODULE ArgoCd --------------------------------
(***************************************************************************)
(* The Argo CD part of the operator: the detection, once at start-up and   *)
(* then by the ArgoCDDetectionManager, and the collection task that reads  *)
(* the Applications of a detected Argo CD and logs their drift.            *)
(*                                                                         *)
(* A check asks three things of the Kubernetes API server, one after the   *)
(* other, and races with a timeout.  A collection reads the tracker, asks  *)
(* the Argo CD API, stores the batch and then, at its next await, hands    *)
(* the last batch to the drift cycle, which compares it with the one it    *)
(* processed before.  Checks and collections overlap: no interval waits    *)
(* for the one that is under way, and an answer may be late.               *)
(***************************************************************************)
EXTENDS Integers, Sequences, FiniteSets

CONSTANTS Checks,        \* detection checks that may be under way together
          MaxRuns,       \* bound: collections
          Servers,       \* argocd-server deployments, labels and image tag
          Installations, \* what is there of Argo CD at start-up
          Apps,          \* Applications: namespace and name
          RawStatuses,   \* what the Argo CD API says of one
          FirstStatuses, \* what it says at start-up
          MaxChanges,    \* bound: changes of the Applications
          MaxInstalls    \* bound: changes of the installation

None == "none"
Absent == [sync |-> "absent", health |-> "absent"]
VersionLabels == 1..3    \* in the order of priority

ASSUME ArgoCdAssumption ==
    /\ MaxRuns \in Nat /\ MaxChanges \in Nat /\ MaxInstalls \in Nat
    /\ Servers \subseteq [labels : [VersionLabels -> STRING], image : STRING]
    /\ Installations \subseteq [crd : BOOLEAN, namespace : BOOLEAN, servers : SUBSET Servers]
    /\ RawStatuses \subseteq [sync : STRING, health : STRING] \ {Absent}
    /\ FirstStatuses \subseteq RawStatuses

VARIABLES
    config,     \* ARGOCD_AUTO_DETECT, ARGOCD_ENABLED and ARGOCD_API_TLS_INSECURE
    phase,      \* boot, running or stopped
    cluster,    \* the definition, the namespace and the server deployments
    installs,   \* how often it has changed
    check,      \* check[c]: the request under way, or its result
    window,     \* history: what check c could have seen
    tracker,    \* argocdStatusTracker.status
    current,    \* ArgoCDDetectionManager.currentStatus
    last,       \* history: the last check that ended, what it could see, and
                \* whether it had a reason to find nothing
    past,       \* the Applications over time, the last of it is now
    started,    \* the collections are 1..started
    run,        \* run[r]: state, answer and its time
    lastBatch,  \* the sink
    previous,   \* ApplicationDriftCycleState.previousByKey
    reported,   \* what the last drift cycle logged
    processed,  \* history: the batch of that drift cycle
    before,     \* history: the batch of the drift cycle before it
    together    \* history: pairs of collections that were under way together

detection == <<config, phase, cluster, installs, check, window, tracker, current, last>>
collection == <<past, started, run, lastBatch, previous, reported, processed, before, together>>
vars == <<detection, collection>>

-----------------------------------------------------------------------------
(* Detection.                                                              *)

Configs ==
    [autoDetect : BOOLEAN, enabled : {"true", "false", "unset"}, tlsInsecure : BOOLEAN]

\* Either switch turns the detection off, ENABLED=true does not turn it on.
Disabled == config.enabled = "false" \/ ~config.autoDetect

NotDetected == [detected |-> FALSE, version |-> None]

\* extractVersion: the first label that is there, else the image's tag.
ExtractVersion(d) ==
    LET labelled == {i \in VersionLabels : d.labels[i] # None}
    IN  IF labelled = {} THEN d.image
        ELSE d.labels[CHOOSE i \in labelled : \A j \in labelled : i <= j]

Detected(d) == [detected |-> TRUE, version |-> ExtractVersion(d)]
Statuses == {NotDetected} \cup {Detected(d) : d \in Servers}

\* The definition counts only when it is asked for.
Installed(c) ==
    /\ config.enabled = "true" \/ c.crd
    /\ c.namespace /\ c.servers # {}

Idle == [stage |-> "idle", result |-> NotDetected]
Window == [servers |-> cluster.servers, complete |-> Installed(cluster), failed |-> FALSE]
NoWindow == [servers |-> {}, complete |-> FALSE, failed |-> TRUE]

\* detectArgoCD up to its first await.
FirstStage ==
    IF Disabled THEN "answered" ELSE IF config.enabled = "true" THEN "namespace" ELSE "crd"

DetectArgoCD(c) ==
    /\ check' = [check EXCEPT ![c] = [stage |-> FirstStage, result |-> NotDetected]]
    /\ window' = [window EXCEPT ![c] = Window]

\* Mutant: what has been found is not checked again.
CheckUntilDetected(c) ==
    /\ phase = "running" /\ check[c] = Idle /\ ~tracker.detected
    /\ DetectArgoCD(c)
    /\ UNCHANGED <<config, phase, cluster, installs, tracker, current, last, collection>>

\* The interval of the manager is over.
PerformPeriodicCheck(c) ==
    /\ phase = "running" /\ check[c] = Idle
    /\ DetectArgoCD(c)
    /\ UNCHANGED <<config, phase, cluster, installs, tracker, current, last, collection>>

At(c, stage) == [check EXCEPT ![c].stage = stage]

\* checkForApplicationCRD.
CrdAnswered(c) ==
    /\ check[c].stage = "crd"
    /\ check' = At(c, IF cluster.crd THEN "namespace" ELSE "answered")
    /\ UNCHANGED <<config, phase, cluster, installs, window, tracker, current, last, collection>>

\* detectInNamespace: the namespace, then the deployments, of which the
\* first one counts.
NamespaceAnswered(c) ==
    /\ check[c].stage = "namespace"
    /\ check' = At(c, IF cluster.namespace THEN "deployments" ELSE "answered")
    /\ UNCHANGED <<config, phase, cluster, installs, window, tracker, current, last, collection>>

DeploymentsAnswered(c) ==
    /\ check[c].stage = "deployments"
    /\ \E result \in IF cluster.servers = {} \/ ~cluster.namespace THEN {NotDetected}
                     ELSE {Detected(d) : d \in cluster.servers} :
         check' = [check EXCEPT ![c] = [stage |-> "answered", result |-> result]]
    /\ UNCHANGED <<config, phase, cluster, installs, window, tracker, current, last, collection>>

\* A request fails: that is a result too, not detected.
DetectionRequestFails(c) ==
    /\ check[c].stage \in {"crd", "namespace", "deployments"}
    /\ check' = At(c, "answered")
    /\ window' = [window EXCEPT ![c].failed = TRUE]
    /\ UNCHANGED <<config, phase, cluster, installs, tracker, current, last, collection>>

\* Mutant: the version is not compared.
StatusChangedButVersion(new) == current.detected # new.detected

HasStatusChanged(new) == current.detected # new.detected \/ current.version # new.version

\* The check ends with this status.  The first one, at start-up, sets the
\* tracker and starts the manager; a later one only tells what has changed.
\* Stopping the manager does not keep a check that is under way from it.
CheckEnds(c, status, failed) ==
    /\ IF phase = "boot" \/ HasStatusChanged(status)
       THEN tracker' = status /\ current' = status
       ELSE UNCHANGED <<tracker, current>>
    /\ phase' = IF phase = "boot" THEN "running" ELSE phase
    /\ check' = [check EXCEPT ![c] = Idle]
    /\ last' = [result |-> status,
                servers |-> IF status.detected THEN window[c].servers ELSE {},
                excused |-> ~status.detected /\ (failed \/ window[c].failed \/ ~window[c].complete)]
    /\ window' = [window EXCEPT ![c] = NoWindow]
    /\ UNCHANGED <<config, cluster, installs, collection>>

ResultArrives(c) ==
    check[c].stage = "answered" /\ CheckEnds(c, check[c].result, FALSE)

\* detectArgoCDWithTimeout: the timeout wins the race.
DetectionTimesOut(c) ==
    check[c].stage # "idle" /\ CheckEnds(c, NotDetected, TRUE)

\* Argo CD is installed, upgraded or removed, step by step.
InstallationChanges ==
    /\ installs < MaxInstalls
    /\ \/ cluster' = [cluster EXCEPT !.crd = ~@]
       \/ cluster' = [cluster EXCEPT !.namespace = ~@, !.servers = {}]
       \/ /\ cluster.namespace
          /\ \E d \in Servers :
               cluster' = [cluster EXCEPT !.servers = IF d \in @ THEN @ \ {d} ELSE @ \cup {d}]
    /\ installs' = installs + 1
    /\ window' = [c \in Checks |->
                    IF check[c] = Idle THEN NoWindow
                    ELSE [window[c] EXCEPT !.servers = @ \cup cluster'.servers,
                                           !.complete = @ /\ Installed(cluster')]]
    /\ UNCHANGED <<config, phase, check, tracker, current, last, collection>>

-----------------------------------------------------------------------------
(* Collection of the Applications, and drift.                              *)

Runs == 1..MaxRuns
Active == {"fetching", "answered", "hanging", "stored"}
Over == {"success", "failed"}
Now == Len(past)
NoAnswer == [a \in Apps |-> Absent]
RunIn(state) == [state |-> state, at |-> 0, apps |-> NoAnswer]
Unused == RunIn("unused")
NoBatch == [by |-> 0, at |-> 0, apps |-> NoAnswer]

\* normSync and normHealth.  NormSyncNot is a mutant.
Phases == {"Synced", "OutOfSync", "Unknown"}
NormSyncNot(raw) == raw
NormSync(raw) == IF raw \in {"Synced", "OutOfSync"} THEN raw ELSE "Unknown"
Healths == {"Healthy", "Degraded", "Missing", "Progressing", "Suspended", "Unknown"}
NormHealth(raw) == IF raw \in Healths THEN raw ELSE "Unknown"

\* applicationSnapshotFromStatusRecord.
Snapshot(raw) == [sync |-> NormSync(raw.sync), health |-> NormHealth(raw.health)]

\* classifyApplicationDrift, without the wording of its reasons; an
\* Application of the API has a name and a namespace, and its record has no
\* count of resources.
Severity(s) ==
    IF s.sync = "OutOfSync" THEN IF s.health = "Missing" THEN "critical" ELSE "warning"
    ELSE IF s.sync # "Unknown" /\ s.health \in {"Degraded", "Missing"} THEN "warning"
    ELSE IF s.sync # "Unknown" /\ s.health = "Healthy" THEN "none" ELSE "info"

ClassifyDrift(s) == [detected |-> s.sync = "OutOfSync", severity |-> Severity(s)]

\* Mutant: whatever becomes Synced was out of sync.
KindByCurrent(from, to) ==
    IF from = None \/ from = to THEN None
    ELSE IF to = "Synced" THEN "became_synced"
    ELSE IF to = "OutOfSync" THEN "became_out_of_sync" ELSE "sync_status_changed"

\* detectSyncStatusTransition.
TransitionKind(from, to) ==
    CASE from = None \/ from = to                -> None
      [] from = "Synced" /\ to = "OutOfSync"     -> "became_out_of_sync"
      [] from = "OutOfSync" /\ to = "Synced"     -> "became_synced"
      [] OTHER                                   -> "sync_status_changed"

\* The task's callback: without Argo CD it is a success at once, and without
\* a token a failure.  What the tracker says later does not matter.
StartCollection ==
    /\ phase = "running" /\ started < MaxRuns
    /\ \E state \in IF tracker.detected THEN {"fetching", "failed"} ELSE {"success"} :
         run' = [run EXCEPT ![started + 1] = RunIn(state)]
    /\ started' = started + 1
    /\ together' = together \cup {{r, started + 1} : r \in {q \in Runs : run[q].state \in Active}}
    /\ UNCHANGED <<detection, past, lastBatch, previous, reported, processed, before>>

\* Argo CD lists the Applications as they are.
ArgoCdAnswers(r) ==
    /\ run[r].state = "fetching"
    /\ run' = [run EXCEPT ![r] = [state |-> "answered", at |-> Now, apps |-> past[Now]]]
    /\ UNCHANGED <<detection, past, started, lastBatch, previous, reported, processed, before,
                   together>>

\* Refused, not 2xx, not an ApplicationList, timed out, or no cluster id.
FetchFails(r) ==
    /\ run[r].state \in {"fetching", "answered"}
    /\ run' = [run EXCEPT ![r] = RunIn("failed")]
    /\ UNCHANGED <<detection, past, started, lastBatch, previous, reported, processed, before,
                   together>>

\* httpsGetInsecure has no limit on the whole request, only one on a silent
\* socket, and nobody listens to the end of a response that is cut off: a body
\* that breaks off with its connection, or that trickles on, never settles.
BodyStalls(r) ==
    /\ config.tlsInsecure /\ run[r].state = "answered"
    /\ run' = [run EXCEPT ![r] = RunIn("hanging")]
    /\ UNCHANGED <<detection, past, started, lastBatch, previous, reported, processed, before,
                   together>>

\* The answer arrives, and goes to the sink.
StoreBatch(r) ==
    /\ run[r].state = "answered"
    /\ run' = [run EXCEPT ![r] = RunIn("stored")]
    /\ lastBatch' = [by |-> r, at |-> run[r].at, apps |-> run[r].apps]
    /\ UNCHANGED <<detection, past, started, previous, reported, processed, before, together>>

Present(batch) == {a \in Apps : batch.apps[a] # Absent}

\* Mutant: an Application that is gone keeps its snapshot.
PrunedNone == {}

\* The keys that the batch has not.
Pruned == Apps \ Present(lastBatch)

\* previousByKey after the batch: set, pruned or left.
NewPrevious ==
    [a \in Apps |-> IF a \in Present(lastBatch) THEN Snapshot(lastBatch.apps[a])
                    ELSE IF a \in Pruned THEN Absent ELSE previous[a]]

FromOf(a) == IF previous[a] = Absent THEN None ELSE previous[a].sync
Report(a, from, s) ==
    [app |-> a, drift |-> ClassifyDrift(s), from |-> from, to |-> s.sync,
     kind |-> TransitionKind(from, s.sync)]

\* runApplicationDriftCycle and processBatch, of the batch that is the last
\* one by now.
DriftCycle(r) ==
    /\ run[r].state = "stored"
    /\ reported' = {Report(a, FromOf(a), Snapshot(lastBatch.apps[a])) : a \in Present(lastBatch)}
    /\ previous' = NewPrevious
    /\ before' = processed /\ processed' = lastBatch
    /\ run' = [run EXCEPT ![r] = RunIn("success")]
    /\ UNCHANGED <<detection, past, started, lastBatch, together>>

\* An Application appears, changes or goes.
ApplicationChanges ==
    /\ Now <= MaxChanges
    /\ \E a \in Apps, s \in RawStatuses \cup {Absent} :
         past' = Append(past, [past[Now] EXCEPT ![a] = s])
    /\ UNCHANGED <<detection, started, run, lastBatch, previous, reported, processed, before,
                   together>>

-----------------------------------------------------------------------------
\* The shutdown clears both intervals.
Stop ==
    /\ phase = "running" /\ phase' = "stopped"
    /\ UNCHANGED <<config, cluster, installs, check, window, tracker, current, last, collection>>

\* The operator starts with its first check under way.
Init ==
    /\ config \in Configs
    /\ phase = "boot"
    /\ cluster \in Installations
    /\ installs = 0
    /\ \E first \in Checks :
         /\ check = [c \in Checks |-> IF c = first
                                      THEN [stage |-> FirstStage, result |-> NotDetected] ELSE Idle]
         /\ window = [c \in Checks |-> IF c = first THEN Window ELSE NoWindow]
    /\ tracker = NotDetected /\ current = NotDetected
    /\ last = [result |-> NotDetected, servers |-> {}, excused |-> TRUE]
    /\ past \in [1..1 -> [Apps -> FirstStatuses]]
    /\ started = 0 /\ run = [r \in Runs |-> Unused]
    /\ lastBatch = NoBatch /\ previous = NoAnswer
    /\ reported = {} /\ processed = NoBatch /\ before = NoBatch /\ together = {}

DetectionStep(c) ==
    \/ PerformPeriodicCheck(c) \/ CrdAnswered(c) \/ NamespaceAnswered(c)
    \/ DeploymentsAnswered(c) \/ DetectionRequestFails(c) \/ ResultArrives(c)
    \/ DetectionTimesOut(c)
CollectionStep(r) ==
    ArgoCdAnswers(r) \/ FetchFails(r) \/ BodyStalls(r) \/ StoreBatch(r) \/ DriftCycle(r)

Next ==
    \/ \E c \in Checks : DetectionStep(c)
    \/ \E r \in Runs : CollectionStep(r)
    \/ StartCollection \/ InstallationChanges \/ ApplicationChanges \/ Stop

\* The interval and the timeout of a check fire and continuations run; nothing
\* has to answer.  A fetch is answered or given up by its timeout, or it stalls,
\* and what has stalled need not go on.
Fairness ==
    /\ \A c \in Checks : WF_vars(PerformPeriodicCheck(c)) /\ WF_vars(DetectionTimesOut(c))
    /\ \A r \in Runs :
         /\ WF_vars(StoreBatch(r) \/ FetchFails(r) \/ BodyStalls(r))
         /\ WF_vars(DriftCycle(r))

Spec == Init /\ [][Next]_vars /\ Fairness

-----------------------------------------------------------------------------
AppStates == [Apps -> RawStatuses \cup {Absent}]
Batches == [by : 0..MaxRuns, at : Nat, apps : AppStates]
Snapshots == [sync : Phases, health : Healths] \cup {Absent}
Drifts == [detected : BOOLEAN, severity : {"none", "info", "warning", "critical"}]
Kinds == {None, "became_out_of_sync", "became_synced", "sync_status_changed"}
Reports == [app : Apps, drift : Drifts, from : Phases \cup {None}, to : Phases, kind : Kinds]

TypeOK ==
    /\ config \in Configs
    /\ phase \in {"boot", "running", "stopped"}
    /\ cluster \in [crd : BOOLEAN, namespace : BOOLEAN, servers : SUBSET Servers]
    /\ installs \in 0..MaxInstalls
    /\ check \in [Checks -> [stage : {"idle", "crd", "namespace", "deployments", "answered"},
                             result : Statuses]]
    /\ window \in [Checks -> [servers : SUBSET Servers, complete : BOOLEAN, failed : BOOLEAN]]
    /\ tracker \in Statuses /\ current \in Statuses
    /\ last \in [result : Statuses, servers : SUBSET Servers, excused : BOOLEAN]
    /\ past \in Seq(AppStates) /\ Now \in 1..(MaxChanges + 1)
    /\ started \in 0..MaxRuns
    /\ run \in [Runs -> [state : {"unused"} \cup Active \cup Over, at : Nat, apps : AppStates]]
    /\ lastBatch \in Batches /\ processed \in Batches /\ before \in Batches
    /\ previous \in [Apps -> Snapshots]
    /\ reported \subseteq Reports
    /\ together \subseteq SUBSET Runs

\* The status that the operator publishes is the one of the last check,
\* although only changes are passed on, and checks may overlap: a version it
\* names is that of a server that ran at some time of the check, and when it
\* says that there is none, a request failed, the time was over, the detection
\* is off or the installation was not complete all the time.
DetectionIsSound ==
    /\ phase # "boot" => tracker = last.result
    /\ last.result.detected =>
         ~Disabled /\ \E d \in last.servers : last.result.version = ExtractVersion(d)
    /\ ~last.result.detected => Disabled \/ last.excused

PreviousOf(batch) ==
    [a \in Apps |-> IF a \in Present(batch) THEN Snapshot(batch.apps[a]) ELSE Absent]

\* What the drift cycle remembers of the Applications is one answer of
\* Argo CD, the one it processed last, whole and with nothing older in it.
PreviousIsOneAnswer ==
    /\ previous = PreviousOf(processed)
    /\ processed.by # 0 => processed.apps = past[processed.at]

Overlapped(p, q) == {p, q} \in together

\* A drift cycle reports of every Application in its batch what it has become
\* since the batch before it, both as Argo CD had them, and a transition when,
\* and only when, they differ.  It may go back in time only when the two
\* collections were under way together.
TransitionsAreReal ==
    /\ {p.app : p \in reported} = Present(processed)
    /\ \A p \in reported :
         /\ p.to = NormSync(past[processed.at][p.app].sync)
         /\ IF p.app \in Present(before)
            THEN p.from = NormSync(past[before.at][p.app].sync) ELSE p.from = None
         /\ p.kind = "became_synced" <=> p.from = "OutOfSync" /\ p.to = "Synced"
         /\ p.kind = "became_out_of_sync" <=> p.from = "Synced" /\ p.to = "OutOfSync"
         /\ p.kind # None <=> p.from \notin {None, p.to}
    /\ before.at <= processed.at \/ Overlapped(before.by, processed.by)

StatusIsCurrent ==
    IF Disabled \/ ~Installed(cluster) THEN tracker = NotDetected
    ELSE \E d \in cluster.servers : tracker = Detected(d)

CheckGivesUp == \E c \in Checks : DetectionRequestFails(c) \/ DetectionTimesOut(c)

\* Once the installation has settled, the published status comes to be the one
\* of the cluster and stays it, found, upgraded or removed, until the operator
\* stops; only requests that fail or time out again and again prevent it.
StatusCatchesUp ==
    \/ []<><<CheckGivesUp>>_vars
    \/ <>[](phase = "stopped" \/ StatusIsCurrent)

\* A collection ends although Argo CD need not answer, unless its body stalls,
\* which only a fetch without verification can.
CollectionsSettle ==
    \A r \in Runs : run[r].state \in Active ~>
        run[r].state \in Over \/ (config.tlsInsecure /\ run[r].state = "hanging")

\* Neither part of the Argo CD support is left behind for ever.
ArgoCdSettles == StatusCatchesUp /\ CollectionsSettle
=============================================================================
