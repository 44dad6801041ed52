---------------------------- MODULE TrivyScanCycle ----------------------------
(***************************************************************************)
(* Scans of workload images with Trivy.  runWorkloadImageScanCycle, called *)
(* by the collection scheduler, collects the images of the cluster and, as *)
(* long as Trivy is detected, scans them one after the other through the   *)
(* Trivy CLI: a scan that times out is tried again, and what it reports is *)
(* stored in two writes, the scan's row and its vulnerabilities.  A cycle  *)
(* ends by setting the vulnerability gauges from the database.             *)
(*                                                                         *)
(* Cycles are callbacks of one event loop and can overlap: a cycle may     *)
(* take longer than the scheduler's interval.  Each row of a scan has a    *)
(* fresh id, and a cycle scans an image once, so the cycle and the image   *)
(* stand for it.  The configured server is the only one, and detection     *)
(* says whether it answers.  The counters of a cycle are kept as the sets  *)
(* of the images they count, the gauges as the set of the rows counted.    *)
(***************************************************************************)
EXTENDS Integers, FiniteSets

CONSTANTS Cycles,       \* executions of the cycle
          Images,       \* image references of workloads
          Vulns,        \* vulnerabilities
          Reports,      \* what a scan can report: sets of vulnerabilities
          MaxScans,     \* maxScansPerCycle
          MaxAttempts   \* maxAttempts of one scan

ASSUME ScanAssumption ==
    /\ Reports \subseteq SUBSET Vulns
    /\ MaxScans \in Nat \ {0}
    /\ MaxAttempts \in Nat \ {0}

VARIABLES
    up,         \* the operator process is alive
    detected,   \* trivyStatusTracker: the server was found by the last check
    pc,         \* pc[c]: where the cycle is
    toScan,     \* toScan[c]: the images to scan, scansAttempted of them
    todo,       \* todo[c]: those whose turn has not come
    image,      \* image[c]: the image being scanned, {} or a singleton
    attempt,    \* attempt[c]: which attempt to scan it this is, or 0
    succeeded,  \* succeeded[c]: the images counted in scansSucceeded
    failed,     \* failed[c]: the images counted in scansFailed
    scans,      \* image_scans: <<cycle, image>>, all of them completed
    vulns,      \* image_vulnerabilities: <<cycle, image, vulnerability>>
    gauge,      \* the rows counted in vulnerabilityFindingsBySeverity
    reported,   \* history: reported[c][i], what the scan of i reported
    fresh       \* history: the last refresh of the gauges, in this process, worked

countVars == <<succeeded, failed>>
cycleVars == <<pc, toScan, todo, image, attempt, countVars, reported>>
dbVars == <<scans, vulns>>
gaugeVars == <<gauge, fresh>>
vars == <<up, detected, cycleVars, dbVars, gaugeVars>>

Steps == {"unused", "collecting", "next", "scanning", "backoff", "inserting",
          "replacing", "settled", "threw", "died"}
Sync == {"next", "inserting", "replacing"}
Active == Sync \cup {"collecting", "scanning", "backoff"}

\* No image, or one.
AtMostOne == {{}} \cup {{i} : i \in Images}

TypeOK ==
    /\ up \in BOOLEAN
    /\ detected \in BOOLEAN
    /\ pc \in [Cycles -> Steps]
    /\ toScan \in [Cycles -> SUBSET Images]
    /\ todo \in [Cycles -> SUBSET Images]
    /\ image \in [Cycles -> AtMostOne]
    /\ attempt \in [Cycles -> 0..MaxAttempts]
    /\ succeeded \in [Cycles -> SUBSET Images]
    /\ failed \in [Cycles -> SUBSET Images]
    /\ scans \subseteq Cycles \X Images
    /\ vulns \subseteq Cycles \X Images \X Vulns
    /\ gauge \subseteq Cycles \X Images \X Vulns
    /\ reported \in [Cycles -> [Images -> SUBSET Vulns]]
    /\ fresh \in BOOLEAN

Init ==
    /\ up = TRUE
    /\ detected \in BOOLEAN
    /\ pc = [c \in Cycles |-> "unused"]
    /\ toScan = [c \in Cycles |-> {}]
    /\ todo = [c \in Cycles |-> {}]
    /\ image = [c \in Cycles |-> {}]
    /\ attempt = [c \in Cycles |-> 0]
    /\ succeeded = [c \in Cycles |-> {}]
    /\ failed = [c \in Cycles |-> {}]
    /\ scans = {}
    /\ vulns = {}
    /\ gauge = {}
    /\ reported = [c \in Cycles |-> [i \in Images |-> {}]]
    /\ fresh = FALSE

\* The event loop is free: no cycle is between two awaits.
Free == up /\ \A c \in Cycles : pc[c] \notin Sync

Goto(c, step) == pc' = [pc EXCEPT ![c] = step]

\* The rows of vulnerabilities of the scan of image i by cycle c.
RowsOf(c, i) == {x \in vulns : x[1] = c /\ x[2] = i}

\* refreshVulnerabilityMetrics: every vulnerability of a completed scan is
\* counted; when the query throws, the gauges stay as they are.
CompletedRows == {x \in vulns : <<x[1], x[2]>> \in scans}
RefreshMetrics ==
    \/ gauge' = CompletedRows /\ fresh' = TRUE
    \/ fresh' = FALSE /\ UNCHANGED gauge

------------------------------------------------------------------------------
(* The cycle                                                               *)

\* The scheduler's timer calls the cycle, whatever other cycles do.
CycleStarts(c) ==
    /\ Free
    /\ pc[c] = "unused"
    /\ Goto(c, "collecting")
    /\ UNCHANGED <<up, detected, toScan, todo, image, attempt, countVars, reported, dbVars, gaugeVars>>

\* collectWorkloadImageReferences throws, and the cycle with it.
CollectThrows(c) ==
    /\ Free
    /\ pc[c] = "collecting"
    /\ Goto(c, "threw")
    /\ UNCHANGED <<up, detected, toScan, todo, image, attempt, countVars, reported, dbVars, gaugeVars>>

\* The images are collected but Trivy is not detected: nothing is scanned.
SkipScans(c) ==
    /\ Free
    /\ pc[c] = "collecting" /\ ~detected
    /\ RefreshMetrics
    /\ Goto(c, "settled")
    /\ UNCHANGED <<up, detected, toScan, todo, image, attempt, countVars, reported, dbVars>>

\* The images are collected; all or, if they are too many, MaxScans are scanned.
StartScans(c, images) ==
    /\ Free
    /\ pc[c] = "collecting" /\ detected
    /\ Cardinality(images) <= MaxScans
    /\ toScan' = [toScan EXCEPT ![c] = images]
    /\ todo' = [todo EXCEPT ![c] = images]
    /\ Goto(c, "next")
    /\ UNCHANGED <<up, detected, image, attempt, countVars, reported, dbVars, gaugeVars>>

\* scanContainerImageWhenDetected finds Trivy detected and starts the CLI.
BeginScan(c, i) ==
    /\ pc[c] = "next" /\ i \in todo[c] /\ detected
    /\ todo' = [todo EXCEPT ![c] = @ \ {i}]
    /\ image' = [image EXCEPT ![c] = {i}]
    /\ attempt' = [attempt EXCEPT ![c] = 1]
    /\ Goto(c, "scanning")
    /\ UNCHANGED <<up, detected, toScan, countVars, reported, dbVars, gaugeVars>>

\* It does not find it detected any more: TRIVY_NOT_DETECTED.
NotDetected(c, i) ==
    /\ pc[c] = "next" /\ i \in todo[c] /\ ~detected
    /\ todo' = [todo EXCEPT ![c] = @ \ {i}]
    /\ failed' = [failed EXCEPT ![c] = @ \cup {i}]
    /\ UNCHANGED <<up, detected, toScan, pc, image, attempt, succeeded, reported, dbVars, gaugeVars>>

\* The iteration of the loop for an image ends.
EndScan(c) ==
    /\ image' = [image EXCEPT ![c] = {}]
    /\ attempt' = [attempt EXCEPT ![c] = 0]
    /\ Goto(c, "next")

\* The loop's catch branch.
CountFailure(c) ==
    /\ failed' = [failed EXCEPT ![c] = @ \cup image[c]]
    /\ EndScan(c)

\* The CLI cannot be started, exits with an error, or prints no JSON.
CliFails(c) ==
    /\ Free
    /\ pc[c] = "scanning"
    /\ CountFailure(c)
    /\ UNCHANGED <<up, detected, toScan, todo, succeeded, reported, dbVars, gaugeVars>>

\* The CLI is killed after scanTimeoutMs and will be started again ...
TimeoutBacksOff(c) ==
    /\ Free
    /\ pc[c] = "scanning" /\ attempt[c] < MaxAttempts
    /\ Goto(c, "backoff")
    /\ UNCHANGED <<up, detected, toScan, todo, image, attempt, countVars, reported, dbVars, gaugeVars>>

\* ... or this was the last attempt.
LastTimeout(c) ==
    /\ Free
    /\ pc[c] = "scanning" /\ attempt[c] = MaxAttempts
    /\ CountFailure(c)
    /\ UNCHANGED <<up, detected, toScan, todo, succeeded, reported, dbVars, gaugeVars>>

\* Mutant: the attempts are not counted.
RetryForEver(c) ==
    /\ Free
    /\ pc[c] = "backoff"
    /\ Goto(c, "scanning")
    /\ UNCHANGED <<up, detected, toScan, todo, image, attempt, countVars, reported, dbVars, gaugeVars>>

\* The next attempt, with the server read before the first; it is not asked
\* again whether Trivy is still detected.
RetryScan(c) ==
    /\ Free
    /\ pc[c] = "backoff"
    /\ attempt' = [attempt EXCEPT ![c] = @ + 1]
    /\ Goto(c, "scanning")
    /\ UNCHANGED <<up, detected, toScan, todo, image, countVars, reported, dbVars, gaugeVars>>

\* The CLI reports, and the report parses; persisting it begins.
ReportArrives(c, report) ==
    /\ Free
    /\ pc[c] = "scanning"
    /\ \E i \in image[c] : reported' = [reported EXCEPT ![c][i] = report]
    /\ Goto(c, "inserting")
    /\ UNCHANGED <<up, detected, toScan, todo, image, attempt, countVars, dbVars, gaugeVars>>

\* upsertScan: a row that says completed, under a new id.
UpsertScan(c) ==
    /\ pc[c] = "inserting"
    /\ scans' = scans \cup ({c} \X image[c])
    /\ Goto(c, "replacing")
    /\ UNCHANGED <<up, detected, toScan, todo, image, attempt, countVars, reported, vulns, gaugeVars>>

\* replaceVulnerabilitiesForScan, one transaction; the image is done.
ReplaceVulnerabilities(c) ==
    /\ pc[c] = "replacing"
    /\ \E i \in image[c] : vulns' = (vulns \ RowsOf(c, i)) \cup ({c} \X {i} \X reported[c][i])
    /\ succeeded' = [succeeded EXCEPT ![c] = @ \cup image[c]]
    /\ EndScan(c)
    /\ UNCHANGED <<up, detected, toScan, todo, failed, reported, scans, gaugeVars>>

\* Mutant: the rows are inserted without a transaction.
PersistThrowsHalfway(c) ==
    /\ pc[c] \in {"inserting", "replacing"}
    /\ \E i \in image[c], v \in Vulns :
          vulns' = IF pc[c] = "replacing" /\ v \in reported[c][i]
                   THEN vulns \cup {<<c, i, v>>} ELSE vulns
    /\ CountFailure(c)
    /\ UNCHANGED <<up, detected, toScan, todo, succeeded, reported, scans, gaugeVars>>

\* Mutant: what persisting throws leaves the loop's counters alone.
PersistThrowsIgnored(c) ==
    /\ pc[c] \in {"inserting", "replacing"}
    /\ EndScan(c)
    /\ UNCHANGED <<up, detected, toScan, todo, countVars, reported, dbVars, gaugeVars>>

\* One of the two writes throws and has no effect; the first is not undone.
PersistThrows(c) ==
    /\ pc[c] \in {"inserting", "replacing"}
    /\ CountFailure(c)
    /\ UNCHANGED <<up, detected, toScan, todo, succeeded, reported, dbVars, gaugeVars>>

\* Mutant: the gauges are set to what this cycle has found.
FinishCycleOwn(c) ==
    /\ pc[c] = "next" /\ todo[c] = {}
    /\ gauge' = {x \in CompletedRows : x[1] = c} /\ fresh' = TRUE
    /\ Goto(c, "settled")
    /\ UNCHANGED <<up, detected, toScan, todo, image, attempt, countVars, reported, dbVars>>

\* All images are done.
FinishCycle(c) ==
    /\ pc[c] = "next" /\ todo[c] = {}
    /\ RefreshMetrics
    /\ Goto(c, "settled")
    /\ UNCHANGED <<up, detected, toScan, todo, image, attempt, countVars, reported, dbVars>>

\* What the event loop and the timers make of a cycle that has begun to scan.
Continue(c) ==
    \/ \E i \in Images : BeginScan(c, i) \/ NotDetected(c, i)
    \/ CliFails(c) \/ TimeoutBacksOff(c) \/ LastTimeout(c) \/ RetryScan(c)
    \/ \E report \in Reports : ReportArrives(c, report)
    \/ UpsertScan(c) \/ ReplaceVulnerabilities(c) \/ PersistThrows(c)
    \/ FinishCycle(c)

------------------------------------------------------------------------------
(* Detection and the environment                                           *)

\* TrivyDetectionManager.performPeriodicCheck: the server is found, or it is not
\* or the check takes too long.
PeriodicCheck(found) ==
    /\ Free
    /\ detected' = found
    /\ UNCHANGED <<up, cycleVars, dbVars, gaugeVars>>

\* The process dies with its cycles and its gauges.
Killed ==
    /\ up
    /\ up' = FALSE
    /\ pc' = [c \in Cycles |-> IF pc[c] \in Active THEN "died" ELSE pc[c]]
    /\ gauge' = {} /\ fresh' = FALSE
    /\ UNCHANGED <<detected, toScan, todo, image, attempt, countVars, reported, dbVars>>

\* The next process performs the initial detection before it starts a cycle.
Restarts ==
    /\ ~up
    /\ up' = TRUE
    /\ detected' \in BOOLEAN
    /\ UNCHANGED <<cycleVars, dbVars, gaugeVars>>

Next ==
    \/ \E c \in Cycles :
          \/ CycleStarts(c)
          \/ CollectThrows(c)
          \/ SkipScans(c)
          \/ \E images \in SUBSET Images : StartScans(c, images)
          \/ \E i \in Images : BeginScan(c, i) \/ NotDetected(c, i)
          \/ CliFails(c)
          \/ TimeoutBacksOff(c)
          \/ LastTimeout(c)
          \/ RetryScan(c)
          \/ \E report \in Reports : ReportArrives(c, report)
          \/ UpsertScan(c)
          \/ ReplaceVulnerabilities(c)
          \/ PersistThrows(c)
          \/ FinishCycle(c)
    \/ \E found \in BOOLEAN : PeriodicCheck(found)
    \/ Killed
    \/ Restarts

Spec == Init /\ [][Next]_vars

------------------------------------------------------------------------------
(* Fairness.  A CLI process ends or is killed after scanTimeoutMs, back-off *)
(* timers fire, and the event loop continues a cycle.  Nothing is assumed   *)
(* of the API calls that collect the images, which have no timeout.         *)

Fairness == \A c \in Cycles : WF_vars(Continue(c))

FairSpec == Spec /\ Fairness

------------------------------------------------------------------------------
(* Safety                                                                  *)

\* A scan's vulnerabilities are stored: exactly those it reported.
Whole(c, i) == <<c, i>> \in scans /\ RowsOf(c, i) = {c} \X {i} \X reported[c][i]

\* A scan that its cycle counts as succeeded is stored whole, and stays so.
SucceededScansAreWhole ==
    \A c \in Cycles : \A i \in succeeded[c] : Whole(c, i)

\* A row that says completed without the vulnerabilities that were reported, and
\* that makes its image look clean, was counted as failed, or its cycle was
\* killed at it or is just at it; it never has only some of them.
BareScansAreAccounted ==
    \A c \in Cycles, i \in Images : <<c, i>> \in scans /\ ~Whole(c, i) =>
        /\ RowsOf(c, i) = {}
        /\ i \in failed[c] \/ (image[c] = {i} /\ pc[c] \in {"replacing", "died"})

\* Nothing is passed off as scanned: kills, failing writes, restarts and other
\* cycles over the same images leave a scan whole or accounted for.
StoredScansAreAccounted == SucceededScansAreWhole /\ BareScansAreAccounted

\* The tally of a cycle adds up: each image it was to scan has been counted
\* once, as succeeded or as failed, or still has its turn, or has it now.
TallyAddsUp ==
    \A c \in Cycles :
        /\ toScan[c] = succeeded[c] \cup failed[c] \cup todo[c] \cup image[c]
        /\ succeeded[c] \cap failed[c] = {}
        /\ (succeeded[c] \cup failed[c]) \cap (todo[c] \cup image[c]) = {}
        /\ pc[c] = "settled" => todo[c] = {} /\ image[c] = {}

\* Whichever of overlapping cycles ends last, the gauges then show all that is
\* stored, failed scans and earlier processes included.
GaugesCatchUp ==
    fresh /\ (\A c \in Cycles : pc[c] \notin Active) => gauge = vulns

\* The gauges follow the database: behind it for a while, never apart from it.
\* The gauges of a process never lose a finding, as nothing is ever pruned; in
\* particular a cycle that ends does not hide what an overlapping one found.
GaugesFollowDatabase ==
    [][GaugesCatchUp' /\ (up' => gauge \subseteq gauge')]_vars

------------------------------------------------------------------------------
(* Liveness, under FairSpec                                                *)

\* A cycle that has begun to scan comes to its end, whatever the CLI does.
CyclesEnd ==
    \A c \in Cycles : pc[c] \in Active \ {"collecting"} ~> pc[c] \in {"settled", "died"}
==============================================================================
