---------------------------- MODULE StatusPublisher ----------------------------
(***************************************************************************)
(* StatusWriter, gracefulShutdown and the status ConfigMap.  Each call of  *)
(* updateStatus reads the ConfigMap and then replaces or creates it, one   *)
(* request after the other, without a resourceVersion and without waiting  *)
(* for an earlier call: the interval starts the next one whatever became   *)
(* of the last.  A write occupies a slot from its first request to the     *)
(* processing of its last reply; a request that was sent can take effect   *)
(* after the process that sent it has ended.                               *)
(*                                                                         *)
(* Of a published status only its kind matters here: a periodic update     *)
(* (which reports the operator healthy) or the final one (unhealthy,       *)
(* "Shutting down").                                                       *)
(***************************************************************************)
EXTENDS FiniteSets

CONSTANTS Slots     \* bound: the writes that can be in flight at a time

VARIABLES
    phase,           \* boot, running, flushing, draining, final, exited
    intervalOn,      \* StatusWriter.intervalId is set
    lastWriteError,  \* StatusWriter.lastWriteError is set
    kind,            \* kind[s]: update or final, of the write in slot s
    writing,         \* writing[s]: where the write in slot s is
    cm,              \* the ConfigMap: absent, or the kind of status it holds
    deadline,        \* 5 s have passed since gracefulShutdown started
    exitCode,        \* none, 0, 1 or killed
    finalOutcome,    \* what became of the final write: none, ok, error
    quiet            \* no other write was in flight when the final one started

publisherVars == <<phase, intervalOn, lastWriteError, kind, writing, cm, deadline, exitCode,
          finalOutcome, quiet>>

Kinds == {"update", "final"}
WriteSteps == {"idle", "read", "replace", "create", "ok", "error",
          "orphanReplace", "orphanCreate"}
Phases == {"boot", "running", "flushing", "draining", "final", "exited"}
ShuttingDown == {"flushing", "draining", "final"}

PublisherTypeOK ==
    /\ phase \in Phases
    /\ intervalOn \in BOOLEAN
    /\ lastWriteError \in BOOLEAN
    /\ kind \in [Slots -> Kinds]
    /\ writing \in [Slots -> WriteSteps]
    /\ cm \in Kinds \cup {"absent"}
    /\ deadline \in BOOLEAN
    /\ exitCode \in {"none", "0", "1", "killed"}
    /\ finalOutcome \in {"none", "ok", "error"}
    /\ quiet \in BOOLEAN

PublisherInit ==
    /\ phase = "boot"
    /\ intervalOn = FALSE
    /\ lastWriteError = FALSE
    /\ kind = [s \in Slots |-> "update"]
    /\ writing = [s \in Slots |-> "idle"]
    /\ cm = "absent"
    /\ deadline = FALSE
    /\ exitCode = "none"
    /\ finalOutcome = "none"
    /\ quiet = FALSE

Alive == phase # "exited"

\* A status is computed and the first request of its write is sent.
Begin(s, k) ==
    /\ writing[s] = "idle"
    /\ writing' = [writing EXCEPT ![s] = "read"]
    /\ kind' = [kind EXCEPT ![s] = k]

WritingAt(s, step) == writing' = [writing EXCEPT ![s] = step]

------------------------------------------------------------------------------
(* StatusWriter                                                            *)

\* start(): an update at once and the interval.
StartWriter(s) ==
    /\ phase = "boot"
    /\ phase' = "running"
    /\ intervalOn' = TRUE
    /\ Begin(s, "update")
    /\ UNCHANGED <<lastWriteError, cm, deadline, exitCode, finalOutcome, quiet>>

\* A tick of the interval: updateStatus up to its first request.
UpdateStatus(s) ==
    /\ Alive /\ intervalOn
    /\ Begin(s, "update")
    /\ UNCHANGED <<phase, intervalOn, lastWriteError, cm, deadline, exitCode,
                   finalOutcome, quiet>>

\* A tick whose updateStatus fails before any request, reading the database.
UpdateStatusThrows ==
    /\ Alive /\ intervalOn
    /\ lastWriteError' = TRUE
    /\ UNCHANGED <<phase, intervalOn, kind, writing, cm, deadline, exitCode, finalOutcome, quiet>>

\* Mutant: a 404 is an error like any other.
ReadAnsweredNoCreate(s) ==
    /\ writing[s] = "read"
    /\ WritingAt(s, IF cm = "absent" THEN "error" ELSE "replace")
    /\ UNCHANGED <<phase, intervalOn, lastWriteError, kind, cm, deadline, exitCode,
                   finalOutcome, quiet>>

\* createOrUpdateConfigMap: the read is answered; 404 leads to a create.
ReadAnswered(s) ==
    /\ writing[s] = "read"
    /\ WritingAt(s, IF cm = "absent" THEN "create" ELSE "replace")
    /\ UNCHANGED <<phase, intervalOn, lastWriteError, kind, cm, deadline, exitCode,
                   finalOutcome, quiet>>

\* The API server executes a replace or a create.
WriteSucceeds(s) ==
    /\ \/ writing[s] = "replace" /\ cm # "absent"
       \/ writing[s] = "create" /\ cm = "absent"
    /\ cm' = kind[s]
    /\ WritingAt(s, "ok")
    /\ UNCHANGED <<phase, intervalOn, lastWriteError, kind, deadline, exitCode,
                   finalOutcome, quiet>>

\* A replace that finds nothing is answered 404 and leads to a create; a
\* create that finds the ConfigMap is answered 409, an error.
WriteConflicts(s) ==
    /\ \/ writing[s] = "replace" /\ cm = "absent" /\ WritingAt(s, "create")
       \/ writing[s] = "create" /\ cm # "absent" /\ WritingAt(s, "error")
    /\ UNCHANGED <<phase, intervalOn, lastWriteError, kind, cm, deadline, exitCode,
                   finalOutcome, quiet>>

\* A request fails without having had an effect.
RequestFails(s) ==
    /\ writing[s] \in {"read", "replace", "create"}
    /\ WritingAt(s, "error")
    /\ UNCHANGED <<phase, intervalOn, lastWriteError, kind, cm, deadline, exitCode,
                   finalOutcome, quiet>>

\* A request takes effect and its answer is lost.
AnswerLost(s) ==
    /\ \/ writing[s] = "replace" /\ cm # "absent"
       \/ writing[s] = "create" /\ cm = "absent"
    /\ cm' = kind[s]
    /\ WritingAt(s, "error")
    /\ UNCHANGED <<phase, intervalOn, lastWriteError, kind, deadline, exitCode,
                   finalOutcome, quiet>>

\* updateStatus goes on after its last reply.
UpdateSettled(s) ==
    /\ kind[s] = "update" /\ writing[s] \in {"ok", "error"}
    /\ lastWriteError' = (writing[s] = "error")
    /\ WritingAt(s, "idle")
    /\ UNCHANGED <<phase, intervalOn, kind, cm, deadline, exitCode, finalOutcome, quiet>>

------------------------------------------------------------------------------
(* gracefulShutdown                                                        *)

\* SIGTERM or SIGINT, once: stop the watcher and start stopping the worker.
\* The status interval still runs.
GracefulShutdown ==
    /\ phase = "running"
    /\ phase' = "flushing"
    /\ UNCHANGED <<intervalOn, lastWriteError, kind, writing, cm, deadline, exitCode,
                   finalOutcome, quiet>>

\* The worker has stopped: stop the scheduler, the managers and the status
\* writer (not the updates in flight), and start closing the health server.
WorkerStopped ==
    /\ phase = "flushing"
    /\ phase' = "draining"
    /\ intervalOn' = FALSE
    /\ UNCHANGED <<lastWriteError, kind, writing, cm, deadline, exitCode, finalOutcome, quiet>>

\* The health server is closed: compute the final status and start its write.
WriteFinalStatus(s) ==
    /\ phase = "draining"
    /\ phase' = "final"
    /\ quiet' = \A t \in Slots : writing[t] = "idle"
    /\ Begin(s, "final")
    /\ UNCHANGED <<intervalOn, lastWriteError, cm, deadline, exitCode, finalOutcome>>

\* What a dead process leaves behind: the writes it had sent, and no more.
Orphaned(step) ==
    CASE step \in {"replace", "orphanReplace"} -> "orphanReplace"
      [] step \in {"create", "orphanCreate"} -> "orphanCreate"
      [] OTHER -> "idle"

Exit(code) ==
    /\ phase' = "exited"
    /\ exitCode' = code
    /\ intervalOn' = FALSE
    /\ writing' = [s \in Slots |-> Orphaned(writing[s])]
    /\ UNCHANGED <<lastWriteError, kind, cm, deadline, quiet>>

\* The final status cannot be computed (a repository throws): the catch
\* branch exits with 0 all the same.
FinalStatusThrows ==
    /\ phase = "draining"
    /\ finalOutcome' = "error"
    /\ Exit("0")

\* Mutant: the final write is not awaited.
FinalSettledNotAwaited(s) ==
    /\ phase = "final"
    /\ kind[s] = "final" /\ writing[s] # "idle"
    /\ finalOutcome' = writing[s]
    /\ Exit("0")

\* writeFinalStatus has settled, its errors swallowed: clear the timer, exit.
FinalSettled(s) ==
    /\ phase = "final"
    /\ kind[s] = "final" /\ writing[s] \in {"ok", "error"}
    /\ finalOutcome' = writing[s]
    /\ Exit("0")

DeadlinePasses ==
    /\ phase \in ShuttingDown /\ ~deadline
    /\ deadline' = TRUE
    /\ UNCHANGED <<phase, intervalOn, lastWriteError, kind, writing, cm, exitCode,
                   finalOutcome, quiet>>

\* Mutant: the timer only covers the flush.
ForceExitWhileFlushing ==
    phase = "flushing" /\ deadline /\ Exit("1") /\ UNCHANGED finalOutcome

\* The 5 s timer of gracefulShutdown.
ForceExit ==
    phase \in ShuttingDown /\ deadline /\ Exit("1") /\ UNCHANGED finalOutcome

------------------------------------------------------------------------------
(* The environment                                                         *)

KillPublisher == Alive /\ Exit("killed") /\ UNCHANGED finalOutcome

\* The container is started again.
Restart ==
    /\ phase = "exited"
    /\ phase' = "boot"
    /\ lastWriteError' = FALSE
    /\ deadline' = FALSE
    /\ exitCode' = "none"
    /\ finalOutcome' = "none"
    /\ quiet' = FALSE
    /\ UNCHANGED <<intervalOn, kind, writing, cm>>

\* A write of a dead process takes effect, fails, or is dropped.
OrphanSettles(s) ==
    /\ writing[s] \in {"orphanReplace", "orphanCreate"}
    /\ \/ UNCHANGED cm
       \/ writing[s] = "orphanReplace" /\ cm # "absent" /\ cm' = kind[s]
       \/ writing[s] = "orphanCreate" /\ cm = "absent" /\ cm' = kind[s]
    /\ WritingAt(s, "idle")
    /\ UNCHANGED <<phase, intervalOn, lastWriteError, kind, deadline, exitCode,
                   finalOutcome, quiet>>

\* Somebody deletes the ConfigMap.
ConfigMapDeleted ==
    /\ cm # "absent"
    /\ cm' = "absent"
    /\ UNCHANGED <<phase, intervalOn, lastWriteError, kind, writing, deadline, exitCode,
                   finalOutcome, quiet>>

PublisherNext ==
    \/ \E s \in Slots :
          \/ StartWriter(s)
          \/ UpdateStatus(s)
          \/ ReadAnswered(s)
          \/ WriteSucceeds(s)
          \/ WriteConflicts(s)
          \/ RequestFails(s)
          \/ AnswerLost(s)
          \/ UpdateSettled(s)
          \/ WriteFinalStatus(s)
          \/ FinalSettled(s)
          \/ OrphanSettles(s)
    \/ UpdateStatusThrows
    \/ GracefulShutdown
    \/ WorkerStopped
    \/ FinalStatusThrows
    \/ DeadlinePasses
    \/ ForceExit
    \/ KillPublisher
    \/ Restart
    \/ ConfigMapDeleted

PublisherSpec == PublisherInit /\ [][PublisherNext]_publisherVars

------------------------------------------------------------------------------
(* PublisherFairness.  The timers fire and replies are processed; the API server    *)
(* answers every request and does not fail every time (strong fairness of  *)
(* the successful answers); a tick does not find the database broken every  *)
(* time.  Nothing is assumed of the stop of the worker and of the health   *)
(* server, which may hang.                                                 *)

PublisherFairness ==
    /\ \A s \in Slots : /\ SF_publisherVars(ReadAnswered(s))
                        /\ SF_publisherVars(WriteSucceeds(s))
                        /\ WF_publisherVars(WriteConflicts(s))
                        /\ WF_publisherVars(UpdateSettled(s))
                        /\ WF_publisherVars(FinalSettled(s))
                        /\ WF_publisherVars(OrphanSettles(s))
    /\ WF_publisherVars(\E s \in Slots : StartWriter(s))
    /\ SF_publisherVars(\E s \in Slots : UpdateStatus(s))
    /\ WF_publisherVars(DeadlinePasses)
    /\ WF_publisherVars(ForceExit)

FairPublisherSpec == PublisherSpec /\ PublisherFairness

------------------------------------------------------------------------------
(* Safety                                                                  *)

\* A clean exit whose final write had the ConfigMap to itself leaves the final
\* status there, unless that write failed or the ConfigMap was deleted.
QuietExitReportsShutdown ==
    exitCode = "0" /\ quiet => finalOutcome = "error" \/ cm \in {"final", "absent"}

------------------------------------------------------------------------------
(* Liveness, under FairPublisherSpec                                                *)

\* A ConfigMap that does not exist, or was deleted, is created again.
ConfigMapComesBack == (phase = "running" /\ cm = "absent") ~> (cm # "absent" \/ phase # "running")

\* The final status of an earlier process, possibly written late, does not stay.
ShutdownStatusIsReplaced ==
    (phase = "running" /\ cm = "final") ~> (cm # "final" \/ phase # "running")

\* A recorded write error does not outlive the recovery of the API server.
WriteErrorClears ==
    (phase = "running" /\ lastWriteError) ~> (~lastWriteError \/ phase # "running")

\* The ConfigMap and the error recorded about it recover from every fault.
ConfigMapRecovers == ConfigMapComesBack /\ ShutdownStatusIsReplaced /\ WriteErrorClears

\* A shutdown ends, whatever hangs.
ShutdownEnds == phase \in ShuttingDown ~> phase = "exited"
==============================================================================
