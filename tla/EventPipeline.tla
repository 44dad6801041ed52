---------------------------- MODULE EventPipeline ----------------------------
(***************************************************************************)
(* The event system of one operator pod: KubernetesEventWatcher feeds      *)
(* EventRecorder (a bounded in-memory queue), EventQueueWorker drains it   *)
(* into the events table through EventRepository, and gracefulShutdown     *)
(* stops both.  The process may be killed at any time and is restarted by  *)
(* the kubelet; the table survives, everything else is rebuilt.            *)
(*                                                                         *)
(* The program runs on one event loop: a callback runs to completion.  The *)
(* only callback that is split here is processQueue, one insert per step,  *)
(* because a kill can fall between two inserts; while it runs (batch > 0)  *)
(* no other callback does.                                                 *)
(***************************************************************************)
EXTENDS Integers, Sequences, FiniteSets

CONSTANTS MaxQueueSize,   \* EventRecorder.maxQueueSize
          MaxBatchSize,   \* maxBatchSize of processQueue
          EventIds,       \* the ids generateEventId can produce (they can collide)
          MaxArrivals,    \* bound: events the API server delivers in a behaviour
          MaxRestarts     \* bound: restarts of the pod in a behaviour

ASSUME PipelineAssumption ==
    /\ MaxQueueSize \in Nat \ {0}
    /\ MaxBatchSize \in Nat \ {0}
    /\ MaxArrivals \in Nat
    /\ MaxRestarts \in Nat

VARIABLES
    \* KubernetesEventWatcher and the watch request it made
    isWatching,            \* the field of that name; isHealthy() returns it
    eventListenerHealthy,  \* the gauge of that name
    stream,                \* the watch request: none, connecting, open, failed, ended
    reconnectTimer,        \* the 5 s timer of the done callback is pending
    \* EventRecorder
    queue,                 \* the waiting events, oldest first
    droppedEventsCount,
    \* EventQueueWorker
    isRunning,             \* the field of that name; the 100 ms interval exists with it
    batch,                 \* inserts the running processQueue may still make, 0 when none runs
    eventsStoredTotal,     \* the counter of that name
    \* the events table
    rows,                  \* the stored events, in the order of insertion
    \* the process
    phase,                 \* boot, starting, running, flushing, closing, exited
    deadline,              \* 5 s have passed since gracefulShutdown started
    exitCode,              \* of the last exit; NoExit while the process runs
    restarts,
    \* history
    arrivals,              \* events delivered so far; an event's seq is its arrival number
    recorded,              \* seqs of the events this process passed to recordEvent
    dropped,               \* those that a full queue gave up
    refused,               \* those that the table did not take
    calledAt,              \* arrivals when this process began gracefulShutdown
    lastOut,               \* seq of the youngest event that has left a queue
    rowsAtBoot             \* rows in the table when this process started

watcherVars == <<isWatching, eventListenerHealthy, stream, reconnectTimer>>
recorderVars == <<queue, droppedEventsCount>>
workerVars == <<isRunning, batch, eventsStoredTotal>>
processVars == <<phase, deadline, exitCode, restarts>>
fateVars == <<recorded, dropped, refused>>
historyVars == <<arrivals, fateVars, calledAt, lastOut, rowsAtBoot>>
vars == <<watcherVars, recorderVars, workerVars, rows, processVars, historyVars>>

Event == [seq : 1..MaxArrivals, id : EventIds]
Streams == {"none", "connecting", "open", "failed", "ended"}
Phases == {"boot", "starting", "running", "flushing", "closing", "exited"}
NoExit == -1
Killed == 137

TypeOK ==
    /\ isWatching \in BOOLEAN
    /\ eventListenerHealthy \in BOOLEAN
    /\ stream \in Streams
    /\ reconnectTimer \in BOOLEAN
    /\ queue \in Seq(Event)
    /\ droppedEventsCount \in Nat
    /\ isRunning \in BOOLEAN
    /\ batch \in 0..MaxBatchSize
    /\ eventsStoredTotal \in Nat
    /\ rows \in Seq(Event)
    /\ phase \in Phases
    /\ deadline \in BOOLEAN
    /\ exitCode \in {NoExit, 0, 1, Killed}
    /\ restarts \in 0..MaxRestarts
    /\ arrivals \in 0..MaxArrivals
    /\ recorded \subseteq 1..MaxArrivals
    /\ dropped \subseteq 1..MaxArrivals
    /\ refused \subseteq 1..MaxArrivals
    /\ calledAt \in 0..MaxArrivals
    /\ lastOut \in 0..MaxArrivals
    /\ rowsAtBoot \in Nat

Init ==
    /\ isWatching = FALSE
    /\ eventListenerHealthy = FALSE
    /\ stream = "none"
    /\ reconnectTimer = FALSE
    /\ queue = <<>>
    /\ droppedEventsCount = 0
    /\ isRunning = FALSE
    /\ batch = 0
    /\ eventsStoredTotal = 0
    /\ rows = <<>>
    /\ phase = "boot"
    /\ deadline = FALSE
    /\ exitCode = NoExit
    /\ restarts = 0
    /\ arrivals = 0
    /\ recorded = {}
    /\ dropped = {}
    /\ refused = {}
    /\ calledAt = 0
    /\ lastOut = 0
    /\ rowsAtBoot = 0

Alive == phase # "exited"

SeqsOf(events) == {events[i].seq : i \in 1..Len(events)}

\* The event loop is free to run a callback.
LoopFree == Alive /\ batch = 0

------------------------------------------------------------------------------
(* KubernetesEventWatcher                                                  *)

\* start(), up to its await: nothing when already watching.
WatcherStart ==
    IF isWatching
    THEN UNCHANGED <<isWatching, stream>>
    ELSE isWatching' = TRUE /\ stream' = "connecting"

\* The part of startOperator that starts the worker and then the watcher.
StartEventSystem ==
    /\ phase = "boot"
    /\ phase' = "starting"
    /\ isRunning' = TRUE
    /\ WatcherStart
    /\ UNCHANGED <<eventListenerHealthy, reconnectTimer, recorderVars, batch,
                   eventsStoredTotal, rows, deadline, exitCode, restarts, historyVars>>

\* startOperator goes on once the watch request has settled, whatever its
\* outcome, and then installs the signal handlers.
StartupContinues ==
    /\ phase' = IF phase = "starting" THEN "running" ELSE phase
    /\ UNCHANGED <<recorderVars, workerVars, rows, deadline, exitCode, restarts, historyVars>>

\* The API server answers the watch request.
WatchConnects ==
    /\ LoopFree /\ stream = "connecting"
    /\ stream' = "open"
    /\ eventListenerHealthy' = TRUE
    /\ UNCHANGED <<isWatching, reconnectTimer>>
    /\ StartupContinues

\* The done callback, given an error: arm the reconnect timer while watching.
DoneWithError == reconnectTimer' = (reconnectTimer \/ isWatching)

\* The request fails: the client calls done with the error and the promise
\* of watch() is resolved all the same.
WatchConnectFails ==
    /\ LoopFree /\ stream = "connecting"
    /\ stream' = "failed"
    /\ DoneWithError
    /\ eventListenerHealthy' = TRUE
    /\ UNCHANGED isWatching
    /\ StartupContinues

\* watch() rejects (for instance no usable credentials): the catch branch.
WatchRejects ==
    /\ LoopFree /\ stream = "connecting"
    /\ stream' = "none"
    /\ isWatching' = FALSE
    /\ eventListenerHealthy' = FALSE
    /\ UNCHANGED reconnectTimer
    /\ StartupContinues

\* The open stream breaks with an error.
StreamFails ==
    /\ LoopFree /\ stream = "open"
    /\ stream' = "failed"
    /\ DoneWithError
    /\ UNCHANGED <<isWatching, eventListenerHealthy, recorderVars, workerVars, rows,
                   processVars, historyVars>>

\* The API server ends the watch normally, as it does with every watch after
\* some time: done is called without an error and does nothing.
StreamEnds ==
    /\ LoopFree /\ stream = "open"
    /\ stream' = "ended"
    /\ UNCHANGED <<isWatching, eventListenerHealthy, reconnectTimer, recorderVars,
                   workerVars, rows, processVars, historyVars>>

\* The 5 s timer of the done callback.
ReconnectTimerFires ==
    /\ LoopFree /\ reconnectTimer
    /\ reconnectTimer' = FALSE
    /\ IF isWatching THEN WatcherStart ELSE UNCHANGED <<isWatching, stream>>
    /\ UNCHANGED <<eventListenerHealthy, recorderVars, workerVars, rows, processVars,
                   historyVars>>

\* Mutants of recordEvent: the drop is not counted; the whole queue is dropped.
RecordEventUncounted(e) ==
    LET full == Len(queue) >= MaxQueueSize
    IN  /\ queue' = Append(IF full THEN Tail(queue) ELSE queue, e)
        /\ lastOut' = IF full THEN Head(queue).seq ELSE lastOut
        /\ recorded' = recorded \cup {e.seq}
        /\ dropped' = dropped \cup (IF full THEN {Head(queue).seq} ELSE {})
        /\ UNCHANGED droppedEventsCount

RecordEventDropAll(e) ==
    LET full == Len(queue) >= MaxQueueSize
    IN  /\ queue' = IF full THEN <<e>> ELSE Append(queue, e)
        /\ droppedEventsCount' = droppedEventsCount + (IF full THEN Len(queue) ELSE 0)
        /\ lastOut' = IF full THEN queue[Len(queue)].seq ELSE lastOut
        /\ recorded' = recorded \cup {e.seq}
        /\ dropped' = dropped \cup (IF full THEN SeqsOf(queue) ELSE {})

\* recordEvent: a full queue loses its oldest event.
RecordEvent(e) ==
    LET full == Len(queue) >= MaxQueueSize
    IN  /\ queue' = Append(IF full THEN Tail(queue) ELSE queue, e)
        /\ droppedEventsCount' = droppedEventsCount + (IF full THEN 1 ELSE 0)
        /\ lastOut' = IF full THEN Head(queue).seq ELSE lastOut
        /\ recorded' = recorded \cup {e.seq}
        /\ dropped' = dropped \cup (IF full THEN {Head(queue).seq} ELSE {})

\* handleEvent for a significant event that normalizes.
HandleEvent(id) ==
    /\ LoopFree /\ stream = "open"
    /\ arrivals < MaxArrivals
    /\ arrivals' = arrivals + 1
    /\ RecordEvent([seq |-> arrivals + 1, id |-> id])
    /\ UNCHANGED <<watcherVars, workerVars, rows, processVars, refused, calledAt, rowsAtBoot>>

\* handleEvent for any other: of another type, not significant, or with
\* metadata that normalizeKubernetesEvent fails on.
IgnoreEvent ==
    /\ LoopFree /\ stream = "open"
    /\ arrivals < MaxArrivals
    /\ arrivals' = arrivals + 1
    /\ UNCHANGED <<watcherVars, recorderVars, workerVars, rows, processVars,
                   fateVars, calledAt, lastOut, rowsAtBoot>>

------------------------------------------------------------------------------
(* EventQueueWorker                                                        *)

\* The 100 ms interval calls processQueue (a call on an empty queue does nothing).
WorkerTick ==
    /\ LoopFree /\ isRunning /\ queue # <<>>
    /\ batch' = MaxBatchSize
    /\ UNCHANGED <<watcherVars, recorderVars, isRunning, eventsStoredTotal, rows,
                   processVars, historyVars>>

\* insertEvent: a failing statement and a duplicate id both leave the table
\* as it is, and neither throws.
InsertEvent(e, dbOk) ==
    IF dbOk /\ \A i \in 1..Len(rows) : rows[i].id # e.id
    THEN rows' = Append(rows, e) /\ UNCHANGED refused
    ELSE refused' = refused \cup {e.seq} /\ UNCHANGED rows

\* Mutant of processQueue: the newest event is taken first.
ProcessOneNewest(dbOk) ==
    LET e == queue[Len(queue)]
    IN  /\ Alive /\ batch > 0
        /\ queue' = SubSeq(queue, 1, Len(queue) - 1)
        /\ InsertEvent(e, dbOk)
        /\ eventsStoredTotal' = eventsStoredTotal + 1
        /\ lastOut' = e.seq
        /\ batch' = IF Len(queue) = 1 THEN 0 ELSE batch - 1
        /\ UNCHANGED <<watcherVars, droppedEventsCount, isRunning, processVars,
                       arrivals, recorded, dropped, calledAt, rowsAtBoot>>

\* One iteration of processQueue.  As insertEvent does not throw, the stored
\* counter and `processed` advance whatever the insert did.
ProcessOne(dbOk) ==
    /\ Alive /\ batch > 0
    /\ queue' = Tail(queue)
    /\ InsertEvent(Head(queue), dbOk)
    /\ eventsStoredTotal' = eventsStoredTotal + 1
    /\ lastOut' = Head(queue).seq
    /\ batch' = IF Len(queue) = 1 THEN 0 ELSE batch - 1
    /\ UNCHANGED <<watcherVars, droppedEventsCount, isRunning, processVars,
                   arrivals, recorded, dropped, calledAt, rowsAtBoot>>

\* Mutant of flush: one batch only.
FlushOneBatch ==
    /\ LoopFree /\ phase = "flushing"
    /\ phase' = "closing"
    /\ UNCHANGED <<watcherVars, recorderVars, workerVars, rows, deadline, exitCode,
                   restarts, historyVars>>

\* An iteration of the flush loop, after its 10 ms sleep: process another
\* batch, or go on when the queue is empty or the flush has taken 5 s.
FlushIteration ==
    /\ LoopFree /\ phase = "flushing"
    /\ IF queue # <<>> /\ ~deadline
       THEN batch' = MaxBatchSize /\ UNCHANGED phase
       ELSE phase' = "closing" /\ UNCHANGED batch
    /\ UNCHANGED <<watcherVars, recorderVars, isRunning, eventsStoredTotal, rows,
                   deadline, exitCode, restarts, historyVars>>

------------------------------------------------------------------------------
(* The process                                                             *)

\* gracefulShutdown up to its first await: stop the watcher (the request
\* itself is not aborted: its signal was never given to it), stop the
\* interval, and run the first iteration of the flush.
GracefulShutdown ==
    /\ LoopFree /\ phase = "running"
    /\ isWatching' = FALSE
    /\ eventListenerHealthy' = FALSE
    /\ isRunning' = FALSE
    /\ IF queue = <<>>
       THEN phase' = "closing" /\ UNCHANGED batch
       ELSE phase' = "flushing" /\ batch' = MaxBatchSize
    /\ calledAt' = arrivals
    /\ UNCHANGED <<stream, reconnectTimer, recorderVars, eventsStoredTotal, rows,
                   deadline, exitCode, restarts, arrivals, fateVars, lastOut, rowsAtBoot>>

\* The liveness probe finds isWatching false and the kubelet sends SIGTERM.
LivenessProbeFails == ~isWatching /\ GracefulShutdown

DeadlinePasses ==
    /\ Alive /\ phase \in {"flushing", "closing"} /\ ~deadline
    /\ deadline' = TRUE
    /\ UNCHANGED <<watcherVars, recorderVars, workerVars, rows, phase, exitCode, restarts,
                   historyVars>>

Exit(code) ==
    /\ phase' = "exited"
    /\ exitCode' = code
    /\ batch' = 0
    /\ UNCHANGED <<watcherVars, recorderVars, isRunning, eventsStoredTotal, rows,
                   deadline, restarts, historyVars>>

\* Mutant: the timer is cleared once the worker has stopped.
ForceExitWhileFlushing == LoopFree /\ phase = "flushing" /\ deadline /\ Exit(1)

\* The 5 s timer of gracefulShutdown.
ForceExit == LoopFree /\ deadline /\ Exit(1)

\* The rest of gracefulShutdown (closing the health server, writing the final
\* status) completes; it may also never complete.
FinishShutdown == LoopFree /\ phase = "closing" /\ Exit(0)

\* SIGKILL, an out-of-memory kill, or SIGTERM before the handlers exist.
Kill == Alive /\ Exit(Killed)

\* The kubelet starts the container again: only the table is left.
Restart ==
    /\ phase = "exited" /\ restarts < MaxRestarts
    /\ restarts' = restarts + 1
    /\ isWatching' = FALSE
    /\ eventListenerHealthy' = FALSE
    /\ stream' = "none"
    /\ reconnectTimer' = FALSE
    /\ queue' = <<>>
    /\ droppedEventsCount' = 0
    /\ isRunning' = FALSE
    /\ batch' = 0
    /\ eventsStoredTotal' = 0
    /\ phase' = "boot"
    /\ deadline' = FALSE
    /\ exitCode' = NoExit
    /\ recorded' = {}
    /\ dropped' = {}
    /\ refused' = {}
    /\ calledAt' = 0
    /\ lastOut' = arrivals
    /\ rowsAtBoot' = Len(rows)
    /\ UNCHANGED <<rows, arrivals>>

Next ==
    \/ StartEventSystem
    \/ WatchConnects
    \/ WatchConnectFails
    \/ WatchRejects
    \/ StreamFails
    \/ StreamEnds
    \/ ReconnectTimerFires
    \/ \E id \in EventIds : HandleEvent(id)
    \/ IgnoreEvent
    \/ WorkerTick
    \/ \E dbOk \in BOOLEAN : ProcessOne(dbOk)
    \/ FlushIteration
    \/ GracefulShutdown
    \/ DeadlinePasses
    \/ ForceExit
    \/ FinishShutdown
    \/ Kill
    \/ Restart

Spec == Init /\ [][Next]_vars

------------------------------------------------------------------------------
(* Fairness: what the event loop and the kubelet guarantee.  Timers fire   *)
(* (the worker's interval, the flush's sleep, the two 5 s timers), a       *)
(* running processQueue goes on, and a probe that keeps failing leads to   *)
(* SIGTERM.  Nothing is assumed of the API server, of the rest of the      *)
(* shutdown (FinishShutdown) or of signals.                                *)

Fairness ==
    /\ WF_vars(StartEventSystem)
    /\ WF_vars(WorkerTick)
    /\ WF_vars(\E dbOk \in BOOLEAN : ProcessOne(dbOk))
    /\ WF_vars(FlushIteration)
    /\ WF_vars(ReconnectTimerFires)
    /\ WF_vars(DeadlinePasses)
    /\ WF_vars(ForceExit)
    /\ WF_vars(LivenessProbeFails)

FairSpec == Spec /\ Fairness

------------------------------------------------------------------------------
(* Safety                                                                  *)

\* No event disappears: each one that this process recorded is waiting, in
\* the table, refused by it, or dropped and counted as dropped, and it is only
\* one of these, also in the middle of a batch and of a shutdown.
RecordedIsAccounted ==
    /\ recorded = SeqsOf(queue) \cup dropped \cup refused \cup (SeqsOf(rows) \cap recorded)
    /\ Cardinality(recorded) = Len(queue) + droppedEventsCount + Cardinality(refused)
                                  + (Len(rows) - rowsAtBoot)

\* The stored counter never understates the rows this process added.
RowsAreCounted == Len(rows) - rowsAtBoot \in 0..eventsStoredTotal

\* The books balance: what was recorded is found again, and no row of the table
\* is missing from the counter that is exported.
BooksBalance == RecordedIsAccounted /\ RowsAreCounted

Increasing(s) == \A i, j \in 1..Len(s) : i < j => s[i].seq < s[j].seq

\* Events reach the table in the order the API server delivered them and at
\* most once, across drops, failed inserts, kills and restarts.
StoredInOrder == Increasing(rows)

\* The queue drops, stores and gives up its oldest event only: what waits is
\* younger than all that has left it.
OldestLeavesFirst ==
    /\ Increasing(queue)
    /\ \A i \in 1..Len(queue) : lastOut < queue[i].seq

\* Order is kept from the watch through the queue to the table.
EventsStayInOrder == StoredInOrder /\ OldestLeavesFirst

\* A clean exit within the 5 s has lost nothing that was there before it: each
\* event recorded when gracefulShutdown began is in the table, but for those
\* that the table refused and those that later arrivals pushed out of the
\* queue, as the watch goes on delivering while the flush runs and after it.
CleanExitKeepsEvents ==
    exitCode = 0 /\ ~deadline =>
        \A n \in recorded : n <= calledAt => n \in SeqsOf(rows) \cup refused \cup dropped

\* The pipeline is an in-order, at-most-once, bounded and lossy transfer: the
\* waiting events are those of the queue until the process ends.
Waiting == IF Alive THEN queue ELSE <<>>

Fifo == INSTANCE LossyFifo
            WITH Capacity <- MaxQueueSize, pending <- Waiting, persisted <- rows

FifoRefinement == Fifo!FifoSpec

------------------------------------------------------------------------------
(* Liveness, under FairSpec                                                *)

IsQueued(n) == \E i \in 1..Len(queue) : queue[i].seq = n

\* A recorded event does not wait for ever: it is stored, given up or dropped,
\* unless the process ends first.
QueuedEventLeaves ==
    \A n \in 1..MaxArrivals : IsQueued(n) ~> (~IsQueued(n) \/ phase = "exited")

\* A shutdown ends although the flush may never empty the queue and the rest
\* of gracefulShutdown may hang.
ShutdownEnds == phase \in {"flushing", "closing"} ~> phase = "exited"

\* A rejected watch request is seen by the liveness probe, which gets the pod
\* restarted: the only recovery from it that the program has.
RejectedWatchEndsProcess == (phase = "running" /\ stream = "none") ~> phase = "exited"

\* Nothing the pipeline has begun hangs: no event, no shutdown, no dead watch.
PipelineSettles == QueuedEventLeaves /\ ShutdownEnds /\ RejectedWatchEndsProcess

------------------------------------------------------------------------------
(* What a comment says and the code does not do (violation run)            *)

\* kubernetes-event-watcher.ts, in the done callback: "Reconnect after delay".
\* A failed watch request would be followed by another one.
FailedWatchIsRetried ==
    (phase = "running" /\ stream = "failed") ~> (phase # "running" \/ stream # "failed")

==============================================================================
