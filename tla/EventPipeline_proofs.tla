------------------------- MODULE EventPipeline_proofs -------------------------
(***************************************************************************)
(* Proofs about EventPipeline, for every queue size, batch size, set of    *)
(* event ids and bound.                                                    *)
(***************************************************************************)
EXTENDS EventPipeline, SequenceTheorems, FiniteSetTheorems, TLAPS

\* The queue never holds more than its maximum, whatever the rate of events
\* (recordEvent makes room before it appends).
QueueBounded == Len(queue) <= MaxQueueSize

------------------------------------------------------------------------------
(* Lemmas about sequences of events                                        *)

\* The sequence number of an event is a natural number.
LEMMA EventSeq == \A e \in Event : e.seq \in Nat /\ e.seq <= MaxArrivals
  BY PipelineAssumption, SMT DEF Event

\* Taking the head off a non-empty sequence of events.
LEMMA TailOfEvents ==
    ASSUME NEW s \in Seq(Event), s # <<>>
    PROVE  /\ Head(s) \in Event /\ Head(s) = s[1]
           /\ Tail(s) \in Seq(Event)
           /\ Len(s) \in Nat \ {0} /\ Len(Tail(s)) = Len(s) - 1
           /\ \A i \in 1..Len(Tail(s)) : Tail(s)[i] = s[i + 1]
<1>1. Len(s) \in Nat \ {0}
  BY EmptySeq
<1>2. /\ Head(s) \in Event /\ Tail(s) \in Seq(Event)
      /\ Len(Tail(s)) = Len(s) - 1
      /\ \A i \in 1..Len(Tail(s)) : Tail(s)[i] = s[i + 1]
  BY HeadTailProperties
<1>3. Head(s) = s[1]
  BY SMT
<1>4. QED
  BY <1>1, <1>2, <1>3

\* Appending an event.
LEMMA AppendOfEvents ==
    ASSUME NEW s \in Seq(Event), NEW e \in Event
    PROVE  /\ Append(s, e) \in Seq(Event)
           /\ Len(s) \in Nat /\ Len(Append(s, e)) = Len(s) + 1
           /\ \A i \in 1..Len(s) : Append(s, e)[i] = s[i]
           /\ Append(s, e)[Len(s) + 1] = e
  BY SMT

\* The tail of an increasing sequence is increasing, and its events are younger
\* than the head.
LEMMA TailIncreasing ==
    ASSUME NEW s \in Seq(Event), s # <<>>, Increasing(s)
    PROVE  /\ Increasing(Tail(s))
           /\ \A i \in 1..Len(Tail(s)) : Head(s).seq < Tail(s)[i].seq
<1>1. \A i \in 1..Len(Tail(s)) : i \in Nat /\ i + 1 \in 1..Len(s)
  BY TailOfEvents, SMT
<1>2. 1 \in 1..Len(s)
  BY TailOfEvents, SMT
<1>3. Increasing(Tail(s))
  BY TailOfEvents, <1>1, SMT DEF Increasing
<1>4. \A i \in 1..Len(Tail(s)) : Head(s).seq < Tail(s)[i].seq
  BY TailOfEvents, <1>1, <1>2, SMT DEF Increasing
<1>5. QED
  BY <1>3, <1>4

\* Appending an event younger than all others keeps a sequence increasing.
LEMMA AppendIncreasing ==
    ASSUME NEW s \in Seq(Event), Increasing(s), NEW e \in Event,
           \A i \in 1..Len(s) : s[i].seq < e.seq
    PROVE  Increasing(Append(s, e))
<1>. DEFINE t == Append(s, e)
<1>. SUFFICES ASSUME NEW i \in 1..Len(t), NEW j \in 1..Len(t), i < j
              PROVE  t[i].seq < t[j].seq
  BY DEF Increasing
<1>1. i \in 1..Len(s) /\ t[i] = s[i]
  BY AppendOfEvents, SMT
<1>2. CASE j \in 1..Len(s)
  BY <1>1, <1>2, AppendOfEvents DEF Increasing
<1>3. CASE j = Len(s) + 1
  BY <1>1, <1>3, AppendOfEvents
<1>4. QED
  BY <1>2, <1>3, AppendOfEvents, SMT

\* The sequence numbers of an empty queue, of an appended and of a shortened one.
LEMMA SeqsOfAppend ==
    ASSUME NEW s \in Seq(Event), NEW e \in Event
    PROVE  SeqsOf(Append(s, e)) = SeqsOf(s) \cup {e.seq}
<1>. DEFINE t == Append(s, e)
<1>1. /\ Len(s) \in Nat /\ Len(t) = Len(s) + 1
      /\ \A i \in 1..Len(s) : t[i] = s[i]
      /\ t[Len(s) + 1] = e
  BY AppendOfEvents
<1>. HIDE DEF t
<1>2. \A i \in 1..Len(s) : i \in 1..Len(t)
  BY <1>1, SMT
<1>3. Len(s) + 1 \in 1..Len(t)
  BY <1>1, SMT
<1>4. \A i \in 1..Len(t) : i \in 1..Len(s) \/ i = Len(s) + 1
  BY <1>1, SMT
<1>5. SeqsOf(t) = SeqsOf(s) \cup {e.seq}
  BY <1>1, <1>2, <1>3, <1>4, Zenon DEF SeqsOf
<1>6. QED
  BY <1>5 DEF t

LEMMA SeqsOfTail ==
    ASSUME NEW s \in Seq(Event), s # <<>>
    PROVE  SeqsOf(s) = SeqsOf(Tail(s)) \cup {Head(s).seq}
<1>. DEFINE t == Tail(s)
<1>1. /\ Head(s) = s[1] /\ Len(s) \in Nat \ {0} /\ Len(t) = Len(s) - 1
      /\ \A i \in 1..Len(t) : t[i] = s[i + 1]
  BY TailOfEvents
<1>. HIDE DEF t
<1>2. \A i \in 1..Len(t) : i + 1 \in 1..Len(s)
  BY <1>1, SMT
<1>3. 1 \in 1..Len(s)
  BY <1>1, SMT
<1>4. \A i \in 1..Len(s) : i = 1 \/ \E j \in 1..Len(t) : i = j + 1
  <2>. TAKE i \in 1..Len(s)
  <2>1. i = 1 \/ (i - 1 \in 1..Len(t) /\ i = (i - 1) + 1)
    BY <1>1, SMT
  <2>2. QED
    BY <2>1
<1>5. SeqsOf(s) \subseteq SeqsOf(t) \cup {Head(s).seq}
  <2>. SUFFICES ASSUME NEW i \in 1..Len(s)
                PROVE  s[i].seq \in SeqsOf(t) \cup {Head(s).seq}
    BY DEF SeqsOf
  <2>1. CASE i = 1
    BY <1>1, <2>1
  <2>2. ASSUME NEW j \in 1..Len(t), i = j + 1
        PROVE  s[i].seq \in SeqsOf(t)
    BY <1>1, <2>2 DEF SeqsOf
  <2>3. QED
    BY <1>4, <2>1, <2>2
<1>6. SeqsOf(t) \cup {Head(s).seq} \subseteq SeqsOf(s)
  BY <1>1, <1>2, <1>3, Zenon DEF SeqsOf
<1>7. QED
  BY <1>5, <1>6 DEF t

LEMMA SeqsOfNothing == SeqsOf(<<>>) = {}
<1>1. Len(<<>>) = 0
  BY EmptySeq
<1>2. 1..Len(<<>>) = {}
  BY <1>1, SMT
<1>3. QED
  BY <1>2 DEF SeqsOf

\* A set of arrival numbers that gains one it does not hold.
LEMMA OneMore ==
    ASSUME NEW S, NEW n \in Nat, S \subseteq 1..n, NEW x, x \notin S
    PROVE  /\ Cardinality(S) \in Nat
           /\ Cardinality(S \cup {x}) = Cardinality(S) + 1
<1>1. IsFiniteSet(1..n)
  BY FS_Interval, SMT
<1>2. IsFiniteSet(S)
  BY <1>1, FS_Subset
<1>3. QED
  BY <1>2, FS_AddElement, FS_CardinalityType

------------------------------------------------------------------------------
(* Type correctness                                                        *)

\* While processQueue runs there is an event for its next iteration.
BatchHasWork == batch > 0 => queue # <<>>

TypeInv == TypeOK /\ BatchHasWork

LEMMA RecordEventType ==
    ASSUME TypeInv, NEW e \in Event, RecordEvent(e)
    PROVE  /\ queue' \in Seq(Event) /\ queue' # <<>>
           /\ droppedEventsCount' \in Nat
           /\ lastOut' \in 0..MaxArrivals
           /\ recorded' \subseteq 1..MaxArrivals
           /\ dropped' \subseteq 1..MaxArrivals
<1>0. e.seq \in 1..MaxArrivals /\ recorded' = recorded \cup {e.seq}
  BY DEF Event, RecordEvent
<1>1. CASE Len(queue) >= MaxQueueSize
  <2>1. queue # <<>>
    BY <1>1, PipelineAssumption, SMT DEF TypeInv, TypeOK
  <2>a. Tail(queue) \in Seq(Event) /\ Head(queue) \in Event
    BY <2>1, TailOfEvents DEF TypeInv, TypeOK
  <2>b. Head(queue).seq \in 1..MaxArrivals
    BY <2>a DEF Event
  <2>2. Tail(queue) \in Seq(Event) /\ Head(queue).seq \in 0..MaxArrivals
    BY <2>a, <2>b, PipelineAssumption, SMT
  <2>3. /\ queue' = Append(Tail(queue), e)
        /\ droppedEventsCount' = droppedEventsCount + 1
        /\ lastOut' = Head(queue).seq
        /\ dropped' = dropped \cup {Head(queue).seq}
    BY <1>1 DEF RecordEvent
  <2>4. /\ queue' \in Seq(Event) /\ queue' # <<>>
        /\ droppedEventsCount' \in Nat /\ lastOut' \in 0..MaxArrivals
    BY <2>2, <2>3, AppendOfEvents, EmptySeq, SMT DEF TypeInv, TypeOK
  <2>5. recorded' \subseteq 1..MaxArrivals /\ dropped' \subseteq 1..MaxArrivals
    BY <1>0, <2>b, <2>3 DEF TypeInv, TypeOK
  <2>6. QED
    BY <2>4, <2>5
<1>2. CASE ~(Len(queue) >= MaxQueueSize)
  <2>1. /\ queue' = Append(queue, e)
        /\ droppedEventsCount' = droppedEventsCount
        /\ lastOut' = lastOut
    BY <1>2, SMT DEF RecordEvent, TypeInv, TypeOK
  <2>2. dropped' = dropped
    BY <1>2 DEF RecordEvent
  <2>3. /\ queue' \in Seq(Event) /\ queue' # <<>>
        /\ droppedEventsCount' \in Nat /\ lastOut' \in 0..MaxArrivals
    BY <2>1, AppendOfEvents, EmptySeq, SMT DEF TypeInv, TypeOK
  <2>4. recorded' \subseteq 1..MaxArrivals /\ dropped' \subseteq 1..MaxArrivals
    BY <1>0, <2>2 DEF TypeInv, TypeOK
  <2>5. QED
    BY <2>3, <2>4
<1>3. QED
  BY <1>1, <1>2

LEMMA InsertEventType ==
    ASSUME TypeInv, NEW e \in Event, NEW dbOk \in BOOLEAN, InsertEvent(e, dbOk)
    PROVE  /\ rows' \in Seq(Event) /\ refused' \subseteq 1..MaxArrivals
           /\ \/ rows' = rows /\ refused' = refused \cup {e.seq}
              \/ rows' = Append(rows, e) /\ refused' = refused
<1>1. e.seq \in 1..MaxArrivals
  BY DEF Event
<1>2. \/ rows' = rows /\ refused' = refused \cup {e.seq}
      \/ rows' = Append(rows, e) /\ refused' = refused
  BY DEF InsertEvent
<1>3. QED
  BY <1>1, <1>2, AppendOfEvents DEF TypeInv, TypeOK

LEMMA InitTypeInv == Init => TypeInv
<1>. SUFFICES ASSUME Init PROVE TypeInv
  OBVIOUS
<1>1. queue \in Seq(Event) /\ rows \in Seq(Event)
  BY EmptySeq DEF Init
<1>2. BatchHasWork
  BY SMT DEF Init, BatchHasWork
<1>a. /\ batch \in 0..MaxBatchSize /\ restarts \in 0..MaxRestarts
      /\ arrivals \in 0..MaxArrivals /\ lastOut \in 0..MaxArrivals
      /\ calledAt \in 0..MaxArrivals
      /\ droppedEventsCount \in Nat /\ eventsStoredTotal \in Nat
      /\ rowsAtBoot \in Nat
  BY PipelineAssumption, SMT DEF Init
<1>3. TypeOK
  BY <1>1, <1>a DEF Init, TypeOK, Streams, Phases, NoExit
<1>4. QED
  BY <1>2, <1>3 DEF TypeInv

LEMMA NextTypeInv == TypeInv /\ [Next]_vars => TypeInv'
<1>. SUFFICES ASSUME TypeInv, [Next]_vars
              PROVE  TypeInv'
  OBVIOUS
<1>. USE PipelineAssumption DEF TypeInv, TypeOK, BatchHasWork, Streams, Phases, NoExit,
         Killed, watcherVars, recorderVars, workerVars, processVars, historyVars, fateVars
<1>1. CASE StartEventSystem
  BY <1>1 DEF StartEventSystem, WatcherStart
<1>2. CASE WatchConnects
  BY <1>2 DEF WatchConnects, StartupContinues
<1>3. CASE WatchConnectFails
  BY <1>3 DEF WatchConnectFails, StartupContinues, DoneWithError
<1>4. CASE WatchRejects
  BY <1>4 DEF WatchRejects, StartupContinues
<1>5. CASE StreamFails
  BY <1>5 DEF StreamFails, DoneWithError
<1>6. CASE StreamEnds
  BY <1>6 DEF StreamEnds
<1>7. CASE ReconnectTimerFires
  <2>1. isWatching' \in BOOLEAN /\ stream' \in Streams
    BY <1>7 DEF ReconnectTimerFires, WatcherStart
  <2>2. QED
    BY <1>7, <2>1 DEF ReconnectTimerFires
<1>8. ASSUME NEW id \in EventIds, HandleEvent(id)
      PROVE  TypeInv'
  <2>. DEFINE e == [seq |-> arrivals + 1, id |-> id]
  <2>1. e \in Event
    BY <1>8, SMT DEF HandleEvent, Event
  <2>2. RecordEvent(e)
    BY <1>8 DEF HandleEvent
  <2>3. /\ queue' \in Seq(Event) /\ queue' # <<>>
        /\ droppedEventsCount' \in Nat
        /\ lastOut' \in 0..MaxArrivals
        /\ recorded' \subseteq 1..MaxArrivals /\ dropped' \subseteq 1..MaxArrivals
    BY <2>1, <2>2, RecordEventType
  <2>4. QED
    BY <1>8, <2>3, SMT DEF HandleEvent
<1>9. CASE IgnoreEvent
  BY <1>9, SMT DEF IgnoreEvent
<1>10. CASE WorkerTick
  BY <1>10, SMT DEF WorkerTick
<1>11. ASSUME NEW dbOk \in BOOLEAN, ProcessOne(dbOk)
       PROVE  TypeInv'
  <2>1. queue # <<>>
    BY <1>11 DEF ProcessOne
  <2>2. /\ Head(queue) \in Event /\ Tail(queue) \in Seq(Event)
        /\ Len(queue) \in Nat \ {0} /\ Len(Tail(queue)) = Len(queue) - 1
    BY <2>1, TailOfEvents
  <2>3. Head(queue).seq \in 0..MaxArrivals
    BY <2>2, SMT DEF Event
  <2>4. rows' \in Seq(Event) /\ refused' \subseteq 1..MaxArrivals
    BY <1>11, <2>2, InsertEventType DEF ProcessOne
  <2>5. batch' \in 0..MaxBatchSize /\ (batch' > 0 => Len(Tail(queue)) # 0)
    BY <1>11, <2>2, SMT DEF ProcessOne
  <2>6. batch' > 0 => Tail(queue) # <<>>
    BY <2>5, EmptySeq
  <2>7. QED
    BY <1>11, <2>2, <2>3, <2>4, <2>5, <2>6, SMT DEF ProcessOne
<1>12. CASE FlushIteration
  BY <1>12, SMT DEF FlushIteration, LoopFree
<1>13. CASE GracefulShutdown
  <2>1. phase' \in Phases /\ batch' \in 0..MaxBatchSize /\ BatchHasWork'
    BY <1>13, SMT DEF GracefulShutdown
  <2>2. QED
    BY <1>13, <2>1 DEF GracefulShutdown
<1>14. CASE DeadlinePasses
  BY <1>14 DEF DeadlinePasses
<1>15. CASE ForceExit
  BY <1>15, SMT DEF ForceExit, Exit
<1>16. CASE FinishShutdown
  BY <1>16, SMT DEF FinishShutdown, Exit
<1>17. CASE Kill
  BY <1>17, SMT DEF Kill, Exit
<1>18. CASE Restart
  <2>1. <<>> \in Seq(Event) /\ Len(rows) \in Nat
    BY EmptySeq, LenProperties
  <2>2. BatchHasWork'
    BY <1>18, SMT DEF Restart
  <2>a. /\ restarts' \in 0..MaxRestarts /\ lastOut' \in 0..MaxArrivals
        /\ batch' \in 0..MaxBatchSize /\ calledAt' \in 0..MaxArrivals
    BY <1>18, SMT DEF Restart
  <2>b. /\ droppedEventsCount' \in Nat /\ eventsStoredTotal' \in Nat
        /\ rowsAtBoot' \in Nat
    BY <1>18, <2>1, SMT DEF Restart
  <2>3. TypeOK'
    BY <1>18, <2>1, <2>a, <2>b DEF Restart
  <2>4. QED
    BY <2>2, <2>3
<1>19. CASE UNCHANGED vars
  BY <1>19 DEF vars
<1>20. QED
  BY <1>1, <1>2, <1>3, <1>4, <1>5, <1>6, <1>7, <1>8, <1>9, <1>10, <1>11, <1>12, <1>13,
     <1>14, <1>15, <1>16, <1>17, <1>18, <1>19 DEF Next

\* Every variable keeps its type, and processQueue never takes an event from an
\* empty queue.
LEMMA TypeInvariance == Spec => []TypeInv
  BY InitTypeInv, NextTypeInv, PTL DEF Spec

------------------------------------------------------------------------------
(* The safety invariants.  The order invariants are inductive only together *)
(* with where the sequence numbers come from: nothing in the queue is       *)
(* younger than the last arrival, and nothing in the table is younger than  *)
(* the last event that left a queue.  The books are, because an event gets  *)
(* a new number when it is recorded and is younger than those the table     *)
(* refused before it.                                                       *)

SeqBounds ==
    /\ lastOut <= arrivals
    /\ \A i \in 1..Len(queue) : queue[i].seq <= arrivals
    /\ \A i \in 1..Len(rows) : rows[i].seq <= lastOut
    /\ recorded \subseteq 1..arrivals
    /\ \A n \in refused : n <= lastOut

OrderInv == SeqBounds /\ StoredInOrder /\ OldestLeavesFirst

CountInv == QueueBounded /\ RecordedIsAccounted /\ RowsAreCounted

IInv == TypeInv /\ OrderInv /\ CountInv

\* The variables the two invariants depend on.
dataVars == <<queue, rows, droppedEventsCount, eventsStoredTotal, fateVars, lastOut,
              rowsAtBoot, arrivals>>

LEMMA StutterData == IInv /\ UNCHANGED dataVars => OrderInv' /\ CountInv'
  BY DEF IInv, OrderInv, CountInv, dataVars, fateVars, SeqBounds, StoredInOrder,
         OldestLeavesFirst, Increasing, QueueBounded, RecordedIsAccounted, RowsAreCounted,
         SeqsOf

\* Only the delivery of an event, an insert and a restart touch that data.
LEMMA DataSteps ==
    ASSUME [Next]_vars
    PROVE  \/ UNCHANGED dataVars
           \/ \E id \in EventIds : HandleEvent(id)
           \/ IgnoreEvent
           \/ \E dbOk \in BOOLEAN : ProcessOne(dbOk)
           \/ Restart
<1>. USE DEF dataVars, watcherVars, recorderVars, workerVars, processVars, historyVars, fateVars
<1>1. CASE StartEventSystem \/ ReconnectTimerFires
  BY <1>1 DEF StartEventSystem, ReconnectTimerFires
<1>2. CASE WatchConnects \/ WatchConnectFails \/ WatchRejects
  BY <1>2 DEF WatchConnects, WatchConnectFails, WatchRejects, StartupContinues
<1>3. CASE StreamFails \/ StreamEnds
  BY <1>3 DEF StreamFails, StreamEnds
<1>4. CASE WorkerTick \/ FlushIteration \/ GracefulShutdown
  BY <1>4 DEF WorkerTick, FlushIteration, GracefulShutdown
<1>5. CASE DeadlinePasses
  BY <1>5 DEF DeadlinePasses
<1>6. CASE ForceExit \/ FinishShutdown \/ Kill
  BY <1>6 DEF ForceExit, FinishShutdown, Kill, Exit
<1>7. CASE UNCHANGED vars
  BY <1>7 DEF vars
<1>8. QED
  BY <1>1, <1>2, <1>3, <1>4, <1>5, <1>6, <1>7 DEF Next

\* recordEvent, whether or not it has to make room.
LEMMA RecordEventInv ==
    ASSUME IInv, NEW id \in EventIds, HandleEvent(id)
    PROVE  OrderInv' /\ CountInv'
<1>. DEFINE e == [seq |-> arrivals + 1, id |-> id]
            full == Len(queue) >= MaxQueueSize
            kept == IF full THEN Tail(queue) ELSE queue
<1>a. /\ arrivals' = arrivals + 1 /\ arrivals < MaxArrivals /\ arrivals \in 0..MaxArrivals
      /\ rows' = rows /\ rowsAtBoot' = rowsAtBoot /\ refused' = refused
      /\ eventsStoredTotal' = eventsStoredTotal
  BY DEF HandleEvent, IInv, TypeInv, TypeOK, workerVars
<1>b. e \in Event /\ e.seq = arrivals + 1
  BY <1>a, PipelineAssumption, SMT DEF Event
<1>1. /\ e \in Event /\ e.seq = arrivals + 1
      /\ arrivals' = arrivals + 1 /\ arrivals \in Nat
      /\ rows' = rows /\ rowsAtBoot' = rowsAtBoot /\ refused' = refused
      /\ eventsStoredTotal' = eventsStoredTotal
  BY <1>a, <1>b, SMT
<1>2. RecordEvent(e)
  BY DEF HandleEvent
<1>3. queue \in Seq(Event) /\ Len(queue) \in Nat /\ lastOut \in Nat
  BY LenProperties, SMT DEF IInv, TypeInv, TypeOK
<1>4. /\ kept \in Seq(Event) /\ Len(kept) \in Nat /\ Increasing(kept)
      /\ Len(kept) < MaxQueueSize
      /\ \A i \in 1..Len(kept) : kept[i].seq <= arrivals /\ lastOut' < kept[i].seq
      /\ lastOut' \in Nat /\ lastOut <= lastOut' /\ lastOut' <= arrivals
      /\ Len(kept) + droppedEventsCount' = Len(queue) + droppedEventsCount
      /\ SeqsOf(queue) \cup dropped = SeqsOf(kept) \cup dropped'
  <2>1. CASE full
    <3>1. queue # <<>>
      BY <1>3, <2>1, PipelineAssumption, EmptySeq, SMT
    <3>2. /\ kept = Tail(queue) /\ lastOut' = Head(queue).seq
          /\ droppedEventsCount' = droppedEventsCount + 1
          /\ dropped' = dropped \cup {Head(queue).seq}
      BY <1>2, <2>1 DEF RecordEvent
    <3>a. SeqsOf(queue) \cup dropped = SeqsOf(kept) \cup dropped'
      BY <3>1, <3>2, <1>3, SeqsOfTail
    <3>3. kept \in Seq(Event) /\ Len(kept) = Len(queue) - 1 /\ Head(queue) = queue[1]
      BY <3>1, <3>2, <1>3, TailOfEvents
    <3>4. /\ Increasing(kept)
          /\ \A i \in 1..Len(kept) : lastOut' < kept[i].seq
      BY <3>1, <3>2, <1>3, TailIncreasing DEF IInv, OrderInv, OldestLeavesFirst
    <3>5. \A i \in 1..Len(kept) : i + 1 \in 1..Len(queue) /\ kept[i] = queue[i + 1]
      BY <3>1, <3>2, <3>3, <1>3, TailOfEvents, SMT
    <3>6. \A i \in 1..Len(kept) : kept[i].seq <= arrivals
      BY <3>5 DEF IInv, OrderInv, SeqBounds
    <3>7. 1 \in 1..Len(queue) /\ queue[1] \in Event
      BY <3>1, <1>3, TailOfEvents, SMT
    <3>8. queue[1].seq \in Nat /\ lastOut < queue[1].seq /\ queue[1].seq <= arrivals
      BY <3>7, SMT DEF IInv, OrderInv, SeqBounds, OldestLeavesFirst, Event
    <3>9. Len(queue) <= MaxQueueSize /\ droppedEventsCount \in Nat
      BY DEF IInv, CountInv, QueueBounded, TypeInv, TypeOK
    <3>10. Len(kept) \in Nat /\ Len(queue) \in Nat \ {0}
      BY <3>1, <3>3, <1>3, EmptySeq, LenProperties
    <3>11. /\ Len(kept) < MaxQueueSize /\ lastOut' \in Nat
           /\ lastOut <= lastOut' /\ lastOut' <= arrivals
           /\ Len(kept) + droppedEventsCount' = Len(queue) + droppedEventsCount
      <4>. HIDE DEF kept, full
      <4>. QED
        BY <3>2, <3>3, <3>8, <3>9, <3>10, <1>1, <1>3, PipelineAssumption, SMT
    <3>12. QED
      <4>. HIDE DEF kept, full
      <4>. QED
        BY <3>3, <3>4, <3>6, <3>10, <3>11, <3>a
  <2>2. CASE ~full
    <3>1. /\ kept = queue /\ lastOut' = lastOut
          /\ droppedEventsCount' = droppedEventsCount + 0
      BY <1>2, <2>2 DEF RecordEvent
    <3>a. dropped' = dropped
      BY <1>2, <2>2 DEF RecordEvent
    <3>2. droppedEventsCount \in Nat
      BY DEF IInv, TypeInv, TypeOK
    <3>3. /\ Increasing(queue) /\ lastOut <= arrivals
          /\ \A i \in 1..Len(queue) : queue[i].seq <= arrivals /\ lastOut < queue[i].seq
      BY DEF IInv, OrderInv, SeqBounds, OldestLeavesFirst
    <3>4. /\ kept \in Seq(Event) /\ Len(kept) \in Nat /\ Increasing(kept)
          /\ Len(kept) < MaxQueueSize
          /\ \A i \in 1..Len(kept) : kept[i].seq <= arrivals /\ lastOut' < kept[i].seq
          /\ lastOut' \in Nat /\ lastOut <= lastOut' /\ lastOut' <= arrivals
          /\ Len(kept) + droppedEventsCount' = Len(queue) + droppedEventsCount
      BY <3>1, <3>2, <3>3, <2>2, <1>3, PipelineAssumption, SMT
    <3>5. QED
      <4>. HIDE DEF kept, full
      <4>. QED
        BY <3>4, <3>1, <3>a
  <2>3. QED
    BY <2>1, <2>2
<1>. HIDE DEF full
<1>5. queue' = Append(kept, e) /\ recorded' = recorded \cup {e.seq}
  BY <1>2 DEF RecordEvent, full
<1>. HIDE DEF kept, e
<1>6. /\ Len(queue') = Len(kept) + 1
      /\ \A i \in 1..Len(kept) : queue'[i] = kept[i]
      /\ queue'[Len(kept) + 1] = e
  BY <1>1, <1>4, <1>5, AppendOfEvents
<1>7. \A i \in 1..Len(queue') : i \in 1..Len(kept) \/ i = Len(kept) + 1
  BY <1>4, <1>6, SMT
<1>8. \A i \in 1..Len(queue') : queue'[i].seq <= arrivals' /\ lastOut' < queue'[i].seq
  <2>. TAKE i \in 1..Len(queue')
  <2>1. CASE i \in 1..Len(kept)
    <3>1. kept[i] \in Event
      BY <2>1, <1>4, ElementOfSeq
    <3>2. QED
      BY <3>1, <2>1, <1>1, <1>4, <1>6, EventSeq, SMT
  <2>2. CASE i = Len(kept) + 1
    BY <2>2, <1>1, <1>4, <1>6, SMT
  <2>3. QED
    BY <2>1, <2>2, <1>7
<1>9. Increasing(queue')
  <2>1. \A i \in 1..Len(kept) : kept[i].seq < e.seq
    <3>. TAKE i \in 1..Len(kept)
    <3>1. kept[i] \in Event
      BY <1>4, ElementOfSeq
    <3>2. QED
      BY <3>1, <1>1, <1>4, EventSeq, SMT
  <2>2. QED
    BY <2>1, <1>1, <1>4, <1>5, AppendIncreasing
<1>10. \A i \in 1..Len(rows') : rows'[i].seq <= lastOut'
  <2>1. \A i \in 1..Len(rows) : rows[i] \in Event /\ rows[i].seq <= lastOut
    BY ElementOfSeq DEF IInv, OrderInv, SeqBounds, TypeInv, TypeOK
  <2>2. QED
    BY <2>1, <1>1, <1>3, <1>4, EventSeq, SMT
<1>11. OrderInv'
  <2>1. lastOut' <= arrivals'
    BY <1>1, <1>4, SMT
  <2>2. StoredInOrder'
    BY <1>1 DEF IInv, OrderInv, StoredInOrder, Increasing
  <2>3. recorded' \subseteq 1..arrivals'
    <3>1. recorded \subseteq 1..arrivals
      BY DEF IInv, OrderInv, SeqBounds
    <3>2. 1..arrivals \subseteq 1..arrivals' /\ e.seq \in 1..arrivals'
      BY <1>1, SMT
    <3>3. QED
      BY <3>1, <3>2, <1>5
  <2>4. \A n \in refused' : n <= lastOut'
    <3>1. \A n \in refused : n \in Nat /\ n <= lastOut
      BY PipelineAssumption, SMT DEF IInv, OrderInv, SeqBounds, TypeInv, TypeOK
    <3>2. QED
      BY <3>1, <1>1, <1>3, <1>4, SMT
  <2>5. QED
    BY <2>1, <2>2, <2>3, <2>4, <1>8, <1>9, <1>10
       DEF OrderInv, SeqBounds, OldestLeavesFirst, Increasing
<1>12. CountInv'
  <2>1. QueueBounded'
    BY <1>4, <1>6, PipelineAssumption, SMT DEF QueueBounded
  <2>2. RecordedIsAccounted'
    <3>1. e.seq \notin recorded /\ recorded \subseteq 1..arrivals
      BY <1>1, SMT DEF IInv, OrderInv, SeqBounds
    <3>2. /\ Cardinality(recorded) \in Nat
          /\ Cardinality(recorded') = Cardinality(recorded) + 1
      BY <3>1, <1>1, <1>5, OneMore
    <3>3. /\ Cardinality(recorded) = Len(queue) + droppedEventsCount + Cardinality(refused)
                                         + (Len(rows) - rowsAtBoot)
          /\ droppedEventsCount \in Nat /\ rowsAtBoot \in Nat /\ Len(rows) \in Nat
      BY LenProperties DEF IInv, CountInv, RecordedIsAccounted, TypeInv, TypeOK
    <3>4. /\ Len(kept) \in Nat /\ Len(queue') = Len(kept) + 1
          /\ Len(kept) + droppedEventsCount' = Len(queue) + droppedEventsCount
      BY <1>4, <1>6
    <3>5. droppedEventsCount' \in Nat
      BY <1>1, <1>2, RecordEventType DEF IInv
    <3>6. Cardinality(refused) \in Nat
      <4>1. IsFiniteSet(1..MaxArrivals)
        BY PipelineAssumption, FS_Interval, SMT
      <4>2. IsFiniteSet(refused)
        BY <4>1, FS_Subset DEF IInv, TypeInv, TypeOK
      <4>3. QED
        BY <4>2, FS_CardinalityType
    <3>7. Cardinality(recorded') = Len(queue') + droppedEventsCount' + Cardinality(refused)
                                      + (Len(rows) - rowsAtBoot)
      BY <3>2, <3>3, <3>4, <3>5, <3>6, <1>3, SMT
    <3>8. SeqsOf(queue') = SeqsOf(kept) \cup {e.seq}
      BY <1>1, <1>4, <1>5, SeqsOfAppend
    <3>9. recorded' = SeqsOf(queue') \cup dropped' \cup refused \cup (SeqsOf(rows) \cap recorded')
      <4>1. recorded = SeqsOf(queue) \cup dropped \cup refused \cup (SeqsOf(rows) \cap recorded)
        BY DEF IInv, CountInv, RecordedIsAccounted
      <4>2. SeqsOf(queue) \cup dropped = SeqsOf(kept) \cup dropped'
        BY <1>4
      <4>3. QED
        BY <4>1, <4>2, <3>8, <1>5, Zenon
    <3>10. QED
      BY <3>7, <3>9, <1>1 DEF RecordedIsAccounted
  <2>3. RowsAreCounted'
    BY <1>1 DEF IInv, CountInv, RowsAreCounted
  <2>4. QED
    BY <2>1, <2>2, <2>3 DEF CountInv
<1>13. QED
  BY <1>11, <1>12

\* An iteration of processQueue.
LEMMA ProcessOneInv ==
    ASSUME IInv, NEW dbOk \in BOOLEAN, ProcessOne(dbOk)
    PROVE  OrderInv' /\ CountInv'
<1>. DEFINE e == Head(queue)
<1>1. queue \in Seq(Event) /\ queue # <<>> /\ rows \in Seq(Event)
  BY DEF ProcessOne, IInv, TypeInv, TypeOK, BatchHasWork
<1>2. /\ e \in Event /\ e = queue[1] /\ Tail(queue) \in Seq(Event)
      /\ Len(queue) \in Nat \ {0} /\ Len(Tail(queue)) = Len(queue) - 1
      /\ \A i \in 1..Len(Tail(queue)) : Tail(queue)[i] = queue[i + 1]
  BY <1>1, TailOfEvents
<1>3. /\ queue' = Tail(queue) /\ lastOut' = e.seq
      /\ eventsStoredTotal' = eventsStoredTotal + 1
      /\ droppedEventsCount' = droppedEventsCount
      /\ recorded' = recorded /\ dropped' = dropped
      /\ arrivals' = arrivals /\ rowsAtBoot' = rowsAtBoot
      /\ InsertEvent(e, dbOk)
  BY DEF ProcessOne
<1>4. \/ rows' = rows /\ refused' = refused \cup {e.seq}
      \/ rows' = Append(rows, e) /\ refused' = refused
  BY <1>2, <1>3, InsertEventType DEF IInv
<1>5. 1 \in 1..Len(queue) /\ e.seq \in Nat /\ lastOut < e.seq /\ e.seq <= arrivals
  <2>1. 1 \in 1..Len(queue)
    BY <1>2, SMT
  <2>2. QED
    BY <2>1, <1>2, EventSeq DEF IInv, OrderInv, SeqBounds, OldestLeavesFirst
<1>. HIDE DEF e
<1>6. \A i \in 1..Len(rows) : rows[i].seq \in Nat /\ rows[i].seq < e.seq
  <2>1. \A i \in 1..Len(rows) : rows[i] \in Event /\ rows[i].seq <= lastOut
    BY <1>1, ElementOfSeq DEF IInv, OrderInv, SeqBounds
  <2>2. lastOut \in Nat
    BY SMT DEF IInv, TypeInv, TypeOK
  <2>3. QED
    BY <2>1, <2>2, <1>5, EventSeq, SMT
<1>7. StoredInOrder' /\ \A i \in 1..Len(rows') : rows'[i].seq <= lastOut'
  <2>1. CASE rows' = rows
    <3>1. StoredInOrder'
      BY <2>1 DEF IInv, OrderInv, StoredInOrder, Increasing
    <3>2. \A i \in 1..Len(rows') : rows'[i].seq <= lastOut'
      BY <2>1, <1>3, <1>5, <1>6, SMT
    <3>3. QED
      BY <3>1, <3>2
  <2>2. CASE rows' = Append(rows, e)
    <3>1. Increasing(Append(rows, e))
      BY <1>1, <1>2, <1>6, AppendIncreasing DEF IInv, OrderInv, StoredInOrder
    <3>2. /\ Len(rows) \in Nat /\ Len(rows') = Len(rows) + 1
          /\ \A i \in 1..Len(rows) : rows'[i] = rows[i]
          /\ rows'[Len(rows) + 1] = e
      BY <1>1, <1>2, <2>2, AppendOfEvents
    <3>3. \A i \in 1..Len(rows') : rows'[i].seq <= lastOut'
      BY <3>2, <1>3, <1>5, <1>6, SMT
    <3>4. QED
      BY <3>1, <3>3, <2>2 DEF StoredInOrder, Increasing
  <2>3. QED
    BY <2>1, <2>2, <1>4
<1>8. OldestLeavesFirst'
  <2>1. /\ Increasing(Tail(queue))
        /\ \A i \in 1..Len(Tail(queue)) : e.seq < Tail(queue)[i].seq
    BY <1>1, TailIncreasing DEF IInv, OrderInv, OldestLeavesFirst, e
  <2>2. QED
    BY <2>1, <1>3 DEF OldestLeavesFirst, Increasing
<1>9. SeqBounds'
  <2>1. \A i \in 1..Len(Tail(queue)) : i + 1 \in 1..Len(queue)
    BY <1>2, SMT
  <2>2. \A i \in 1..Len(queue') : queue'[i].seq <= arrivals'
    BY <2>1, <1>2, <1>3 DEF IInv, OrderInv, SeqBounds
  <2>3. recorded' \subseteq 1..arrivals'
    BY <1>3 DEF IInv, OrderInv, SeqBounds
  <2>4. \A n \in refused' : n <= lastOut'
    <3>1. \A n \in refused : n \in Nat /\ n <= lastOut
      BY PipelineAssumption, SMT DEF IInv, OrderInv, SeqBounds, TypeInv, TypeOK
    <3>2. \A n \in refused \cup {e.seq} : n <= lastOut'
      BY <3>1, <1>3, <1>5, SMT DEF IInv, TypeInv, TypeOK
    <3>3. QED
      BY <3>2, <1>4
  <2>5. QED
    BY <2>2, <2>3, <2>4, <1>3, <1>5, <1>7 DEF SeqBounds
<1>10. CountInv'
  <2>1. QueueBounded'
    BY <1>2, <1>3, PipelineAssumption, SMT DEF IInv, CountInv, QueueBounded
  <2>2. /\ Len(rows) - rowsAtBoot \in 0..eventsStoredTotal
        /\ droppedEventsCount \in Nat /\ eventsStoredTotal \in Nat /\ rowsAtBoot \in Nat
    BY DEF IInv, CountInv, RowsAreCounted, TypeInv, TypeOK
  <2>3. Len(queue') = Len(queue) - 1
    BY <1>2, <1>3
  <2>4. /\ SeqsOf(queue) = SeqsOf(queue') \cup {e.seq}
        /\ recorded = SeqsOf(queue) \cup dropped \cup refused \cup (SeqsOf(rows) \cap recorded)
        /\ Cardinality(recorded) = Len(queue) + droppedEventsCount + Cardinality(refused)
                                       + (Len(rows) - rowsAtBoot)
    BY <1>1, <1>3, SeqsOfTail DEF IInv, CountInv, RecordedIsAccounted, e
  <2>5. RecordedIsAccounted'
    <3>1. e.seq \notin refused
      <4>1. \A n \in refused : n <= lastOut /\ n \in Nat
        BY PipelineAssumption, SMT DEF IInv, OrderInv, SeqBounds, TypeInv, TypeOK
      <4>2. lastOut \in Nat
        BY SMT DEF IInv, TypeInv, TypeOK
      <4>3. QED
        BY <4>1, <4>2, <1>5, SMT
    <3>2. refused \subseteq 1..MaxArrivals /\ MaxArrivals \in Nat
      BY PipelineAssumption DEF IInv, TypeInv, TypeOK
    <3>3. /\ Cardinality(refused) \in Nat
          /\ Cardinality(refused \cup {e.seq}) = Cardinality(refused) + 1
      BY <3>1, <3>2, OneMore
    <3>4. CASE rows' = rows /\ refused' = refused \cup {e.seq}
      <4>1. Len(rows) \in Nat
        BY <1>1, LenProperties
      <4>2. Cardinality(recorded) = Len(queue') + droppedEventsCount
                                       + (Cardinality(refused) + 1) + (Len(rows) - rowsAtBoot)
        BY <2>2, <2>3, <2>4, <3>3, <4>1, <1>2, SMT
      <4>3. recorded = SeqsOf(queue') \cup dropped \cup refused' \cup (SeqsOf(rows) \cap recorded)
        BY <2>4, <3>4, Zenon
      <4>4. QED
        BY <4>2, <4>3, <3>3, <3>4, <1>3 DEF RecordedIsAccounted
    <3>5. CASE rows' = Append(rows, e) /\ refused' = refused
      <4>1. Len(rows) \in Nat /\ Len(rows') = Len(rows) + 1
        BY <1>1, <1>2, <3>5, AppendOfEvents
      <4>2. SeqsOf(rows') = SeqsOf(rows) \cup {e.seq}
        BY <1>1, <1>2, <3>5, SeqsOfAppend
      <4>3. Cardinality(recorded) = Len(queue') + droppedEventsCount
                                       + Cardinality(refused) + (Len(rows') - rowsAtBoot)
        BY <2>2, <2>3, <2>4, <3>3, <4>1, <1>2, SMT
      <4>4. recorded = SeqsOf(queue') \cup dropped \cup refused \cup (SeqsOf(rows') \cap recorded)
        BY <2>4, <4>2, Zenon
      <4>5. QED
        BY <4>3, <4>4, <3>5, <1>3 DEF RecordedIsAccounted
    <3>6. QED
      BY <3>4, <3>5, <1>4
  <2>6. Len(rows) \in Nat /\ (Len(rows') = Len(rows) \/ Len(rows') = Len(rows) + 1)
    BY <1>1, <1>2, <1>4, AppendOfEvents
  <2>7. Len(rows') - rowsAtBoot \in 0..(eventsStoredTotal + 1)
    BY <2>2, <2>6, SMT
  <2>8. QED
    BY <2>1, <2>5, <2>7, <1>3 DEF CountInv, RowsAreCounted
<1>11. QED
  BY <1>7, <1>8, <1>9, <1>10 DEF OrderInv

LEMMA InitIInv == Init => IInv
<1>. SUFFICES ASSUME Init PROVE OrderInv /\ CountInv
  BY InitTypeInv DEF IInv
<1>1. Len(queue) = 0 /\ Len(rows) = 0
  BY EmptySeq DEF Init
<1>2. 1..Len(queue) = {} /\ 1..Len(rows) = {}
  BY <1>1, SMT
<1>a. SeqsOf(queue) = {} /\ Cardinality(recorded) = 0 /\ Cardinality(refused) = 0
  BY SeqsOfNothing, FS_EmptySet DEF Init
<1>b. RecordedIsAccounted
  <2>1. Cardinality(recorded) = Len(queue) + droppedEventsCount + Cardinality(refused)
                                   + (Len(rows) - rowsAtBoot)
    BY <1>1, <1>a, SMT DEF Init
  <2>2. recorded = SeqsOf(queue) \cup dropped \cup refused \cup (SeqsOf(rows) \cap recorded)
    BY <1>a DEF Init
  <2>3. QED
    BY <2>1, <2>2 DEF RecordedIsAccounted
<1>3. OrderInv
  BY <1>2, SMT DEF Init, OrderInv, SeqBounds, StoredInOrder, OldestLeavesFirst, Increasing
<1>4. CountInv
  BY <1>1, <1>b, PipelineAssumption, SMT
     DEF Init, CountInv, QueueBounded, RowsAreCounted
<1>5. QED
  BY <1>3, <1>4

LEMMA NextIInv == IInv /\ [Next]_vars => IInv'
<1>. SUFFICES ASSUME IInv, [Next]_vars PROVE OrderInv' /\ CountInv'
  BY NextTypeInv DEF IInv
<1>1. CASE UNCHANGED dataVars
  BY <1>1, StutterData
<1>2. ASSUME NEW id \in EventIds, HandleEvent(id)
      PROVE  OrderInv' /\ CountInv'
  BY <1>2, RecordEventInv
<1>3. CASE IgnoreEvent
  <2>1. /\ UNCHANGED <<queue, rows, droppedEventsCount, eventsStoredTotal, recorded,
                      dropped, refused, lastOut, rowsAtBoot>>
        /\ arrivals' = arrivals + 1
    BY <1>3 DEF IgnoreEvent, recorderVars, workerVars, fateVars
  <2>2. arrivals \in Nat /\ lastOut \in Nat
    BY SMT DEF IInv, TypeInv, TypeOK
  <2>3. \A i \in 1..Len(queue) : queue[i].seq \in Nat /\ queue[i].seq <= arrivals
    <3>1. \A i \in 1..Len(queue) : queue[i] \in Event
      BY ElementOfSeq DEF IInv, TypeInv, TypeOK
    <3>2. QED
      BY <3>1, EventSeq DEF IInv, OrderInv, SeqBounds
  <2>4. lastOut <= arrivals' /\ \A i \in 1..Len(queue) : queue[i].seq <= arrivals'
    BY <2>1, <2>2, <2>3, SMT DEF IInv, OrderInv, SeqBounds
  <2>5. recorded' \subseteq 1..arrivals'
    <3>1. 1..arrivals \subseteq 1..arrivals'
      BY <2>1, <2>2, SMT
    <3>2. QED
      BY <3>1, <2>1 DEF IInv, OrderInv, SeqBounds
  <2>6. QED
    BY <2>1, <2>4, <2>5 DEF IInv, OrderInv, CountInv, SeqBounds, StoredInOrder,
       OldestLeavesFirst, Increasing, QueueBounded, RecordedIsAccounted, RowsAreCounted,
       SeqsOf
<1>4. ASSUME NEW dbOk \in BOOLEAN, ProcessOne(dbOk)
      PROVE  OrderInv' /\ CountInv'
  BY <1>4, ProcessOneInv
<1>5. CASE Restart
  <2>1. /\ queue' = <<>> /\ rows' = rows /\ droppedEventsCount' = 0
        /\ eventsStoredTotal' = 0 /\ lastOut' = arrivals
        /\ recorded' = {} /\ dropped' = {} /\ refused' = {}
        /\ arrivals' = arrivals /\ rowsAtBoot' = Len(rows)
    BY <1>5 DEF Restart
  <2>2. Len(queue') = 0 /\ 1..Len(queue') = {} /\ Len(rows) \in Nat
    <3>1. Len(queue') = 0 /\ Len(rows) \in Nat
      BY <2>1, EmptySeq, LenProperties DEF IInv, TypeInv, TypeOK
    <3>2. QED
      BY <3>1, SMT
  <2>3. \A i \in 1..Len(rows) : rows[i].seq <= arrivals
    <3>1. \A i \in 1..Len(rows) : rows[i] \in Event /\ rows[i].seq <= lastOut
      BY ElementOfSeq DEF IInv, OrderInv, SeqBounds, TypeInv, TypeOK
    <3>2. lastOut \in Nat /\ arrivals \in Nat /\ lastOut <= arrivals
      BY SMT DEF IInv, OrderInv, SeqBounds, TypeInv, TypeOK
    <3>3. QED
      BY <3>1, <3>2, EventSeq, SMT
  <2>4. arrivals <= arrivals
    BY SMT DEF IInv, TypeInv, TypeOK
  <2>5. OrderInv'
    BY <2>1, <2>2, <2>3, <2>4
       DEF IInv, OrderInv, SeqBounds, StoredInOrder, OldestLeavesFirst, Increasing
  <2>6. QueueBounded' /\ RowsAreCounted'
    BY <2>1, <2>2, PipelineAssumption, SMT DEF QueueBounded, RowsAreCounted
  <2>7. RecordedIsAccounted'
    <3>1. SeqsOf(queue') = {} /\ Cardinality(recorded') = 0 /\ Cardinality(refused') = 0
      BY <2>1, SeqsOfNothing, FS_EmptySet
    <3>2. Cardinality(recorded') = Len(queue') + droppedEventsCount' + Cardinality(refused')
                                      + (Len(rows') - rowsAtBoot')
      BY <2>1, <2>2, <3>1, SMT
    <3>3. recorded' = SeqsOf(queue') \cup dropped' \cup refused'
                         \cup (SeqsOf(rows') \cap recorded')
      BY <2>1, <3>1
    <3>4. QED
      BY <3>2, <3>3 DEF RecordedIsAccounted
  <2>8. QED
    BY <2>5, <2>6, <2>7 DEF CountInv
<1>6. QED
  BY <1>1, <1>2, <1>3, <1>4, <1>5, DataSteps

\* The inductive invariant.
THEOREM Invariance == Spec => []IInv
  BY InitIInv, NextIInv, PTL DEF Spec

\* Every variable keeps its type.
THEOREM TypeCorrect == Spec => []TypeOK
<1>1. TypeInv => TypeOK
  BY DEF TypeInv
<1>2. QED
  BY <1>1, TypeInvariance, PTL

\* Whatever the rate of events, recordEvent keeps the queue within its maximum.
THEOREM QueueIsBounded == Spec => []QueueBounded
<1>1. IInv => QueueBounded
  BY DEF IInv, CountInv
<1>2. QED
  BY <1>1, Invariance, PTL

\* Every event a process recorded is waiting, in the table, refused by it or
\* dropped and counted as dropped, and it is only one of these.
THEOREM Accounting == Spec => []RecordedIsAccounted
<1>1. IInv => RecordedIsAccounted
  BY DEF IInv, CountInv
<1>2. QED
  BY <1>1, Invariance, PTL

\* The table is filled in the order of delivery and with each delivery at most
\* once, across drops, failed inserts, kills and restarts.
THEOREM TableInOrder == Spec => []StoredInOrder
<1>1. IInv => StoredInOrder
  BY DEF IInv, OrderInv
<1>2. QED
  BY <1>1, Invariance, PTL

\* The queue gives up, stores or drops its oldest event only.
THEOREM FirstInFirstOut == Spec => []OldestLeavesFirst
<1>1. IInv => OldestLeavesFirst
  BY DEF IInv, OrderInv
<1>2. QED
  BY <1>1, Invariance, PTL

\* The stored counter never understates the rows a process has added.
THEOREM CounterCoversRows == Spec => []RowsAreCounted
<1>1. IInv => RowsAreCounted
  BY DEF IInv, CountInv
<1>2. QED
  BY <1>1, Invariance, PTL

\* Both books at once.
THEOREM Books == Spec => []BooksBalance
  BY Accounting, CounterCoversRows, PTL DEF BooksBalance

\* Both orders at once: from the watch through the queue to the table.
THEOREM Order == Spec => []EventsStayInOrder
  BY TableInOrder, FirstInFirstOut, PTL DEF EventsStayInOrder

------------------------------------------------------------------------------
(* A clean exit.  By the books an event recorded before the shutdown is     *)
(* kept unless it still waits, so what has to be shown is that none does    *)
(* from the end of the flush on: it ended with an empty queue, or its       *)
(* deadline passed, and later arrivals have larger numbers.                 *)

Flushed == phase = "closing" \/ exitCode = 0

NothingOldWaits == \A i \in 1..Len(queue) : calledAt < queue[i].seq

ExitInv ==
    /\ calledAt <= arrivals
    /\ exitCode # NoExit => phase = "exited"
    /\ Flushed /\ ~deadline => NothingOldWaits

LEMMA InitExitInv == Init => ExitInv
<1>. SUFFICES ASSUME Init PROVE ExitInv
  OBVIOUS
<1>1. calledAt <= arrivals
  BY SMT DEF Init
<1>2. ~Flushed /\ exitCode = NoExit
  BY SMT DEF Init, Flushed, NoExit
<1>3. QED
  BY <1>1, <1>2 DEF ExitInv

\* The queue is as it was, and so is what the invariant says of the process.
LEMMA ExitStutter ==
    ASSUME ExitInv, UNCHANGED <<queue, arrivals, calledAt, phase, exitCode>>,
           deadline => deadline'
    PROVE  ExitInv'
  BY DEF ExitInv, Flushed, NothingOldWaits

LEMMA NextExitInv == IInv /\ ExitInv /\ [Next]_vars => ExitInv'
<1>. SUFFICES ASSUME IInv, ExitInv, [Next]_vars PROVE ExitInv'
  OBVIOUS
<1>. USE DEF watcherVars, recorderVars, workerVars, processVars, historyVars, fateVars
<1>0. arrivals \in Nat /\ calledAt \in Nat /\ NoExit # 0 /\ queue \in Seq(Event)
  BY SMT DEF IInv, TypeInv, TypeOK, NoExit
<1>1. CASE StartEventSystem
  <2>1. /\ phase = "boot" /\ phase' = "starting"
        /\ UNCHANGED <<queue, arrivals, calledAt, exitCode>>
    BY <1>1 DEF StartEventSystem
  <2>2. QED
    BY <2>1, <1>0 DEF ExitInv, Flushed
<1>2. CASE WatchConnects \/ WatchConnectFails \/ WatchRejects
  <2>1. /\ phase # "exited" /\ (phase' = phase \/ phase' = "running")
        /\ UNCHANGED <<queue, arrivals, calledAt, exitCode, deadline>>
    BY <1>2 DEF WatchConnects, WatchConnectFails, WatchRejects, StartupContinues,
       LoopFree, Alive
  <2>2. QED
    BY <2>1, <1>0 DEF ExitInv, Flushed, NothingOldWaits
<1>3. CASE StreamFails \/ StreamEnds \/ ReconnectTimerFires
  <2>1. UNCHANGED <<queue, arrivals, calledAt, phase, exitCode, deadline>>
    BY <1>3 DEF StreamFails, StreamEnds, ReconnectTimerFires
  <2>2. QED
    BY <2>1, ExitStutter
<1>4. ASSUME NEW id \in EventIds, HandleEvent(id)
      PROVE  ExitInv'
  <2>. DEFINE e == [seq |-> arrivals + 1, id |-> id]
              kept == IF Len(queue) >= MaxQueueSize THEN Tail(queue) ELSE queue
  <2>1. /\ UNCHANGED <<calledAt, phase, exitCode, deadline>> /\ arrivals' = arrivals + 1
        /\ queue' = Append(kept, e) /\ arrivals < MaxArrivals
    BY <1>4 DEF HandleEvent, RecordEvent
  <2>2. e \in Event /\ e.seq = arrivals + 1
    BY <2>1, <1>0, PipelineAssumption, SMT DEF Event
  <2>. HIDE DEF e
  <2>3. /\ kept \in Seq(Event)
        /\ NothingOldWaits => \A i \in 1..Len(kept) : calledAt < kept[i].seq
    <3>1. CASE Len(queue) >= MaxQueueSize
      <4>1. queue # <<>>
        BY <3>1, PipelineAssumption, EmptySeq, SMT
      <4>2. /\ kept \in Seq(Event) /\ Len(queue) \in Nat /\ Len(kept) = Len(queue) - 1
            /\ \A i \in 1..Len(kept) : kept[i] = queue[i + 1]
        BY <4>1, <3>1, <1>0, TailOfEvents
      <4>. HIDE DEF kept
      <4>3. \A i \in 1..Len(kept) : i + 1 \in 1..Len(queue)
        BY <4>2, SMT
      <4>4. QED
        BY <4>2, <4>3 DEF NothingOldWaits
    <3>2. CASE ~(Len(queue) >= MaxQueueSize)
      BY <3>2, <1>0 DEF NothingOldWaits
    <3>3. QED
      BY <3>1, <3>2
  <2>. HIDE DEF kept
  <2>4. NothingOldWaits => NothingOldWaits'
    <3>. SUFFICES ASSUME NothingOldWaits, NEW i \in 1..Len(queue')
                  PROVE  calledAt < queue'[i].seq
      BY <2>1 DEF NothingOldWaits
    <3>1. /\ Len(kept) \in Nat /\ Len(queue') = Len(kept) + 1
          /\ \A j \in 1..Len(kept) : queue'[j] = kept[j]
          /\ queue'[Len(kept) + 1] = e
      BY <2>1, <2>2, <2>3, AppendOfEvents
    <3>2. i \in 1..Len(kept) \/ i = Len(kept) + 1
      BY <3>1, SMT
    <3>3. CASE i \in 1..Len(kept)
      BY <3>1, <3>3, <2>3
    <3>4. CASE i = Len(kept) + 1
      BY <3>1, <3>4, <2>2, <1>0, SMT DEF ExitInv
    <3>5. QED
      BY <3>2, <3>3, <3>4
  <2>5. calledAt <= arrivals'
    BY <2>1, <1>0, SMT DEF ExitInv
  <2>6. QED
    BY <2>1, <2>4, <2>5 DEF ExitInv, Flushed
<1>5. CASE IgnoreEvent
  <2>1. /\ UNCHANGED <<queue, calledAt, phase, exitCode, deadline>>
        /\ arrivals' = arrivals + 1
    BY <1>5 DEF IgnoreEvent
  <2>2. calledAt <= arrivals'
    BY <2>1, <1>0, SMT DEF ExitInv
  <2>3. QED
    BY <2>1, <2>2 DEF ExitInv, Flushed, NothingOldWaits
<1>6. CASE WorkerTick
  <2>1. UNCHANGED <<queue, arrivals, calledAt, phase, exitCode, deadline>>
    BY <1>6 DEF WorkerTick
  <2>2. QED
    BY <2>1, ExitStutter
<1>7. ASSUME NEW dbOk \in BOOLEAN, ProcessOne(dbOk)
      PROVE  ExitInv'
  <2>1. /\ UNCHANGED <<arrivals, calledAt, phase, exitCode, deadline>>
        /\ queue' = Tail(queue) /\ queue # <<>>
    BY <1>7 DEF ProcessOne, IInv, TypeInv, BatchHasWork
  <2>2. /\ Len(queue) \in Nat /\ Len(queue') = Len(queue) - 1
        /\ \A i \in 1..Len(queue') : queue'[i] = queue[i + 1]
    BY <2>1, <1>0, TailOfEvents
  <2>3. \A i \in 1..Len(queue') : i + 1 \in 1..Len(queue)
    BY <2>2, SMT
  <2>4. NothingOldWaits => NothingOldWaits'
    BY <2>1, <2>2, <2>3 DEF NothingOldWaits
  <2>5. QED
    BY <2>1, <2>4 DEF ExitInv, Flushed
<1>8. CASE FlushIteration
  <2>1. /\ phase = "flushing" /\ UNCHANGED <<queue, arrivals, calledAt, exitCode, deadline>>
        /\ phase' = phase \/ (phase' = "closing" /\ (queue = <<>> \/ deadline))
    BY <1>8 DEF FlushIteration
  <2>2. queue = <<>> => NothingOldWaits'
    <3>1. queue = <<>> => 1..Len(queue) = {}
      BY EmptySeq, SMT
    <3>2. QED
      BY <3>1, <2>1 DEF NothingOldWaits
  <2>3. QED
    BY <2>1, <2>2 DEF ExitInv, Flushed, NothingOldWaits
<1>9. CASE GracefulShutdown
  <2>1. /\ phase = "running" /\ calledAt' = arrivals
        /\ UNCHANGED <<queue, arrivals, exitCode, deadline>>
        /\ phase' = "flushing" \/ (phase' = "closing" /\ queue = <<>>)
    BY <1>9 DEF GracefulShutdown
  <2>2. queue = <<>> => NothingOldWaits'
    <3>1. queue = <<>> => 1..Len(queue) = {}
      BY EmptySeq, SMT
    <3>2. QED
      BY <3>1, <2>1 DEF NothingOldWaits
  <2>3. calledAt' <= arrivals'
    BY <2>1, <1>0, SMT
  <2>4. exitCode' = NoExit
    BY <2>1 DEF ExitInv
  <2>5. QED
    BY <2>1, <2>2, <2>3, <2>4, <1>0 DEF ExitInv, Flushed
<1>10. CASE DeadlinePasses
  <2>1. UNCHANGED <<queue, arrivals, calledAt, phase, exitCode>> /\ deadline'
    BY <1>10 DEF DeadlinePasses
  <2>2. QED
    BY <2>1, ExitStutter
<1>11. CASE FinishShutdown
  <2>1. /\ phase = "closing" /\ phase' = "exited"
        /\ UNCHANGED <<queue, arrivals, calledAt, deadline>>
    BY <1>11 DEF FinishShutdown, Exit
  <2>2. QED
    BY <2>1 DEF ExitInv, Flushed, NothingOldWaits
<1>12. CASE ForceExit \/ Kill
  <2>1. /\ phase' = "exited" /\ exitCode' # 0
        /\ UNCHANGED <<queue, arrivals, calledAt, deadline>>
    BY <1>12, SMT DEF ForceExit, Kill, Exit, Killed
  <2>2. QED
    BY <2>1 DEF ExitInv, Flushed
<1>13. CASE Restart
  <2>1. phase' = "boot" /\ exitCode' = NoExit /\ calledAt' = 0 /\ arrivals' = arrivals
    BY <1>13 DEF Restart
  <2>2. calledAt' <= arrivals'
    BY <2>1, <1>0, SMT
  <2>3. QED
    BY <2>1, <2>2, <1>0 DEF ExitInv, Flushed
<1>14. CASE UNCHANGED vars
  <2>1. UNCHANGED <<queue, arrivals, calledAt, phase, exitCode, deadline>>
    BY <1>14 DEF vars
  <2>2. QED
    BY <2>1, ExitStutter
<1>15. QED
  BY <1>1, <1>2, <1>3, <1>4, <1>5, <1>6, <1>7, <1>8, <1>9, <1>10, <1>11, <1>12, <1>13,
     <1>14 DEF Next

\* What was recorded when gracefulShutdown began has reached the table, or been
\* refused by it or pushed out by later events, once the process has exited
\* with code 0 within its 5 s.
THEOREM CleanExit == Spec => []CleanExitKeepsEvents
<1>1. Spec => []ExitInv
  BY InitExitInv, NextExitInv, Invariance, PTL DEF Spec
<1>2. IInv /\ ExitInv => CleanExitKeepsEvents
  <2>. SUFFICES ASSUME IInv, ExitInv, exitCode = 0, ~deadline,
                       NEW n \in recorded, n <= calledAt
                PROVE  n \in SeqsOf(rows) \cup refused \cup dropped
    BY DEF CleanExitKeepsEvents
  <2>1. recorded = SeqsOf(queue) \cup dropped \cup refused \cup (SeqsOf(rows) \cap recorded)
    BY DEF IInv, CountInv, RecordedIsAccounted
  <2>2. n \notin SeqsOf(queue)
    <3>1. \A i \in 1..Len(queue) : calledAt < queue[i].seq
      BY DEF ExitInv, Flushed, NothingOldWaits
    <3>2. n \in Nat /\ calledAt \in Nat
      BY PipelineAssumption, SMT DEF IInv, TypeInv, TypeOK
    <3>3. \A i \in 1..Len(queue) : queue[i].seq \in Nat
      BY ElementOfSeq, EventSeq DEF IInv, TypeInv, TypeOK
    <3>4. \A i \in 1..Len(queue) : queue[i].seq # n
      BY <3>1, <3>2, <3>3, SMT
    <3>5. QED
      BY <3>4 DEF SeqsOf
  <2>3. QED
    BY <2>1, <2>2
<1>3. QED
  BY <1>1, <1>2, Invariance, PTL

------------------------------------------------------------------------------
(* The pipeline implements the lossy FIFO.                                 *)

\* What the steps that neither move an event nor end the process leave alone.
LEMMA QuietSteps ==
    ASSUME [Next]_vars
    PROVE  \/ /\ queue' = queue /\ rows' = rows
              /\ (phase' = "exited" <=> phase = "exited")
           \/ \E id \in EventIds : HandleEvent(id)
           \/ \E dbOk \in BOOLEAN : ProcessOne(dbOk)
           \/ ForceExit \/ FinishShutdown \/ Kill
           \/ Restart
<1>. USE DEF watcherVars, recorderVars, workerVars, processVars, historyVars, fateVars
<1>1. CASE StartEventSystem
  BY <1>1 DEF StartEventSystem
<1>2. CASE WatchConnects \/ WatchConnectFails \/ WatchRejects
  BY <1>2 DEF WatchConnects, WatchConnectFails, WatchRejects, StartupContinues
<1>3. CASE StreamFails \/ StreamEnds \/ ReconnectTimerFires
  BY <1>3 DEF StreamFails, StreamEnds, ReconnectTimerFires
<1>4. CASE IgnoreEvent
  BY <1>4 DEF IgnoreEvent
<1>5. CASE WorkerTick
  BY <1>5 DEF WorkerTick
<1>6. CASE FlushIteration
  BY <1>6 DEF FlushIteration
<1>7. CASE GracefulShutdown
  BY <1>7 DEF GracefulShutdown
<1>8. CASE DeadlinePasses
  BY <1>8 DEF DeadlinePasses
<1>9. CASE UNCHANGED vars
  BY <1>9 DEF vars
<1>10. QED
  BY <1>1, <1>2, <1>3, <1>4, <1>5, <1>6, <1>7, <1>8, <1>9 DEF Next

LEMMA StepSimulation ==
    ASSUME IInv, [Next]_vars
    PROVE  [Fifo!FifoNext]_(Fifo!fifoVars)
<1>. USE DEF Fifo!fifoVars
<1>1. CASE queue' = queue /\ rows' = rows /\ (phase' = "exited" <=> phase = "exited")
  BY <1>1 DEF Waiting, Alive
<1>2. ASSUME NEW id \in EventIds, HandleEvent(id)
      PROVE  Fifo!FifoNext
  <2>. DEFINE e == [seq |-> arrivals + 1, id |-> id]
  <2>1. Waiting = queue /\ Waiting' = queue' /\ rows' = rows /\ RecordEvent(e)
    BY <1>2 DEF HandleEvent, LoopFree, Alive, Waiting, processVars
  <2>2. e \in Event
    <3>1. arrivals < MaxArrivals /\ arrivals \in 0..MaxArrivals
      BY <1>2 DEF HandleEvent, IInv, TypeInv, TypeOK
    <3>2. QED
      BY <3>1, PipelineAssumption, SMT DEF Event
  <2>. HIDE DEF e
  <2>3. Len(queue) \in Nat /\ Len(queue) <= MaxQueueSize
    BY LenProperties DEF IInv, CountInv, QueueBounded, TypeInv, TypeOK
  <2>4. CASE Len(queue) >= MaxQueueSize
    <3>1. queue' = Append(Tail(queue), e)
      BY <2>1, <2>4 DEF RecordEvent
    <3>2. Len(queue) = MaxQueueSize
      BY <2>3, <2>4, PipelineAssumption, SMT
    <3>3. Fifo!OfferFull(e)
      BY <2>1, <3>1, <3>2 DEF Fifo!OfferFull
    <3>4. QED
      BY <2>2, <3>3 DEF Fifo!FifoNext
  <2>5. CASE ~(Len(queue) >= MaxQueueSize)
    <3>1. queue' = Append(queue, e)
      BY <2>1, <2>5 DEF RecordEvent
    <3>2. Len(queue) < MaxQueueSize
      BY <2>3, <2>5, PipelineAssumption, SMT
    <3>3. Fifo!Offer(e)
      BY <2>1, <3>1, <3>2 DEF Fifo!Offer
    <3>4. QED
      BY <2>2, <3>3 DEF Fifo!FifoNext
  <2>6. QED
    BY <2>4, <2>5
<1>3. ASSUME NEW dbOk \in BOOLEAN, ProcessOne(dbOk)
      PROVE  Fifo!FifoNext
  <2>1. /\ Waiting = queue /\ Waiting' = queue' /\ queue' = Tail(queue)
        /\ InsertEvent(Head(queue), dbOk)
    BY <1>3 DEF ProcessOne, Alive, Waiting, processVars
  <2>2. queue # <<>>
    BY <1>3 DEF ProcessOne, IInv, TypeInv, BatchHasWork
  <2>3. rows' = Append(rows, Head(queue)) \/ rows' = rows
    BY <2>1 DEF InsertEvent
  <2>4. Fifo!Persist \/ Fifo!Discard
    BY <2>1, <2>2, <2>3 DEF Fifo!Persist, Fifo!Discard
  <2>5. QED
    BY <2>4 DEF Fifo!FifoNext
<1>4. CASE ForceExit \/ FinishShutdown \/ Kill
  <2>1. phase' = "exited" /\ rows' = rows
    BY <1>4 DEF ForceExit, FinishShutdown, Kill, Exit
  <2>2. Fifo!Vanish
    BY <2>1 DEF Fifo!Vanish, Waiting, Alive
  <2>3. QED
    BY <2>2 DEF Fifo!FifoNext
<1>5. CASE Restart
  <2>1. phase = "exited" /\ phase' = "boot" /\ queue' = <<>> /\ rows' = rows
    BY <1>5 DEF Restart
  <2>2. QED
    BY <2>1 DEF Waiting, Alive
<1>6. QED
  BY <1>1, <1>2, <1>3, <1>4, <1>5, QuietSteps

\* The pipeline is an in-order, at-most-once, bounded and lossy transfer.
THEOREM ImplementsLossyFifo == Spec => FifoRefinement
<1>1. Init => Fifo!FifoInit
  BY DEF Init, Fifo!FifoInit, Waiting, Alive
<1>2. IInv /\ [Next]_vars => [Fifo!FifoNext]_(Fifo!fifoVars)
  BY StepSimulation
<1>3. QED
  BY <1>1, <1>2, Invariance, PTL DEF Spec, Fifo!FifoSpec, FifoRefinement
==============================================================================
