------------------------------ MODULE LossyFifo ------------------------------
(***************************************************************************)
(* What the event pipeline promises to whoever reads the events table: an  *)
(* in-order, at-most-once, bounded and lossy transfer.  An event offered   *)
(* to the pipeline waits in a bounded buffer; when the buffer is full the  *)
(* oldest waiting event makes room; the head of the buffer is either       *)
(* persisted or discarded; the whole buffer is lost when the process ends. *)
(* EventPipeline implements this specification.                            *)
(***************************************************************************)
EXTENDS Naturals, Sequences

CONSTANTS Event,      \* the events that can be offered
          Capacity    \* the number of events that can wait

VARIABLES pending,    \* the events that wait, oldest first
          persisted   \* the events in the table, in the order of insertion

fifoVars == <<pending, persisted>>

FifoInit == pending = <<>> /\ persisted = <<>>

\* An event is offered while there is room.
Offer(e) ==
    /\ Len(pending) < Capacity
    /\ pending' = Append(pending, e)
    /\ UNCHANGED persisted

\* An event is offered when there is none: the oldest one makes room.
OfferFull(e) ==
    /\ Len(pending) = Capacity
    /\ pending' = Append(Tail(pending), e)
    /\ UNCHANGED persisted

\* The oldest waiting event reaches the table.
Persist ==
    /\ pending # <<>>
    /\ persisted' = Append(persisted, Head(pending))
    /\ pending' = Tail(pending)

\* The oldest waiting event is given up.
Discard ==
    /\ pending # <<>>
    /\ pending' = Tail(pending)
    /\ UNCHANGED persisted

\* The process ends with events waiting.
Vanish == pending' = <<>> /\ UNCHANGED persisted

FifoNext ==
    \/ \E e \in Event : Offer(e) \/ OfferFull(e)
    \/ Persist
    \/ Discard
    \/ Vanish

FifoSpec == FifoInit /\ [][FifoNext]_fifoVars
==============================================================================
