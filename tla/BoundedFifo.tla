---------------------------- MODULE BoundedFifo ----------------------------
(***************************************************************************)
(* What an ingress queue of the driver promises, whatever its algorithm:   *)
(* the batches it accepted come out complete, once and in order, and no    *)
(* more than Capacity accepted events are ever undelivered.  The queue is  *)
(* described by its two histories.                                         *)
(***************************************************************************)
EXTENDS Naturals, Sequences

CONSTANTS Capacity,   \* number of cells, the rounded value of ConfigureCapacity
          Batches     \* the sequences of events that are pushed together

VARIABLES accepted,   \* every event accepted so far, in queue order
          delivered   \* every event handed to the consumer so far

fifoVars == <<accepted, delivered>>

FifoInit == accepted = <<>> /\ delivered = <<>>

\* All of batch b, or nothing.
Accept(b) ==
    /\ Len(accepted) + Len(b) <= Len(delivered) + Capacity
    /\ accepted' = accepted \o b
    /\ UNCHANGED delivered

Deliver ==
    /\ Len(delivered) < Len(accepted)
    /\ delivered' = Append(delivered, accepted[Len(delivered) + 1])
    /\ UNCHANGED accepted

FifoNext == Deliver \/ \E b \in Batches : Accept(b)

FifoSpec == FifoInit /\ [][FifoNext]_fifoVars
=============================================================================
