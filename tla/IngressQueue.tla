---------------------------- MODULE IngressQueue ----------------------------
(***************************************************************************)
(* DynamicMPSCQueue (src/src/events/MPSCQueue.h): the bounded multi-       *)
(* producer single-consumer ring behind every ingress lane of the driver.  *)
(* One action per atomic access, so any interleaving of the producers and  *)
(* the consumer between two accesses is a behaviour.  TryPush(v) is        *)
(* TryPushBatch(<<v>>): the two loops load, compare and publish alike.     *)
(*                                                                         *)
(* Positions are 64-bit counters that no run of the program wraps, so they *)
(* are naturals here.  A cell keeps its sequence relative to its index, as *)
(* in the code, which is what makes zeroed memory an empty ring.           *)
(***************************************************************************)
EXTENDS Integers, Sequences

CONSTANTS Producers, Events, Capacity,
          Batches,    \* the batches a producer may push
          MaxCalls,   \* bound: push calls per producer
          NoEvent     \* the zeroed memory of a cell never written

ASSUME CapacityAssumption == Capacity \in Nat /\ Capacity >= 2
ASSUME BatchAssumption == Batches \subseteq Seq(Events) \ {<<>>}
ASSUME CallAssumption == MaxCalls \in Nat

VARIABLES enqueue, dequeue,     \* enqueue_, dequeue_
          sequence, value,      \* the cells
          pc, batch, position, scanned,  \* a producer inside TryPushBatch
          consumer, taken,      \* the consumer inside TryPop, and its `value`
          calls,                \* calls started by each producer
          accepted, delivered   \* history: reserved events, returned events

ring == <<enqueue, dequeue, sequence, value>>
producerVars == <<pc, batch, position, scanned>>
consumerVars == <<consumer, taken>>
history == <<accepted, delivered>>
vars == <<ring, producerVars, consumerVars, calls, history>>

Cells == 0 .. Capacity - 1
CellOf(pos) == pos % Capacity
\* The cell's sequence as the algorithm compares it.
SequenceAt(pos) == sequence[CellOf(pos)] + CellOf(pos)

Init ==
    /\ enqueue = 0 /\ dequeue = 0
    /\ sequence = [c \in Cells |-> 0]
    /\ value = [c \in Cells |-> NoEvent]
    /\ pc = [p \in Producers |-> "idle"]
    /\ batch = [p \in Producers |-> <<>>]
    /\ position = [p \in Producers |-> 0]
    /\ scanned = [p \in Producers |-> 0]
    /\ consumer = "idle" /\ taken = NoEvent
    /\ calls = [p \in Producers |-> 0]
    /\ accepted = <<>> /\ delivered = <<>>

-----------------------------------------------------------------------------
(* Producers: TryPush / TryPushBatch.                                      *)

Goto(p, label) == pc' = [pc EXCEPT ![p] = label]
Scan(p, pos) ==
    /\ Goto(p, "scan")
    /\ position' = [position EXCEPT ![p] = pos]
    /\ scanned' = [scanned EXCEPT ![p] = 0]

\* A call that cannot fit at all returns false before it loads anything.
CallOversized(p) ==
    /\ pc[p] = "idle" /\ calls[p] < MaxCalls
    /\ \E b \in Batches : Len(b) > Capacity
    /\ calls' = [calls EXCEPT ![p] = @ + 1]
    /\ UNCHANGED <<ring, producerVars, consumerVars, history>>

Call(p) ==
    /\ pc[p] = "idle" /\ calls[p] < MaxCalls
    /\ \E b \in Batches : Len(b) <= Capacity /\ batch' = [batch EXCEPT ![p] = b]
    /\ calls' = [calls EXCEPT ![p] = @ + 1]
    /\ Goto(p, "load")
    /\ UNCHANGED <<ring, position, scanned, consumerVars, history>>

LoadEnqueue(p) ==
    /\ pc[p] = "load"
    /\ Scan(p, enqueue)
    /\ UNCHANGED <<ring, batch, consumerVars, calls, history>>

\* One iteration of the scan: the cell is free for this lap, still occupied
\* by the previous one (full), or already past it (somebody else enqueued).
\* Mutant: only the first cell of a batch is looked at.
CellFreeFirstOnly(p) ==
    /\ pc[p] = "scan"
    /\ SequenceAt(position[p]) = position[p]
    /\ scanned' = [scanned EXCEPT ![p] = Len(batch[p])]
    /\ Goto(p, "claim")
    /\ UNCHANGED <<ring, batch, position, consumerVars, calls, history>>

CellFree(p) ==
    /\ pc[p] = "scan"
    /\ SequenceAt(position[p] + scanned[p]) = position[p] + scanned[p]
    /\ scanned' = [scanned EXCEPT ![p] = @ + 1]
    /\ Goto(p, IF scanned[p] + 1 = Len(batch[p]) THEN "claim" ELSE "scan")
    /\ UNCHANGED <<ring, batch, position, consumerVars, calls, history>>

Reject(p) ==
    /\ pc[p] = "scan"
    /\ SequenceAt(position[p] + scanned[p]) < position[p] + scanned[p]
    /\ Goto(p, "idle")
    /\ UNCHANGED <<ring, batch, position, scanned, consumerVars, calls, history>>

CellPassed(p) ==
    /\ pc[p] = "scan"
    /\ SequenceAt(position[p] + scanned[p]) > position[p] + scanned[p]
    /\ Goto(p, "load")
    /\ UNCHANGED <<ring, batch, position, scanned, consumerVars, calls, history>>

\* compare_exchange_weak on enqueue_: it reserves the whole batch ...
\* Mutant: enqueue_ is stored without comparing it first.
ClaimByStore(p) ==
    /\ pc[p] = "claim"
    /\ enqueue' = position[p] + Len(batch[p])
    /\ accepted' = accepted \o batch[p]
    /\ scanned' = [scanned EXCEPT ![p] = 0]
    /\ Goto(p, "write")
    /\ UNCHANGED <<dequeue, sequence, value, batch, position, consumerVars,
                   calls, delivered>>

Claim(p) ==
    /\ pc[p] = "claim" /\ enqueue = position[p]
    /\ enqueue' = enqueue + Len(batch[p])
    /\ accepted' = accepted \o batch[p]
    /\ scanned' = [scanned EXCEPT ![p] = 0]
    /\ Goto(p, "write")
    /\ UNCHANGED <<dequeue, sequence, value, batch, position, consumerVars,
                   calls, delivered>>

\* ... or fails, for real or spuriously, leaving the current enqueue_ in position.
ClaimFails(p) ==
    /\ pc[p] = "claim"
    /\ Scan(p, enqueue)
    /\ UNCHANGED <<ring, batch, consumerVars, calls, history>>

WriteValue(p) ==
    /\ pc[p] = "write"
    /\ value' = [value EXCEPT ![CellOf(position[p] + scanned[p])] =
                                  batch[p][scanned[p] + 1]]
    /\ Goto(p, "publish")
    /\ UNCHANGED <<enqueue, dequeue, sequence, batch, position, scanned,
                   consumerVars, calls, history>>

\* Mutant: the published sequence lacks its + 1.
PublishStale(p) ==
    LET pos == position[p] + scanned[p] IN
    /\ pc[p] = "publish"
    /\ sequence' = [sequence EXCEPT ![CellOf(pos)] = pos - CellOf(pos)]
    /\ scanned' = [scanned EXCEPT ![p] = @ + 1]
    /\ Goto(p, IF scanned[p] + 1 = Len(batch[p]) THEN "idle" ELSE "write")
    /\ UNCHANGED <<enqueue, dequeue, value, batch, position, consumerVars,
                   calls, history>>

Publish(p) ==
    LET pos == position[p] + scanned[p] IN
    /\ pc[p] = "publish"
    /\ sequence' = [sequence EXCEPT ![CellOf(pos)] = pos + 1 - CellOf(pos)]
    /\ scanned' = [scanned EXCEPT ![p] = @ + 1]
    /\ Goto(p, IF scanned[p] + 1 = Len(batch[p]) THEN "idle" ELSE "write")
    /\ UNCHANGED <<enqueue, dequeue, value, batch, position, consumerVars,
                   calls, history>>

-----------------------------------------------------------------------------
(* The consumer: TryPop.  A pop that finds its cell unpublished returns     *)
(* false and changes nothing.                                              *)

PopFails ==
    /\ consumer = "idle"
    /\ SequenceAt(dequeue) # dequeue + 1
    /\ UNCHANGED vars

PopStart ==
    /\ consumer = "idle"
    /\ SequenceAt(dequeue) = dequeue + 1
    /\ consumer' = "read"
    /\ UNCHANGED <<ring, producerVars, taken, calls, history>>

PopRead ==
    /\ consumer = "read"
    /\ taken' = value[CellOf(dequeue)]
    /\ consumer' = "release"
    /\ UNCHANGED <<ring, producerVars, calls, history>>

\* Mutant: the cell is released for the next position, not the next lap.
PopReleaseNext ==
    /\ consumer = "release"
    /\ sequence' = [sequence EXCEPT ![CellOf(dequeue)] = dequeue + 1 - CellOf(dequeue)]
    /\ consumer' = "advance"
    /\ UNCHANGED <<enqueue, dequeue, value, producerVars, taken, calls, history>>

PopRelease ==
    /\ consumer = "release"
    /\ sequence' = [sequence EXCEPT ![CellOf(dequeue)] =
                                        dequeue + Capacity - CellOf(dequeue)]
    /\ consumer' = "advance"
    /\ UNCHANGED <<enqueue, dequeue, value, producerVars, taken, calls, history>>

\* Mutant: dequeue_ moves the wrong way.
PopAdvanceBack ==
    /\ consumer = "advance"
    /\ dequeue' = dequeue - 1
    /\ delivered' = Append(delivered, taken)
    /\ consumer' = "idle"
    /\ UNCHANGED <<enqueue, sequence, value, producerVars, taken, calls, accepted>>

PopAdvance ==
    /\ consumer = "advance"
    /\ dequeue' = dequeue + 1
    /\ delivered' = Append(delivered, taken)
    /\ consumer' = "idle"
    /\ UNCHANGED <<enqueue, sequence, value, producerVars, taken, calls, accepted>>

-----------------------------------------------------------------------------
InPush(p) == \/ LoadEnqueue(p) \/ CellFree(p) \/ Reject(p) \/ CellPassed(p)
             \/ Claim(p) \/ ClaimFails(p) \/ WriteValue(p) \/ Publish(p)
Pop == PopStart \/ PopRead \/ PopRelease \/ PopAdvance

Next == \/ \E p \in Producers : Call(p) \/ CallOversized(p) \/ InPush(p)
        \/ PopFails \/ Pop

Spec == Init /\ [][Next]_vars

\* A thread that reserved cells keeps running until it published them (nothing
\* in that stretch blocks), and the compiler thread keeps popping.
FairSpec == /\ Spec
            /\ \A p \in Producers : WF_vars(WriteValue(p) \/ Publish(p))
            /\ WF_vars(Pop)

-----------------------------------------------------------------------------
(* Properties.                                                             *)

\* Cells released so far: a release precedes the store to dequeue_.
Released == dequeue + (IF consumer = "advance" THEN 1 ELSE 0)
\* The positions a producer has reserved and not yet published.
Owned(p) == IF pc[p] \in {"write", "publish"}
            THEN position[p] + scanned[p] .. position[p] + Len(batch[p]) - 1
            ELSE {}

TypeOK ==
    /\ enqueue \in Nat /\ dequeue \in Nat
    /\ sequence \in [Cells -> Int]
    /\ value \in [Cells -> Events \cup {NoEvent}]
    /\ pc \in [Producers -> {"idle", "load", "scan", "claim", "write", "publish"}]
    /\ batch \in [Producers -> Seq(Events)]
    /\ position \in [Producers -> Nat]
    /\ scanned \in [Producers -> Nat]
    /\ consumer \in {"idle", "read", "release", "advance"}
    /\ taken \in Events \cup {NoEvent}
    /\ calls \in [Producers -> Nat]
    /\ accepted \in Seq(Events)
    /\ delivered \in Seq(Events \cup {NoEvent})

\* A reserved cell belongs to one thread at a time: no two producers own cells
\* that coincide, and no producer owns a cell the consumer has not released.
\* (Two producers racing on enqueue_, or a lap of the ring overtaking a slow
\* reader, would break it.)
ExclusiveCells ==
    /\ \A p, q \in Producers : \A a \in Owned(p), b \in Owned(q) :
          CellOf(a) = CellOf(b) => p = q /\ a = b
    /\ \A p \in Producers : \A a \in Owned(p) :
          consumer \in {"read", "release"} => CellOf(a) # CellOf(dequeue)

\* The event the consumer copies out is the one reserved at that position:
\* never a cell of the previous lap and never one half written.
TakesReserved ==
    consumer \in {"release", "advance"} =>
        /\ dequeue < enqueue
        /\ taken = accepted[dequeue + 1]

\* A push is refused only while the ring really has no room for the batch:
\* with the cells reserved so far it would exceed the capacity.
RefusedOnlyWhenFull ==
    [][\A p \in Producers :
          Reject(p) => enqueue + Len(batch[p]) > Released + Capacity]_vars

\* Every reserved event is returned by some later pop: a slow producer delays
\* those behind it (the consumer never skips a cell) but loses none.
ReservedIsDelivered ==
    \A n \in 1 .. 2 * Capacity : (enqueue >= n) ~> (Len(delivered) >= n)

\* The ring implements the bounded FIFO: a batch is accepted when its cells are
\* reserved, and an event delivered when its cell is released.
Fifo == INSTANCE BoundedFifo WITH
    delivered <- IF consumer = "advance" THEN Append(delivered, taken) ELSE delivered
ImplementsFifo == Fifo!FifoSpec
=============================================================================
