------------------------- MODULE IngressQueueProofs -------------------------
(***************************************************************************)
(* Safety of the lane queue for every number of producers, every capacity  *)
(* of at least two cells and every set of batches, and that it implements  *)
(* BoundedFifo.                                                            *)
(*                                                                         *)
(* The argument is about the window of the Capacity positions that follow  *)
(* the released ones: each cell is that of exactly one of them, and its    *)
(* sequence tells whether that position is still to be filled.             *)
(***************************************************************************)
EXTENDS IngressQueue, RingArithmetic, TLAPS

Window == Released .. Released + Capacity - 1

\* Reservations stay within one lap of what the consumer released.
PositionsInv ==
    /\ Released <= enqueue /\ enqueue <= Released + Capacity
    /\ consumer = "advance" => dequeue < enqueue
    /\ Len(accepted) = enqueue
    /\ Len(delivered) = dequeue

\* A cell of the window is free (or reserved and unpublished), or published
\* and holding the event reserved there.
CellsInv ==
    \A q \in Window :
        \/ SequenceAt(q) = q
        \/ /\ SequenceAt(q) = q + 1
           /\ q < enqueue
           /\ value[CellOf(q)] = accepted[q + 1]

\* A producer's reserved positions are unpublished and its own.
OwnersInv ==
    /\ \A p \in Producers : \A q \in Owned(p) :
          /\ q \in Released .. enqueue - 1
          /\ SequenceAt(q) = q
          /\ batch[p][q - position[p] + 1] = accepted[q + 1]
    /\ \A p, r \in Producers : \A q \in Owned(p) : q \in Owned(r) => p = r
    /\ \A p \in Producers : pc[p] = "publish" =>
          value[CellOf(position[p] + scanned[p])] = batch[p][scanned[p] + 1]

\* What a producer knows between two accesses.
ProducerInv(p) ==
    /\ pc[p] # "idle" => batch[p] \in Batches /\ Len(batch[p]) \in 1 .. Capacity
    /\ pc[p] \in {"scan", "claim"} =>
          /\ position[p] <= enqueue
          /\ position[p] + scanned[p] <= Released + Capacity
    /\ pc[p] \in {"scan", "write", "publish"} => scanned[p] < Len(batch[p])
    /\ pc[p] = "claim" => scanned[p] = Len(batch[p])
    /\ pc[p] \in {"write", "publish"} => position[p] + Len(batch[p]) <= enqueue
ProducersInv == \A p \in Producers : ProducerInv(p)

ConsumerInv ==
    /\ consumer \in {"read", "release"} => SequenceAt(dequeue) = dequeue + 1
    /\ consumer \in {"release", "advance"} => taken = accepted[dequeue + 1]

IInv == /\ TypeOK /\ PositionsInv /\ CellsInv /\ OwnersInv
        /\ ProducersInv /\ ConsumerInv
-----------------------------------------------------------------------------
\* The facts about positions and cells every step rests on.
LEMMA CellFacts ==
    /\ \A a \in Nat : /\ CellOf(a) \in Cells /\ CellOf(a) \in Nat
                       /\ CellOf(a + Capacity) = CellOf(a)
    /\ \A a, b \in Nat : a < b /\ b < a + Capacity => CellOf(a) # CellOf(b)
    /\ \A R \in Nat, c \in Cells : \E q \in R .. R + Capacity - 1 : CellOf(q) = c
<1>1. Capacity \in Nat /\ Capacity >= 1  BY CapacityAssumption
<1>2. ASSUME NEW a \in Nat
      PROVE  /\ CellOf(a) \in Cells /\ CellOf(a) \in Nat
             /\ CellOf(a + Capacity) = CellOf(a)
  <2>1. a % Capacity \in 0 .. Capacity - 1  BY <1>1, ModRange
  <2>2. (a + Capacity) % Capacity = a % Capacity  BY <1>1, ModPeriod
  <2> QED BY <1>1, <2>1, <2>2 DEF CellOf, Cells
<1>3. ASSUME NEW a \in Nat, NEW b \in Nat, a < b, b < a + Capacity
      PROVE  CellOf(a) # CellOf(b)
  BY <1>1, <1>3, ModDistinct DEF CellOf
<1>4. ASSUME NEW R \in Nat, NEW c \in Cells
      PROVE  \E q \in R .. R + Capacity - 1 : CellOf(q) = c
  BY <1>1, ModWindow DEF CellOf, Cells
<1> QED BY <1>2, <1>3, <1>4

LEMMA InitInvariant == Init => IInv
<1> SUFFICES ASSUME Init PROVE IInv  OBVIOUS
<1> USE CapacityAssumption
<1>1. TypeOK  BY DEF Init, TypeOK, Cells
<1>2. PositionsInv  BY DEF Init, PositionsInv, Released
<1>3. CellsInv
  <2> SUFFICES ASSUME NEW q \in Window PROVE SequenceAt(q) = q  BY DEF CellsInv
  <2>1. q \in 0 .. Capacity - 1  BY DEF Init, Window, Released
  <2>2. CellOf(q) = q  BY <2>1, ModSmall DEF CellOf
  <2> QED BY <2>1, <2>2 DEF Init, SequenceAt, Cells
<1>4. OwnersInv    BY DEF Init, OwnersInv, Owned
<1>5. ProducersInv BY DEF Init, ProducersInv, ProducerInv
<1>6. ConsumerInv  BY DEF Init, ConsumerInv
<1> QED BY <1>1, <1>2, <1>3, <1>4, <1>5, <1>6 DEF IInv

\* Every step keeps the types.
LEMMA NextTypeOK == IInv /\ [Next]_vars => TypeOK'
<1> SUFFICES ASSUME TypeOK, ProducersInv, [Next]_vars PROVE TypeOK'  BY DEF IInv
<1> USE DEF TypeOK, ring, producerVars, consumerVars, history, vars
<1>1. ASSUME NEW p \in Producers, Call(p) PROVE TypeOK'
  BY <1>1, BatchAssumption DEF Call, Goto
<1>12. ASSUME NEW p \in Producers, CallOversized(p) PROVE TypeOK'
  BY <1>12 DEF CallOversized
<1>2. ASSUME NEW p \in Producers, LoadEnqueue(p) \/ ClaimFails(p) PROVE TypeOK'
  <2>1. Scan(p, enqueue) /\ UNCHANGED <<ring, batch, consumerVars, calls, history>>
    BY <1>2 DEF LoadEnqueue, ClaimFails
  <2> QED BY <2>1 DEF Scan, Goto
<1>3. ASSUME NEW p \in Producers, CellFree(p) PROVE TypeOK'
  BY <1>3 DEF CellFree, Goto
<1>13. ASSUME NEW p \in Producers, CellPassed(p) \/ Reject(p) PROVE TypeOK'
  BY <1>13 DEF CellPassed, Reject, Goto
<1>4. ASSUME NEW p \in Producers, Claim(p) PROVE TypeOK'
  BY <1>4 DEF Claim, Goto
<1>5. ASSUME NEW p \in Producers, WriteValue(p) PROVE TypeOK'
  <2>1. batch[p][scanned[p] + 1] \in Events
    BY <1>5 DEF WriteValue, ProducersInv, ProducerInv
  <2> QED BY <1>5, <2>1 DEF WriteValue, Goto
<1>6. ASSUME NEW p \in Producers, Publish(p) PROVE TypeOK'
  <2> DEFINE pos == position[p] + scanned[p]
  <2>0. pos \in Nat  OBVIOUS
  <2>1. CellOf(pos) \in Nat  BY <2>0, CellFacts
  <2>2. pos + 1 - CellOf(pos) \in Int  BY <2>0, <2>1
  <2> HIDE DEF pos
  <2>3. sequence' \in [Cells -> Int]  BY <1>6, <2>2 DEF Publish, pos
  <2> QED BY <1>6, <2>3 DEF Publish, Goto
<1>7. CASE PopStart \/ PopFails  BY <1>7 DEF PopStart, PopFails
<1>8. CASE PopRead
  <2>1. CellOf(dequeue) \in Cells  BY CellFacts
  <2> QED BY <1>8, <2>1 DEF PopRead
<1>9. CASE PopRelease
  <2>1. dequeue + Capacity - CellOf(dequeue) \in Int
    BY SMTT(30), CellFacts, CapacityAssumption
  <2>2. sequence' \in [Cells -> Int]  BY <1>9, <2>1 DEF PopRelease
  <2> QED BY <1>9, <2>2 DEF PopRelease
<1>10. CASE PopAdvance BY <1>10 DEF PopAdvance
<1>11. CASE UNCHANGED vars  BY <1>11
<1> QED BY <1>1, <1>2, <1>3, <1>4, <1>5, <1>6, <1>7, <1>8, <1>9, <1>10, <1>11,
           <1>12, <1>13
           DEF Next, InPush, Pop

-----------------------------------------------------------------------------
\* Different positions of the window have different cells.
LEMMA WindowCells ==
    ASSUME TypeOK, NEW a \in Window, NEW b \in Window, a # b
    PROVE  a \in Nat /\ b \in Nat /\ CellOf(a) # CellOf(b)
<1>1. Released \in Nat  BY DEF TypeOK, Released
<1>2. a \in Nat /\ b \in Nat /\ a < b + Capacity /\ b < a + Capacity
  BY <1>1, CapacityAssumption DEF Window
<1>3. CASE a < b  BY <1>2, <1>3, CellFacts
<1>4. CASE b < a  BY <1>2, <1>4, CellFacts
<1> QED BY <1>2, <1>3, <1>4

\* A cell the consumer is reading is published, so reserved.
LEMMA ReadingFacts ==
    ASSUME IInv, consumer \in {"read", "release"}
    PROVE  /\ Released = dequeue /\ dequeue \in Window /\ dequeue < enqueue
           /\ SequenceAt(dequeue) = dequeue + 1
           /\ value[CellOf(dequeue)] = accepted[dequeue + 1]
<1>1. Released = dequeue /\ dequeue \in Nat  BY DEF IInv, TypeOK, Released
<1>2. dequeue \in Window  BY <1>1, CapacityAssumption DEF Window
<1>3. SequenceAt(dequeue) = dequeue + 1  BY DEF IInv, ConsumerInv
<1> QED BY <1>1, <1>2, <1>3 DEF IInv, CellsInv

\* What a producer owns lies in the window; its next position is one of them.
LEMMA OwnedFacts ==
    ASSUME IInv, NEW p \in Producers
    PROVE  /\ \A q \in Owned(p) : q \in Window /\ q \in Nat
           /\ position[p] + scanned[p] \in Nat
           /\ pc[p] \in {"write", "publish"} => position[p] + scanned[p] \in Owned(p)
<1>1. /\ position[p] \in Nat /\ scanned[p] \in Nat /\ enqueue \in Nat
      /\ Released \in Nat /\ enqueue <= Released + Capacity /\ Len(batch[p]) \in Nat
  BY DEF IInv, TypeOK, Released, PositionsInv
<1>2. \A q \in Owned(p) : q \in Released .. enqueue - 1  BY DEF IInv, OwnersInv
<1>3. pc[p] \in {"write", "publish"} => scanned[p] < Len(batch[p])
  BY DEF IInv, ProducersInv, ProducerInv
<1> QED BY SMTT(30), <1>1, <1>2, <1>3, CapacityAssumption DEF Window, Owned

\* A step that leaves the ring, the consumer and the histories alone only has
\* to say what it does to the producers.
LEMMA FrameInv ==
    ASSUME IInv, UNCHANGED <<ring, consumerVars, history>>
    PROVE  PositionsInv' /\ CellsInv' /\ ConsumerInv'
BY DEF IInv, PositionsInv, CellsInv, ConsumerInv, Window, Released, SequenceAt,
       CellOf, ring, consumerVars, history

LEMMA FrameOwners ==
    ASSUME IInv, UNCHANGED <<ring, consumerVars, history>>,
           \A r \in Producers : pc'[r] \in {"write", "publish"} =>
               /\ pc'[r] = pc[r] /\ batch'[r] = batch[r]
               /\ position'[r] = position[r] /\ scanned'[r] = scanned[r]
    PROVE  OwnersInv'
<1>1. Released' = Released  BY DEF Released, ring, consumerVars
<1>2. \A q : (SequenceAt(q))' = SequenceAt(q)  BY DEF SequenceAt, CellOf, ring
<1>3. \A r \in Producers : \A q \in Owned(r)' : q \in Owned(r) /\ pc'[r] = pc[r]
          /\ batch'[r] = batch[r] /\ position'[r] = position[r]
  BY DEF Owned
<1>4. enqueue' = enqueue /\ accepted' = accepted /\ value' = value
  BY DEF ring, history
<1> QED BY <1>1, <1>2, <1>3, <1>4 DEF IInv, OwnersInv, CellOf

\* Steps of a producer that has nothing reserved.
LEMMA LocalStep ==
    ASSUME IInv, TypeOK', NEW p \in Producers,
           \/ Call(p) \/ CallOversized(p) \/ LoadEnqueue(p) \/ ClaimFails(p)
           \/ CellFree(p) \/ Reject(p) \/ CellPassed(p)
    PROVE  IInv'
<1> USE DEF IInv, Goto
<1>0. UNCHANGED <<ring, consumerVars, history>>
  BY DEF Call, CallOversized, LoadEnqueue, ClaimFails, CellFree, Reject, CellPassed,
         ring, producerVars, consumerVars, history
<1>1. PositionsInv' /\ CellsInv' /\ ConsumerInv'  BY <1>0, FrameInv
<1>2. Released' = Released /\ Released \in Nat /\ enqueue' = enqueue
  BY <1>0 DEF Released, ring, consumerVars, TypeOK
<1>3. ASSUME Call(p) PROVE ProducersInv' /\ OwnersInv'
  <2>1. pc' = [pc EXCEPT ![p] = "load"] /\ UNCHANGED <<position, scanned>>
    BY <1>3 DEF Call
  <2>2. PICK b \in Batches : Len(b) <= Capacity /\ batch' = [batch EXCEPT ![p] = b]
    BY <1>3 DEF Call
  <2>3. Len(b) \in 1 .. Capacity  BY <2>2, BatchAssumption, CapacityAssumption
  <2>4. ProducersInv'
    BY <1>2, <2>1, <2>2, <2>3 DEF TypeOK, ProducersInv, ProducerInv
  <2>5. OwnersInv'  BY <1>0, <2>1, <2>2, FrameOwners DEF TypeOK
  <2> QED BY <2>4, <2>5
<1>4. ASSUME CallOversized(p) PROVE ProducersInv' /\ OwnersInv'
  BY <1>0, <1>2, <1>4, FrameOwners DEF CallOversized, producerVars, ProducersInv, ProducerInv
<1>5. ASSUME LoadEnqueue(p) \/ ClaimFails(p) PROVE ProducersInv' /\ OwnersInv'
  <2>1. /\ pc' = [pc EXCEPT ![p] = "scan"] /\ batch' = batch
        /\ position' = [position EXCEPT ![p] = enqueue]
        /\ scanned' = [scanned EXCEPT ![p] = 0]
        /\ pc[p] # "idle"
    BY <1>5 DEF LoadEnqueue, ClaimFails, Scan
  <2>2. ProducersInv'
    BY <1>2, <2>1 DEF TypeOK, ProducersInv, ProducerInv, PositionsInv
  <2>3. OwnersInv'  BY <1>0, <2>1, FrameOwners DEF TypeOK
  <2> QED BY <2>2, <2>3
<1>6. ASSUME CellPassed(p) \/ Reject(p) PROVE ProducersInv' /\ OwnersInv'
  <2>1. /\ pc' = [pc EXCEPT ![p] = "idle"] \/ pc' = [pc EXCEPT ![p] = "load"]
        /\ batch' = batch /\ position' = position /\ scanned' = scanned
        /\ pc[p] # "idle"
    BY <1>6 DEF CellPassed, Reject
  <2>2. ProducersInv'  BY <1>2, <2>1 DEF TypeOK, ProducersInv, ProducerInv
  <2>3. OwnersInv'  BY <1>0, <2>1, FrameOwners DEF TypeOK
  <2> QED BY <2>2, <2>3
<1>7. ASSUME CellFree(p) PROVE ProducersInv' /\ OwnersInv'
  <2> DEFINE pos == position[p] + scanned[p]
  <2>1. /\ pc' = [pc EXCEPT ![p] = IF scanned[p] + 1 = Len(batch[p])
                                   THEN "claim" ELSE "scan"]
        /\ batch' = batch /\ position' = position
        /\ scanned' = [scanned EXCEPT ![p] = @ + 1]
        /\ pc[p] = "scan" /\ SequenceAt(pos) = pos
    BY <1>7 DEF CellFree
  <2>2. pos < Released + Capacity
    \* Otherwise pos is the position one lap after some q of the window, whose
    \* cell holds q or q + 1, and pos is neither.
    <3>0. pos \in Nat /\ pos <= Released + Capacity
      BY <2>1 DEF TypeOK, ProducersInv, ProducerInv
    <3>1. SUFFICES ASSUME pos = Released + Capacity PROVE FALSE
      BY <1>2, <3>0, CapacityAssumption
    <3>2. Released \in Window  BY <1>2, CapacityAssumption DEF Window
    <3>3. CellOf(pos) = CellOf(Released)  BY <1>2, <3>1, CellFacts
    <3>4. SequenceAt(Released) = pos  BY <2>1, <3>3 DEF SequenceAt
    <3> QED BY <1>2, <3>1, <3>2, <3>4, CapacityAssumption DEF CellsInv
  <2>3. ProducersInv'
    <3>1. Len(batch[p]) \in Nat /\ scanned[p] + 1 <= Len(batch[p])
      BY <2>1 DEF TypeOK, ProducersInv, ProducerInv
    <3> QED BY SMTT(30), <1>2, <2>1, <2>2, <3>1, CapacityAssumption DEF TypeOK, ProducersInv, ProducerInv
  <2>4. OwnersInv'  BY <1>0, <2>1, FrameOwners DEF TypeOK
  <2> QED BY <2>3, <2>4
<1> QED BY <1>1, <1>3, <1>4, <1>5, <1>6, <1>7

\* The reservation: the scanned positions lie in the window, beyond everything
\* reserved before, and nobody else can have them.
LEMMA ClaimStep ==
    ASSUME IInv, TypeOK', NEW p \in Producers, Claim(p)
    PROVE  IInv'
<1> DEFINE n == Len(batch[p])
<1> USE DEF IInv
<1>1. /\ enqueue' = enqueue + n /\ accepted' = accepted \o batch[p]
      /\ pc' = [pc EXCEPT ![p] = "write"] /\ scanned' = [scanned EXCEPT ![p] = 0]
      /\ UNCHANGED <<dequeue, sequence, value, batch, position, consumer, taken, delivered>>
      /\ pc[p] = "claim" /\ position[p] = enqueue
  BY DEF Claim, Goto, consumerVars
<1>2. /\ Released' = Released /\ Released \in Nat /\ Window' = Window
      /\ enqueue \in Nat /\ n \in Nat /\ n >= 1 /\ scanned[p] = n
      /\ enqueue + n <= Released + Capacity
  BY <1>1 DEF Released, Window, TypeOK, ProducersInv, ProducerInv
<1>3. \A q : (SequenceAt(q))' = SequenceAt(q)  BY <1>1 DEF SequenceAt, CellOf
<1>4. \A q \in 0 .. enqueue - 1 : accepted'[q + 1] = accepted[q + 1]
  BY <1>1, <1>2 DEF TypeOK, PositionsInv
<1>5. \A q \in enqueue .. enqueue + n - 1 :
          accepted'[q + 1] = batch[p][q - enqueue + 1]
  BY SMTT(30), <1>1, <1>2 DEF TypeOK, PositionsInv
<1>6. PositionsInv'
  <2>1. accepted \in Seq(Events) /\ batch[p] \in Seq(Events) /\ dequeue \in Nat
    BY DEF TypeOK
  <2>2. Len(accepted') = enqueue + n
    <3>1. Len(accepted \o batch[p]) = Len(accepted) + Len(batch[p])  BY <2>1
    <3>2. Len(accepted) = enqueue  BY DEF PositionsInv
    <3> QED BY <1>1, <3>1, <3>2
  <2>3. consumer = "advance" => dequeue < enqueue + n  BY <1>2, <2>1 DEF PositionsInv
  <2>4. Released <= enqueue + n  BY <1>2 DEF PositionsInv
  <2> QED BY <1>1, <1>2, <2>2, <2>3, <2>4 DEF PositionsInv
<1>7. CellsInv'
  <2> SUFFICES ASSUME NEW q \in Window
               PROVE  \/ SequenceAt(q) = q
                      \/ /\ SequenceAt(q) = q + 1 /\ q < enqueue'
                         /\ value[CellOf(q)] = accepted'[q + 1]
    BY <1>1, <1>2, <1>3 DEF CellsInv, CellOf
  <2>1. q \in Nat  BY <1>2, CapacityAssumption DEF Window
  <2>2. CASE SequenceAt(q) = q  BY <2>2
  <2>3. CASE SequenceAt(q) = q + 1 /\ q < enqueue /\ value[CellOf(q)] = accepted[q + 1]
    <3>1. accepted'[q + 1] = accepted[q + 1]  BY <1>2, <1>4, <2>1, <2>3
    <3>2. q < enqueue'  BY <1>1, <1>2, <2>1, <2>3
    <3> QED BY <2>3, <3>1, <3>2
  <2> QED BY <2>2, <2>3 DEF CellsInv
<1>8. OwnersInv'
  <2>1. Owned(p)' = enqueue .. enqueue + n - 1
    BY <1>1, <1>2 DEF Owned, TypeOK
  <2>2. \A r \in Producers : r # p => Owned(r)' = Owned(r) /\ pc'[r] = pc[r]
    BY <1>1 DEF Owned, TypeOK
  <2>3. \A r \in Producers : \A q \in Owned(r) : q \in Released .. enqueue - 1
    BY DEF OwnersInv
  <2>4. ASSUME NEW r \in Producers, NEW q \in Owned(r)'
        PROVE  /\ q \in Released' .. enqueue' - 1
               /\ (SequenceAt(q))' = q
               /\ batch'[r][q - position'[r] + 1] = accepted'[q + 1]
    <3>1. CASE r = p
      <4>1. q \in enqueue .. enqueue + n - 1  BY <2>1, <3>1
      <4>2. q \in Window /\ ~ (q < enqueue) /\ q >= Released
        BY <1>2, <4>1, CapacityAssumption DEF Window, PositionsInv
      <4>3. SequenceAt(q) = q  BY <4>2 DEF CellsInv
      <4>4. q \in Released' .. enqueue' - 1  BY <1>1, <1>2, <4>1, <4>2
      <4>5. (SequenceAt(q))' = q  BY <1>3, <4>3
      <4>6. batch'[p][q - position'[p] + 1] = accepted'[q + 1]
        BY <1>1, <1>5, <4>1
      <4> QED BY <3>1, <4>4, <4>5, <4>6
    <3>2. CASE r # p
      <4>1. q \in Owned(r)  BY <2>2, <3>2
      <4>2. q \in Released .. enqueue - 1  BY <2>3, <4>1
      <4>3. q \in Released' .. enqueue' - 1  BY <1>1, <1>2, <4>2
      <4>4. (SequenceAt(q))' = q  BY <1>3, <4>1 DEF OwnersInv
      <4>5. accepted'[q + 1] = accepted[q + 1]  BY <1>2, <1>4, <4>2
      <4>6. batch'[r][q - position'[r] + 1] = accepted'[q + 1]
        BY <1>1, <4>1, <4>5 DEF OwnersInv
      <4> QED BY <4>3, <4>4, <4>6
    <3> QED BY <3>1, <3>2
  <2>5. ASSUME NEW r \in Producers, NEW t \in Producers, NEW q \in Owned(r)',
               q \in Owned(t)'
        PROVE  r = t
    <3>1. ASSUME NEW u \in Producers, u # p PROVE ~ (q \in Owned(u)' /\ q \in Owned(p)')
      BY <1>2, <2>1, <2>2, <2>3, <3>1
    <3>2. CASE r # p /\ t # p  BY <2>2, <2>5, <3>2 DEF OwnersInv
    <3> QED BY <2>5, <3>1, <3>2
  <2>6. ASSUME NEW r \in Producers, pc'[r] = "publish"
        PROVE  value'[CellOf(position'[r] + scanned'[r])] = batch'[r][scanned'[r] + 1]
    BY <1>1, <2>6 DEF OwnersInv, TypeOK
  <2> QED BY <2>4, <2>5, <2>6 DEF OwnersInv, CellOf
<1>9. ProducersInv'
  <2> SUFFICES ASSUME NEW r \in Producers
               PROVE  ProducerInv(r)'
    BY DEF ProducersInv
  <2>1. CASE r = p  BY <1>1, <1>2, <2>1 DEF ProducersInv, ProducerInv, TypeOK
  <2>2. CASE r # p  BY SMTT(30), <1>1, <1>2, <2>2 DEF ProducersInv, ProducerInv, TypeOK
  <2> QED BY <2>1, <2>2
<1>10. ConsumerInv'
  <2>1. consumer \in {"release", "advance"} => dequeue < enqueue
    BY ReadingFacts DEF PositionsInv
  <2>2. dequeue \in Nat  BY DEF TypeOK
  <2>3. consumer \in {"release", "advance"} => accepted'[dequeue + 1] = accepted[dequeue + 1]
    BY <1>2, <1>4, <2>1, <2>2
  <2> QED BY <1>1, <1>3, <2>3 DEF ConsumerInv
<1> QED BY <1>6, <1>7, <1>8, <1>9, <1>10

\* Filling a reserved cell touches no other position of the window.
LEMMA WriteStep ==
    ASSUME IInv, TypeOK', NEW p \in Producers, WriteValue(p)
    PROVE  IInv'
<1> DEFINE pos == position[p] + scanned[p]
<1> USE DEF IInv
<1>1. /\ value' = [value EXCEPT ![CellOf(pos)] = batch[p][scanned[p] + 1]]
      /\ pc' = [pc EXCEPT ![p] = "publish"] /\ pc[p] = "write"
      /\ UNCHANGED <<enqueue, dequeue, sequence, batch, position, scanned,
                     consumer, taken, accepted, delivered>>
  BY DEF WriteValue, Goto, consumerVars, history
<1>2. /\ Released' = Released /\ Released \in Nat /\ Window' = Window
      /\ \A q : (SequenceAt(q))' = SequenceAt(q)
  BY <1>1 DEF Released, Window, SequenceAt, CellOf, TypeOK
<1>3. pos \in Owned(p) /\ pos \in Nat  BY <1>1, OwnedFacts
<1>4. \A r \in Producers : \A q \in Owned(r) : q \in Window  BY OwnedFacts
<1>5. \A q \in Window : q # pos => CellOf(q) # CellOf(pos)
  BY <1>3, <1>4, WindowCells
<1>6. PositionsInv' /\ ProducersInv' /\ ConsumerInv'
  <2>1. PositionsInv'  BY <1>1, <1>2 DEF PositionsInv
  <2>2. ProducersInv'  BY <1>1, <1>2 DEF ProducersInv, ProducerInv, TypeOK
  <2>3. ConsumerInv'   BY <1>1, <1>2 DEF ConsumerInv
  <2> QED BY <2>1, <2>2, <2>3
<1>7. CellsInv'
  <2> SUFFICES ASSUME NEW q \in Window, SequenceAt(q) # q
               PROVE  value'[CellOf(q)] = value[CellOf(q)]
    BY <1>1, <1>2 DEF CellsInv, CellOf
  <2>1. q # pos  BY <1>3 DEF OwnersInv
  <2>2. CellOf(q) # CellOf(pos)  BY <1>5, <2>1
  <2> QED BY <1>1, <2>2 DEF TypeOK
<1>8. OwnersInv'
  <2>1. \A r \in Producers : Owned(r)' = Owned(r)  BY <1>1 DEF Owned, TypeOK
  <2>2. ASSUME NEW r \in Producers, pc'[r] = "publish"
        PROVE  value'[CellOf(position[r] + scanned[r])] = batch[r][scanned[r] + 1]
    <3>1. CASE r = p
      <4>1. CellOf(pos) \in Cells
        BY <1>3, CellFacts
      <4> QED BY <1>1, <3>1, <4>1 DEF TypeOK
    <3>2. CASE r # p
      <4>1. pc[r] = "publish"  BY <1>1, <2>2, <3>2 DEF TypeOK
      <4>2. position[r] + scanned[r] \in Owned(r)
        BY <4>1, OwnedFacts
      <4>3. position[r] + scanned[r] # pos  BY <1>3, <3>2, <4>2 DEF OwnersInv
      <4>4. CellOf(position[r] + scanned[r]) # CellOf(pos)
        BY <1>4, <1>5, <4>2, <4>3
      <4> QED BY SMTT(30), <1>1, <4>1, <4>4 DEF OwnersInv, TypeOK
    <3> QED BY <3>1, <3>2
  <2> QED BY <1>1, <1>2, <2>1, <2>2 DEF OwnersInv, CellOf
<1> QED BY <1>6, <1>7, <1>8

\* Publishing hands one reserved position over to the consumer.
LEMMA PublishStep ==
    ASSUME IInv, TypeOK', NEW p \in Producers, Publish(p)
    PROVE  IInv'
<1> DEFINE pos == position[p] + scanned[p]
<1> USE DEF IInv
<1>1. /\ sequence' = [sequence EXCEPT ![CellOf(pos)] = pos + 1 - CellOf(pos)]
      /\ pc' = [pc EXCEPT ![p] = IF scanned[p] + 1 = Len(batch[p])
                                 THEN "idle" ELSE "write"]
      /\ scanned' = [scanned EXCEPT ![p] = @ + 1] /\ pc[p] = "publish"
      /\ UNCHANGED <<enqueue, dequeue, value, batch, position,
                     consumer, taken, accepted, delivered>>
  BY DEF Publish, Goto, consumerVars, history
<1>2. Released' = Released /\ Released \in Nat /\ Window' = Window
  BY <1>1 DEF Released, Window, TypeOK
<1>3. pos \in Owned(p) /\ pos \in Nat  BY <1>1, OwnedFacts
<1>4. \A r \in Producers : \A q \in Owned(r) : q \in Window  BY OwnedFacts
<1>5. \A q \in Window : q # pos => CellOf(q) # CellOf(pos)
  BY <1>3, <1>4, WindowCells
<1>6. \A q \in Window : q # pos => (SequenceAt(q))' = SequenceAt(q)
  BY <1>1, <1>5 DEF SequenceAt, CellOf, TypeOK
<1>7. \A q \in Window : q = pos => (SequenceAt(q))' = q + 1
  <2>1. CellOf(pos) \in Cells /\ CellOf(pos) \in Nat  BY <1>3, CellFacts
  <2>2. sequence'[CellOf(pos)] + CellOf(pos) = pos + 1
    BY <1>1, <1>3, <2>1 DEF TypeOK
  <2>3. \A q : (SequenceAt(q))' = sequence'[CellOf(q)] + CellOf(q)
    BY <1>1 DEF SequenceAt, CellOf
  <2> QED BY <2>2, <2>3
<1>8. pos \in Released .. enqueue - 1 /\ value[CellOf(pos)] = accepted[pos + 1]
  <2>1. pos \in Released .. enqueue - 1  BY <1>3 DEF OwnersInv
  <2>2. batch[p][pos - position[p] + 1] = accepted[pos + 1]  BY <1>3 DEF OwnersInv
  <2>3. value[CellOf(pos)] = batch[p][scanned[p] + 1]  BY <1>1 DEF OwnersInv
  <2>4. pos - position[p] + 1 = scanned[p] + 1  BY DEF TypeOK
  <2> QED BY <2>1, <2>2, <2>3, <2>4
<1>9. Owned(p)' \subseteq Owned(p) \ {pos}
  BY SMTT(30), <1>1, <1>3 DEF Owned, TypeOK
<1>10. \A r \in Producers : r # p => Owned(r)' = Owned(r)
  BY <1>1 DEF Owned, TypeOK
<1>11. PositionsInv'  BY <1>1, <1>2 DEF PositionsInv
<1>12. ProducersInv'
  <2> SUFFICES ASSUME NEW r \in Producers PROVE ProducerInv(r)'  BY DEF ProducersInv
  <2>1. CASE r = p  BY <1>1, <1>2, <2>1 DEF ProducersInv, ProducerInv, TypeOK
  <2>2. CASE r # p  BY <1>1, <1>2, <2>2 DEF ProducersInv, ProducerInv, TypeOK
  <2> QED BY <2>1, <2>2
<1>13. CellsInv'
  <2> SUFFICES ASSUME NEW q \in Window
               PROVE  \/ (SequenceAt(q))' = q
                      \/ /\ (SequenceAt(q))' = q + 1 /\ q < enqueue
                         /\ value[CellOf(q)] = accepted[q + 1]
    BY <1>1, <1>2 DEF CellsInv, CellOf
  <2>1. CASE q = pos  BY <1>3, <1>7, <1>8, <2>1 DEF TypeOK
  <2>2. CASE q # pos  BY <1>6, <2>2 DEF CellsInv
  <2> QED BY <2>1, <2>2
<1>14. OwnersInv'
  <2>1. \A r \in Producers : \A q \in Owned(r)' : q \in Owned(r) /\ q # pos
    BY <1>3, <1>9, <1>10 DEF OwnersInv
  <2>2. \A r \in Producers : pc'[r] = "publish" =>
            pc[r] = "publish" /\ scanned'[r] = scanned[r]
    BY <1>1 DEF TypeOK
  <2> QED BY <1>1, <1>2, <1>4, <1>6, <2>1, <2>2 DEF OwnersInv, CellOf
<1>15. ConsumerInv'
  <2>1. consumer \in {"read", "release"} => dequeue \in Window /\ dequeue # pos
    <3>1. SequenceAt(pos) = pos  BY <1>3 DEF OwnersInv
    <3>2. dequeue \in Nat  BY DEF TypeOK
    <3>3. consumer \in {"read", "release"} =>
              dequeue \in Window /\ SequenceAt(dequeue) = dequeue + 1
      BY ReadingFacts
    <3> HIDE DEF IInv, pos
    <3> QED BY <3>1, <3>2, <3>3
  <2> QED BY <1>1, <1>6, <2>1 DEF ConsumerInv
<1> QED BY <1>11, <1>12, <1>13, <1>14, <1>15

\* The consumer's steps before the release change nothing a producer sees.
LEMMA PopReadStep ==
    ASSUME IInv, TypeOK', PopStart \/ PopRead
    PROVE  IInv'
<1> USE DEF IInv
<1>1. /\ UNCHANGED <<enqueue, dequeue, sequence, value, pc, batch, position, scanned,
                     accepted, delivered>>
      /\ consumer \in {"idle", "read"} /\ consumer' \in {"read", "release"}
  BY DEF PopStart, PopRead, ring, producerVars, history
<1>2. Released' = Released /\ Window' = Window
      /\ \A q : (SequenceAt(q))' = SequenceAt(q)
  BY <1>1 DEF Released, Window, SequenceAt, CellOf
<1>3. PositionsInv'  BY <1>1, <1>2 DEF PositionsInv
<1>4. CellsInv'      BY <1>1, <1>2 DEF CellsInv, CellOf
<1>5. OwnersInv'     BY <1>1, <1>2 DEF OwnersInv, Owned, CellOf
<1>6. ProducersInv'  BY <1>1, <1>2 DEF ProducersInv, ProducerInv
<1>7. ConsumerInv'
  <2>1. CASE PopStart  BY <1>1, <1>2, <2>1 DEF PopStart, ConsumerInv
  <2>2. CASE PopRead
    BY <1>1, <1>2, <2>2, ReadingFacts DEF PopRead, ConsumerInv
  <2> QED BY <2>1, <2>2
<1> QED BY <1>3, <1>4, <1>5, <1>6, <1>7

\* The release gives the cell to the position one lap later, the one that
\* enters the window.
LEMMA PopReleaseStep ==
    ASSUME IInv, TypeOK', PopRelease
    PROVE  IInv'
<1> USE DEF IInv
<1>1. /\ UNCHANGED <<enqueue, dequeue, value, pc, batch, position, scanned, taken,
                     accepted, delivered>>
      /\ consumer = "release" /\ consumer' = "advance"
      /\ sequence' = [sequence EXCEPT ![CellOf(dequeue)] =
                                         dequeue + Capacity - CellOf(dequeue)]
  BY DEF PopRelease, producerVars, history
<1>2. Released = dequeue /\ Released' = dequeue + 1 /\ dequeue \in Window
      /\ dequeue \in Nat /\ enqueue \in Nat /\ dequeue < enqueue
  BY <1>1, ReadingFacts DEF Released, TypeOK
<1>3. \A q \in Window : q # dequeue => (SequenceAt(q))' = SequenceAt(q)
  <2> SUFFICES ASSUME NEW q \in Window, q # dequeue
               PROVE  (SequenceAt(q))' = SequenceAt(q)
    OBVIOUS
  <2>1. CellOf(q) # CellOf(dequeue)  BY <1>2, WindowCells
  <2> QED BY <1>1, <2>1 DEF SequenceAt, CellOf, TypeOK
<1>4. \A q : q = dequeue + Capacity => (SequenceAt(q))' = q
  <2>1. /\ CellOf(dequeue) \in Cells /\ CellOf(dequeue) \in Nat
        /\ CellOf(dequeue + Capacity) = CellOf(dequeue)
    BY <1>2, CellFacts
  <2>2. sequence'[CellOf(dequeue)] = dequeue + Capacity - CellOf(dequeue)
    BY <1>1, <2>1 DEF TypeOK
  <2>3. \A q : (SequenceAt(q))' = sequence'[CellOf(q)] + CellOf(q)
    BY DEF SequenceAt, CellOf
  <2> QED BY <1>2, <2>1, <2>2, <2>3, CapacityAssumption
<1>5. PositionsInv'
  BY <1>1, <1>2, CapacityAssumption DEF PositionsInv
<1>6. CellsInv'
  <2> SUFFICES ASSUME NEW q \in Window'
               PROVE  \/ (SequenceAt(q))' = q
                      \/ /\ (SequenceAt(q))' = q + 1 /\ q < enqueue
                         /\ value[CellOf(q)] = accepted[q + 1]
    BY <1>1 DEF CellsInv, CellOf
  <2>1. q \in dequeue + 1 .. dequeue + Capacity
    BY <1>2, CapacityAssumption DEF Window
  <2>2. CASE q = dequeue + Capacity  BY <1>4, <2>2
  <2>3. CASE q # dequeue + Capacity
    <3>1. q \in Window /\ q # dequeue
      BY <1>2, <2>1, <2>3, CapacityAssumption DEF Window
    <3> QED BY <1>3, <3>1 DEF CellsInv
  <2> QED BY <2>2, <2>3
<1>7. OwnersInv'
  <2>1. \A r \in Producers : Owned(r)' = Owned(r)  BY <1>1 DEF Owned
  <2>2. \A r \in Producers : \A q \in Owned(r) :
            q \in Window /\ q # dequeue /\ q \in Released .. enqueue - 1
    BY <1>1, <1>2, OwnedFacts, ReadingFacts DEF OwnersInv
  <2>3. \A r \in Producers : \A q \in Owned(r) :
            q \in Released' .. enqueue' - 1 /\ (SequenceAt(q))' = q
    BY <1>1, <1>2, <1>3, <2>2 DEF OwnersInv
  <2> QED BY <1>1, <2>1, <2>3 DEF OwnersInv, CellOf
<1>8. ProducersInv'
  <2> SUFFICES ASSUME NEW r \in Producers PROVE ProducerInv(r)'  BY DEF ProducersInv
  <2>1. ProducerInv(r)  BY DEF ProducersInv
  <2>2. position[r] \in Nat /\ scanned[r] \in Nat  BY DEF TypeOK
  <2> QED BY <1>1, <1>2, <2>1, <2>2, CapacityAssumption DEF ProducerInv
<1>9. ConsumerInv'  BY <1>1 DEF ConsumerInv
<1> QED BY <1>5, <1>6, <1>7, <1>8, <1>9

LEMMA PopAdvanceStep ==
    ASSUME IInv, TypeOK', PopAdvance
    PROVE  IInv'
<1> USE DEF IInv
<1>1. /\ UNCHANGED <<enqueue, sequence, value, pc, batch, position, scanned, taken,
                     accepted>>
      /\ consumer = "advance" /\ consumer' = "idle" /\ dequeue' = dequeue + 1
      /\ delivered' = Append(delivered, taken)
  BY DEF PopAdvance, producerVars
<1>2. /\ Released' = Released /\ Released = dequeue + 1 /\ Window' = Window
      /\ \A q : (SequenceAt(q))' = SequenceAt(q)
  BY <1>1 DEF Released, Window, SequenceAt, CellOf, TypeOK
<1>3. PositionsInv'
  <2>1. Len(delivered') = dequeue + 1  BY <1>1 DEF TypeOK, PositionsInv
  <2> QED BY <1>1, <1>2, <2>1 DEF PositionsInv
<1>4. CellsInv'      BY <1>1, <1>2 DEF CellsInv, CellOf
<1>5. OwnersInv'     BY <1>1, <1>2 DEF OwnersInv, Owned, CellOf
<1>6. ProducersInv'  BY <1>1, <1>2 DEF ProducersInv, ProducerInv
<1>7. ConsumerInv'   BY <1>1 DEF ConsumerInv
<1> QED BY <1>3, <1>4, <1>5, <1>6, <1>7

LEMMA NextInvariant == IInv /\ [Next]_vars => IInv'
<1> SUFFICES ASSUME IInv, [Next]_vars PROVE IInv'  OBVIOUS
<1>1. TypeOK'  BY NextTypeOK
<1>2. ASSUME NEW p \in Producers, Call(p) \/ CallOversized(p) \/ InPush(p)
      PROVE  IInv'
  BY <1>1, <1>2, LocalStep, ClaimStep, WriteStep, PublishStep DEF InPush
<1>3. CASE Pop
  BY <1>1, <1>3, PopReadStep, PopReleaseStep, PopAdvanceStep DEF Pop
<1>4. CASE PopFails \/ UNCHANGED vars
  <2>1. UNCHANGED vars  BY <1>4 DEF PopFails
  <2> QED BY <2>1 DEF IInv, TypeOK, PositionsInv, CellsInv, OwnersInv, ProducersInv,
        ProducerInv, ConsumerInv, Window, Released, Owned, SequenceAt, CellOf,
        vars, ring, producerVars, consumerVars, history
<1> QED BY <1>2, <1>3, <1>4 DEF Next

-----------------------------------------------------------------------------
\* The invariant holds of every behaviour of the queue.
THEOREM Invariant == Spec => []IInv
BY InitInvariant, NextInvariant, PTL DEF Spec

\* Type correctness, for any number of producers, cells and events.
THEOREM TypeCorrect == Spec => []TypeOK
<1>1. IInv => TypeOK  BY DEF IInv
<1> QED BY <1>1, Invariant, PTL

\* Two threads never hold the same cell: neither two producers, nor a producer
\* and the consumer.
THEOREM CellsAreExclusive == Spec => []ExclusiveCells
<1>1. ASSUME IInv PROVE ExclusiveCells
  <2>1. ASSUME NEW p \in Producers, NEW q \in Producers,
               NEW a \in Owned(p), NEW b \in Owned(q), CellOf(a) = CellOf(b)
        PROVE  p = q /\ a = b
    <3>1. a \in Window /\ b \in Window  BY <1>1, OwnedFacts
    <3>2. a = b  BY <1>1, <2>1, <3>1, WindowCells DEF IInv
    <3> QED BY <1>1, <3>2 DEF IInv, OwnersInv
  <2>2. ASSUME NEW p \in Producers, NEW a \in Owned(p),
               consumer \in {"read", "release"}
        PROVE  CellOf(a) # CellOf(dequeue)
    <3>1. a \in Window /\ SequenceAt(a) = a  BY <1>1, OwnedFacts DEF IInv, OwnersInv
    <3>2. dequeue \in Window /\ SequenceAt(dequeue) = dequeue + 1 /\ dequeue \in Nat
      BY <1>1, <2>2, ReadingFacts DEF IInv, TypeOK
    <3>3. a # dequeue  BY <3>1, <3>2
    <3> QED BY <1>1, <3>1, <3>2, <3>3, WindowCells DEF IInv
  <2> QED BY <2>1, <2>2 DEF ExclusiveCells
<1> QED BY <1>1, Invariant, PTL

\* What a pop returns is the event reserved at its position.
THEOREM PopsReserved == Spec => []TakesReserved
<1>1. ASSUME IInv PROVE TakesReserved
  BY <1>1, ReadingFacts DEF TakesReserved, IInv, ConsumerInv, PositionsInv
<1> QED BY <1>1, Invariant, PTL

\* No spurious refusals.
THEOREM RefusalsAreHonest == Spec => RefusedOnlyWhenFull
<1>1. ASSUME IInv, NEW p \in Producers, Reject(p)
      PROVE  enqueue + Len(batch[p]) > Released + Capacity
  <2> DEFINE pos == position[p] + scanned[p]
  <2>1. SequenceAt(pos) < pos  BY <1>1 DEF Reject
  <2>2. /\ pos \in Nat /\ pos < position[p] + Len(batch[p]) /\ position[p] <= enqueue
        /\ position[p] \in Nat /\ enqueue \in Nat /\ Released \in Nat
        /\ Len(batch[p]) \in Nat
    BY <1>1 DEF Reject, IInv, TypeOK, ProducersInv, ProducerInv, Released
  <2>3. SUFFICES ASSUME pos < Released + Capacity PROVE FALSE
    BY <2>2, CapacityAssumption
  \* The cell is that of some q of the window; pos is q or of an earlier lap.
  <2>4. PICK q \in Released .. Released + Capacity - 1 : CellOf(q) = CellOf(pos)
    BY <2>2, CellFacts
  <2>5. q \in Window /\ q \in Nat  BY <2>2, <2>4, CapacityAssumption DEF Window
  <2>6. SequenceAt(pos) \in {q, q + 1}
    BY <1>1, <2>4, <2>5 DEF IInv, CellsInv, SequenceAt
  <2>7. q < pos  BY <2>1, <2>2, <2>5, <2>6
  <2>8. pos < q + Capacity  BY <2>2, <2>3, <2>4, CapacityAssumption
  <2> QED BY <2>2, <2>4, <2>5, <2>7, <2>8, CellFacts
<1>2. IInv /\ [Next]_vars =>
        [\A p \in Producers :
            Reject(p) => enqueue + Len(batch[p]) > Released + Capacity]_vars
  BY <1>1
<1> QED BY <1>2, Invariant, PTL DEF Spec, RefusedOnlyWhenFull

-----------------------------------------------------------------------------
\* Every step of the ring is a step of the bounded FIFO or leaves it alone.
LEMMA StepImplements == IInv /\ IInv' /\ [Next]_vars => [Fifo!FifoNext]_(Fifo!fifoVars)
<1> SUFFICES ASSUME IInv, IInv', [Next]_vars PROVE [Fifo!FifoNext]_(Fifo!fifoVars)
  OBVIOUS
<1> USE DEF Fifo!FifoNext, Fifo!fifoVars
<1>1. ASSUME NEW p \in Producers, Claim(p) PROVE Fifo!Accept(batch[p])
                                                 /\ batch[p] \in Batches
  <2>1. /\ accepted' = accepted \o batch[p]
        /\ UNCHANGED <<consumer, taken, delivered, dequeue>>
        /\ enqueue' = enqueue + Len(batch[p]) /\ pc[p] = "claim"
    BY <1>1 DEF Claim, consumerVars
  <2>2. /\ enqueue' <= Released' + Capacity /\ Released' = Released
        /\ Len(accepted) = enqueue /\ Len(delivered) = dequeue
    BY <2>1 DEF IInv, PositionsInv, Released
  <2>3. batch[p] \in Batches  BY <2>1 DEF IInv, ProducersInv, ProducerInv
  <2>4. delivered \in Seq(Events \cup {NoEvent}) /\ taken \in Events \cup {NoEvent}
    BY DEF IInv, TypeOK
  <2>5. Len(IF consumer = "advance" THEN Append(delivered, taken) ELSE delivered)
            = Released
    BY SMTT(30), <2>2, <2>4 DEF Released, IInv, TypeOK
  <2>6. Len(accepted) + Len(batch[p])
            <= Len(IF consumer = "advance" THEN Append(delivered, taken)
                   ELSE delivered) + Capacity
    BY <2>1, <2>2, <2>5
  <2> QED BY <2>1, <2>3, <2>6 DEF Fifo!Accept
<1>2. CASE PopRelease
  <2>1. /\ consumer = "release" /\ consumer' = "advance"
        /\ UNCHANGED <<taken, delivered, accepted, dequeue>>
    BY <1>2 DEF PopRelease, history
  <2>2. /\ dequeue < enqueue /\ taken = accepted[dequeue + 1]
        /\ Len(accepted) = enqueue /\ Len(delivered) = dequeue
    BY <2>1, ReadingFacts DEF IInv, ConsumerInv, PositionsInv
  <2> QED BY <2>1, <2>2 DEF Fifo!Deliver
<1>3. CASE PopAdvance
  BY <1>3 DEF PopAdvance
<1>4. ASSUME NEW p \in Producers, \/ Call(p) \/ CallOversized(p) \/ LoadEnqueue(p)
             \/ ClaimFails(p) \/ CellFree(p) \/ Reject(p) \/ CellPassed(p)
             \/ WriteValue(p) \/ Publish(p)
      PROVE  UNCHANGED <<consumer, taken, history>>
  BY <1>4 DEF Call, CallOversized, LoadEnqueue, ClaimFails, CellFree, Reject,
     CellPassed, WriteValue, Publish, consumerVars, history
<1>5. CASE PopStart \/ PopRead
  <2>1. UNCHANGED history /\ consumer # "advance" /\ consumer' # "advance"
    BY <1>5 DEF PopStart, PopRead
  <2> QED BY <2>1 DEF history
<1>6. CASE PopFails \/ UNCHANGED vars
  BY <1>6 DEF PopFails, vars, consumerVars, history
<1>7. UNCHANGED <<consumer, taken, history>> => UNCHANGED (Fifo!fifoVars)
  BY DEF history
<1> QED BY <1>1, <1>2, <1>3, <1>4, <1>5, <1>6, <1>7 DEF Next, InPush, Pop

\* DynamicMPSCQueue implements the bounded FIFO: batches are accepted whole and
\* in one order, delivered in that order, once, and never beyond the capacity.
THEOREM ImplementsBoundedFifo == Spec => ImplementsFifo
<1>1. Init => Fifo!FifoInit  BY DEF Init, Fifo!FifoInit
<1>2. IInv /\ IInv' /\ [Next]_vars => [Fifo!FifoNext]_(Fifo!fifoVars)
  BY StepImplements
<1> QED BY <1>1, <1>2, Invariant, PTL DEF Spec, ImplementsFifo, Fifo!FifoSpec
=============================================================================
