------------------------- MODULE LiveRecorderProofs -------------------------
(***************************************************************************)
(* Proofs about LiveRecorder, for any ring, any blocks and any number of   *)
(* recordings, whether or not the file may fail, where a callback does not *)
(* last from before a Stop until after the preparations of the next Start  *)
(* (Overlap = FALSE): across two recordings nothing in the code would keep *)
(* it from publishing a position of the old one.                           *)
(*                                                                         *)
(* The argument: the positions count what was captured and written, the    *)
(* cells between them hold the frames between them, and a writer that has  *)
(* seen no recording, no active capture and then nothing left to read ends *)
(* with nothing left.                                                      *)
(***************************************************************************)
EXTENDS LiveRecorder, RingArithmetic, SequenceTheorems, TLAPS

\* The cell of a position.
CellOf(p) == p % RingFrames

\* A callback that has announced itself, and one that has passed the recheck.
Counted == {"recheck", "room", "copy", "publish", "leave"}
Admitted == {"room", "copy", "publish"}

\* Where Start and Stop are, and what they have done to the recorder.
ControlInv ==
    /\ control \in {"finish", "refinish", "prepare", "spawn"} => ~joinable
    /\ control = "prepare" => state \in {"Stopped", "Error"}
    /\ control = "spawn" => state \in {"Stopped", "Error"} /\ ring # Freed
    /\ ~joinable /\ control # "spawn" => ring = Freed
    /\ joinable => ring # Freed
    /\ control \in {"spawn", "record"} =>
         audio = "idle" /\ readFrame = 0 /\ writeFrame = 0
    /\ state = "Starting" <=> control = "record"

\* A writer that lives has a ring; past the test of the state nothing is being
\* recorded, and past the test of activeCaptures no callback is in the ring.
WriterInv ==
    /\ writer # "ended" => joinable
    /\ state = "Stopped" => writer = "ended"
    /\ writer \in {"active", "final", "finalize", "ended"} =>
         state \notin {"Recording", "Starting"}
    /\ writer = "final" => audio \notin Admitted
    /\ writer \in {"finalize", "ended"} /\ errorCode = 0 =>
         audio \notin Admitted /\ readFrame = writeFrame
    /\ writer = "write" => chunk >= 1 /\ chunk <= writeFrame - readFrame

\* A callback that copies has the room it saw: only it moves writeFrame.
AudioInv ==
    /\ activeCaptures = IF audio \in Counted THEN 1 ELSE 0
    /\ audio # "idle" => block \in Blocks /\ block <= rendered
    /\ audio \in {"copy", "publish"} =>
         position = writeFrame /\ block + (writeFrame - readFrame) <= RingFrames
    /\ audio = "publish" /\ ring # Freed =>
         \A i \in 1 .. block : ring[CellOf(position + i - 1)] = rendered - block + i

\* The file holds the first readFrame frames captured, the ring the others.
FramesInv ==
    /\ Len(captured) = writeFrame /\ Len(file) = readFrame
    /\ readFrame <= writeFrame /\ writeFrame - readFrame <= RingFrames
    /\ \A i \in 1 .. readFrame : file[i] = captured[i]
    /\ ring # Freed =>
         \A i \in readFrame + 1 .. writeFrame : ring[CellOf(i - 1)] = captured[i]

IInv == TypeOK /\ ControlInv /\ WriterInv /\ AudioInv /\ FramesInv

-----------------------------------------------------------------------------
(* Lemmas about cells, blocks and sequences.                               *)

\* Positions fall on cells, those less than a lap apart on different ones.
LEMMA CellFacts ==
    /\ RingFrames \in Nat /\ RingFrames >= 1
    /\ \A a \in Nat : CellOf(a) \in Cells
    /\ \A a, b \in Nat : a < b /\ b < a + RingFrames => CellOf(a) # CellOf(b)
<1>0. RingFrames \in Nat /\ RingFrames >= 1  BY RingAssumption
<1>1. \A a \in Nat : CellOf(a) \in Cells  BY <1>0, ModRange DEF CellOf, Cells
<1>2. ASSUME NEW a \in Nat, NEW b \in Nat, a < b, b < a + RingFrames
      PROVE  CellOf(a) # CellOf(b)
  BY <1>0, <1>2, ModDistinct DEF CellOf
<1> QED BY <1>0, <1>1, <1>2

\* A function over 1 .. n is a sequence.
LEMMA FunctionIsSeq ==
    ASSUME NEW S, NEW n \in Nat, NEW f \in [1 .. n -> S]
    PROVE  f \in Seq(S) /\ Len(f) = n
<1>1. f \in Seq(S)  BY SeqDef
<1>2. DOMAIN f = 1 .. n /\ DOMAIN f = 1 .. Len(f) /\ Len(f) \in Nat
  BY <1>1, LenProperties
<1> QED BY <1>1, <1>2

\* A ring in use is not the empty tuple of a freed one.
LEMMA RingInUse ==
    ASSUME NEW S, NEW f \in [Cells -> S]
    PROVE  f # Freed
<1>1. 0 \in Cells  BY CellFacts DEF Cells
<1>2. DOMAIN f = Cells  OBVIOUS
<1>3. DOMAIN Freed = {}
  <2>1. << >> \in Seq({}) /\ Len(<< >>) = 0  BY EmptySeq
  <2>2. DOMAIN << >> = 1 .. 0  BY <2>1, LenProperties
  <2> QED BY <2>2 DEF Freed
<1> QED BY <1>1, <1>2, <1>3

\* The frames of a callback's block.
LEMMA BlockFacts ==
    ASSUME IInv, audio # "idle"
    PROVE  /\ block \in Nat /\ block >= 1 /\ rendered \in Nat
           /\ Block \in Seq(1 .. MaxFrames) /\ Len(Block) = block
           /\ \A i \in 1 .. block :
                /\ Block[i] = rendered - block + i /\ Block[i] \in 1 .. MaxFrames
<1>1. /\ block \in Nat /\ block >= 1 /\ rendered \in Nat /\ rendered <= MaxFrames
      /\ block <= rendered
  BY BlockAssumption, BoundAssumption DEF IInv, TypeOK, AudioInv
<1>2. \A i \in 1 .. block : Block[i] = rendered - block + i  BY DEF Block
<1>3. \A i \in 1 .. block : rendered - block + i \in 1 .. MaxFrames
  BY <1>1, BoundAssumption
<1>4. Block \in [1 .. block -> 1 .. MaxFrames]  BY <1>3 DEF Block
<1> QED BY <1>1, <1>2, <1>3, <1>4, FunctionIsSeq

\* What the writer reads is what was captured next.
LEMMA ReadFacts ==
    ASSUME IInv, ring # Freed, NEW n \in 0 .. writeFrame - readFrame
    PROVE  /\ Read(n) \in Seq(1 .. MaxFrames) /\ Len(Read(n)) = n
           /\ \A i \in 1 .. n : Read(n)[i] = captured[readFrame + i]
<1>1. /\ readFrame \in Nat /\ writeFrame \in Nat /\ n \in Nat
      /\ captured \in Seq(1 .. MaxFrames) /\ Len(captured) = writeFrame
  BY DEF IInv, TypeOK, FramesInv
<1>2. ASSUME NEW i \in 1 .. n
      PROVE  /\ Read(n)[i] = captured[readFrame + i]
             /\ captured[readFrame + i] \in 1 .. MaxFrames
  <2>1. readFrame + i \in readFrame + 1 .. writeFrame  BY <1>1
  <2>2. ring[CellOf((readFrame + i) - 1)] = captured[readFrame + i]
    BY <2>1 DEF IInv, FramesInv
  <2>3. Read(n)[i] = ring[CellOf((readFrame + i) - 1)]
    <3>1. Read(n) = [j \in 1 .. n |-> ring[CellOf(readFrame + j - 1)]]
      BY DEF Read, CellOf
    <3>2. Read(n)[i] = ring[CellOf(readFrame + i - 1)]  BY <3>1
    <3>3. readFrame + i - 1 = (readFrame + i) - 1  BY <1>1
    <3> QED BY <3>2, <3>3
  <2>4. readFrame + i \in 1 .. Len(captured)  BY <1>1
  <2>5. captured[readFrame + i] \in 1 .. MaxFrames  BY <1>1, <2>4, ElementOfSeq
  <2> QED BY <2>2, <2>3, <2>5
<1>3. Read(n) \in [1 .. n -> 1 .. MaxFrames]
  <2>1. \A i \in 1 .. n : Read(n)[i] \in 1 .. MaxFrames  BY <1>2
  <2>2. Read(n) = [i \in 1 .. n |-> Read(n)[i]]  BY DEF Read
  <2> QED BY <2>1, <2>2
<1> QED BY <1>1, <1>2, <1>3, FunctionIsSeq

\* The frames between the positions fill no cell twice, and a block that has
\* room falls on none of their cells.
LEMMA LiveCells ==
    ASSUME IInv, audio = "copy"
    PROVE  /\ \A i, j \in 1 .. block :
                i # j => CellOf(position + i - 1) # CellOf(position + j - 1)
           /\ \A i \in 1 .. block, k \in readFrame + 1 .. writeFrame :
                CellOf(position + i - 1) # CellOf(k - 1)
           /\ \A i \in 1 .. block : CellOf(position + i - 1) \in Cells
           /\ \A k \in readFrame + 1 .. writeFrame : CellOf(k - 1) \in Cells
<1>1. /\ readFrame \in Nat /\ writeFrame \in Nat /\ position = writeFrame
      /\ block \in Nat /\ readFrame <= writeFrame
      /\ block + (writeFrame - readFrame) <= RingFrames
  BY BlockFacts DEF IInv, TypeOK, AudioInv, FramesInv
<1>2. \A i \in 1 .. block : position + i - 1 \in Nat  BY <1>1
<1>3. \A k \in readFrame + 1 .. writeFrame : k - 1 \in Nat  BY <1>1
<1>4. ASSUME NEW i \in 1 .. block, NEW j \in 1 .. block, i < j
      PROVE  CellOf(position + i - 1) # CellOf(position + j - 1)
  <2>1. position + i - 1 < position + j - 1
        /\ position + j - 1 < (position + i - 1) + RingFrames
    BY <1>1, <1>4, CellFacts
  <2> QED BY <1>2, <2>1, CellFacts
<1>5. ASSUME NEW i \in 1 .. block, NEW k \in readFrame + 1 .. writeFrame
      PROVE  CellOf(position + i - 1) # CellOf(k - 1)
  <2>1. k - 1 < position + i - 1 /\ position + i - 1 < (k - 1) + RingFrames
    BY <1>1, CellFacts
  <2> QED BY <1>2, <1>3, <2>1, CellFacts
<1>6. \A i, j \in 1 .. block : i # j => i < j \/ j < i  BY <1>1
<1> QED BY <1>2, <1>3, <1>4, <1>5, <1>6, CellFacts

\* What Capture's copy leaves in the ring.
LEMMA CopyFacts ==
    ASSUME IInv, Copy, ring # Freed
    PROVE  /\ ring' \in [Cells -> 1 .. MaxFrames \cup {NoFrame}]
           /\ \A i \in 1 .. block : ring'[CellOf(position + i - 1)] = rendered - block + i
           /\ \A k \in readFrame + 1 .. writeFrame : ring'[CellOf(k - 1)] = ring[CellOf(k - 1)]
<1> DEFINE Hit(c, i) == (position + i - 1) % RingFrames = c
<1>1. audio = "copy" /\ ring' =
        [c \in Cells |-> IF \E i \in 1 .. block : Hit(c, i)
                         THEN Block[CHOOSE i \in 1 .. block : Hit(c, i)] ELSE ring[c]]
  BY DEF Copy
<1>2. \A c, i : Hit(c, i) <=> CellOf(position + i - 1) = c  BY DEF CellOf
<1> HIDE DEF Hit
<1>3. ring \in [Cells -> 1 .. MaxFrames \cup {NoFrame}]  BY DEF IInv, TypeOK
<1>4. ASSUME NEW c \in Cells, NEW i \in 1 .. block, Hit(c, i)
      PROVE  ring'[c] = Block[i]
  <2> DEFINE k == CHOOSE j \in 1 .. block : Hit(c, j)
  <2>1. k \in 1 .. block /\ Hit(c, k)  BY <1>4
  <2> HIDE DEF k
  <2>2. k = i  BY <1>1, <1>2, <1>4, <2>1, LiveCells
  <2>3. ring'[c] = Block[k]  BY <1>1, <1>4 DEF k
  <2> QED BY <2>2, <2>3
<1>5. ASSUME NEW c \in Cells, ~ \E i \in 1 .. block : Hit(c, i)
      PROVE  ring'[c] = ring[c]
  BY <1>1, <1>5
<1>6. \A c \in Cells : ring'[c] \in 1 .. MaxFrames \cup {NoFrame}
  <2> TAKE c \in Cells
  <2>1. CASE \E i \in 1 .. block : Hit(c, i)
    <3>1. PICK i \in 1 .. block : Hit(c, i)  BY <2>1
    <3>2. Block[i] \in 1 .. MaxFrames  BY <1>1, BlockFacts
    <3> QED BY <1>4, <3>1, <3>2
  <2>2. CASE ~ \E i \in 1 .. block : Hit(c, i)  BY <1>3, <1>5, <2>2
  <2> QED BY <2>1, <2>2
<1>7. ring' \in [Cells -> 1 .. MaxFrames \cup {NoFrame}]
  <2>1. ring' = [c \in Cells |-> ring'[c]]  BY <1>1
  <2> QED BY <1>6, <2>1
<1>8. ASSUME NEW i \in 1 .. block
      PROVE  ring'[CellOf(position + i - 1)] = rendered - block + i
  <2>1. CellOf(position + i - 1) \in Cells  BY <1>1, LiveCells
  <2>2. Hit(CellOf(position + i - 1), i)  BY <1>2
  <2>3. ring'[CellOf(position + i - 1)] = Block[i]  BY <1>4, <2>1, <2>2
  <2>4. Block[i] = rendered - block + i  BY <1>1, BlockFacts
  <2> QED BY <2>3, <2>4
<1>9. ASSUME NEW k \in readFrame + 1 .. writeFrame
      PROVE  ring'[CellOf(k - 1)] = ring[CellOf(k - 1)]
  <2>1. CellOf(k - 1) \in Cells /\ ~ \E i \in 1 .. block : Hit(CellOf(k - 1), i)
    BY <1>1, <1>2, LiveCells
  <2> QED BY <1>5, <2>1
<1> QED BY <1>7, <1>8, <1>9

\* What the writer sets out to write: at least a frame, at most what is there,
\* and nothing beyond the end of the ring.
LEMMA ChunkFacts ==
    ASSUME IInv, LoadFrames
    PROVE  /\ chunk' \in 0 .. RingFrames /\ chunk' <= writeFrame - readFrame
           /\ writeFrame # readFrame => chunk' >= 1
<1> DEFINE c == RingFrames - CellOf(readFrame)
<1>1. /\ readFrame \in Nat /\ writeFrame \in Nat /\ readFrame <= writeFrame
      /\ writeFrame - readFrame <= RingFrames /\ RingFrames \in Nat /\ RingFrames >= 1
  BY CellFacts DEF IInv, TypeOK, FramesInv
<1>2. c \in 1 .. RingFrames
  <2>1. CellOf(readFrame) \in 0 .. RingFrames - 1  BY <1>1, CellFacts DEF Cells
  <2> QED BY <1>1, <2>1
<1>3. chunk' = IF writeFrame - readFrame <= c THEN writeFrame - readFrame ELSE c
  BY DEF LoadFrames, CellOf
<1> HIDE DEF c
<1> QED BY <1>1, <1>2, <1>3

-----------------------------------------------------------------------------
(* The initial state, and the conjuncts of the invariant that the steps of *)
(* the three threads preserve.                                             *)

LEMMA InitInvariant == Init => IInv
<1> SUFFICES ASSUME Init PROVE IInv  OBVIOUS
<1> USE DEF Init
<1>1. captured = << >> /\ file = << >> /\ << >> \in Seq(1 .. MaxFrames) /\ Len(<< >>) = 0
  BY EmptySeq
<1>2. TypeOK
  <2>1. 0 \in 0 .. RingFrames /\ 0 \in 0 .. MaxFrames /\ 0 \in 0 .. MaxRecordings
    BY BoundAssumption, RingAssumption
  <2>2. ring = Freed /\ joinable \in BOOLEAN /\ wakeEvent \in BOOLEAN  OBVIOUS
  <2> HIDE DEF Init
  <2>3. /\ state = "Stopped" /\ errorCode = 0 /\ activeCaptures = 0
        /\ writeFrame = 0 /\ readFrame = 0 /\ dropped = 0
        /\ control = "idle" /\ oldState = "Stopped" /\ recordings = 0
        /\ audio = "idle" /\ block = 0 /\ position = 0
        /\ writer = "ended" /\ chunk = 0 /\ rendered = 0
    BY DEF Init
  <2> QED BY <1>1, <2>1, <2>2, <2>3 DEF TypeOK
<1>3. ControlInv  BY DEF ControlInv
<1>4. WriterInv  BY DEF WriterInv, Admitted
<1>5. AudioInv  BY DEF AudioInv, Counted
<1>6. FramesInv  BY <1>1, CellFacts DEF FramesInv
<1> QED BY <1>2, <1>3, <1>4, <1>5, <1>6 DEF IInv

\* Where Start and Stop are.
LEMMA NextControl == IInv /\ Overlap = FALSE /\ Next => ControlInv'
<1> SUFFICES ASSUME IInv, Overlap = FALSE, Next PROVE ControlInv'  OBVIOUS
<1> USE DEF IInv, flags, queue, controlVars, audioVars, writerVars, history
<1>1. ASSUME BeginStart PROVE ControlInv'
  BY <1>1 DEF BeginStart, ControlInv, TypeOK
<1>2. ASSUME BeginStop PROVE ControlInv'
  BY <1>2 DEF BeginStop, ControlInv, TypeOK
<1>3. ASSUME JoinAndFree PROVE ControlInv'
  BY <1>3 DEF JoinAndFree, ControlInv, TypeOK
<1>4. ASSUME FinishStop PROVE ControlInv'
  BY <1>4 DEF FinishStop, ControlInv, TypeOK
<1>5. ASSUME Prepare PROVE ControlInv'
  <2>1. ring' # Freed
    <3>1. ring' \in [Cells -> {NoFrame}]  BY <1>5 DEF Prepare
    <3> QED BY <3>1, RingInUse
  <2> QED BY <1>5, <2>1 DEF Prepare, ControlInv, TypeOK
<1>6. ASSUME SpawnWriter PROVE ControlInv'
  BY <1>6 DEF SpawnWriter, ControlInv, TypeOK
<1>7. ASSUME StartRecording PROVE ControlInv'
  BY <1>7 DEF StartRecording, ControlInv, TypeOK
<1>8. ASSUME CaptureBegins PROVE ControlInv'
  BY <1>8 DEF CaptureBegins, ControlInv, TypeOK
<1>9. ASSUME Enter PROVE ControlInv'
  BY <1>9 DEF Enter, ControlInv, TypeOK
<1>10. ASSUME Recheck PROVE ControlInv'
  BY <1>10 DEF Recheck, ControlInv, TypeOK
<1>11. ASSUME Room PROVE ControlInv'
  BY <1>11 DEF Room, ControlInv, TypeOK
<1>12. ASSUME Copy PROVE ControlInv'
  <2>1. ring' = Freed <=> ring = Freed
    <3>1. ring # Freed => ring' # Freed
      <4>1. ring # Freed => ring' \in [Cells -> 1 .. MaxFrames \cup {NoFrame}]
        BY <1>12, CopyFacts
      <4> QED BY <4>1, RingInUse
    <3> QED BY <1>12, <3>1 DEF Copy
  <2>2. /\ UNCHANGED <<state, control, joinable, readFrame, writeFrame>>
        /\ audio = "copy" /\ audio' = "publish"
    BY <1>12 DEF Copy
  <2> QED BY <2>1, <2>2 DEF ControlInv
<1>13. ASSUME PublishBlock PROVE ControlInv'
  BY <1>13 DEF PublishBlock, ControlInv, TypeOK
<1>14. ASSUME Leave PROVE ControlInv'
  BY <1>14 DEF Leave, ControlInv, TypeOK
<1>15. ASSUME LoadFrames PROVE ControlInv'
  BY <1>15 DEF LoadFrames, ControlInv, TypeOK
<1>16. ASSUME WriteFrames PROVE ControlInv'
  <2>1. control \notin {"spawn", "record"}
    <3>1. readFrame # writeFrame
      BY <1>16 DEF WriteFrames, WriterInv, TypeOK
    <3> QED BY <3>1 DEF ControlInv
  <2> QED BY <1>16, <2>1 DEF WriteFrames, ControlInv, WriterInv, TypeOK
<1>17. ASSUME WriteFails PROVE ControlInv'
  <2>1. control \notin {"spawn", "record"}
    <3>1. readFrame # writeFrame
      BY <1>17 DEF WriteFails, WriterInv, TypeOK
    <3> QED BY <3>1 DEF ControlInv
  <2> QED BY <1>17, <2>1 DEF WriteFails, ControlInv, WriterInv, TypeOK
<1>18. ASSUME CheckState PROVE ControlInv'
  BY <1>18 DEF CheckState, ControlInv, TypeOK
<1>19. ASSUME CheckActive PROVE ControlInv'
  BY <1>19 DEF CheckActive, ControlInv, TypeOK
<1>20. ASSUME CheckFinal PROVE ControlInv'
  BY <1>20 DEF CheckFinal, ControlInv, TypeOK
<1>21. ASSUME Wake PROVE ControlInv'
  BY <1>21 DEF Wake, ControlInv, TypeOK
<1>22. ASSUME TimeOut PROVE ControlInv'
  BY <1>22 DEF TimeOut, ControlInv, TypeOK
<1>23. ASSUME Finalize PROVE ControlInv'
  BY <1>23 DEF Finalize, ControlInv, WriterInv
<1> QED
  BY <1>1, <1>2, <1>3, <1>4, <1>5, <1>6, <1>7, <1>8, <1>9, <1>10, <1>11, <1>12, <1>13, <1>14, <1>15, <1>16, <1>17, <1>18, <1>19, <1>20, <1>21, <1>22, <1>23
     DEF Next, ControlStep, AudioStep, WriterStep

\* What the writer may conclude.
LEMMA NextWriter == IInv /\ Overlap = FALSE /\ Next => WriterInv'
<1> SUFFICES ASSUME IInv, Overlap = FALSE, Next PROVE WriterInv'  OBVIOUS
<1> USE DEF IInv, flags, queue, controlVars, audioVars, writerVars, history
<1>1. ASSUME BeginStart PROVE WriterInv'
  BY <1>1 DEF BeginStart, WriterInv, ControlInv, AudioInv, TypeOK, Admitted, Counted
<1>2. ASSUME BeginStop PROVE WriterInv'
  BY <1>2 DEF BeginStop, WriterInv, ControlInv, AudioInv, TypeOK, Admitted, Counted
<1>3. ASSUME JoinAndFree PROVE WriterInv'
  BY <1>3 DEF JoinAndFree, WriterInv, ControlInv, AudioInv, TypeOK, Admitted, Counted
<1>4. ASSUME FinishStop PROVE WriterInv'
  BY <1>4 DEF FinishStop, WriterInv, ControlInv, AudioInv, TypeOK, Admitted, Counted
<1>5. ASSUME Prepare PROVE WriterInv'
  BY <1>5 DEF Prepare, WriterInv, ControlInv, AudioInv, TypeOK, Admitted, Counted
<1>6. ASSUME SpawnWriter PROVE WriterInv'
  BY <1>6 DEF SpawnWriter, WriterInv, ControlInv, AudioInv, TypeOK, Admitted, Counted
<1>7. ASSUME StartRecording PROVE WriterInv'
  BY <1>7 DEF StartRecording, WriterInv, ControlInv, AudioInv, TypeOK, Admitted, Counted
<1>8. ASSUME CaptureBegins PROVE WriterInv'
  BY <1>8 DEF CaptureBegins, WriterInv, ControlInv, AudioInv, TypeOK, Admitted, Counted
<1>9. ASSUME Enter PROVE WriterInv'
  BY <1>9 DEF Enter, WriterInv, ControlInv, AudioInv, TypeOK, Admitted, Counted
<1>10. ASSUME Recheck PROVE WriterInv'
  BY <1>10 DEF Recheck, WriterInv, ControlInv, AudioInv, TypeOK, Admitted, Counted
<1>11. ASSUME Room PROVE WriterInv'
  BY <1>11 DEF Room, WriterInv, ControlInv, AudioInv, TypeOK, Admitted, Counted
<1>12. ASSUME Copy PROVE WriterInv'
  BY <1>12 DEF Copy, WriterInv, ControlInv, AudioInv, TypeOK, Admitted, Counted
<1>13. ASSUME PublishBlock PROVE WriterInv'
  <2>1. /\ audio = "publish" /\ audio' = "leave" /\ writeFrame' = position + block
        /\ UNCHANGED <<state, errorCode, writer, joinable, chunk, readFrame>>
    BY <1>13 DEF PublishBlock
  <2>2. position = writeFrame /\ block \in Nat
    BY <2>1, BlockFacts DEF AudioInv
  <2>3. writer = "write" => chunk <= writeFrame' - readFrame
    BY <2>1, <2>2 DEF WriterInv, TypeOK
  <2>4. errorCode = 0 => writer \notin {"finalize", "ended"}
    BY <2>1 DEF WriterInv, Admitted
  <2> QED BY <2>1, <2>3, <2>4 DEF WriterInv, Admitted
<1>14. ASSUME Leave PROVE WriterInv'
  BY <1>14 DEF Leave, WriterInv, ControlInv, AudioInv, TypeOK, Admitted, Counted
<1>15. ASSUME LoadFrames PROVE WriterInv'
  <2>1. /\ writer' = (IF writeFrame = readFrame THEN "state" ELSE "write")
        /\ writer = "loop" /\ UNCHANGED <<state, errorCode, joinable, audio, readFrame, writeFrame>>
    BY <1>15 DEF LoadFrames
  <2>2. writer' = "write" => chunk' >= 1 /\ chunk' <= writeFrame - readFrame
    BY <1>15, <2>1, ChunkFacts
  <2> QED BY <2>1, <2>2 DEF WriterInv
<1>16. ASSUME WriteFrames PROVE WriterInv'
  BY <1>16 DEF WriteFrames, WriterInv, ControlInv, AudioInv, TypeOK, Admitted, Counted
<1>17. ASSUME WriteFails PROVE WriterInv'
  BY <1>17 DEF WriteFails, WriterInv, ControlInv, AudioInv, TypeOK, Admitted, Counted
<1>18. ASSUME CheckState PROVE WriterInv'
  BY <1>18 DEF CheckState, WriterInv, ControlInv, AudioInv, TypeOK, Admitted, Counted
<1>19. ASSUME CheckActive PROVE WriterInv'
  BY <1>19 DEF CheckActive, WriterInv, ControlInv, AudioInv, TypeOK, Admitted, Counted
<1>20. ASSUME CheckFinal PROVE WriterInv'
  BY <1>20 DEF CheckFinal, WriterInv, ControlInv, AudioInv, TypeOK, Admitted, Counted
<1>21. ASSUME Wake PROVE WriterInv'
  BY <1>21 DEF Wake, WriterInv, ControlInv, AudioInv, TypeOK, Admitted, Counted
<1>22. ASSUME TimeOut PROVE WriterInv'
  BY <1>22 DEF TimeOut, WriterInv, ControlInv, AudioInv, TypeOK, Admitted, Counted
<1>23. ASSUME Finalize PROVE WriterInv'
  BY <1>23 DEF Finalize, WriterInv, ControlInv, AudioInv, TypeOK, Admitted, Counted
<1> QED
  BY <1>1, <1>2, <1>3, <1>4, <1>5, <1>6, <1>7, <1>8, <1>9, <1>10, <1>11, <1>12, <1>13, <1>14, <1>15, <1>16, <1>17, <1>18, <1>19, <1>20, <1>21, <1>22, <1>23
     DEF Next, ControlStep, AudioStep, WriterStep

\* What a callback may rely on.
LEMMA NextAudio == IInv /\ Overlap = FALSE /\ Next => AudioInv'
<1> SUFFICES ASSUME IInv, Overlap = FALSE, Next PROVE AudioInv'  OBVIOUS
<1> USE DEF IInv, flags, queue, controlVars, audioVars, writerVars, history
<1>1. ASSUME BeginStart PROVE AudioInv'
  BY <1>1 DEF BeginStart, AudioInv, ControlInv, TypeOK, Counted
<1>2. ASSUME BeginStop PROVE AudioInv'
  BY <1>2 DEF BeginStop, AudioInv, ControlInv, TypeOK, Counted
<1>3. ASSUME JoinAndFree PROVE AudioInv'
  BY <1>3 DEF JoinAndFree, AudioInv, ControlInv, TypeOK, Counted
<1>4. ASSUME FinishStop PROVE AudioInv'
  BY <1>4 DEF FinishStop, AudioInv, ControlInv, TypeOK, Counted
<1>5. ASSUME Prepare PROVE AudioInv'
  BY <1>5 DEF Prepare, AudioInv, ControlInv, TypeOK, Counted
<1>6. ASSUME SpawnWriter PROVE AudioInv'
  BY <1>6 DEF SpawnWriter, AudioInv, ControlInv, TypeOK, Counted
<1>7. ASSUME StartRecording PROVE AudioInv'
  BY <1>7 DEF StartRecording, AudioInv, ControlInv, TypeOK, Counted
<1>8. ASSUME CaptureBegins PROVE AudioInv'
  <2>1. /\ audio = "idle" /\ block' \in Blocks /\ rendered' = rendered + block'
        /\ audio' \in {"idle", "enter"} /\ activeCaptures' = activeCaptures
    BY <1>8 DEF CaptureBegins
  <2>2. block' \in Nat /\ rendered \in Nat
    BY <2>1, BlockAssumption, BoundAssumption DEF TypeOK
  <2>3. block' <= rendered'
    <3>1. \A m, n \in Nat : n <= m + n  OBVIOUS
    <3> QED BY <2>1, <2>2, <3>1
  <2> QED BY <2>1, <2>3 DEF AudioInv, Counted
<1>9. ASSUME Enter PROVE AudioInv'
  BY <1>9 DEF Enter, AudioInv, ControlInv, TypeOK, Counted
<1>10. ASSUME Recheck PROVE AudioInv'
  BY <1>10 DEF Recheck, AudioInv, ControlInv, TypeOK, Counted
<1>11. ASSUME Room PROVE AudioInv'
  <2>1. /\ audio = "room" /\ position' = writeFrame /\ audio' \in {"copy", "leave"}
        /\ audio' = "copy" => block <= Capacity - (writeFrame - readFrame)
        /\ UNCHANGED <<activeCaptures, block, rendered, writeFrame, readFrame>>
    BY <1>11 DEF Room
  <2>2. audio' = "copy" => block + (writeFrame - readFrame) <= RingFrames
    <3>1. Capacity \in Nat /\ Capacity <= RingFrames  BY RingAssumption DEF Capacity
    <3>2. block \in Nat /\ writeFrame \in Nat /\ readFrame \in Nat /\ RingFrames \in Nat
      BY <2>1, BlockFacts, RingAssumption DEF TypeOK
    <3> QED BY <2>1, <3>1, <3>2
  <2> QED BY <2>1, <2>2 DEF AudioInv, Counted
<1>12. ASSUME Copy PROVE AudioInv'
  <2>1. /\ audio = "copy" /\ audio' = "publish" /\ (ring = Freed => ring' = Freed)
        /\ UNCHANGED <<activeCaptures, block, position, rendered, writeFrame, readFrame>>
    BY <1>12 DEF Copy
  <2>2. ring' # Freed =>
          \A i \in 1 .. block : ring'[CellOf(position + i - 1)] = rendered - block + i
    BY <1>12, <2>1, CopyFacts
  <2>3. \A p : CellOf(p)' = CellOf(p)  BY DEF CellOf
  <2> QED BY <2>1, <2>2, <2>3 DEF AudioInv, Counted
<1>13. ASSUME PublishBlock PROVE AudioInv'
  BY <1>13 DEF PublishBlock, AudioInv, ControlInv, TypeOK, Counted
<1>14. ASSUME Leave PROVE AudioInv'
  BY <1>14 DEF Leave, AudioInv, ControlInv, TypeOK, Counted
<1>15. ASSUME LoadFrames PROVE AudioInv'
  BY <1>15 DEF LoadFrames, AudioInv, ControlInv, TypeOK, Counted
<1>16. ASSUME WriteFrames PROVE AudioInv'
  <2>1. /\ readFrame \in Nat /\ readFrame' \in Nat /\ readFrame' >= readFrame
        /\ UNCHANGED <<ring, audio, activeCaptures, block, position, rendered, writeFrame>>
    BY <1>16, RingAssumption DEF WriteFrames, TypeOK
  <2>2. audio \in {"copy", "publish"} => block + (writeFrame - readFrame') <= RingFrames
    <3>1. audio \in {"copy", "publish"} => block \in Nat  BY BlockFacts
    <3> QED BY <2>1, <3>1, RingAssumption DEF AudioInv, TypeOK
  <2> QED BY <2>1, <2>2 DEF AudioInv
<1>17. ASSUME WriteFails PROVE AudioInv'
  <2>1. /\ readFrame \in Nat /\ readFrame' \in Nat /\ readFrame' >= readFrame
        /\ UNCHANGED <<ring, audio, activeCaptures, block, position, rendered, writeFrame>>
    BY <1>17, RingAssumption DEF WriteFails, TypeOK
  <2>2. audio \in {"copy", "publish"} => block + (writeFrame - readFrame') <= RingFrames
    <3>1. audio \in {"copy", "publish"} => block \in Nat  BY BlockFacts
    <3> QED BY <2>1, <3>1, RingAssumption DEF AudioInv, TypeOK
  <2> QED BY <2>1, <2>2 DEF AudioInv
<1>18. ASSUME CheckState PROVE AudioInv'
  BY <1>18 DEF CheckState, AudioInv, ControlInv, TypeOK, Counted
<1>19. ASSUME CheckActive PROVE AudioInv'
  BY <1>19 DEF CheckActive, AudioInv, ControlInv, TypeOK, Counted
<1>20. ASSUME CheckFinal PROVE AudioInv'
  BY <1>20 DEF CheckFinal, AudioInv, ControlInv, TypeOK, Counted
<1>21. ASSUME Wake PROVE AudioInv'
  BY <1>21 DEF Wake, AudioInv, ControlInv, TypeOK, Counted
<1>22. ASSUME TimeOut PROVE AudioInv'
  BY <1>22 DEF TimeOut, AudioInv, ControlInv, TypeOK, Counted
<1>23. ASSUME Finalize PROVE AudioInv'
  BY <1>23 DEF Finalize, AudioInv, ControlInv, TypeOK, Counted
<1> QED
  BY <1>1, <1>2, <1>3, <1>4, <1>5, <1>6, <1>7, <1>8, <1>9, <1>10, <1>11, <1>12, <1>13, <1>14, <1>15, <1>16, <1>17, <1>18, <1>19, <1>20, <1>21, <1>22, <1>23
     DEF Next, ControlStep, AudioStep, WriterStep

\* A write, whole or short, moves frames from the ring to the end of the file.
LEMMA WriteFacts ==
    ASSUME IInv, WriteFrames \/ WriteFails
    PROVE  file' \in Seq(1 .. MaxFrames) /\ readFrame' \in Nat /\ FramesInv'
<1>1. PICK n \in 0 .. chunk : file' = file \o Read(n) /\ readFrame' = readFrame + n
  <2>1. CASE WriteFrames
    <3>1. chunk \in 0 .. chunk  BY RingAssumption DEF IInv, TypeOK
    <3> QED BY <2>1, <3>1 DEF WriteFrames
  <2>2. CASE WriteFails
    <3>1. PICK n \in 0 .. chunk - 1 : file' = file \o Read(n) /\ readFrame' = readFrame + n
      BY <2>2 DEF WriteFails
    <3>2. n \in 0 .. chunk  BY RingAssumption DEF IInv, TypeOK
    <3> QED BY <3>1, <3>2
  <2> QED BY <2>1, <2>2
<1>2. /\ writer = "write" /\ UNCHANGED <<ring, captured, writeFrame>>
  BY DEF WriteFrames, WriteFails
<1>3. ring # Freed  BY <1>2 DEF IInv, WriterInv, ControlInv
<1>4. /\ readFrame \in Nat /\ writeFrame \in Nat /\ RingFrames \in Nat
      /\ readFrame <= writeFrame /\ writeFrame - readFrame <= RingFrames
      /\ Len(captured) = writeFrame /\ Len(file) = readFrame
      /\ file \in Seq(1 .. MaxFrames)
      /\ \A i \in 1 .. readFrame : file[i] = captured[i]
  BY RingAssumption DEF IInv, TypeOK, FramesInv
<1>5. n \in Nat /\ n \in 0 .. writeFrame - readFrame
  BY <1>2, <1>4 DEF IInv, WriterInv, TypeOK
<1>6. /\ Read(n) \in Seq(1 .. MaxFrames) /\ Len(Read(n)) = n
      /\ \A i \in 1 .. n : Read(n)[i] = captured[readFrame + i]
  BY <1>3, <1>5, ReadFacts
<1>7. /\ file' \in Seq(1 .. MaxFrames) /\ Len(file') = readFrame + n
      /\ \A i \in 1 .. readFrame + n : file'[i] =
           IF i <= readFrame THEN file[i] ELSE Read(n)[i - readFrame]
  <2>1. /\ file \o Read(n) \in Seq(1 .. MaxFrames)
        /\ Len(file \o Read(n)) = Len(file) + Len(Read(n))
        /\ \A i \in 1 .. Len(file) + Len(Read(n)) : (file \o Read(n))[i] =
             IF i <= Len(file) THEN file[i] ELSE Read(n)[i - Len(file)]
    BY <1>4, <1>6, ConcatProperties
  <2> QED BY <1>1, <1>4, <1>6, <2>1
<1>8. ASSUME NEW i \in 1 .. readFrame + n PROVE file'[i] = captured[i]
  <2>1. CASE i <= readFrame
    <3>1. i \in 1 .. readFrame  BY <1>4, <1>5, <2>1
    <3> QED BY <1>4, <1>7, <2>1, <3>1
  <2>2. CASE ~(i <= readFrame)
    <3>1. i - readFrame \in 1 .. n /\ readFrame + (i - readFrame) = i
      BY <1>4, <1>5, <2>2
    <3>2. Read(n)[i - readFrame] = captured[readFrame + (i - readFrame)]  BY <1>6, <3>1
    <3> QED BY <1>7, <2>2, <3>1, <3>2
  <2> QED BY <2>1, <2>2
<1>9. \A k \in readFrame' + 1 .. writeFrame : ring[CellOf(k - 1)] = captured[k]
  <2>1. \A k \in readFrame' + 1 .. writeFrame : k \in readFrame + 1 .. writeFrame
    BY <1>1, <1>4, <1>5
  <2> QED BY <1>3, <2>1 DEF IInv, FramesInv
<1>10. readFrame' \in Nat /\ readFrame' <= writeFrame /\ writeFrame - readFrame' <= RingFrames
  BY <1>1, <1>4, <1>5
<1>11. \A p : CellOf(p)' = CellOf(p)  BY DEF CellOf
<1>12. FramesInv'
  BY <1>1, <1>2, <1>4, <1>7, <1>8, <1>9, <1>10, <1>11 DEF FramesInv
<1> QED BY <1>7, <1>10, <1>12

\* Types and ranges, the history included.
LEMMA NextType == IInv /\ Overlap = FALSE /\ Next => TypeOK'
<1> SUFFICES ASSUME IInv, Overlap = FALSE, Next PROVE TypeOK'  OBVIOUS
<1> USE DEF IInv, flags, queue, controlVars, audioVars, writerVars, history
<1>1. ASSUME BeginStart PROVE TypeOK'
  <2>1. recordings' \in 0 .. MaxRecordings  BY <1>1, BoundAssumption DEF BeginStart, TypeOK
  <2> QED BY <1>1, <2>1 DEF BeginStart, TypeOK
<1>2. ASSUME BeginStop PROVE TypeOK'
  <2>1. oldState' \in {"Stopped", "Recording", "Stopping", "Error"}
    BY <1>2 DEF BeginStop, ControlInv, TypeOK
  <2>2. wakeEvent' \in BOOLEAN  BY <1>2 DEF BeginStop, TypeOK
  <2>3. state' \in {state, "Stopping"}
        /\ control' \in {"idle", "prepare", "join", "rejoin"}
    BY <1>2 DEF BeginStop
  <2>4. UNCHANGED <<errorCode, activeCaptures, writeFrame, readFrame, dropped,
                   ring, recordings, audioVars, writerVars, history>>
    BY <1>2 DEF BeginStop
  <2> QED BY <2>1, <2>2, <2>3, <2>4 DEF TypeOK
<1>3. ASSUME JoinAndFree PROVE TypeOK'
  BY ZenonT(30), <1>3 DEF JoinAndFree, TypeOK
<1>4. ASSUME FinishStop PROVE TypeOK'
  BY <1>4 DEF FinishStop, TypeOK
<1>5. ASSUME Prepare PROVE TypeOK'
  <2>1. ring' = [c \in Cells |-> NoFrame] /\ captured' = << >> /\ file' = << >>
    BY <1>5 DEF Prepare
  <2>2. ring' \in [Cells -> 1 .. MaxFrames \cup {NoFrame}]  BY <2>1
  <2>3. captured' \in Seq(1 .. MaxFrames) /\ file' \in Seq(1 .. MaxFrames)
    BY <2>1, EmptySeq
  <2>4. /\ wakeEvent' \in BOOLEAN /\ control' = "spawn" /\ errorCode' = 0
        /\ activeCaptures' = 0 /\ writeFrame' = 0 /\ readFrame' = 0 /\ dropped' = 0
        /\ UNCHANGED <<state, oldState, recordings, audioVars, writerVars, rendered>>
    BY <1>5 DEF Prepare
  <2> QED BY <2>2, <2>3, <2>4 DEF TypeOK
<1>6. ASSUME SpawnWriter PROVE TypeOK'
  BY <1>6 DEF SpawnWriter, TypeOK
<1>7. ASSUME StartRecording PROVE TypeOK'
  BY <1>7 DEF StartRecording, TypeOK
<1>8. ASSUME CaptureBegins PROVE TypeOK'
  <2>1. rendered' \in 0 .. MaxFrames /\ block' \in Blocks
    BY <1>8, BlockAssumption, BoundAssumption DEF CaptureBegins, TypeOK
  <2> QED BY <1>8, <2>1 DEF CaptureBegins, TypeOK
<1>9. ASSUME Enter PROVE TypeOK'
  <2>1. activeCaptures' = 1  BY <1>9 DEF Enter, AudioInv, Counted
  <2> QED BY <1>9, <2>1 DEF Enter, TypeOK
<1>10. ASSUME Recheck PROVE TypeOK'
  BY <1>10 DEF Recheck, TypeOK
<1>11. ASSUME Room PROVE TypeOK'
  <2>1. block \in Nat  BY <1>11, BlockFacts DEF Room
  <2>2. dropped' \in Nat  BY <1>11, <2>1 DEF Room, TypeOK
  <2> QED BY <1>11, <2>2 DEF Room, TypeOK
<1>12. ASSUME Copy PROVE TypeOK'
  <2>1. ring' = Freed \/ ring' \in [Cells -> 1 .. MaxFrames \cup {NoFrame}]
    <3>1. ring = Freed => ring' = Freed  BY <1>12 DEF Copy
    <3> QED BY <1>12, <3>1, CopyFacts
  <2>2. /\ audio' = "publish"
        /\ UNCHANGED <<flags, activeCaptures, writeFrame, readFrame, dropped, wakeEvent,
                       controlVars, block, position, writerVars, history>>
    BY <1>12 DEF Copy
  <2> QED BY <2>1, <2>2 DEF TypeOK
<1>13. ASSUME PublishBlock PROVE TypeOK'
  <2>1. block \in Nat /\ Block \in Seq(1 .. MaxFrames)  BY <1>13, BlockFacts DEF PublishBlock
  <2>2. captured' \in Seq(1 .. MaxFrames)
    BY <1>13, <2>1, ConcatProperties DEF PublishBlock, TypeOK
  <2>3. writeFrame' \in Nat  BY <1>13, <2>1 DEF PublishBlock, TypeOK
  <2> QED BY <1>13, <2>2, <2>3 DEF PublishBlock, TypeOK
<1>14. ASSUME Leave PROVE TypeOK'
  <2>1. activeCaptures' = 0  BY <1>14 DEF Leave, AudioInv, Counted
  <2> QED BY <1>14, <2>1 DEF Leave, TypeOK
<1>15. ASSUME LoadFrames PROVE TypeOK'
  <2>1. chunk' \in 0 .. RingFrames  BY <1>15, ChunkFacts
  <2>2. /\ writer' \in {"state", "write"}
        /\ UNCHANGED <<flags, queue, controlVars, audioVars, joinable, history>>
    BY <1>15 DEF LoadFrames
  <2> QED BY <2>1, <2>2 DEF TypeOK
<1>16. ASSUME WriteFrames PROVE TypeOK'
  <2>1. file' \in Seq(1 .. MaxFrames) /\ readFrame' \in Nat  BY <1>16, WriteFacts
  <2> QED BY <1>16, <2>1 DEF WriteFrames, TypeOK
<1>17. ASSUME WriteFails PROVE TypeOK'
  <2>1. file' \in Seq(1 .. MaxFrames) /\ readFrame' \in Nat  BY <1>17, WriteFacts
  <2> QED BY <1>17, <2>1 DEF WriteFails, TypeOK
<1>18. ASSUME CheckState PROVE TypeOK'
  BY <1>18 DEF CheckState, TypeOK
<1>19. ASSUME CheckActive PROVE TypeOK'
  BY <1>19 DEF CheckActive, TypeOK
<1>20. ASSUME CheckFinal PROVE TypeOK'
  BY <1>20 DEF CheckFinal, TypeOK
<1>21. ASSUME Wake PROVE TypeOK'
  <2>1. wakeEvent' \in BOOLEAN  BY <1>21 DEF Wake
  <2> QED BY <1>21, <2>1 DEF Wake, TypeOK
<1>22. ASSUME TimeOut PROVE TypeOK'
  BY <1>22 DEF TimeOut, TypeOK
<1>23. ASSUME Finalize PROVE TypeOK'
  BY <1>23 DEF Finalize, TypeOK
<1> QED
  BY <1>1, <1>2, <1>3, <1>4, <1>5, <1>6, <1>7, <1>8, <1>9, <1>10, <1>11, <1>12, <1>13, <1>14, <1>15, <1>16, <1>17, <1>18, <1>19, <1>20, <1>21, <1>22, <1>23
     DEF Next, ControlStep, AudioStep, WriterStep

\* A step that moves neither position and at most frees the ring.
LEMMA FramesFrame ==
    ASSUME FramesInv, UNCHANGED <<captured, file, writeFrame, readFrame>>,
           ring' = ring \/ ring' = Freed
    PROVE  FramesInv'
<1>1. \A p : CellOf(p)' = CellOf(p)  BY DEF CellOf
<1> QED BY <1>1 DEF FramesInv

\* What the file and the ring hold.
LEMMA NextFrames == IInv /\ Overlap = FALSE /\ Next => FramesInv'
<1> SUFFICES ASSUME IInv, Overlap = FALSE, Next PROVE FramesInv'  OBVIOUS
<1> USE DEF IInv, flags, queue, controlVars, audioVars, writerVars, history
<1>1. ASSUME BeginStart PROVE FramesInv'
  BY <1>1, FramesFrame DEF BeginStart
<1>2. ASSUME BeginStop PROVE FramesInv'
  BY <1>2, FramesFrame DEF BeginStop
<1>3. ASSUME JoinAndFree PROVE FramesInv'
  BY <1>3, FramesFrame DEF JoinAndFree
<1>4. ASSUME FinishStop PROVE FramesInv'
  BY <1>4, FramesFrame DEF FinishStop
<1>5. ASSUME Prepare PROVE FramesInv'
  <2>1. /\ captured' = << >> /\ file' = << >> /\ writeFrame' = 0 /\ readFrame' = 0
    BY <1>5 DEF Prepare
  <2>2. Len(captured') = 0 /\ Len(file') = 0  BY <2>1, EmptySeq
  <2> QED BY <2>1, <2>2, CellFacts DEF FramesInv
<1>6. ASSUME SpawnWriter PROVE FramesInv'
  BY <1>6, FramesFrame DEF SpawnWriter
<1>7. ASSUME StartRecording PROVE FramesInv'
  BY <1>7, FramesFrame DEF StartRecording
<1>8. ASSUME CaptureBegins PROVE FramesInv'
  BY <1>8, FramesFrame DEF CaptureBegins
<1>9. ASSUME Enter PROVE FramesInv'
  BY <1>9, FramesFrame DEF Enter
<1>10. ASSUME Recheck PROVE FramesInv'
  BY <1>10, FramesFrame DEF Recheck
<1>11. ASSUME Room PROVE FramesInv'
  BY <1>11, FramesFrame DEF Room
<1>12. ASSUME Copy PROVE FramesInv'
  <2>1. /\ UNCHANGED <<captured, file, writeFrame, readFrame>> /\ (ring = Freed => ring' = Freed)
    BY <1>12 DEF Copy
  <2>2. \A p : CellOf(p)' = CellOf(p)  BY DEF CellOf
  <2>3. ring' # Freed => \A k \in readFrame + 1 .. writeFrame : ring'[CellOf(k - 1)] = captured[k]
    BY <1>12, <2>1, CopyFacts DEF FramesInv
  <2> QED BY <2>1, <2>2, <2>3 DEF FramesInv
<1>13. ASSUME PublishBlock PROVE FramesInv'
  <2>1. /\ audio = "publish" /\ captured' = captured \o Block
        /\ writeFrame' = position + block
        /\ UNCHANGED <<file, readFrame, ring>>
    BY <1>13 DEF PublishBlock
  <2>2. /\ Block \in Seq(1 .. MaxFrames) /\ Len(Block) = block /\ block \in Nat
        /\ block >= 1 /\ \A i \in 1 .. block : Block[i] = rendered - block + i
    BY <2>1, BlockFacts
  <2>3. /\ position = writeFrame /\ block + (writeFrame - readFrame) <= RingFrames
        /\ ring # Freed =>
             \A i \in 1 .. block : ring[CellOf(position + i - 1)] = rendered - block + i
    BY <2>1 DEF AudioInv
  <2>4. /\ readFrame \in Nat /\ writeFrame \in Nat /\ RingFrames \in Nat
        /\ captured \in Seq(1 .. MaxFrames) /\ Len(captured) = writeFrame
        /\ readFrame <= writeFrame
    BY RingAssumption DEF TypeOK, FramesInv
  <2>5. /\ Len(captured') = writeFrame + block
        /\ \A i \in 1 .. writeFrame + block : captured'[i] =
             IF i <= writeFrame THEN captured[i] ELSE Block[i - writeFrame]
    BY ZenonT(30), <2>1, <2>2, <2>4, ConcatProperties
  <2>6. \A p : CellOf(p)' = CellOf(p)  BY DEF CellOf
  <2>7. ASSUME ring # Freed, NEW k \in readFrame + 1 .. writeFrame + block
        PROVE  ring[CellOf(k - 1)] = captured'[k]
    <3>1. CASE k <= writeFrame
      <4>1. k \in readFrame + 1 .. writeFrame /\ k \in 1 .. writeFrame + block
        BY <2>2, <2>4, <3>1
      <4> QED BY <2>5, <2>7, <3>1, <4>1 DEF FramesInv
    <3>2. CASE ~(k <= writeFrame)
      <4> DEFINE i == k - writeFrame
      <4>1. i \in 1 .. block /\ k \in 1 .. writeFrame + block /\ position + i - 1 = k - 1
            /\ i \in Nat
        BY <2>2, <2>3, <2>4, <3>2
      <4>2. captured'[k] = Block[i]  BY <2>5, <3>2, <4>1
      <4> HIDE DEF i
      <4>3. ring[CellOf(position + i - 1)] = Block[i]  BY <2>2, <2>3, <2>7, <4>1
      <4> QED BY <4>1, <4>2, <4>3
    <3> QED BY <3>1, <3>2
  <2>8. \A i \in 1 .. readFrame : file[i] = captured'[i]
    <3>1. \A i \in 1 .. readFrame : i <= writeFrame /\ i \in 1 .. writeFrame + block
      BY <2>2, <2>4
    <3> QED BY <2>5, <3>1 DEF FramesInv
  <2>9. /\ writeFrame' = writeFrame + block /\ readFrame <= writeFrame'
        /\ writeFrame' - readFrame <= RingFrames
    BY <2>1, <2>2, <2>3, <2>4
  <2>10. Len(file) = readFrame  BY DEF FramesInv
  <2> QED BY <2>1, <2>5, <2>6, <2>7, <2>8, <2>9, <2>10 DEF FramesInv
<1>14. ASSUME Leave PROVE FramesInv'
  BY <1>14, FramesFrame DEF Leave
<1>15. ASSUME LoadFrames PROVE FramesInv'
  BY <1>15, FramesFrame DEF LoadFrames
<1>16. ASSUME WriteFrames PROVE FramesInv'
  BY <1>16, WriteFacts
<1>17. ASSUME WriteFails PROVE FramesInv'
  BY <1>17, WriteFacts
<1>18. ASSUME CheckState PROVE FramesInv'
  BY <1>18, FramesFrame DEF CheckState
<1>19. ASSUME CheckActive PROVE FramesInv'
  BY <1>19, FramesFrame DEF CheckActive
<1>20. ASSUME CheckFinal PROVE FramesInv'
  BY <1>20, FramesFrame DEF CheckFinal
<1>21. ASSUME Wake PROVE FramesInv'
  BY <1>21, FramesFrame DEF Wake
<1>22. ASSUME TimeOut PROVE FramesInv'
  BY <1>22, FramesFrame DEF TimeOut
<1>23. ASSUME Finalize PROVE FramesInv'
  BY <1>23, FramesFrame DEF Finalize
<1> QED
  BY <1>1, <1>2, <1>3, <1>4, <1>5, <1>6, <1>7, <1>8, <1>9, <1>10, <1>11, <1>12, <1>13, <1>14, <1>15, <1>16, <1>17, <1>18, <1>19, <1>20, <1>21, <1>22, <1>23
     DEF Next, ControlStep, AudioStep, WriterStep

-----------------------------------------------------------------------------
(* The theorems.                                                           *)

LEMMA NextInvariant ==
    ASSUME Overlap = FALSE
    PROVE  IInv /\ [Next]_vars => IInv'
<1> SUFFICES ASSUME IInv, [Next]_vars PROVE IInv'  OBVIOUS
<1>1. CASE Next
  BY <1>1, NextType, NextControl, NextWriter, NextAudio, NextFrames DEF IInv
<1>2. CASE UNCHANGED vars
  <2> USE <1>2 DEF IInv, vars, flags, queue, controlVars, audioVars, writerVars, history
  <2>1. TypeOK'  BY DEF TypeOK
  <2>2. ControlInv' /\ WriterInv'  BY DEF ControlInv, WriterInv
  <2>3. \A p : CellOf(p)' = CellOf(p)  BY DEF CellOf
  <2>4. AudioInv'  BY <2>3 DEF AudioInv
  <2>5. FramesInv'  BY FramesFrame
  <2> QED BY <2>1, <2>2, <2>4, <2>5
<1> QED BY <1>1, <1>2

\* The inductive invariant, for any ring, blocks, bounds and failures.
THEOREM Invariant == ASSUME Overlap = FALSE PROVE Spec => []IInv
BY InitInvariant, NextInvariant, PTL DEF Spec

\* Type correctness; in particular activeCaptures_ is 0 or 1 and the ring never
\* holds a frame that was not rendered.
THEOREM TypeCorrect == ASSUME Overlap = FALSE PROVE Spec => []TypeOK
<1>1. IInv => TypeOK  BY DEF IInv
<1> QED BY <1>1, Invariant, PTL

\* The file and the unread part of the ring are, in order, what was captured.
THEOREM RecordingIntact == ASSUME Overlap = FALSE PROVE Spec => []Intact
<1>1. ASSUME IInv, ring # Freed
      PROVE  /\ writeFrame - readFrame \in 0 .. RingFrames
             /\ file \o Read(writeFrame - readFrame) = captured
  <2> DEFINE n == writeFrame - readFrame
  <2>1. /\ readFrame \in Nat /\ writeFrame \in Nat /\ RingFrames \in Nat
        /\ readFrame <= writeFrame /\ writeFrame - readFrame <= RingFrames
        /\ Len(captured) = writeFrame /\ Len(file) = readFrame
        /\ file \in Seq(1 .. MaxFrames) /\ captured \in Seq(1 .. MaxFrames)
        /\ \A i \in 1 .. readFrame : file[i] = captured[i]
    BY <1>1, RingAssumption DEF IInv, TypeOK, FramesInv
  <2>2. n \in 0 .. RingFrames /\ n \in 0 .. writeFrame - readFrame /\ n \in Nat
        /\ readFrame + n = writeFrame
    BY <2>1
  <2> HIDE DEF n
  <2>3. /\ Read(n) \in Seq(1 .. MaxFrames) /\ Len(Read(n)) = n
        /\ \A i \in 1 .. n : Read(n)[i] = captured[readFrame + i]
    BY <1>1, <2>2, ReadFacts
  <2>4. /\ file \o Read(n) \in Seq(1 .. MaxFrames)
        /\ Len(file \o Read(n)) = Len(file) + Len(Read(n))
        /\ \A i \in 1 .. Len(file) + Len(Read(n)) : (file \o Read(n))[i] =
             IF i <= Len(file) THEN file[i] ELSE Read(n)[i - Len(file)]
    BY <2>1, <2>3, ConcatProperties
  <2>5. Len(file \o Read(n)) = Len(captured)  BY <2>1, <2>2, <2>3, <2>4
  <2>6. ASSUME NEW i \in 1 .. Len(file \o Read(n))
        PROVE  (file \o Read(n))[i] = captured[i]
    <3>1. i \in 1 .. readFrame + n  BY <2>1, <2>3, <2>4
    <3>2. (file \o Read(n))[i] =
             IF i <= readFrame THEN file[i] ELSE Read(n)[i - readFrame]
      BY <2>1, <2>3, <2>4, <3>1
    <3>3. CASE i <= readFrame
      <4>1. i \in 1 .. readFrame  BY <2>1, <2>2, <3>1, <3>3
      <4> QED BY <2>1, <3>2, <3>3, <4>1
    <3>4. CASE ~(i <= readFrame)
      <4>1. i - readFrame \in 1 .. n /\ readFrame + (i - readFrame) = i
        BY <2>1, <2>2, <3>1, <3>4
      <4>2. Read(n)[i - readFrame] = captured[readFrame + (i - readFrame)]
        BY <2>3, <4>1
      <4> QED BY <3>2, <3>4, <4>1, <4>2
    <3> QED BY <3>3, <3>4
  <2>7. file \o Read(n) = captured
    BY <2>1, <2>4, <2>5, <2>6, SeqEqual
  <2> QED BY <2>2, <2>7 DEF n
<1>2. IInv => Intact  BY <1>1 DEF Intact
<1> QED BY <1>2, Invariant, PTL

\* Capture never writes into, or publishes to, a ring that Stop has freed,
\* unless the writer had given up on the file.
THEOREM CopiesIntoLiveRing == ASSUME Overlap = FALSE PROVE Spec => []RingAlive
<1>1. IInv => RingAlive
  BY DEF IInv, ControlInv, WriterInv, Admitted, RingAlive
<1> QED BY <1>1, Invariant, PTL

\* A recorder that came to rest without an error left nothing in the ring.
THEOREM StopsComplete == ASSUME Overlap = FALSE PROVE Spec => []StoppedIsComplete
<1>1. ASSUME IInv, control = "idle", state = "Stopped", errorCode = 0
      PROVE  file = captured
  <2>1. readFrame = writeFrame  BY <1>1 DEF IInv, WriterInv
  <2>2. /\ file \in Seq(1 .. MaxFrames) /\ captured \in Seq(1 .. MaxFrames)
        /\ Len(file) = Len(captured)
        /\ \A i \in 1 .. Len(file) : file[i] = captured[i]
    BY <1>1, <2>1 DEF IInv, TypeOK, FramesInv
  <2> QED BY <2>2, SeqEqual
<1>2. IInv => StoppedIsComplete  BY <1>1 DEF StoppedIsComplete
<1> QED BY <1>2, Invariant, PTL
=============================================================================
