---------------------------- MODULE LiveRecorder ----------------------------
(***************************************************************************)
(* LiveWaveRecorder (src/src/synth/LiveRecorder.cpp): the audio callback   *)
(* captures blocks of frames into a ring, a writer thread moves them to    *)
(* the WAV file, and one control thread starts and stops recordings.       *)
(* Frames are numbered, so that their way into the file can be followed;   *)
(* the WAV header is reduced to whether writing it succeeds.               *)
(* A Start that fails (path, memory, header, event, thread) leaves no      *)
(* recording behind and is not modelled.                                   *)
(***************************************************************************)
EXTENDS Integers, Sequences

CONSTANTS RingFrames,     \* ringCapacityFrames_ of a running recording
          Blocks,         \* frames per callback
          MaxFrames,      \* bound: frames rendered
          MaxRecordings,  \* bound: Start calls
          MayFail,        \* whether fwrite, fflush or fclose may fail
          Overlap,        \* whether one callback may last from before a Stop
                          \* until after the preparations of the next Start
          NoFrame

ASSUME RingAssumption == RingFrames \in Nat \ {0}
ASSUME BlockAssumption == Blocks \subseteq Nat \ {0}
ASSUME BoundAssumption == MaxFrames \in Nat /\ MaxRecordings \in Nat
ASSUME SwitchAssumption == MayFail \in BOOLEAN /\ Overlap \in BOOLEAN
ASSUME FrameAssumption == NoFrame \notin Nat

Cells == 0 .. RingFrames - 1

VARIABLES state, errorCode, activeCaptures, writeFrame, readFrame,
          dropped,     \* droppedFrames_
          ring,        \* the buffer; <<>> once freed
          wakeEvent,
          control, oldState, recordings,   \* the control thread
          audio, block, position,          \* a callback inside Capture
          writer, chunk, joinable,         \* the writer thread
          captured, file, rendered         \* history of this recording, and
                                           \* the frames rendered so far

flags == <<state, errorCode>>
queue == <<activeCaptures, writeFrame, readFrame, dropped, ring, wakeEvent>>
controlVars == <<control, oldState, recordings>>
audioVars == <<audio, block, position>>
writerVars == <<writer, chunk, joinable>>
history == <<captured, file, rendered>>
vars == <<flags, queue, controlVars, audioVars, writerVars, history>>

Freed == <<>>
Init ==
    /\ state = "Stopped" /\ errorCode = 0 /\ activeCaptures = 0
    /\ writeFrame = 0 /\ readFrame = 0 /\ dropped = 0
    /\ ring = Freed /\ wakeEvent = FALSE
    /\ control = "idle" /\ oldState = "Stopped" /\ recordings = 0
    /\ audio = "idle" /\ block = 0 /\ position = 0
    /\ writer = "ended" /\ chunk = 0 /\ joinable = FALSE
    /\ captured = <<>> /\ file = <<>> /\ rendered = 0

-----------------------------------------------------------------------------
(* Control: Start (which begins with a Stop) and Stop.                     *)

\* The exchange of Stop; nothing to stop if no writer was ever left.
BeginStop ==
    /\ control \in {"idle", "restart"}
    /\ oldState' = state
    /\ IF state = "Stopped" /\ ~joinable
         THEN /\ control' = IF control = "restart" THEN "prepare" ELSE "idle"
              /\ UNCHANGED <<state, wakeEvent>>
         ELSE /\ state' = "Stopping" /\ wakeEvent' = TRUE
              /\ control' = IF control = "restart" THEN "rejoin" ELSE "join"
    /\ UNCHANGED <<errorCode, activeCaptures, writeFrame, readFrame, dropped,
                   ring, recordings, audioVars, writerVars, history>>

\* Frees the ring without waiting for the writer.
FreeAtOnce ==
    /\ control \in {"join", "rejoin"}
    /\ joinable' = FALSE
    /\ ring' = Freed /\ wakeEvent' = FALSE
    /\ state' = IF oldState = "Error" THEN "Error" ELSE "Stopped"
    /\ control' = IF control = "join" THEN "idle" ELSE "prepare"
    /\ UNCHANGED <<errorCode, activeCaptures, writeFrame, readFrame, dropped,
                   oldState, recordings, audioVars, writer, chunk, history>>

\* The writer has ended: close the event, free the ring.
JoinAndFree ==
    /\ control \in {"join", "rejoin"} /\ writer = "ended"
    /\ joinable' = FALSE
    /\ ring' = Freed /\ wakeEvent' = FALSE
    /\ control' = IF control = "join" THEN "finish" ELSE "refinish"
    /\ UNCHANGED <<flags, activeCaptures, writeFrame, readFrame, dropped,
                   oldState, recordings, audioVars, writer, chunk, history>>

FinishStop ==
    /\ control \in {"finish", "refinish"}
    /\ state' = IF oldState = "Error" THEN "Error" ELSE "Stopped"
    /\ control' = IF control = "finish" THEN "idle" ELSE "prepare"
    /\ UNCHANGED <<errorCode, queue, oldState, recordings, audioVars, writerVars,
                   history>>

\* StartLiveRecording answers Busy unless the recorder is at rest.
BeginStart ==
    /\ control = "idle" /\ recordings < MaxRecordings
    /\ state \notin {"Recording", "Starting", "Stopping"}
    /\ control' = "restart" /\ recordings' = recordings + 1
    /\ UNCHANGED <<flags, queue, oldState, audioVars, writerVars, history>>

Prepare ==
    /\ control = "prepare" /\ (Overlap \/ audio = "idle")
    /\ ring' = [c \in Cells |-> NoFrame]
    /\ writeFrame' = 0 /\ readFrame' = 0 /\ dropped' = 0
    /\ activeCaptures' = 0 /\ errorCode' = 0 /\ wakeEvent' = FALSE
    /\ captured' = <<>> /\ file' = <<>>
    /\ control' = "spawn"
    /\ UNCHANGED <<state, oldState, recordings, audioVars, writerVars, rendered>>

SpawnWriter ==
    /\ control = "spawn"
    /\ state' = "Starting" /\ joinable' = TRUE /\ writer' = "loop"
    /\ control' = "record"
    /\ UNCHANGED <<errorCode, queue, oldState, recordings, audioVars, chunk,
                   history>>

StartRecording ==
    /\ control = "record"
    /\ state' = "Recording" /\ wakeEvent' = TRUE
    /\ control' = "idle"
    /\ UNCHANGED <<errorCode, activeCaptures, writeFrame, readFrame, dropped,
                   ring, oldState, recordings, audioVars, writerVars, history>>

-----------------------------------------------------------------------------
(* The audio callback: Capture.                                            *)

CaptureBegins ==
    /\ audio = "idle"
    /\ \E n \in Blocks : /\ rendered + n <= MaxFrames
                         /\ rendered' = rendered + n /\ block' = n
    /\ audio' = IF state = "Recording" THEN "enter" ELSE "idle"
    /\ UNCHANGED <<flags, queue, controlVars, position, writerVars, captured,
                   file>>

\* A capture that does not announce itself.
EnterUncounted ==
    /\ audio = "enter" /\ audio' = "recheck"
    /\ UNCHANGED <<flags, queue, controlVars, block, position, writerVars,
                   history>>

Enter ==
    /\ audio = "enter"
    /\ activeCaptures' = activeCaptures + 1 /\ audio' = "recheck"
    /\ UNCHANGED <<flags, writeFrame, readFrame, dropped, ring, wakeEvent,
                   controlVars, block, position, writerVars, history>>

Recheck ==
    /\ audio = "recheck"
    /\ audio' = IF state = "Recording" THEN "room" ELSE "leave"
    /\ UNCHANGED <<flags, queue, controlVars, block, position, writerVars,
                   history>>

\* Lets a block in that is one frame too long.
RoomOffByOne ==
    /\ audio = "room" /\ position' = writeFrame
    /\ IF block <= RingFrames + 1 - (writeFrame - readFrame)
         THEN audio' = "copy" /\ UNCHANGED dropped
         ELSE audio' = "leave" /\ dropped' = dropped + block
    /\ UNCHANGED <<flags, activeCaptures, writeFrame, readFrame, ring, wakeEvent,
                   controlVars, block, writerVars, history>>

\* A freed recorder has no capacity: every block is dropped.
Capacity == IF ring = Freed THEN 0 ELSE RingFrames
Room ==
    /\ audio = "room" /\ position' = writeFrame
    /\ IF block <= Capacity - (writeFrame - readFrame)
         THEN audio' = "copy" /\ UNCHANGED dropped
         ELSE audio' = "leave" /\ dropped' = dropped + block
    /\ UNCHANGED <<flags, activeCaptures, writeFrame, readFrame, ring, wakeEvent,
                   controlVars, block, writerVars, history>>

\* The last `block` frames rendered, into the cells behind position.
Block == [i \in 1 .. block |-> rendered - block + i]
Copy ==
    /\ audio = "copy"
    /\ ring' = IF ring = Freed THEN Freed
               ELSE [c \in Cells |->
                      IF \E i \in 1 .. block : (position + i - 1) % RingFrames = c
                      THEN Block[CHOOSE i \in 1 .. block :
                                   (position + i - 1) % RingFrames = c]
                      ELSE ring[c]]
    /\ audio' = "publish"
    /\ UNCHANGED <<flags, activeCaptures, writeFrame, readFrame, dropped,
                   wakeEvent, controlVars, block, position, writerVars, history>>

PublishBlock ==
    /\ audio = "publish"
    /\ writeFrame' = position + block /\ wakeEvent' = TRUE
    /\ captured' = captured \o Block
    /\ audio' = "leave"
    /\ UNCHANGED <<flags, activeCaptures, readFrame, dropped, ring, controlVars,
                   block, position, writerVars, file, rendered>>

\* A return that forgets to take the capture off the count.
LeaveCounted ==
    /\ audio = "leave" /\ audio' = "idle"
    /\ UNCHANGED <<flags, queue, controlVars, block, position, writerVars,
                   history>>

Leave ==
    /\ audio = "leave"
    /\ activeCaptures' = activeCaptures - 1 /\ audio' = "idle"
    /\ UNCHANGED <<flags, writeFrame, readFrame, dropped, ring, wakeEvent,
                   controlVars, block, position, writerVars, history>>

-----------------------------------------------------------------------------
(* The writer thread: WriterLoop.                                          *)

\* The contiguous frames up to the end of the ring.
LoadFrames ==
    /\ writer = "loop"
    /\ LET available == writeFrame - readFrame
           contiguous == RingFrames - (readFrame % RingFrames)
       IN  chunk' = IF available <= contiguous THEN available ELSE contiguous
    /\ writer' = IF writeFrame = readFrame THEN "state" ELSE "write"
    /\ UNCHANGED <<flags, queue, controlVars, audioVars, joinable, history>>

Read(n) == [i \in 1 .. n |-> ring[(readFrame + i - 1) % RingFrames]]

WriteFrames ==
    /\ writer = "write"
    /\ file' = file \o Read(chunk)
    /\ readFrame' = readFrame + chunk
    /\ writer' = "loop"
    /\ UNCHANGED <<flags, activeCaptures, writeFrame, dropped, ring, wakeEvent,
                   controlVars, audioVars, chunk, joinable, captured, rendered>>

\* A short write: what got into the file is counted, then the loop ends.
WriteFails ==
    /\ writer = "write" /\ MayFail
    /\ \E n \in 0 .. chunk - 1 :
         /\ file' = file \o Read(n) /\ readFrame' = readFrame + n
    /\ errorCode' = 1 /\ state' = "Error" /\ writer' = "finalize"
    /\ UNCHANGED <<activeCaptures, writeFrame, dropped, ring, wakeEvent,
                   controlVars, audioVars, chunk, joinable, captured, rendered>>

CheckState ==
    /\ writer = "state"
    /\ writer' = IF state \in {"Recording", "Starting"} THEN "sleep" ELSE "active"
    /\ UNCHANGED <<flags, queue, controlVars, audioVars, chunk, joinable, history>>

CheckActive ==
    /\ writer = "active"
    /\ writer' = IF activeCaptures = 0 THEN "final" ELSE "sleep"
    /\ UNCHANGED <<flags, queue, controlVars, audioVars, chunk, joinable, history>>

\* Ends on the emptiness seen before the captures were known to be over.
FinalUnchecked ==
    /\ writer = "final" /\ writer' = "finalize"
    /\ UNCHANGED <<flags, queue, controlVars, audioVars, chunk, joinable, history>>

CheckFinal ==
    /\ writer = "final"
    /\ writer' = IF readFrame = writeFrame THEN "finalize" ELSE "sleep"
    /\ UNCHANGED <<flags, queue, controlVars, audioVars, chunk, joinable, history>>

\* WaitForSingleObject(wakeEvent_, 100): the event or the time-out.
Wake ==
    /\ writer = "sleep" /\ wakeEvent
    /\ wakeEvent' = FALSE /\ writer' = "loop"
    /\ UNCHANGED <<flags, activeCaptures, writeFrame, readFrame, dropped, ring,
                   controlVars, audioVars, chunk, joinable, history>>

TimeOut ==
    /\ writer = "sleep" /\ ~wakeEvent
    /\ writer' = "loop"
    /\ UNCHANGED <<flags, queue, controlVars, audioVars, chunk, joinable, history>>

\* The header is patched, the file closed; either can fail.
Finalize ==
    /\ writer = "finalize" /\ writer' = "ended"
    /\ \/ UNCHANGED flags
       \/ MayFail /\ state' = "Error" /\ errorCode' \in {2, 3}
    /\ UNCHANGED <<queue, controlVars, audioVars, chunk, joinable, history>>

-----------------------------------------------------------------------------
ControlStep == JoinAndFree \/ FinishStop \/ Prepare \/ SpawnWriter
                 \/ StartRecording \/ (control = "restart" /\ BeginStop)
AudioStep == Enter \/ Recheck \/ Room \/ Copy \/ PublishBlock \/ Leave
WriterStep == LoadFrames \/ WriteFrames \/ WriteFails \/ CheckState
                \/ CheckActive \/ CheckFinal \/ Wake \/ TimeOut \/ Finalize

Next == BeginStart \/ BeginStop \/ ControlStep \/ CaptureBegins \/ AudioStep
          \/ WriterStep

Spec == Init /\ [][Next]_vars

\* A call that was made goes on, a callback that began ends, and the writer
\* runs; its wait has a time-out, so a sleeping writer does wake up.
FairSpec == /\ Spec
            /\ WF_vars(ControlStep) /\ WF_vars(AudioStep) /\ WF_vars(WriterStep)

-----------------------------------------------------------------------------
(* Properties.                                                             *)

TypeOK ==
    /\ state \in {"Stopped", "Starting", "Recording", "Stopping", "Error"}
    /\ oldState \in {"Stopped", "Recording", "Stopping", "Error"}
    /\ errorCode \in 0 .. 3
    /\ activeCaptures \in {0, 1} /\ writeFrame \in Nat /\ readFrame \in Nat
    /\ dropped \in Nat /\ wakeEvent \in BOOLEAN /\ joinable \in BOOLEAN
    /\ ring = Freed \/ ring \in [Cells -> 1 .. MaxFrames \cup {NoFrame}]
    /\ control \in {"idle", "restart", "join", "rejoin", "finish", "refinish",
                    "prepare", "spawn", "record"}
    /\ audio \in {"idle", "enter", "recheck", "room", "copy", "publish", "leave"}
    /\ writer \in {"loop", "write", "state", "active", "final", "sleep",
                   "finalize", "ended"}
    /\ block \in Blocks \cup {0} /\ position \in Nat /\ chunk \in 0 .. RingFrames
    /\ captured \in Seq(1 .. MaxFrames) /\ file \in Seq(1 .. MaxFrames)
    /\ rendered \in 0 .. MaxFrames /\ recordings \in 0 .. MaxRecordings

\* What is in the file, followed by what the ring still holds, is what was
\* captured: no frame is lost, doubled, reordered or overwritten unread.
Intact ==
    ring # Freed =>
      /\ writeFrame - readFrame \in 0 .. RingFrames
      /\ file \o Read(writeFrame - readFrame) = captured

\* As long as the writer did not fail, a callback never copies into, or
\* publishes to, a ring that Stop has freed.
RingAlive ==
    errorCode = 0 /\ audio \in {"copy", "publish"} => ring # Freed

\* When a recording without an error has stopped, everything captured is in
\* the file (the test's "all frames written").
StoppedIsComplete ==
    control = "idle" /\ state = "Stopped" /\ errorCode = 0 => file = captured

\* StopLiveRecording answers "recording stopped and WAV finalized", and the
\* configurator reports a file error only in the state Error: a recorder that
\* ends as Stopped wrote everything.
StoppedWithoutError ==
    control = "idle" /\ state = "Stopped" => errorCode = 0

\* Stop returns: the writer notices, waits for the callback that is inside
\* Capture, writes what is left and ends.
StopReturns == (control = "join") ~> (control = "idle")
=============================================================================
