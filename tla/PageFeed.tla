------------------------------ MODULE PageFeed ------------------------------
(***************************************************************************)
(* The pages of compiled events and the three threads that pass them on:   *)
(* a direct producer (SubmitShortBatchDirect), the compiler thread         *)
(* (EventCompilerLoop) and the audio callback (AudioRenderCallback), over  *)
(* CompiledEventPagePool and the import half of PagedEventScheduler        *)
(* (src/src/events/EventPages.h, src/src/driver/DriverIngress.cpp).        *)
(*                                                                         *)
(* directProducerLock_ admits one direct producer at a time, so one stands *)
(* for all.  Which due event the scheduler picks is not this module's      *)
(* question: the audio callback may consume a run of any active page.      *)
(* Sorting and merging inside a page are left out for the same reason.     *)
(* The raw ingress ring is a plain queue here (see IngressQueue).          *)
(***************************************************************************)
EXTENDS Integers, Sequences, FiniteSets

CONSTANTS PageCount,      \* pages of the pool
          PageCapacity,   \* kCompiledEventPageCapacity, also the compiler's chunk
          MaxDirect,      \* bound: events of the direct producer
          MaxRing,        \* bound: events sent through the ring
          NoPage, NoEvent

ASSUME PageAssumption == PageCount \in Nat /\ PageCount >= 3
ASSUME PageCapacityAssumption == PageCapacity \in Nat \ {0}
ASSUME BoundAssumption == MaxDirect \in Nat /\ MaxRing \in Nat

Pages == 0 .. PageCount - 1
Slots == 1 .. PageCapacity
DirectEvents == 1 .. MaxDirect
RingEvents == MaxDirect + 1 .. MaxDirect + MaxRing
Events == DirectEvents \cup RingEvents
Feeders == {"direct", "compiler"}

ASSUME NoPageAssumption == NoPage \notin Pages
ASSUME NoEventAssumption == NoEvent \notin Events

VARIABLES
    compilerFree, recycled, ready, readyEvents, poolLock,  \* the pool
    events, count,             \* payload and header of each page
    directState,               \* the open page: [page, count], page NoPage if none
    pc, held, moved,           \* a feeder: where it is, its page, and whether
                               \* compilerWakeEpoch_ moved since it was observed
    stage, done, snapshot,     \* SubmitShortBatchDirect's locals
    ring, timed, compiledCount, drained,  \* the ring and EventCompilerLoop's locals
    audio, hand, cursors, progress,       \* the callback and the scheduler
    cancelled,                 \* cancelProducers_
    submitted, accepted, dispatched, overrun  \* history

pool == <<compilerFree, recycled, ready, readyEvents, poolLock>>
pages == <<events, count>>
feeder == <<pc, held, moved>>
direct == <<stage, done, snapshot>>
compiler == <<ring, timed, compiledCount, drained>>
audioVars == <<audio, hand, cursors, progress>>
history == <<submitted, accepted, dispatched, overrun>>
vars == <<pool, pages, directState, feeder, direct, compiler, audioVars,
          cancelled, history>>

None == [page |-> NoPage, count |-> 0]
Open(p, n) == [page |-> p, count |-> n]
RangeOf(s) == {s[i] : i \in 1 .. Len(s)}

Init ==
    /\ compilerFree = [i \in 1 .. PageCount |-> PageCount - i]
    /\ recycled = <<>> /\ ready = <<>> /\ readyEvents = 0 /\ poolLock = "free"
    /\ events = [p \in Pages |-> [i \in Slots |-> NoEvent]]
    /\ count = [p \in Pages |-> 0]
    /\ directState = None
    /\ pc = [direct |-> "idle", compiler |-> "pop"]
    /\ held = [f \in Feeders |-> NoPage] /\ moved = [f \in Feeders |-> FALSE]
    /\ stage = <<>> /\ done = 0 /\ snapshot = None
    /\ ring = <<>> /\ timed = NoEvent /\ compiledCount = 0 /\ drained = 0
    /\ audio = "flush" /\ hand = None /\ cursors = <<>> /\ progress = FALSE
    /\ cancelled = FALSE
    /\ submitted = [f \in Feeders |-> 0] /\ accepted = {} /\ dispatched = [e \in Events |-> 0]
    /\ overrun = FALSE

Goto(f, label) == pc' = [pc EXCEPT ![f] = label]

\* SubmitShortBatchDirect with d events of its stage done: the next pass of the
\* loop, or the return, which ends the life of its locals.
Return == Goto("direct", "idle") /\ stage' = <<>> /\ done' = 0 /\ snapshot' = None
Continue(d) ==
    IF d = Len(stage) THEN Return
    ELSE Goto("direct", "load") /\ done' = d /\ snapshot' = None /\ UNCHANGED stage

\* The compiler thread, back at the top of its loop.
EndChunk ==
    /\ Goto("compiler", "pop") /\ compiledCount' = 0 /\ drained' = 0
    /\ UNCHANGED <<ring, timed>>

-----------------------------------------------------------------------------
(* Where a page is, and which of its slots hold events still to be played. *)

Active == DOMAIN cursors
Sealed(f) == IF f = "direct" THEN PageCapacity ELSE compiledCount

Live(p) ==
    UNION {IF directState.page = p THEN 1 .. directState.count ELSE {},
           IF hand.page = p THEN 1 .. hand.count ELSE {},
           IF p \in RangeOf(ready) THEN 1 .. count[p] ELSE {},
           IF p \in Active THEN cursors[p].offset + 1 .. cursors[p].count ELSE {},
           IF held["compiler"] = p THEN 1 .. compiledCount ELSE {},
           IF held["direct"] = p /\ pc["direct"] = "publish"
             THEN Slots ELSE {}}

-----------------------------------------------------------------------------
(* The pool, as a feeder uses it under compiledPoolLock_.                  *)

\* AcquireForCompiler: a recycled page first, then the free stack.
Available == recycled # <<>> \/ compilerFree # <<>>
TakePage(f) ==
    IF recycled # <<>>
      THEN /\ held' = [held EXCEPT ![f] = Head(recycled)]
           /\ recycled' = Tail(recycled) /\ UNCHANGED compilerFree
      ELSE /\ held' = [held EXCEPT ![f] = compilerFree[Len(compilerFree)]]
           /\ compilerFree' = SubSeq(compilerFree, 1, Len(compilerFree) - 1)
           /\ UNCHANGED recycled

AcquirePage(f) ==
    /\ pc[f] \in {"acquire", "retry"} /\ poolLock = "free" /\ Available
    /\ TakePage(f) /\ Goto(f, IF f = "direct" THEN "open" ELSE "fill")
    /\ UNCHANGED <<ready, readyEvents, poolLock, pages, directState, moved,
                   direct, compiler, audioVars, cancelled, history>>

\* The first refusal leads to the cancellation test, the second to the wait.
AcquireFails(f) ==
    /\ pc[f] \in {"acquire", "retry"} /\ poolLock = "free" /\ ~Available
    /\ Goto(f, IF pc[f] = "acquire" THEN "check" ELSE "wait")
    /\ UNCHANGED <<pool, pages, directState, held, moved, direct, compiler,
                   audioVars, cancelled, history>>

\* A refused page is waited for without a look at the flag.
CheckNothing(f) ==
    /\ pc[f] = "check" /\ Goto(f, "observe")
    /\ UNCHANGED <<pool, pages, directState, held, moved, direct, compiler,
                   audioVars, cancelled, history>>

\* Cancelled: the direct producer drops the rest of its stage, the compiler
\* thread ends with the event it has in hand.
CheckCancelled(f) ==
    /\ pc[f] = "check"
    /\ IF cancelled /\ f = "direct"
         THEN Return
         ELSE Goto(f, IF cancelled THEN "stopped" ELSE "observe") /\ UNCHANGED direct
    /\ UNCHANGED <<pool, pages, directState, held, moved, compiler, audioVars,
                   cancelled, history>>

ObserveEpoch(f) ==
    /\ pc[f] = "observe"
    /\ moved' = [moved EXCEPT ![f] = FALSE] /\ Goto(f, "retry")
    /\ UNCHANGED <<pool, pages, directState, held, direct, compiler,
                   audioVars, cancelled, history>>

Resume(f) ==
    /\ pc[f] = "wait" /\ Goto(f, IF f = "direct" THEN "load" ELSE "acquire")
    /\ UNCHANGED <<pool, pages, directState, held, moved, direct, compiler,
                   audioVars, cancelled, history>>
Wake(f) == moved[f] /\ Resume(f)
\* The 50 ms of WaitForAddressChange, or its Sleep(1) where the API is missing.
TimeOut(f) == ~moved[f] /\ Resume(f)

\* PublishFromCompiler up to the push.  Push refuses only a full queue, which
\* RoomForPages excludes, so the code's answers to a refusal are not modelled.
PublishPage(f) ==
    /\ pc[f] = "publish" /\ poolLock = "free" /\ Len(ready) < PageCount
    /\ poolLock' = f
    /\ count' = [count EXCEPT ![held[f]] = Sealed(f)]
    /\ ready' = Append(ready, held[f])
    /\ held' = [held EXCEPT ![f] = NoPage]
    /\ Goto(f, "count")
    /\ UNCHANGED <<compilerFree, recycled, readyEvents, events, directState,
                   moved, direct, compiler, audioVars, cancelled, history>>

\* ... and its readyEventCount_ update: the audio thread may have the page.
CountPublished(f) ==
    /\ pc[f] = "count" /\ poolLock = f /\ poolLock' = "free"
    /\ readyEvents' = readyEvents + Sealed(f)
    /\ IF f = "direct"
         THEN Continue(done) /\ UNCHANGED compiler
         ELSE EndChunk /\ UNCHANGED direct
    /\ UNCHANGED <<compilerFree, recycled, ready, pages, directState, held,
                   moved, audioVars, cancelled, history>>

-----------------------------------------------------------------------------
(* The direct producer: SubmitShortBatchDirect.                            *)

Submit ==
    /\ pc["direct"] = "idle"
    /\ \E n \in 1 .. PageCapacity :
         /\ submitted["direct"] + n <= MaxDirect
         /\ stage' = [i \in 1 .. n |-> submitted["direct"] + i]
         /\ submitted' = [submitted EXCEPT !["direct"] = @ + n]
    /\ done' = 0 /\ Goto("direct", "load")
    /\ UNCHANGED <<pool, pages, directState, held, moved, snapshot, compiler,
                   audioVars, cancelled, accepted, dispatched, overrun>>

LoadState ==
    /\ pc["direct"] = "load"
    /\ snapshot' = directState
    /\ Goto("direct", IF directState = None THEN "acquire" ELSE "copy")
    /\ UNCHANGED <<pool, pages, directState, held, moved, stage, done, compiler,
                   audioVars, cancelled, history>>

OpenPage ==
    /\ pc["direct"] = "open"
    /\ directState' = Open(held["direct"], 0)
    /\ snapshot' = Open(held["direct"], 0)
    /\ held' = [held EXCEPT !["direct"] = NoPage]
    /\ Goto("direct", "copy")
    /\ UNCHANGED <<pool, pages, moved, stage, done, compiler, audioVars,
                   cancelled, history>>

\* n of the code: what fits behind the count the producer loaded.
Taken == IF Len(stage) - done <= PageCapacity - snapshot.count
           THEN Len(stage) - done ELSE PageCapacity - snapshot.count
Behind == snapshot.count + 1 .. snapshot.count + Taken

\* memcpy behind the loaded count, whoever owns the page by now.
CopyEvents ==
    /\ pc["direct"] = "copy"
    /\ events' = [events EXCEPT ![snapshot.page] =
                    [i \in Slots |-> IF i \in Behind
                       THEN stage[done + i - snapshot.count] ELSE @[i]]]
    /\ overrun' = (overrun \/ Live(snapshot.page) \cap Behind # {})
    /\ Goto("direct", "cas")
    /\ UNCHANGED <<pool, count, directState, held, moved, direct, compiler,
                   audioVars, cancelled, submitted, accepted, dispatched>>

\* A store in the place of the compare-and-swap.
CommitByStore ==
    /\ pc["direct"] = "cas"
    /\ directState' = Open(snapshot.page, snapshot.count + Taken)
    /\ accepted' = accepted \cup {stage[done + i] : i \in 1 .. Taken}
    /\ Continue(done + Taken)
    /\ UNCHANGED <<pool, pages, held, moved, compiler, audioVars, cancelled,
                   submitted, dispatched, overrun>>

CommitEvents ==
    /\ pc["direct"] = "cas" /\ directState = snapshot
    /\ directState' = Open(snapshot.page, snapshot.count + Taken)
    /\ accepted' = accepted \cup {stage[done + i] : i \in 1 .. Taken}
    /\ IF snapshot.count + Taken = PageCapacity
         THEN /\ Goto("direct", "seal") /\ done' = done + Taken
              /\ snapshot' = directState' /\ UNCHANGED stage
         ELSE Continue(done + Taken)
    /\ UNCHANGED <<pool, pages, held, moved, compiler, audioVars, cancelled,
                   submitted, dispatched, overrun>>

CommitFails ==
    /\ pc["direct"] = "cas" /\ directState # snapshot
    /\ Continue(done)
    /\ UNCHANGED <<pool, pages, directState, held, moved, compiler, audioVars,
                   cancelled, history>>

\* The full page is published without taking it back first.
SealUnchecked ==
    /\ pc["direct"] = "seal"
    /\ directState' = None
    /\ held' = [held EXCEPT !["direct"] = snapshot.page]
    /\ Goto("direct", "publish")
    /\ UNCHANGED <<pool, pages, moved, direct, compiler, audioVars, cancelled,
                   history>>

\* The full page: taken back to publish it, unless the audio thread has it.
SealPage ==
    /\ pc["direct"] = "seal"
    /\ IF directState = snapshot
         THEN /\ directState' = None
              /\ held' = [held EXCEPT !["direct"] = snapshot.page]
              /\ Goto("direct", "publish") /\ UNCHANGED direct
         ELSE Continue(done) /\ UNCHANGED <<directState, held>>
    /\ UNCHANGED <<pool, pages, moved, compiler, audioVars, cancelled, history>>

-----------------------------------------------------------------------------
(* The ring and the compiler thread: EventCompilerLoop.                    *)

RingSubmit ==
    /\ submitted["compiler"] < MaxRing
    /\ submitted' = [submitted EXCEPT !["compiler"] = @ + 1]
    /\ ring' = Append(ring, MaxDirect + submitted'["compiler"])
    /\ UNCHANGED <<pool, pages, directState, feeder, direct, timed,
                   compiledCount, drained, audioVars, cancelled, accepted,
                   dispatched, overrun>>

\* The pop that starts a page.  The loop tested the flag before it.
PopFirst ==
    /\ pc["compiler"] = "pop" /\ ring # <<>>
    /\ timed' = Head(ring) /\ ring' = Tail(ring)
    /\ Goto("compiler", "acquire")
    /\ UNCHANGED <<pool, pages, directState, held, moved, direct, compiledCount,
                   drained, audioVars, cancelled, history>>

CompilerStops ==
    /\ pc["compiler"] = "pop" /\ cancelled
    /\ Goto("compiler", "stopped")
    /\ UNCHANGED <<pool, pages, directState, held, moved, direct, compiler,
                   audioVars, cancelled, history>>

\* compileOne: appended, or dropped (not a render event, or collapsed).
CompileOne ==
    /\ pc["compiler"] = "fill" /\ timed # NoEvent
    /\ \/ /\ events' = [events EXCEPT ![held["compiler"]][compiledCount + 1] = timed]
          /\ compiledCount' = compiledCount + 1
       \/ UNCHANGED <<events, compiledCount>>
    /\ timed' = NoEvent /\ drained' = drained + 1
    /\ UNCHANGED <<pool, count, directState, feeder, direct, ring, audioVars,
                   cancelled, history>>

MoreToCompile == drained < PageCapacity /\ ring # <<>>
PopNext ==
    /\ pc["compiler"] = "fill" /\ timed = NoEvent /\ MoreToCompile
    /\ timed' = Head(ring) /\ ring' = Tail(ring)
    /\ UNCHANGED <<pool, pages, directState, feeder, direct, compiledCount,
                   drained, audioVars, cancelled, history>>

FinishPage ==
    /\ pc["compiler"] = "fill" /\ timed = NoEvent /\ ~MoreToCompile
    /\ compiledCount > 0
    /\ Goto("compiler", "publish")
    /\ UNCHANGED <<pool, pages, directState, held, moved, direct, compiler,
                   audioVars, cancelled, history>>

\* ReturnUnusedFromCompiler: nothing of the chunk was worth a page.
ReturnPage ==
    /\ pc["compiler"] = "fill" /\ timed = NoEvent /\ ~MoreToCompile
    /\ compiledCount = 0 /\ poolLock = "free"
    /\ count' = [count EXCEPT ![held["compiler"]] = 0]
    /\ compilerFree' = Append(compilerFree, held["compiler"])
    /\ held' = [held EXCEPT !["compiler"] = NoPage]
    /\ EndChunk
    /\ UNCHANGED <<recycled, ready, readyEvents, poolLock, events, directState,
                   moved, direct, audioVars, cancelled, history>>

-----------------------------------------------------------------------------
(* The audio callback: FlushDirectPage, ImportAllReady, the dispatch loop. *)

FlushNothing ==
    /\ audio = "flush" /\ directState.count = 0
    /\ audio' = "import" /\ progress' = FALSE
    /\ UNCHANGED <<pool, pages, directState, feeder, direct, compiler, hand,
                   cursors, cancelled, history>>

\* Takes the open page even when nothing is in it.
DetachEmptyPage ==
    /\ audio = "flush" /\ directState # None
    /\ hand' = directState /\ directState' = None
    /\ audio' = "schedule" /\ progress' = TRUE
    /\ UNCHANGED <<pool, pages, feeder, direct, compiler, cursors, cancelled,
                   history>>

DetachOpenPage ==
    /\ audio = "flush" /\ directState.count > 0
    /\ hand' = directState /\ directState' = None
    /\ audio' = "schedule" /\ progress' = TRUE
    /\ UNCHANGED <<pool, pages, feeder, direct, compiler, cursors, cancelled,
                   history>>

TakeReady ==
    /\ audio = "import" /\ ready # <<>>
    /\ hand' = Open(Head(ready), count[Head(ready)]) /\ ready' = Tail(ready)
    /\ audio' = "counted"
    /\ UNCHANGED <<compilerFree, recycled, readyEvents, poolLock, pages,
                   directState, feeder, direct, compiler, cursors, progress,
                   cancelled, history>>

CountTaken ==
    /\ audio = "counted"
    /\ readyEvents' = readyEvents - hand.count
    /\ audio' = "schedule" /\ progress' = TRUE
    /\ UNCHANGED <<compilerFree, recycled, ready, poolLock, pages, directState,
                   feeder, direct, compiler, hand, cursors, cancelled, history>>

\* Trusts the page header, which FlushDirectPage did not write.
ScheduleByHeader ==
    /\ audio = "schedule"
    /\ cursors' = [p \in Active \cup {hand.page} |->
                     IF p = hand.page THEN [offset |-> 0, count |-> count[p]]
                     ELSE cursors[p]]
    /\ hand' = None /\ audio' = "import"
    /\ UNCHANGED <<pool, pages, directState, feeder, direct, compiler, progress,
                   cancelled, history>>

\* ImportPage, or the import half of ImportReadyPage, with room for the page
\* (RoomForPages: the branches that recycle a page unplayed are not taken).
SchedulePage ==
    /\ audio = "schedule"
    /\ count' = [count EXCEPT ![hand.page] = hand.count]
    /\ cursors' = [p \in Active \cup {hand.page} |->
                     IF p = hand.page THEN [offset |-> 0, count |-> hand.count]
                     ELSE cursors[p]]
    /\ hand' = None /\ audio' = "import"
    /\ UNCHANGED <<pool, events, directState, feeder, direct, compiler,
                   progress, cancelled, history>>

ImportEnds ==
    /\ audio = "import" /\ ready = <<>>
    /\ audio' = "dispatch"
    /\ UNCHANGED <<pool, pages, directState, feeder, direct, compiler, hand,
                   cursors, progress, cancelled, history>>

\* A run of n events of page p is dispatched; ConsumeRun recycles a spent page.
Dispatch(p) ==
    /\ audio = "dispatch" /\ p \in Active
    /\ \E n \in 1 .. cursors[p].count - cursors[p].offset :
         LET upTo == cursors[p].offset + n
             played(e) == {i \in cursors[p].offset + 1 .. upTo : events[p][i] = e}
         IN  /\ dispatched' = [e \in Events |->
                                 dispatched[e] + Cardinality(played(e))]
             /\ IF upTo = cursors[p].count
                  THEN /\ cursors' = [q \in Active \ {p} |-> cursors[q]]
                       /\ count' = [count EXCEPT ![p] = 0]
                       /\ recycled' = Append(recycled, p)
                  ELSE /\ cursors' = [cursors EXCEPT ![p].offset = upTo]
                       /\ UNCHANGED <<count, recycled>>
    /\ progress' = TRUE
    /\ UNCHANGED <<compilerFree, ready, readyEvents, poolLock, events,
                   directState, feeder, direct, compiler, audio, hand,
                   cancelled, submitted, accepted, overrun>>

\* Wakes no one.
CallbackEndsSilently ==
    /\ audio = "dispatch"
    /\ audio' = "flush"
    /\ UNCHANGED <<pool, pages, directState, feeder, direct, compiler, hand,
                   cursors, progress, cancelled, history>>

\* End of the callback: nothing more is due; wake the feeders if it moved.
CallbackEnds ==
    /\ audio = "dispatch"
    /\ audio' = "flush"
    /\ moved' = IF progress THEN [f \in Feeders |-> TRUE] ELSE moved
    /\ UNCHANGED <<pool, pages, directState, pc, held, direct, compiler, hand,
                   cursors, progress, cancelled, history>>

-----------------------------------------------------------------------------
(* Shutdown, up to the join of the compiler thread.                        *)

Cancel ==
    /\ ~cancelled /\ cancelled' = TRUE
    /\ moved' = [f \in Feeders |-> TRUE]
    /\ UNCHANGED <<pool, pages, directState, pc, held, direct, compiler,
                   audioVars, history>>

\* audioOutput->Stop(): no callback after this one.
StopAudio ==
    /\ cancelled /\ audio = "flush"
    /\ audio' = "stopped"
    /\ UNCHANGED <<pool, pages, directState, feeder, direct, compiler, hand,
                   cursors, progress, cancelled, history>>

-----------------------------------------------------------------------------
FeederStep(f) ==
    \/ AcquirePage(f) \/ AcquireFails(f) \/ CheckCancelled(f)
    \/ ObserveEpoch(f) \/ Wake(f) \/ PublishPage(f) \/ CountPublished(f)

DirectStep ==
    \/ FeederStep("direct") \/ LoadState \/ OpenPage \/ CopyEvents
    \/ CommitEvents \/ CommitFails \/ SealPage

CompilerStep ==
    \/ FeederStep("compiler") \/ PopFirst \/ CompilerStops
    \/ CompileOne \/ PopNext \/ FinishPage \/ ReturnPage

AudioStep ==
    \/ FlushNothing \/ DetachOpenPage \/ TakeReady \/ CountTaken
    \/ SchedulePage \/ ImportEnds \/ CallbackEnds
    \/ \E p \in Pages : Dispatch(p)

Next ==
    \/ Submit \/ RingSubmit \/ DirectStep \/ CompilerStep \/ AudioStep
    \/ \E f \in Feeders : TimeOut(f)
    \/ Cancel \/ StopAudio

Spec == Init /\ [][Next]_vars

\* The threads keep running and the device keeps calling back; the block clock
\* passes every target frame, so what is scheduled does get consumed.
\* The waits' time-outs count as progress only once Shutdown has begun.
Fairness ==
    /\ WF_vars(DirectStep) /\ WF_vars(CompilerStep) /\ WF_vars(AudioStep)
    /\ SF_vars(\E p \in Pages : Dispatch(p))
    /\ \A f \in Feeders : WF_vars(cancelled /\ TimeOut(f))

FairSpec == Spec /\ Fairness

-----------------------------------------------------------------------------
(* Properties.                                                             *)

TypeOK ==
    /\ compilerFree \in Seq(Pages) /\ recycled \in Seq(Pages)
    /\ ready \in Seq(Pages) /\ readyEvents \in Int
    /\ poolLock \in Feeders \cup {"free"}
    /\ events \in [Pages -> [Slots -> Events \cup {NoEvent}]]
    /\ count \in [Pages -> 0 .. PageCapacity]
    /\ directState \in [page : Pages \cup {NoPage}, count : 0 .. PageCapacity]
    /\ snapshot \in [page : Pages \cup {NoPage}, count : 0 .. PageCapacity]
    /\ hand \in [page : Pages \cup {NoPage}, count : 0 .. PageCapacity]
    /\ pc["direct"] \in {"idle", "load", "acquire", "check", "observe", "retry",
           "wait", "open", "copy", "cas", "seal", "publish", "count"}
    /\ pc["compiler"] \in {"pop", "acquire", "check", "observe", "retry", "wait",
           "fill", "publish", "count", "stopped"}
    /\ held \in [Feeders -> Pages \cup {NoPage}] /\ moved \in [Feeders -> BOOLEAN]
    /\ stage \in Seq(DirectEvents) /\ done \in 0 .. Len(stage)
    /\ ring \in Seq(RingEvents) /\ timed \in RingEvents \cup {NoEvent}
    /\ compiledCount \in 0 .. drained /\ drained \in 0 .. PageCapacity
    /\ audio \in {"flush", "import", "counted", "schedule", "dispatch", "stopped"}
    /\ Active \subseteq Pages
    /\ \A p \in Active : /\ cursors[p].count \in 1 .. PageCapacity
                         /\ cursors[p].offset \in 0 .. cursors[p].count - 1
    /\ progress \in BOOLEAN /\ cancelled \in BOOLEAN /\ overrun \in BOOLEAN
    /\ accepted \subseteq DirectEvents /\ dispatched \in [Events -> Nat]

\* Every page is in exactly one place: free, recycled, in a feeder's hand,
\* open, ready, in the audio thread's hand, or scheduled.  No path of the
\* exchange loses a page or gives it to two threads.
PagesInHand == {held[f] : f \in Feeders} \cup {directState.page, hand.page}
OnePlace ==
    /\ Pages \subseteq RangeOf(compilerFree) \cup RangeOf(recycled)
                      \cup RangeOf(ready) \cup Active \cup PagesInHand
    /\ Len(compilerFree) + Len(recycled) + Len(ready) + Cardinality(Active)
         + Cardinality(PagesInHand \ {NoPage}) = PageCount

\* A ready push and an import always find room, as the comments of
\* PublishDirectPage and ImportReadyPage say, and a recycled page finds room
\* in its queue, whose answer nobody looks at.
Scheduled == {s \in Pages \X Slots : s[1] \in Active /\ s[2] \in Live(s[1])}
RoomForPages ==
    /\ \A f \in Feeders : pc[f] = "publish" => Len(ready) < PageCount
    /\ audio = "schedule" =>
         /\ Cardinality(Active) < PageCount /\ hand.count > 0
         /\ Cardinality(Scheduled) + hand.count <= PageCount * PageCapacity
    /\ audio = "dispatch" /\ Active # {} => Len(recycled) < PageCount

\* An event the direct producer committed is in the feed or was dispatched,
\* once; no event is anywhere twice.  It holds as long as no copy of the
\* producer ran over a page that another thread had filled meanwhile.
Holding(e) == {s \in Pages \X Slots : s[2] \in Live(s[1]) /\ events[s[1]][s[2]] = e}
Copies(e) == dispatched[e] + Cardinality(Holding(e))
Conserved ==
    ~overrun => \A e \in Events : /\ Copies(e) <= 1
                                 /\ e \in accepted => Copies(e) = 1

\* The comment of CompiledEventPagePool: "Page payloads are immutable between
\* Publish and Recycle."
WithAudio(p) == p \in RangeOf(ready) \cup Active
PayloadImmutable ==
    [][\A p \in Pages : WithAudio(p) /\ WithAudio(p)' =>
         \A i \in 1 .. count[p] : events'[p][i] = events[p][i]]_vars

\* The callback's bump of compilerWakeEpoch_ is enough to restart a direct
\* producer that found no page: whatever it was given ends up dispatched,
\* although no time-out of the wait is assumed to help.
SubmittedIsDispatched ==
    []<>(\/ cancelled \/ overrun
         \/ \A e \in 1 .. submitted["direct"] : dispatched[e] > 0)

\* After Shutdown's cancel neither feeder waits for pages forever, although
\* the callback no longer runs.
ShutdownEndsFeeders ==
    cancelled ~> (pc["direct"] = "idle" /\ pc["compiler"] = "stopped")
=============================================================================
