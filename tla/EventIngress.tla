---------------------------- MODULE EventIngress ----------------------------
(***************************************************************************)
(* How events enter the driver (src/src/driver/DriverIngress.cpp): threads *)
(* submit single messages and batches, which are numbered, gated, fenced   *)
(* and pushed into priority lanes or, by the one thread that owns it, into *)
(* the fast ring; the compiler thread merges the lanes into pages          *)
(* (PriorityEventIngress::TryPopSequenceOrdered); the audio thread plays   *)
(* them and rejects the notes a termination fence suppresses.              *)
(*                                                                         *)
(* A lane is the queue IngressQueue implements; pages are never short here *)
(* (see PageFeed).  Every wait of this code ends after 50 ms at the latest,*)
(* so a waiting thread may go on at any time.  Callers choose frames       *)
(* freely, so the audio thread may play what it imported in any order.     *)
(* Coalescing is off, its default, and one fence stands for the global one *)
(* and the one of a channel.  Three lanes stand for the five: the velocity *)
(* lanes below the loud one differ in nothing but their capacity.          *)
(***************************************************************************)
EXTENDS Integers, FiniteSetsExt, SequencesExt

CONSTANTS Threads,
          FastProducer,   \* the settings of events.fast_producer looked at
          SequenceWidth,  \* 2^32: sequences are kept modulo this
          Lease,          \* kFastSequenceLease
          Chunk,          \* kChunk, kBatchReservation
          LaneCapacity, FastCapacity,
          PollEvery,      \* outputs between two looks at an empty lane (16)
          PageCapacity,   \* kCompilerChunkCapacity
          Batches,        \* bound: what a call may hand in
          MaxEvents,      \* bound: events of all calls
          NoThread, Disabled, NoRun

ASSUME LeaseAssumption == Chunk \in Nat \ {0} /\ Lease \in Nat /\ Lease >= Chunk
ASSUME WidthAssumption ==
    SequenceWidth \in Nat /\ SequenceWidth >= 2 /\ SequenceWidth % 2 = 0
ASSUME CapacityAssumption ==
    /\ LaneCapacity \in Nat \ {0} /\ FastCapacity \in Nat \ {0}
    /\ PollEvery \in Nat \ {0} /\ PageCapacity \in Nat \ {0}
ASSUME BoundAssumption == MaxEvents \in Nat /\ <<>> \notin Batches
ASSUME NoThreadAssumption == 
    NoThread \notin Threads /\ Disabled \notin Threads \cup {NoThread}
ASSUME SettingAssumption == FastProducer \in SUBSET BOOLEAN
ASSUME NoRunAssumption == NoRun \notin Nat

\* A note-on above highPriorityVelocity, one the velocity cutoff may shed, and
\* a reset, CC 120 or CC 123.
Kinds == {"loud", "quiet", "panic"}
ASSUME BatchesAssumption == Batches \subseteq Seq(Kinds)
Lanes == {"State", "Loud", "Quiet"}
Sources == Lanes \cup {"Fast"}
LaneOf(kind) == CASE kind = "panic" -> "State" [] kind = "loud" -> "Loud"
                  [] kind = "quiet" -> "Quiet"
Capacity(source) == IF source = "Fast" THEN FastCapacity ELSE LaneCapacity

VARIABLES
    nextSequence, leaseNext, leaseEnd, leased, fastSubmitted, notAccepted,
    owner,                     \* fastOwnerThreadId_, Disabled without a fast ring
    fence,                     \* a fence: 0, or the sequence plus one
    lanes,
    pc, path, todo, prepared,  \* a submitting thread
    compiler, heads, poll, unpolled, page,  \* the compiler thread
    ready, due, runFence,      \* published, imported, the fence of a note run
    clock,                     \* whether compilerEpochQPC_ is set
    cancelProducers, sessionCancelled,
    asked, events, fate        \* history: events handed in, numbered, and
                               \* what became of each

numbers == <<nextSequence, leaseNext, leaseEnd, leased, fastSubmitted>>
threads == <<pc, path, todo, prepared>>
compilerVars == <<compiler, heads, poll, unpolled, page>>
audioVars == <<ready, due, runFence, clock>>
flags == <<cancelProducers, sessionCancelled>>
history == <<asked, events, fate>>
vars == <<numbers, notAccepted, owner, fence, lanes, threads, compilerVars,
          audioVars, flags, history>>

Ids == 1 .. Len(events)
NoEvent == 0
Cancelled == cancelProducers \/ sessionCancelled

Init ==
    /\ nextSequence = 0 /\ leaseNext = 0 /\ leaseEnd = 0
    /\ leased = 0 /\ fastSubmitted = 0 /\ notAccepted = 0
    /\ \E fast \in FastProducer : owner = IF fast THEN NoThread ELSE Disabled
    /\ fence = 0
    /\ lanes = [s \in Sources |-> <<>>]
    /\ pc = [t \in Threads |-> "idle"] /\ path = [t \in Threads |-> "single"]
    /\ todo = [t \in Threads |-> <<>>] /\ prepared = [t \in Threads |-> <<>>]
    /\ compiler = "pop" /\ heads = [s \in Sources |-> NoEvent] /\ poll = 0
    /\ unpolled = {} /\ page = {}
    /\ ready = {} /\ due = {} /\ runFence = NoRun /\ clock = FALSE
    /\ cancelProducers = FALSE /\ sessionCancelled = FALSE
    /\ asked = 0 /\ events = <<>> /\ fate = <<>>

\* SequenceAtOrBefore: the sign of the difference in 32 bits.
AtOrBefore(a, b) == LET d == (a - b) % SequenceWidth
                    IN  d = 0 \/ d >= SequenceWidth \div 2

\* Mutant: the encoded fence is compared as it is.
SuppressesEncoded(f, sequence) == f # 0 /\ AtOrBefore(sequence, f)

\* FenceSuppresses
Suppresses(f, sequence) == f # 0 /\ AtOrBefore(sequence, f - 1)

\* Mutant: the comparison's arguments are swapped, a later panic moves nothing.
FencedSwapped(f, sequence) ==
    IF f # 0 /\ ~AtOrBefore(sequence, f - 1) THEN f ELSE sequence + 1

\* The fence after PublishTerminationFence: a fence never moves back.
Fenced(f, sequence) ==
    IF f # 0 /\ ~AtOrBefore(f - 1, sequence) THEN f ELSE sequence + 1

-----------------------------------------------------------------------------
(* Submission.                                                             *)

Goto(t, label) == pc' = [pc EXCEPT ![t] = label]

\* Thread t returns from its call.
Return(t) == /\ Goto(t, "idle")
             /\ todo' = [todo EXCEPT ![t] = <<>>]
             /\ prepared' = [prepared EXCEPT ![t] = <<>>]

\* Where t goes on when nothing is left prepared.
NextRound(t) == CASE todo[t] = <<>> -> "idle"
                  [] todo[t] # <<>> /\ path[t] = "single" -> "number"
                  [] OTHER -> "check"

SetFate(ids, what) ==
    fate' = [e \in DOMAIN fate |-> IF e \in ids THEN what ELSE fate[e]]

\* The way a call is submitted: as one message, or as a batch of loud notes
\* only, of anything by the fast ring's owner, or of anything, one by one.
\* (A batch of one event takes the way of the longer ones and is left out.)
PathOf(t, batch) ==
    CASE Len(batch) = 1 -> "single"
      [] Len(batch) > 1 /\ ToSet(batch) = {"loud"} -> "block"
      [] OTHER -> IF owner' = t THEN "mixed" ELSE "single"

\* A call begins; the first thread to submit claims the fast ring.
Submit(t) ==
    /\ pc[t] = "idle"
    /\ owner' = IF owner = NoThread THEN t ELSE owner
    /\ \E batch \in Batches :
         /\ asked + Len(batch) <= MaxEvents
         /\ asked' = asked + Len(batch)
         /\ todo' = [todo EXCEPT ![t] = batch]
         /\ path' = [path EXCEPT ![t] = PathOf(t, batch)]
         /\ Goto(t, IF path'[t] = "single" THEN "number" ELSE "check")
    /\ UNCHANGED <<numbers, notAccepted, fence, lanes, prepared, compilerVars,
                   audioVars, flags, events, fate>>

\* The head of a batch round: a cancelled call takes all events it has not
\* come to off the accepted count.
CheckCancelled(t) ==
    /\ pc[t] = "check"
    /\ IF Cancelled
         THEN /\ Return(t)
              /\ notAccepted' = IF path[t] = "mixed"
                                THEN notAccepted + Len(todo[t]) ELSE notAccepted
         ELSE Goto(t, "number") /\ UNCHANGED <<todo, prepared, notAccepted>>
    /\ UNCHANGED <<numbers, owner, fence, lanes, path, compilerVars, audioVars,
                   flags, history>>

RoundSize(t) ==
    IF path[t] = "block"
    THEN Min({Len(todo[t]), Chunk,
                Capacity(IF t = owner THEN "Fast" ELSE "Loud")})
    ELSE 1

\* Mutant: the leased sequences are not taken off the submitted count.
TakeSequencesUncounted(t, n, first) ==
    IF t # owner
    THEN /\ first = nextSequence /\ nextSequence' = nextSequence + n
         /\ UNCHANGED <<leaseNext, leaseEnd, leased, fastSubmitted>>
    ELSE /\ IF leaseEnd - leaseNext < n
            THEN /\ first = nextSequence
                 /\ nextSequence' = nextSequence + Lease
                 /\ leaseEnd' = nextSequence + Lease
            ELSE first = leaseNext /\ UNCHANGED <<nextSequence, leaseEnd>>
         /\ leaseNext' = first + n
         /\ fastSubmitted' = fastSubmitted + n /\ UNCHANGED leased

\* Sequences for the next n events, from the global counter or from the
\* owner's leased block.
TakeSequences(t, n, first) ==
    IF t # owner
    THEN /\ first = nextSequence /\ nextSequence' = nextSequence + n
         /\ UNCHANGED <<leaseNext, leaseEnd, leased, fastSubmitted>>
    ELSE /\ IF leaseEnd - leaseNext < n
            THEN /\ first = nextSequence
                 /\ nextSequence' = nextSequence + Lease
                 /\ leaseEnd' = nextSequence + Lease
                 /\ leased' = leased + Lease
            ELSE first = leaseNext /\ UNCHANGED <<nextSequence, leaseEnd, leased>>
         /\ leaseNext' = first + n
         /\ fastSubmitted' = fastSubmitted + n

\* The events in the queues or beyond them: what an event numbered now is
\* later than, of interest between a panic and a note only.
QueuedBefore(kind) ==
    {e \in Ids : /\ fate[e] \notin {"open", "shed", "cancelled"}
                /\ (kind = "panic") # (events[e].kind = "panic")}

Number(t) ==
    /\ pc[t] = "number"
    /\ LET n == RoundSize(t) IN
       \E first \in {nextSequence, leaseNext} :
         /\ TakeSequences(t, n, first)
         /\ events' = events \o
              [i \in 1 .. n |->
                 [kind |-> todo[t][i], sequence |-> (first + i - 1) % SequenceWidth,
                  leased |-> t = owner,
                  before |-> QueuedBefore(todo[t][i])]]
         /\ fate' = fate \o [i \in 1 .. n |-> "open"]
         /\ prepared' = [prepared EXCEPT ![t] =
                           @ \o [i \in 1 .. n |-> Len(events) + i]]
         /\ todo' = [todo EXCEPT ![t] = SubSeq(@, n + 1, Len(@))]
    /\ Goto(t, IF path[t] = "block" THEN "push" ELSE "prepare")
    /\ UNCHANGED <<notAccepted, owner, fence, lanes, path, compilerVars, audioVars,
                   flags, asked>>

\* A single message whose session was cancelled ends its call.
PrepareCancelled(t) ==
    /\ pc[t] = "prepare" /\ path[t] = "single" /\ sessionCancelled
    /\ SetFate(ToSet(prepared[t]), "cancelled")
    /\ notAccepted' = notAccepted + 1
    /\ Return(t)
    /\ UNCHANGED <<numbers, owner, fence, lanes, path, compilerVars, audioVars,
                   flags, asked, events>>

\* PrepareShortEvent on the event numbered last: a panic publishes its fence
\* before it is pushed, a quiet note may fall to the velocity cutoff.
Prepare(t) ==
    /\ pc[t] = "prepare" /\ ~(path[t] = "single" /\ sessionCancelled)
    /\ LET e == prepared[t][Len(prepared[t])]
       IN  /\ fence' = IF events[e].kind = "panic"
                       THEN Fenced(fence, events[e].sequence) ELSE fence
           /\ \/ /\ UNCHANGED <<prepared, notAccepted, fate>>
                 /\ Goto(t, IF /\ path[t] = "mixed" /\ todo[t] # <<>>
                               /\ Len(prepared[t]) < Chunk
                            THEN "number" ELSE "push")
              \/ /\ events[e].kind = "quiet"
                 /\ SetFate({e}, "shed") /\ notAccepted' = notAccepted + 1
                 /\ prepared' = [prepared EXCEPT ![t] = Front(@)]
                 /\ Goto(t, IF path[t] = "mixed" /\ todo[t] # <<>> THEN "number"
                            ELSE IF Len(prepared[t]) > 1 THEN "push"
                            ELSE NextRound(t))
    /\ UNCHANGED <<numbers, owner, lanes, path, todo, compilerVars, audioVars,
                   flags, asked, events>>

\* The lane, or the ring, an event of thread t is pushed into.
Target(t, e) == IF t = owner THEN "Fast" ELSE LaneOf(events[e].kind)
\* Mutant: one event too many.
RoomAndOne(s) == Capacity(s) - Len(lanes[s]) + 1

Room(s) == Capacity(s) - Len(lanes[s])
PushInto(s, ids) ==
    /\ lanes' = [lanes EXCEPT ![s] = @ \o ids]
    /\ SetFate(ToSet(ids), "pushed")

\* One push of all that is prepared, which a queue takes whole or not at all.
Push(t) ==
    /\ pc[t] = "push"
    /\ LET s == Target(t, Head(prepared[t])) IN
       IF Len(prepared[t]) <= Room(s)
         THEN /\ PushInto(s, prepared[t])
              /\ prepared' = [prepared EXCEPT ![t] = <<>>]
              /\ Goto(t, NextRound(t))
         ELSE /\ Goto(t, IF path[t] = "mixed" THEN "one" ELSE "full")
              /\ UNCHANGED <<lanes, fate, prepared>>
    /\ UNCHANGED <<numbers, notAccepted, owner, fence, path, todo, compilerVars,
                   audioVars, flags, asked, events>>

\* What the fast ring would not take whole goes in one by one.
PushOne(t) ==
    /\ pc[t] = "one"
    /\ IF prepared[t] = <<>>
         THEN Goto(t, NextRound(t)) /\ UNCHANGED <<lanes, fate, prepared>>
         ELSE IF Room("Fast") > 0
         THEN /\ PushInto("Fast", <<Head(prepared[t])>>)
              /\ prepared' = [prepared EXCEPT ![t] = Tail(@)]
              /\ UNCHANGED pc
         ELSE Goto(t, "full") /\ UNCHANGED <<lanes, fate, prepared>>
    /\ UNCHANGED <<numbers, notAccepted, owner, fence, path, todo, compilerVars,
                   audioVars, flags, asked, events>>

\* Mutant: a call that waits does not look at the cancellation.
FullUncancelled(t) ==
    /\ pc[t] = "full"
    /\ \/ /\ events[Head(prepared[t])].kind = "quiet"
          /\ SetFate({Head(prepared[t])}, "shed")
          /\ notAccepted' = notAccepted + 1
          /\ prepared' = [prepared EXCEPT ![t] = Tail(@)]
          /\ Goto(t, IF path[t] = "mixed" THEN "one" ELSE NextRound(t))
       \/ /\ events[Head(prepared[t])].kind # "quiet" /\ Goto(t, "wait")
          /\ UNCHANGED <<prepared, notAccepted, fate>>
    /\ UNCHANGED <<numbers, owner, fence, lanes, path, todo, compilerVars,
                   audioVars, flags, asked, events>>

\* The queue is full: a quiet note is shed, a cancelled call gives up, any
\* other waits.  A cancelled mixed batch takes one event off the accepted
\* count, whatever it had prepared.
Full(t) ==
    /\ pc[t] = "full"
    /\ \/ /\ events[Head(prepared[t])].kind = "quiet"
          /\ SetFate({Head(prepared[t])}, "shed")
          /\ notAccepted' = notAccepted + 1
          /\ prepared' = [prepared EXCEPT ![t] = Tail(@)]
          /\ Goto(t, IF path[t] = "mixed" THEN "one" ELSE NextRound(t))
          /\ UNCHANGED todo
       \/ /\ events[Head(prepared[t])].kind # "quiet" /\ Cancelled
          /\ SetFate(ToSet(prepared[t]), "cancelled")
          /\ notAccepted' = notAccepted +
               (IF path[t] = "block" THEN Len(prepared[t]) ELSE 1)
          /\ Return(t)
       \/ /\ events[Head(prepared[t])].kind # "quiet" /\ ~Cancelled
          /\ Goto(t, "wait")
          /\ UNCHANGED <<todo, prepared, notAccepted, fate>>
    /\ UNCHANGED <<numbers, owner, fence, lanes, path, compilerVars, audioVars,
                   flags, asked, events>>

\* A wait for space ends, by a wake or after 50 ms.
Resume(t) ==
    /\ pc[t] = "wait"
    /\ Goto(t, IF path[t] = "mixed" THEN "one" ELSE "push")
    /\ UNCHANGED <<numbers, notAccepted, owner, fence, lanes, path, todo, prepared,
                   compilerVars, audioVars, flags, history>>

-----------------------------------------------------------------------------
(* The compiler thread: the merge of the lanes into pages.                 *)

outsideCompiler == <<numbers, notAccepted, owner, fence, threads, due, runFence,
                     clock, flags, history>>

EmptyHeads == {s \in Sources : heads[s] = NoEvent}

\* The loop's head, or with a page begun, one more pop: every PollEvery-th
\* looks at the lanes that had run empty.
Pop ==
    /\ compiler = "pop"
    /\ IF page = {} /\ cancelProducers
         THEN compiler' = "ended" /\ UNCHANGED <<poll, unpolled>>
         ELSE /\ clock
              /\ IF EmptyHeads = Sources \/ poll = 0
                   THEN /\ poll' = PollEvery - 1
                        /\ unpolled' = EmptyHeads /\ compiler' = "poll"
                   ELSE /\ poll' = poll - 1
                        /\ compiler' = "take" /\ UNCHANGED unpolled
    /\ UNCHANGED <<heads, page, lanes, ready, outsideCompiler>>

\* The sources are looked at in this order.
Order == <<"State", "Loud", "Quiet", "Fast">>

\* Mutant: the head of a source that ran empty stays queued.
PopSourceKept(s) ==
    IF lanes[s] = <<>>
    THEN UNCHANGED <<heads, lanes>>
    ELSE /\ heads' = [heads EXCEPT ![s] = Head(lanes[s])]
         /\ lanes' = [lanes EXCEPT ![s] = Tail(@)]

\* A source's next event becomes its head.
PopSource(s) ==
    IF lanes[s] = <<>>
    THEN heads' = [heads EXCEPT ![s] = NoEvent] /\ UNCHANGED lanes
    ELSE /\ heads' = [heads EXCEPT ![s] = Head(lanes[s])]
         /\ lanes' = [lanes EXCEPT ![s] = Tail(@)]

PollLane ==
    /\ compiler = "poll"
    /\ IF unpolled = {}
         THEN compiler' = "take" /\ UNCHANGED <<heads, lanes, unpolled>>
         ELSE \E i \in DOMAIN Order :
                /\ Order[i] \in unpolled
                /\ \A j \in 1 .. i - 1 : Order[j] \notin unpolled
                /\ PopSource(Order[i])
                /\ unpolled' = unpolled \ {Order[i]}
                /\ UNCHANGED compiler
    /\ UNCHANGED <<poll, page, ready, outsideCompiler>>

\* earlierLane
EarlierHead(s, r) ==
    LET d == (events[heads[s]].sequence - events[heads[r]].sequence) % SequenceWidth
    IN  d >= SequenceWidth \div 2

\* Mutant: a page is published only when it is full.
TakeFullPages ==
    /\ compiler = "take"
    /\ IF EmptyHeads = Sources
         THEN compiler' = "pop" /\ UNCHANGED <<heads, lanes, page>>
         ELSE \E s \in Sources \ EmptyHeads :
                /\ \A r \in Sources \ EmptyHeads : ~EarlierHead(r, s)
                /\ page' = page \cup {heads[s]}
                /\ PopSource(s)
                /\ compiler' = IF Cardinality(page') = PageCapacity
                               THEN "publish" ELSE "pop"
    /\ UNCHANGED <<poll, unpolled, ready, outsideCompiler>>

\* The head with the earliest sequence goes into the page and its source is
\* looked at again; nothing left, or a full page, publishes the page.
Take ==
    /\ compiler = "take"
    /\ IF EmptyHeads = Sources
         THEN /\ compiler' = IF page = {} THEN "pop" ELSE "publish"
              /\ UNCHANGED <<heads, lanes, page>>
         ELSE \E s \in Sources \ EmptyHeads :
                /\ \A r \in Sources \ EmptyHeads : ~EarlierHead(r, s)
                /\ page' = page \cup {heads[s]}
                /\ PopSource(s)
                /\ compiler' = IF Cardinality(page') = PageCapacity
                               THEN "publish" ELSE "pop"
    /\ UNCHANGED <<poll, unpolled, ready, outsideCompiler>>

PublishPage ==
    /\ compiler = "publish"
    /\ ready' = ready \cup page /\ page' = {} /\ compiler' = "pop"
    /\ UNCHANGED <<heads, lanes, poll, unpolled, outsideCompiler>>

-----------------------------------------------------------------------------
(* The audio thread, and cancellation.                                     *)

outsideAudio == <<numbers, notAccepted, owner, fence, lanes, threads,
                  compilerVars, flags, asked, events>>

\* A callback begins: it publishes the clock and takes the published pages.
Import ==
    /\ clock' = TRUE
    /\ due' = due \cup ready /\ ready' = {} /\ runFence' = NoRun
    /\ UNCHANGED <<outsideAudio, fate>>

\* A panic ends the run of notes it follows.
DispatchPanic(e) ==
    /\ e \in due /\ events[e].kind = "panic"
    /\ due' = due \ {e} /\ runFence' = NoRun
    /\ SetFate({e}, "played")
    /\ UNCHANGED <<ready, clock, outsideAudio>>

\* A note opens a run, which loads the fence, or belongs to the one before.
DispatchNote(e) ==
    /\ e \in due /\ events[e].kind # "panic"
    /\ due' = due \ {e}
    /\ runFence' = IF runFence = NoRun THEN fence ELSE runFence
    /\ SetFate({e}, IF Suppresses(runFence', events[e].sequence)
                    THEN "suppressed" ELSE "sounded")
    /\ UNCHANGED <<ready, clock, outsideAudio>>

Dispatch == \E e \in Ids : DispatchPanic(e) \/ DispatchNote(e)

\* A note of another key or velocity ends the run.
EndRun ==
    /\ runFence # NoRun /\ runFence' = NoRun
    /\ UNCHANGED <<ready, due, clock, fate, outsideAudio>>

\* Shutdown wakes every producer and ends the compiler.  (Bound: a behaviour
\* has one cancellation, of either kind.)
CancelProducers ==
    /\ ~Cancelled /\ cancelProducers' = TRUE
    /\ UNCHANGED <<numbers, notAccepted, owner, fence, lanes, threads, compilerVars,
                   audioVars, sessionCancelled, history>>

\* The session the calls belong to is given up.
CancelSession ==
    /\ ~Cancelled /\ sessionCancelled' = TRUE
    /\ UNCHANGED <<numbers, notAccepted, owner, fence, lanes, threads, compilerVars,
                   audioVars, cancelProducers, history>>

Step(t) == \/ CheckCancelled(t) \/ Number(t) \/ PrepareCancelled(t) \/ Prepare(t)
           \/ Push(t) \/ PushOne(t) \/ Full(t) \/ Resume(t)
Compiler == Pop \/ PollLane \/ Take \/ PublishPage

Next ==
    \/ \E t \in Threads : Submit(t) \/ Step(t)
    \/ Compiler \/ Import \/ Dispatch \/ EndRun
    \/ CancelProducers \/ CancelSession

\* Every thread of the driver goes on; nobody has to call or to cancel it.
Fairness ==
    /\ \A t \in Threads : WF_vars(Step(t))
    /\ WF_vars(Compiler) /\ WF_vars(Import) /\ WF_vars(Dispatch)

Spec == Init /\ [][Next]_vars /\ Fairness

-----------------------------------------------------------------------------
(* Properties.                                                             *)

Fates == {"open", "pushed", "sounded", "suppressed", "played", "shed", "cancelled"}

\* Every variable has its type: in particular no queue ever holds more than
\* its capacity and no page more than the compiler's chunk.
TypeOK ==
    /\ {nextSequence, leaseNext, leaseEnd, leased, fastSubmitted, notAccepted,
        fence, asked} \subseteq Nat
    /\ owner \in Threads \cup {NoThread, Disabled}
    /\ \A s \in Sources : /\ lanes[s] \in Seq(Ids)
                           /\ Len(lanes[s]) <= Capacity(s)
    /\ pc \in [Threads -> {"idle", "check", "number", "prepare", "push", "one",
                            "full", "wait"}]
    /\ path \in [Threads -> {"single", "mixed", "block"}]
    /\ \A t \in Threads : todo[t] \in Seq(Kinds) /\ prepared[t] \in Seq(Ids)
    /\ compiler \in {"pop", "poll", "take", "publish", "ended"}
    /\ heads \in [Sources -> Ids \cup {NoEvent}] /\ unpolled \subseteq Sources
    /\ poll \in 0 .. PollEvery - 1
    /\ page \subseteq Ids /\ Cardinality(page) <= PageCapacity
    /\ ready \subseteq Ids /\ due \subseteq Ids /\ runFence \in Nat \cup {NoRun}
    /\ {clock, cancelProducers, sessionCancelled} \subseteq BOOLEAN
    /\ Len(fate) = Len(events) /\ ToSet(fate) \subseteq Fates

\* A panic that has been played silences what came before it for good: no
\* note that was in the queues when the panic was numbered, from the same
\* source of sequences, sounds after it, in whatever lane it was held back
\* and whatever run of notes the audio thread is in.
KilledStaysKilled ==
    [][\A e, p \in Ids :
         /\ fate[e] = "pushed" /\ fate'[e] = "sounded"
         /\ events[p].kind = "panic" /\ fate[p] = "played"
         /\ events[p].leased = events[e].leased
         => e \notin events[p].before]_vars

\* A note numbered after every panic was in the queues is never silenced: a
\* fence rejects older notes only.  (Panics numbered from another source of
\* sequences are set aside: a lease is not ordered with the global counter.)
NewerNotesSurvive ==
    \A e \in Ids : fate[e] = "suppressed" =>
        \E p \in Ids : /\ events[p].kind = "panic"
                       /\ \/ p \notin events[e].before
                          \/ events[p].leased # events[e].leased

Pushed == {e \in Ids : fate[e] \in {"pushed", "sounded", "suppressed", "played"}}
InHand == UNION {ToSet(prepared[t]) : t \in Threads}
Submitted == nextSequence - leased + fastSubmitted

\* As long as no call was cancelled, the accepted count the driver reports,
\* submitted less not accepted, is exactly what entered the queues and what
\* is about to, although three counters of two kinds of threads make it up.
Accounted == ~Cancelled => Submitted - notAccepted = Cardinality(Pushed \cup InHand)

\* An event that was pushed and not yet played is in exactly one place on its
\* way: the merge neither loses nor duplicates it.
InOnePlace ==
    \A e \in Ids :
        Cardinality({s \in Sources : e \in ToSet(lanes[s])}) +
        Cardinality({s \in Sources : heads[s] = e}) +
        Cardinality({S \in {<<1, page>>, <<2, ready>>, <<3, due>>} : e \in S[2]})
        = IF fate[e] = "pushed" THEN 1 ELSE 0

FateOf(n) == IF n \in Ids THEN fate[n] ELSE "open"

\* Every event that was pushed is played or rejected, unless the driver shuts
\* down, even one in a lane the merge looks at only now and then.
Delivered ==
    \A n \in 1 .. MaxEvents :
        FateOf(n) = "pushed"
            ~> (FateOf(n) \in {"sounded", "suppressed", "played"} \/ cancelProducers)

\* Every call returns: a full queue is drained, and a call that waits for one
\* when the compiler has ended is cancelled.
SubmitReturns == \A t \in Threads : pc[t] # "idle" ~> pc[t] = "idle"
=============================================================================
