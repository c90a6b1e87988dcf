# SuperVirtualMIDISynth: a TLA+ verification project

SVMS is a SoundFont synthesizer for Black MIDI: programs send it millions of MIDI
events per second through WinMM, KDMAPI or a native API, and an audio callback
plays them at exact output frames. This directory holds TLA+ models of the parts
of it where threads meet and of its voice pool, the TLC configurations that check
them on small instances, and theorems about them checked by TLAPS. Paths below are relative to
`src/src/` of the repository.

    tlc -workers 2 -config MCPageFeed.cfg MCPageFeed     # one run
    tlapm PageFeedProofs.tla                             # the proofs of a component

Contents: [1 inventory](#1-inventory), [2 plan](#2-plan),
[3 modules](#3-modules), [4 runs](#4-runs-and-bounds),
[5 fairness](#5-fairness), [6 proofs](#6-proofs), [7 findings](#7-findings),
[8 not modelled](#8-what-is-not-modelled).

## 1. Inventory

### How the parts interact

    host threads --submit--> ingress lanes / fast ring --merge--> compiler thread
         \--direct page feed---------------------\                     |
                                                  v                    v
                                       compiled event pages (pool, ready queue)
                                                  |  import, recycle
                                                  v
      SoundFont loader --pending bundle--> audio callback --> scheduler --> dispatch
      live mailbox (seqlock) ------------>      |             --> voice manager
                                                |--> render workers / shards / GPU stage
                                                |--> reverb, limiter --> device
                                                \--> live recorder ring --> writer thread

Threads: any number of host threads, the compiler thread, the audio callback
(which must not block), its render helpers and shard threads, the SoundFont
loader and the Hilbert builder, the recorder's writer, the control thread of the
runtime link. They share lock-free queues, epochs that are waited on with
`WaitOnAddress` (or polled, with a 50 ms time-out), single-slot atomic exchanges,
seqlocks and a few short critical sections.

### Components

| Component | State it keeps | Operations | What is hard | What makes it correct |
| --- | --- | --- | --- | --- |
| Ingress lane queue, `events/MPSCQueue.h` 106-331 | enqueue and dequeue counters, a sequence per cell | TryPush, TryPushBatch, TryPop | producers race on one counter; laps of the ring; a producer stops between reserving and publishing | a cell has one owner; batches are whole and in one order; nothing lost or doubled; refused only when full |
| Fast producer ring, same file 343-454 | two private and two published counters, cached copies | TryPush, TryPushBatch, TryPop | stale cached counters, publication order | FIFO, never overwritten unread |
| Event submission and merge, `driver/DriverIngress.cpp`, `MPSCQueue.h` 456-736 | sequence counter and lease, lanes, merge heads, counters, cancellation | submit message, loud batch, mixed batch; merge; wait and wake | a panic overtakes notes in other lanes; leased sequences; full lanes; cancellation; a compiler asleep | fences kill exactly older notes; counts add up; calls return; every event comes out |
| Event pages and direct feed, `events/EventPages.h`, `DriverIngress.cpp` 1104-1345 | page pool, open page and its count, ready and recycle queues | acquire, append, publish, detach, import, recycle | producer and callback exchange the open page with one CAS; pages recycled under a slow producer | a page is in one place; published payloads fixed; no event lost; no feeder stuck |
| Paged scheduler, `EventPages.h` 20-180, 300-609 | imported pages with cursors | import, order, pop due, recycle | radix sort with a modular sequence key, merge of pages | events leave in frame, then sequence order |
| Legacy scheduler, `events/EventScheduler.h` | sorted vector with a read index | enqueue batched, finalize, pop | unsigned sequence comparison at the wrap | same |
| Audio callback, `driver/DriverRender.cpp` | clock, stale recovery tables, telemetry | apply mailbox, import, admit, dispatch, render, mix | late events, quotas, fences, state shared with control | note-offs keep their multiplicity, late notes are not resurrected |
| Voice manager, `synth/VoiceManager.h`, `synth/voicemanager/` | voices in structure-of-arrays, key lists, steal index, free list | launch, release, sustain, steal, choke, grow, retire | many intrusive indices over one pool; limits and generations | every voice in the indices its state demands, exactly once |
| Same-key collapse and note merge, `events/NoteOnCollapse.h`, `events/NoteMerge.h` | per-key window and stack; fold table | OnNoteOn, reset; Merge | producers race on a key's window | at least one hit per window; counts preserved |
| Render worker pool, `render/RenderWorkers.cpp` | generation, job counter, completion counts, plain dispatch members | dispatch a span, wait, shut down | plain members read by helpers that are not waited for | jobs disjoint; merge after all are done; spans and shutdown end |
| Shards, `driver/DriverShards.cpp` | a core per shard with start and done events | kick, join with time-out, stop | a late core after a time-out | mixes belong to the block they are added to |
| GPU stage, `render/GpuStage.h`, `GpuBackend*.cpp`, `GpuSynth.cpp` | staging, residency stamps, in-flight blocks | submit, wait to a deadline, fall back | a late result and a CPU fallback | a row is rendered once |
| SoundFont loading and swap, `driver/DriverSoundFont.cpp` 520-954 | active, pending and retired bundles, Hilbert store | request, publish, activate, retire, reclaim, attach | latest request wins, reclamation while the callback renders | a bundle in use is never freed; the last request is the one heard |
| Live recorder, `synth/LiveRecorder.cpp` | ring, positions, state, active captures, error | Start, Stop, Capture, writer | Stop races with a capture; write errors | file equals what was captured; the ring outlives its users |
| Live control, `driver/DriverRuntimeLink.cpp`, `RuntimeLink.h`, `ControlServer.cpp`, seqlocks | mailbox and its sequence, commands, tokens | publish, apply, acknowledge | torn reads, repeated commands | the callback applies a whole state; a command is acknowledged once |
| Driver lifecycle, `driver/Driver.cpp`, `DllMain.cpp`, backends | initialized flag, threads, devices | Initialize, Shutdown, rebuild of the device | ordering of the stops | no thread survives what it uses |
| Front ends, `frontends/` | sessions, cancellation tokens, virtual devices | open, submit, cancel, close, offline sessions | cancellation of waiting calls | see submission |
| Byte streams and SysEx, `events/MidiByteStream.h`, `events/SysEx.h`, `events/MidiStream.cpp` | running status, partial message | feed bytes | messages split over buffers | the same messages whatever the split |
| DSP and kernels, `render/` (limiter, reverb, filters, AVX2/SSE2/scalar) | sample state | process a block | numeric agreement of kernels | outside TLA+'s reach |
| Offline renderer, standalone synth, canonical engine, player, configurator, file parsers | files, windows, a second engine | render, parse, draw | mostly sequential | covered by tests and golden files |

The behaviours that are hard to test are listed with their source lines under
`hazards` in PROJECT.json, with the properties that would catch them.

## 2. Plan

Ordered so that the path every event takes comes first.

1. **Done, proved.** `BoundedFifo`, `IngressQueue`: the queue under every lane, and
   its refinement of the abstract one.
2. **Done, proved.** `PageFeed`: pages between the feeders and the callback.
3. **Done, proved.** `EventIngress`: submission, merge, fences. It uses lanes as
   atomic FIFOs, which step 1 justifies.
4. **Done, proved.** `RenderWorkers`, `LiveRecorder`: the callback's two helpers.
5. **Done, proved.** `SoundFontSwap`: loader, builder, callback and reclamation, one
   access to shared state per step.
6. `PagedScheduler`: import, modular page sort and due extraction against a
   reference order (frame, then sequence), as functions over bounded inputs, with
   sequences that wrap; the composition with `EventIngress`' chunk boundaries.
7. **Done, proved** for the lists, the steal index, hanging notes and the limit. `VoicePool`:
   voices, key lists, free list and steal index; a type invariant that ties the
   indices together. Next: steal tails, the deferred releases of the whole-voice
   plan, the growth of the pool.
8. `FastRing` (refines `BoundedFifo`), `ShardJoin`, `CompilerSleep` (the
   sleep/wake handshake with a store buffer), `NoteOnCollapse`.

"Proved" means every safety invariant and safety action property its runs check
(of `VoicePool` those that section 6 lists); liveness stays with TLC. Left of the
proofs: `FastRing` refines `BoundedFifo` (`headPublished <= consumerHead <= cachedTail <= tailPublished`,
`producerTail <= cachedHead + capacity`); the page sort's ordering lemmas; a
statement for the direct feed's order across pages once step 6 has modelled it.

## 3. Modules

**BoundedFifo** is what a lane promises: whole batches enter one order, within a
capacity, and leave once and in that order.

**IngressQueue** is `DynamicMPSCQueue`, one action per atomic access: `LoadEnqueue`,
the scan of the batch's cells (`CellFree`, `CellPassed`, `Reject`), the
compare-and-swap on `enqueue_` (`Claim`, `ClaimFails`), the write and the
publication of each cell (`WriteValue`, `Publish`), and the steps of `TryPop`
(`PopStart`, `PopRead`, `PopRelease`, `PopAdvance`, or `PopFails`). Cells keep their sequence relative to their index as in the code.
Its property `ImplementsFifo` is the refinement of `BoundedFifo`: a batch is
accepted when its cells are reserved, an event delivered when its cell is
released. Counters are 64-bit in the code and naturals here.

**PageFeed** composes the two feeders, the page pool, the ready queue and the
import, dispatch and recycling of the callback. The open page and its count are
one 64-bit word in the code (`directState_`) and one record here, replaced by one
compare-and-swap; critical sections of the pool are steps that hold `poolLock`.
The wait on `compilerWakeEpoch_` is modelled by whether the epoch moved since it
was observed, so a wake between the observation and the wait is not lost, and one
before the observation is. The ghost `overrun` records that a direct copy ran
over a page that was published meanwhile (finding 1); `Conserved` says nothing
after that.

**EventIngress** is everything between a host's call and the dispatch of the
event, for one core. `Submit` chooses the path (`SubmitShortBatchCore`), `Number`
takes sequences from the counter or the owner's lease, `Prepare` is
`PrepareShortEvent` (fence, lane, shed), `Push`, `PushOne` and `Full` are the push
loops, `CheckCancelled` and `PrepareCancelled` the cancellation points. `Pop`,
`PollLane`, `Take` and `PublishPage` are `TryPopSequenceOrdered` and the loop
around it; `Import`, `DispatchPanic`, `DispatchNote` and `EndRun` the callback.
A note's `before` records which panics were in the queues when it was numbered,
and the other way round: the fence properties are stated with it rather than with
the sequences the code compares.

**RenderWorkers** is `BeginIndexed`, `FinishIndexed`, `ProcessJobs` and the
helper loop. `WaitMode` "event" is the build or system without `WaitOnAddress`,
where only the helpers of a span are woken; in "address" every helper wakes for
every span. The plain members `dispatchThreads` and `jobCount` are read where the
code reads them. Only the indexed form is used by the renderer; `Execute` runs the
same protocol. At start-up in address mode a helper reports ready before its first
load of `workGeneration` (line 141), so a span dispatched in between is missed;
the POSIX pool loads first.

**LiveRecorder** is `Start`, `Stop`, `Capture` and `WriterLoop`. `MayFail` lets
writes fail, `Overlap` lets a callback that saw the recorder recording be
suspended across a whole Stop and Start. With `Overlap = TRUE` and no failing
write `RingAlive` is violated: Start clears `activeCaptures_` under the late
callback. The passing run sets it to FALSE, because a callback lasts milliseconds
and a Stop joins a thread and closes a file.

**SoundFontSwap** is the life of a bundle: `Number` and `StoreRequest` (a request
takes its number, then is stored under the queue's lock), `EnterBuild`, `Make`,
`Mark` and `Publish` for the caller of `LoadSoundFont` and for the loader thread
alike, the loader's `CheckNewest` and `ReportFailure`, `ReclaimRetired` and
`DestroyRetired` of a telemetry pass and its `CopyPath`, `EnsureHilbertStore` and
the builder's `BuilderAim` and `BuilderOffer`, and the callback's stops between two
blocks (`AdoptStore`, `CompareStore`, `SwapPending`, `InstallActive`, `Announce`,
`StoreState`, `Retire`). Parsing a file is a choice: a fresh bundle, one that
shares the bank of an older bundle, or a failure. Reading is not copying: `reading`
names the bundle a thread is reading from, and `UsedIsAlive` says that what it
names, what plays and what is about to play has not been freed, whichever bundle
owns the samples it shares.

**VoicePool** is `VoiceManager` behind the events of the callback. The code keeps
six intrusive indices over one pool (key chains, play groups, class lists, channel
pages, active list, steal index) and repairs each one by hand in every operation;
it runs on one thread, so what can go wrong is a long sequence of calls. An action
is one public operation (`NoteOn`, `NoteOff`, the pedals, CC120, 121 and 123,
`RetireRendered`, `ApplyRuntimeVoiceLimit`, `Reset`); the operators above it take
the pool to the set of pools the code may leave, one operator per function:
`Allocate` with `TakeFree` and `TakeVictim`, `Pop` over the tiers (`PopTier`) and the ring of
released voices, the paths of a launch (`InPlace`, `Matching`, `General` with its
batch of victims), `ForkReleasedUnits`, `Choke`. Lists that the code only uses as
sets (play groups, classes, channel pages) are read off the voices; those whose
order or staleness matters are kept: the chains, the active list, and for each
voice the active-list position its steal key was written with (`leaf`), the
voices in the volatile tier, and whether `stealHeapCount_` counts more leaves than
there are (`over`). Scores, levels and ages are left out, so any indexed voice may be
the victim of a steal, and an Active voice keeps a leaf whichever tier its score
would put it in. `born` is `noteLaunchHandles_`. The loops of the code over voices,
layers and victims are recursive functions of the number of rounds (`Along`,
`Rounds`), each to the set of pools that many rounds may leave. Between events play groups are
renamed by position (`Settled`), because only equality of play indices matters.

Each `...Proofs` module extends its component's module with the inductive
invariant, the step lemmas and the theorems of [section 6](#6-proofs);
`RingArithmetic` has the lemmas on `%` that two of them share. Each `MC...` module
only names the instance. Operators whose comment begins with
"Mutant" (or says what a wrong version does) are deliberately wrong versions of
the definition that follows them; nothing in the specifications uses them, and
each property is violated when its mutant replaces the right definition. This is
how we know that no property holds vacuously.

## 4. Runs and bounds

| Run | Instance | States | Shows |
| --- | --- | --- | --- |
| ingress_queue | 2 producers, 2 calls each, 2 cells, batches of 1, 2 and 3 | 178 thousand | the lane's safety, honest refusals, delivery, refinement of `BoundedFifo` |
| page_feed | 3 pages of 2 events, 2 direct and 2 ring events | 656 thousand | pages never lost or shared, room at every push, no event lost, backpressure and shutdown end |
| page_feed_immutable | as above | violation | finding 1 |
| event_ingress | 2 threads, 3 events in calls of 1 or 2, lanes and ring of 1, pages of 2, leases of 2, with and without the fast ring, one cancellation | 3.6 million | fences, accounting, the merge |
| event_ingress_live | the same with 2 events | 81 thousand | delivery, calls return |
| event_ingress_fence | 1 thread, 5 events, sequences of 3 bits | violation | finding 4 |
| render_workers | 2 helpers, 3 spans of 2, 3 or 4 jobs, event mode | pass | disjoint jobs, complete merges, ends |
| render_workers_address | as above in address mode | violation | finding 2 |
| live_recorder | ring of 2, blocks of 1 to 3 frames, 2 recordings, failing writes | pass | the file is what was captured, the ring outlives its users |
| live_recorder_error | as above | violation | finding 3 |
| sound_font_swap | 3 requests, 1 companion store, a control thread (queues, telemetry, rotation on and off), a host that loads, loader, builder and callback | 870 thousand | no bundle used after it is freed, lost or freed twice; companion stores fit; queued requests settle |
| voice_pool | 3 voices, limits 2 and 3, 2 keys, a merged note, a muting note and a stereo note of one class, batching on | 162 thousand | lists and steal index agree; no hung notes; note-offs and forks end exactly their units; notes are launched, stolen and choked whole; the pool does not grow past its limit |

Why the bounds are enough. Two cells and four calls make every push after the
second lap the ring, and an oversized batch is among them. Three pages are the
smallest pool the code configures (required plus two), where both feeders can hold
the last free ones; two-event pages can be left open, filled exactly and run over.
With lanes of one event the second event of a kind finds its lane full, so
waiting, shedding, refusing a batch as a whole and cancelling all occur; three
events are enough for two panics of two threads with a note between them, and for
a note to be held back while a panic overtakes it. `PollEvery = 2` stands for 16:
a lane goes unobserved for one output. A lease of two is used up by a batch and
refilled. Sequences wrap only where a run says so (`SequenceWidth`). Two helpers
and spans of two jobs leave one helper out, which is the interesting case. A ring
of two frames takes blocks that half fill it, fill it, or never fit. With three
requests (`MaxRequests`, the configured SoundFont included) one bundle can be active, one pending
and one being built, and a pending one be replaced before it was heard; one companion
store (`MaxBuilds`) is enough for it to outlive the bundle it was built for. Three
voices hold a stereo pair and another note, so that a steal can retire a pair for
one slot or a single note for half a pair; a limit of two makes a steal happen
with a slot free, which is where the batch of victims meets released voices; two
merged note-ons are the least that can be forked. `NoteOff` takes one or two
note-offs at once. The voices are interchangeable (`SYMMETRY`): no action or
property orders them. Sequences of voice events are not bounded.

`CHECK_DEADLOCK FALSE` appears only in models that really stop: after Shutdown,
or when all recordings or spans are done.

## 5. Fairness

* Threads of the driver (compiler, callback, helpers, writer) are weakly fair:
  they are scheduled and their loops have no other exit than the modelled ones.
  The device keeps calling the callback until it is stopped.
* A host thread inside a call is weakly fair; whether it calls is free, as are
  cancellation, shutdown, new spans and new recordings.
* In `SoundFontSwap` the callback, the loader and the builder are weakly fair, a
  thread inside a call goes on, and the loader eventually gets `soundFontBuildCs_`
  (strong fairness): other threads hold it for one build or pass and a critical
  section does not starve a waiter for ever. Failures to parse are not excluded.
* `VoicePool` has no liveness: nothing obliges a host to send a note-off.
* Waits with a time-out (50 ms on the epochs, 100 ms in the writer) may end at any
  time in `EventIngress` and `LiveRecorder`. In `PageFeed` time-outs are *not*
  taken as progress before Shutdown, so `SubmittedIsDispatched` shows that the
  callback's bump alone restarts a feeder. After Shutdown they are needed: the
  feeders test `cancelProducers_` before they observe the epoch, so Shutdown's
  bump can fall in between and only the time-out ends the wait.
* `PageFeed` assumes strong fairness of dispatch: the block clock passes every
  target frame, so a scheduled page is consumed although imports go on.
* `SubmitReturns` rests on the bounded number of calls for one thing: queues do not
  favour a waiting producer, so with unbounded traffic from others it could be
  overtaken for ever.

## 6. Proofs

Every theorem holds for all values of the constants that satisfy the `ASSUME`s of
its module: any number of threads, cells, pages, helpers, requests and events.
Where it needs more, the hypothesis is part of the theorem, and a run or section 7
shows that without it the property fails. Each proof has the same shape: an
inductive invariant made of named parts (each checked with TLC before it was
proved), one step lemma per part and in it one step per action, and theorems that
read the checked property off the invariant.

| Component | Theorems, with the property each states | Hypothesis |
| --- | --- | --- |
| IngressQueue | `TypeCorrect` (`TypeOK`), `CellsAreExclusive` (`ExclusiveCells`), `PopsReserved` (`TakesReserved`, which no run needs: `ImplementsFifo` checks it), `RefusalsAreHonest` (`RefusedOnlyWhenFull`), `ImplementsBoundedFifo` (`ImplementsFifo`) | none |
| PageFeed | `TypeCorrect` (`TypeOK`), `EveryPageInOnePlace` (`OnePlace`), `PagesFindRoom` (`RoomForPages`), `NothingLostNorDoubled` (`Conserved`) | none |
| EventIngress | `TypeCorrect` (`TypeOK`), `EventsInOnePlace` (`InOnePlace`), `CountsAddUp` (`Accounted`) | none |
| | `NewerNotesAreHeard` (`NewerNotesSurvive`), `DeadNotesStayDead` (`KilledStaysKilled`) | `Unwrapped` |
| RenderWorkers | `TypeCorrect` (`TypeOK`), `JobsAreDisjoint` (`DisjointJobs`), `MergeFindsFinishedSpan` (`MergesFinishedSpan`), `PreparationIsQuiet` (`QuietWhilePreparing`) | `WaitMode = "event"` |
| LiveRecorder | `TypeCorrect` (`TypeOK`), `RecordingIntact` (`Intact`), `CopiesIntoLiveRing` (`RingAlive`), `StopsComplete` (`StoppedIsComplete`) | `Overlap = FALSE` |
| SoundFontSwap | `TypeCorrect` (`TypeOK`), `BundlesInOnePlace` (`OnePlace`) | none |
| | `NothingFreedIsUsed` (`UsedIsAlive`) | `SoleReclaimer(control)` |
| | `CompanionIsOwn` (`CompanionMatches`) | `MaxBuilds <= 1` |
| VoicePool | `TypeCorrect` (`TypeOK`), `IndexStaysCurrent` (`IndexCurrent`), `NoNoteHangs` (`NoHungNotes`), `PoolWithinLimit` (`LimitKept`) | none |

### IngressQueueProofs

No property is inductive as it stands: a cell's owner is known only through its
sequence number, and a producer between its scan and its compare-and-swap relies
on what it saw. `IInv` therefore says, for the window of `Capacity` positions from
the first unreleased one, in which of three conditions the cell of each position is:
reserved and unwritten by exactly one producer (`OwnersInv`), published with the
event accepted at that position, or free for that position (`CellsInv`); where
the counters stand relative to each other and to the history (`PositionsInv`); that a
producer that has scanned cells and whose position is still `enqueue_` saw cells
that are still free (`ProducersInv`: only a claim can take them, and a claim moves
`enqueue_`); and what the consumer holds (`ConsumerInv`). `RingArithmetic` proves
the facts about `%`: distinct positions within a window have distinct cells, a
window covers all cells.

### PageFeedProofs

Two invariants, one on the other. `FeedInvariant` is about pages: `PlacesInv` gives
each page exactly one of eight places, and `DirectInv`, `CompilerInv` and `AudioInv`
say what each thread, between two of its accesses, knows of the page it has in
hand. In particular the open page is the one the direct producer loaded or none,
because only the callback closes a page behind its back; the count it loaded is
still the page's count if the compare-and-swap succeeds. `OnePlace` and
`RoomForPages` follow by counting.

`Invariant` is about events: `SourcesInv` (a feeder has passed on exactly the
events up to a number), `CopiedInv` (what the producer is about to commit lies
behind the count it loaded) and `EventsInv` (the live slots hold different events,
none of them played). `EventsInv` is claimed only while `~overrun`: finding 1 is that a
late copy of the producer can write into somebody else's page, and from then on
`Conserved` says nothing either. `FeedInvariant` and the three theorems about
pages do not need it, so pages keep circulating correctly even then.

### EventIngressProofs

`EventsInv` says that each event is in one place: `ThreadsInv` what a thread's
label says of the events it has prepared, `MergeInv` the compiler's heads, and
`WhereInv` that hands, lanes and heads hold different events (`DistinctInv`) and
that an event's `fate` tells which places it may be in (`PlacesInv`). Capacities
are in `TypeOK`: no lane exceeds its capacity, whichever mixture of batches and
single messages is pushed. `AccountsInv` ties the three counters to the events
numbered and shed, and `Accounted` follows.

`FencedInv` is what the fences need: `SequencesInv` (sequences of one source, the
counter or the owner's lease, grow with the events they number) and `FencesInv`
(the fence is some panic's sequence plus one, and is past every panic that a thread
has in hand beyond its `Prepare`, that was pushed or was played; so is the fence
a run of the callback carries past every panic played in it). `HeldInv` is the part
that makes it inductive: the fence is published before the panic is pushed.
All of it is claimed while `Unwrapped`, that is until half of the sequences have been
given out: finding 4 is that the modular comparison turns round after that, because
a fence is never retired. So `NewerNotesAreHeard` is
`Spec => [](Unwrapped => NewerNotesSurvive)` and `DeadNotesStayDead` is
`Spec /\ []Unwrapped => KilledStaysKilled`.

### RenderWorkersProofs

From `Bump` until `Join` exactly the helpers of the span are `Busy`, woken or on
their way through `ThreadEntry`, and the pending count is their number (`HelpersInv`,
`CountsInv`); `doneEvent` is set by the last of them, so the coordinator leaves
`FinishIndexed` only when nobody is busy, and what it writes outside a span has
no reader. `JobsInv` adds that a job below `nextJob` is rendered once or is
being rendered by one thread. The hypothesis is the pool without `WaitOnAddress`:
finding 2 violates `DisjointJobs` with it.

### LiveRecorderProofs

`FramesInv` relates the two positions, the ring's cells, the file and what was
captured; `AudioInv` says that a callback that copies still has the room it saw, as only it
moves the write position; `WriterInv` follows the writer's shutdown: it has seen no
recording, then no active capture, then nothing left to read, so it ends with
nothing left; `ControlInv` where Start and Stop are. Writes may fail or not
(`MayFail` is free). The hypothesis excludes a callback suspended from before a
Stop until after the next Start has cleared `activeCaptures_`.

### SoundFontSwapProofs

`RequestsInv` says that a request's number is with one build only, so a bundle is
made once; `PlacesInv` and `SlotsInv` in which of seven places it is until it is
destroyed, `HeapInv` that a bank has as many references as undestroyed bundles
that use it, `LockInv` and `LockedReadsInv` what holding `soundFontBuildCs_` gives:
what is read under it is active, just replaced or retired, and nobody reclaims.
`UsedIsAlive` needs more for the reads outside the lock, of the telemetry pass and of
`EnsureHilbertStoreAsync`: one thread makes both (`SoleReclaimer`), which the comment
at DriverRuntimeLink.cpp 780 relies on too. `CompanionInv` follows the one
background store from the builder to the callback's comparison.

### VoicePoolProofs

`Sound` is the invariant between two events: the lists agree with the voices (`Shape`,
`Chained`), a voice's note-off is still to come or a pedal that is down holds it
(`Kept`, `Pedals`), the steal index has every Active voice under the position it has
now and nothing else (`Keyed`), free slots hold no pedal (`Idle`), no voice is half
committed, and the voices of the last launch are Active.

Inside an event none of this holds outright, and the lemmas name what is excepted: a
victim that was popped but not yet retired, voices of the note being launched that
no chain has, the voice that a swap-removal from the active list has moved. A lemma
per function says which exceptions it needs, makes and ends (`Laying`, `Winding`,
`Replacing`, `Splitting`, `Twinning`, `Offing` are the invariants of the loops).
`NoHungNotes` needs `Pedals`: a voice that is off its chain is released only by the
pedal named in its `held` bits, so these may not outlive the pedal.

`LimitKept` is an action property: what an event leaves is compared with what it
found. The lemmas carry the event's `room`, its limit and the voices it found, and
each operation that takes a slot leaves the pool `Within` it: `AllocateVoiceOrSteal` looks
at the limit before it takes a free slot (`HasRoom`), and a steal gives the new voice
its victim's place on the active list while the victim's siblings leave it.

The loops are recursive functions of the number of rounds. `LoopExists` shows that
such a function exists, satisfies its equation and keeps what each round keeps, from
the well-foundedness of the naturals (`Rising`), without the library's induction
theorems, which take an operator as a parameter.

### Model-checked only

* Liveness: `ReservedIsDelivered`, `SubmittedIsDispatched`, `ShutdownEndsFeeders`,
  `SubmitReturns`, `Delivered`, `SpanEnds`, `HelpersEnd`, `StopReturns`,
  `QueuedSettles`. TLAPS does not prove properties under fairness, nor about
  `ENABLED`.
* `ReleasesOneUnit` compares a release with a reference computed over the chain
  (`SelectSeq`), that is by induction over data.
* `LaunchWhole` is about the instance: with three layers (note 4 of section 7) or with
  batching off (note 6) it is false, so a theorem would have to assume both.

## 7. Findings

Each is shown by a run that violates what the repository says.

1. `page_feed_immutable`. `SubmitShortBatchDirect` copies its events into the open
   page before the compare-and-swap that tells it whether the page is still its
   own (DriverIngress.cpp 1213). A slow producer can write into a page that was
   taken, played, recycled, refilled by the compiler thread and published;
   EventPages.h 184 says payloads are immutable between Publish and Recycle.
2. `render_workers_address`. With `WaitOnAddress`, a helper left out of a span can
   read the next span's plain members before its generation is published, is
   counted twice, and two threads end up on one job; RenderWorkers.h 34 says jobs
   are disjoint.
3. `live_recorder_error`. An error the writer reports after `Stop` exchanged the
   state is overwritten by Stopped, and the command answers that the WAV was
   finalized.
4. `event_ingress_fence`. A termination fence is never retired. 2^31 events after
   a panic (about half an hour at a million events per second) the modular
   comparison takes new notes for older ones and silences them; Types.h 56 limits
   the comparison to a live window the fence is not part of.

Seen in the models without a run of their own: a cancelled mixed batch takes events
off the accepted count that were never counted as submitted, and of those it had
prepared only one (DriverIngress.cpp 697 and 750; `Accounted` excludes cancelled
calls); panics and notes numbered from different sources, the counter and a lease,
are not ordered with each other (`KilledStaysKilled` and `NewerNotesSurvive` set
them aside; the changelog accepts it); the comment at DriverRender.cpp 1709 that the
fence cannot move inside a run is not so, as producers publish fences, but harmless:
a fence is published before its panic is pushed, and a run lies within one
callback, which imported its events before.

In `SoundFontSwap`, each found by TLC outside the passing run's instance or with a
stronger property:

* With two telemetry callers (`get_telemetry_v3` beside the runtime link, both
  named at DriverRuntimeLink.cpp 784) one reads the active bundle's path while the
  other frees it; the comment at 780 trusts that there is one reclaimer. The
  instance has one.
* `LoadSoundFont` of an older number may publish last (DriverSoundFont.cpp 771), so
  the older SoundFont is heard and the load state stays at 2. `QueuedSettles` is
  stated for requests made while nobody else loads.
* The callback compares with the newest request (684) and then stores 3: a failure
  (4) of a newer request stored in between is lost.
* With `MaxBuilds = 2` `CompanionMatches` fails, in 23 steps from a bundle that
  replaces the configured one: `pendingHilbertFor_` is a plain member that a second
  build, for the new bundle, overwrites between the callback's exchange of the first
  store and its comparison (629-632). The run and the theorem `CompanionIsOwn` are
  about one background build.

In the voice manager, found while modelling it; 1, 2 and 3 are in the model, and a
property leaves the case out where it says so, 4 and 5 need data or layers it does
not have, 6 is there with `Batching = FALSE`:

1. The batch of a layered launch with a slot free pops released voices, which it
   neither uses nor puts back (Stealing.inl 943 tests for Active; the comment at 919 speaks of every
   victim still live). They leave the steal index until it is rebuilt: later notes
   are dropped, or steal a playing note, while a tail could have been taken.
   `IndexCurrent` therefore asks for Active voices only and `ReleasesOneUnit`
   looks at what the index has.
2. `TryLaunchSingleVoiceInPlace` replaces one layer of a stereo note and leaves the
   other sounding, where VoiceManager.h 1460 says that a group cannot be split.
   `LaunchWhole` excepts one-layer notes.
3. The in-place paths do not make the test of AllocateVoiceOrSteal (Launch.inl 76)
   that refuses notes while the pool is above a lowered limit, and a fork at a
   limit with nothing else to steal takes the note being split.
4. Launch.inl 1699: the batch cursor skips victims that are not Active, but a popped
   voice that was retired as a sibling and refilled by this very launch is Active
   again. With three layers that steal a stereo pair, two layers end on one voice
   (1657 says layers of one note cannot steal each other). The instance has two
   layers at most.
5. `UpdateStealCandidate` does not refresh the key of a volatile candidate when its heap
   was built for another frame (1019); PopStealCandidate detects the stale position
   and drops the voice from the index.
6. `BuildStealHeap` does not look at `stealCandidateDeferred_` (Stealing.inl 435), so a
   build in the middle of a launch indexes the launch's own newborn, where Launch.inl 104
   says that a deferred voice is invisible to the steal index until its configuration
   commits. With the batch off (correctness mode, DriverRender.cpp 1697) the second layer
   of a stereo note can be the first to look at the index, and steal the first layer
   when that took the last free slot: one voice stands for two layers. With `Batching
   = FALSE` TLC finds `LaunchWhole` violated; the theorems hold for both values.

## 8. What is not modelled

* Memory orderings weaker than sequential consistency. The queues use
  acquire/release pairs on the very words the models step through; the one place
  where a store-load order matters, the compiler's sleep (DriverIngress.cpp 573 and
  1363), is in the plan, and its 50 ms time-out bounds the damage.
* In `EventIngress`: coalescing (off by default), CC collapse and minimum note
  length, switching the fast producer on or off while events flow, the direct
  feed's fences, channel fences apart from the global one.
* In `PageFeed`: a restart after Shutdown, and the order of events inside and across
  pages (step 6 of the plan).
* In `SoundFontSwap`: activation by a thread while audio is stopped, the shutdown of
  the loader and the builder, key shards, and the XP build.
* In `VoicePool`: sampled and bucket stealing, the per-key cap, rejection of
  note-ons, lazily committed launches, steal tails, the deferred releases of the
  whole-voice plan, growth of the pool, render classes, and the overflow of the ring
  of released voices (its capacity is twice the pool's; stale entries can push a
  live one out, after which that voice is only found through the tiers).
* DSP, kernels, GPU back ends, file parsers, the configurator, the player, the
  offline renderer and the canonical engine: numeric or sequential code whose
  errors TLA+ would not show, or pure input and output.
* Windows and POSIX primitives (events, `WaitOnAddress`, threads) are taken as
  documented, with spurious wakes where the code allows for them.
