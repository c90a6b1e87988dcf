---------------------------- MODULE RenderWorkers ----------------------------
(***************************************************************************)
(* RenderWorkerPool (src/src/render/RenderWorkers.cpp): the coordinator    *)
(* dispatches a span of indexed jobs with BeginIndexed, takes part in it,  *)
(* waits for the helpers in FinishIndexed and merges the job mixes.        *)
(* jobCount and dispatchThreads are plain members: whatever a helper reads *)
(* between two steps of the coordinator is what it acts upon.              *)
(*                                                                         *)
(* WaitMode is what Initialize found: "address" with WaitOnAddress, where  *)
(* every helper sleeps on workGeneration, or "event" without it, where     *)
(* each helper has an auto-reset wake event and the last one to finish     *)
(* sets doneEvent.                                                         *)
(***************************************************************************)
EXTENDS Integers, FiniteSets

CONSTANTS HelperCount,  \* helper threads; helper h has lane h
          WaitMode,     \* "address" or "event"
          JobCounts,    \* the job counts spans are dispatched with
          MaxSpans      \* bound: spans dispatched

ASSUME HelperAssumption == HelperCount \in Nat \ {0}
ASSUME WaitModeAssumption == WaitMode \in {"address", "event"}
ASSUME JobAssumption == JobCounts \subseteq Nat \ {0, 1}
ASSUME SpanAssumption == MaxSpans \in Nat

Coordinator == 0
Helpers == 1 .. HelperCount
Threads == {Coordinator} \cup Helpers
TotalThreads == HelperCount + 1
Jobs == UNION {0 .. n - 1 : n \in JobCounts}

VARIABLES
    generation, nextJob, completed, pending,  \* workGeneration, nextJob, ...
    doneEvent, wakeEvent,                     \* the auto-reset events
    jobCount, dispatchThreads, activeHelpers, \* plain members
    stopping,
    pc, observed,      \* a thread, and observedGeneration of a helper
    index,             \* the job a thread claimed
    spans, rendered    \* history: spans begun, renderings of each job of this one

shared == <<generation, nextJob, completed, pending, doneEvent, wakeEvent>>
plain == <<jobCount, dispatchThreads, activeHelpers>>
vars == <<shared, plain, stopping, pc, observed, index, spans, rendered>>

\* A helper has set its ready event, which is what Initialize waits for, but
\* it may not have loaded workGeneration yet.
Init ==
    /\ generation = 0 /\ nextJob = 0 /\ completed = 0 /\ pending = 0
    /\ doneEvent = FALSE /\ wakeEvent = [h \in Helpers |-> FALSE]
    /\ jobCount = 0 /\ dispatchThreads = 1 /\ activeHelpers = 0
    /\ stopping = FALSE
    /\ pc = [t \in Threads |-> IF t = Coordinator THEN "idle" ELSE "ready"]
    /\ observed = [h \in Helpers |-> 0]
    /\ index = [t \in Threads |-> 0]
    /\ spans = 0 /\ rendered = [j \in Jobs |-> 0]

Step(t, from, to) == pc[t] = from /\ pc' = [pc EXCEPT ![t] = to]

-----------------------------------------------------------------------------
(* ProcessJobs, by the coordinator and the helpers.                        *)

\* The next job of the shared counter, or past the last one.
Claim(t) ==
    /\ pc[t] = "claim"
    /\ nextJob' = nextJob + 1
    /\ IF nextJob < jobCount
         THEN /\ index' = [index EXCEPT ![t] = nextJob]
              /\ Step(t, "claim", "render")
         ELSE /\ Step(t, "claim", IF t = Coordinator THEN "wait" ELSE "count")
              /\ UNCHANGED index
    /\ UNCHANGED <<generation, completed, pending, doneEvent, wakeEvent, plain,
                   stopping, observed, spans, rendered>>

\* The claimed job is cleared and rendered into its private mix.
Render(t) ==
    /\ Step(t, "render", "claim")
    /\ rendered' = [rendered EXCEPT ![index[t]] = @ + 1]
    /\ UNCHANGED <<shared, plain, stopping, observed, index, spans>>

-----------------------------------------------------------------------------
(* BeginIndexed and FinishIndexed.                                         *)

\* The context and the job count of the new span.
Plan ==
    /\ Step(Coordinator, "idle", "size") /\ ~stopping /\ spans < MaxSpans
    /\ spans' = spans + 1
    /\ \E n \in JobCounts : jobCount' = n
    /\ rendered' = [j \in Jobs |-> 0]
    /\ UNCHANGED <<shared, dispatchThreads, activeHelpers, stopping, observed,
                   index>>

SizeDispatch ==
    /\ Step(Coordinator, "size", "reset")
    /\ dispatchThreads' = IF jobCount < TotalThreads THEN jobCount ELSE TotalThreads
    /\ activeHelpers' = dispatchThreads' - 1
    /\ doneEvent' = FALSE
    /\ UNCHANGED <<generation, nextJob, completed, pending, wakeEvent, jobCount,
                   stopping, observed, index, spans, rendered>>

ResetJobs ==
    /\ Step(Coordinator, "reset", "counts")
    /\ nextJob' = 0
    /\ UNCHANGED <<generation, completed, pending, doneEvent, wakeEvent, plain,
                   stopping, observed, index, spans, rendered>>

\* Leaves the completions of the last span standing.
ResetPendingOnly ==
    /\ Step(Coordinator, "counts", "bump")
    /\ pending' = activeHelpers
    /\ UNCHANGED <<generation, nextJob, completed, doneEvent, wakeEvent, plain,
                   stopping, observed, index, spans, rendered>>

ResetCounts ==
    /\ Step(Coordinator, "counts", "bump")
    /\ completed' = 0 /\ pending' = activeHelpers
    /\ UNCHANGED <<generation, nextJob, doneEvent, wakeEvent, plain, stopping,
                   observed, index, spans, rendered>>

\* Wakes one helper too few.
BumpOneShort ==
    /\ Step(Coordinator, "bump", "claim")
    /\ generation' = generation + 1
    /\ wakeEvent' = [h \in Helpers |-> wakeEvent[h] \/ h < activeHelpers]
    /\ UNCHANGED <<nextJob, completed, pending, doneEvent, plain, stopping,
                   observed, index, spans, rendered>>

\* workGeneration wakes every helper, the wake events the active ones.
Bump ==
    /\ Step(Coordinator, "bump", "claim")
    /\ generation' = generation + 1
    /\ wakeEvent' = IF WaitMode = "event"
                      THEN [h \in Helpers |-> wakeEvent[h] \/ h <= activeHelpers]
                      ELSE wakeEvent
    /\ UNCHANGED <<nextJob, completed, pending, doneEvent, plain, stopping,
                   observed, index, spans, rendered>>

\* Joins as soon as the job counter is used up.
JoinOnEmptyCounter ==
    /\ Step(Coordinator, "wait", "merge")
    /\ doneEvent' = FALSE
    /\ UNCHANGED <<generation, nextJob, completed, pending, wakeEvent, plain,
                   stopping, observed, index, spans, rendered>>

Join ==
    /\ Step(Coordinator, "wait", "merge")
    /\ IF WaitMode = "address"
         THEN completed >= activeHelpers /\ UNCHANGED doneEvent
         ELSE doneEvent /\ doneEvent' = FALSE
    /\ UNCHANGED <<generation, nextJob, completed, pending, wakeEvent, plain,
                   stopping, observed, index, spans, rendered>>

\* The reduction of the job mixes in job-index order, and the return.
Merge ==
    /\ Step(Coordinator, "merge", "idle")
    /\ activeHelpers' = 0
    /\ UNCHANGED <<shared, jobCount, dispatchThreads, stopping, observed, index,
                   spans, rendered>>

\* Shutdown, between two spans; it then joins the helpers.
Shutdown ==
    /\ Step(Coordinator, "idle", "idle") /\ ~stopping
    /\ stopping' = TRUE
    /\ generation' = IF WaitMode = "address" THEN generation + 1 ELSE generation
    /\ wakeEvent' = [h \in Helpers |-> TRUE]
    /\ UNCHANGED <<nextJob, completed, pending, doneEvent, plain, observed,
                   index, spans, rendered>>

-----------------------------------------------------------------------------
(* ThreadEntry.                                                            *)

FirstLoad(h) ==
    /\ Step(h, "ready", "asleep")
    /\ observed' = [observed EXCEPT ![h] = generation]
    /\ UNCHANGED <<shared, plain, stopping, index, spans, rendered>>

Wakeable(h) ==
    IF WaitMode = "address" THEN stopping \/ generation # observed[h]
    ELSE wakeEvent[h]

\* A helper that does not look at `stopping` after it was woken.
AwakeHeedless(h) ==
    /\ Wakeable(h)
    /\ Step(h, "asleep", "load")
    /\ wakeEvent' = [wakeEvent EXCEPT ![h] = FALSE]
    /\ UNCHANGED <<generation, nextJob, completed, pending, doneEvent, plain,
                   stopping, observed, index, spans, rendered>>

Awake(h) ==
    /\ Wakeable(h)
    /\ Step(h, "asleep", IF stopping THEN "ended" ELSE "load")
    /\ wakeEvent' = IF WaitMode = "event"
                      THEN [wakeEvent EXCEPT ![h] = FALSE] ELSE wakeEvent
    /\ UNCHANGED <<generation, nextJob, completed, pending, doneEvent, plain,
                   stopping, observed, index, spans, rendered>>

LoadGeneration(h) ==
    /\ Step(h, "load", "lane")
    /\ observed' = [observed EXCEPT ![h] = generation]
    /\ UNCHANGED <<shared, plain, stopping, index, spans, rendered>>

CheckLane(h) ==
    /\ Step(h, "lane", IF h >= dispatchThreads THEN "asleep" ELSE "claim")
    /\ UNCHANGED <<shared, plain, stopping, observed, index, spans, rendered>>

CountCompleted(h) ==
    /\ Step(h, "count", "retire")
    /\ completed' = completed + 1
    /\ UNCHANGED <<generation, nextJob, pending, doneEvent, wakeEvent, plain,
                   stopping, observed, index, spans, rendered>>

\* Signals after every helper, not after the last.
RetireEach(h) ==
    /\ Step(h, "retire", "asleep")
    /\ pending' = pending - 1 /\ doneEvent' = TRUE
    /\ UNCHANGED <<generation, nextJob, completed, wakeEvent, plain, stopping,
                   observed, index, spans, rendered>>

Retire(h) ==
    /\ Step(h, "retire", "asleep")
    /\ pending' = pending - 1
    /\ doneEvent' = (doneEvent \/ pending = 1)
    /\ UNCHANGED <<generation, nextJob, completed, wakeEvent, plain, stopping,
                   observed, index, spans, rendered>>

-----------------------------------------------------------------------------
CoordinatorStep ==
    \/ SizeDispatch \/ ResetJobs \/ ResetCounts \/ Bump \/ Join \/ Merge
    \/ Claim(Coordinator) \/ Render(Coordinator)

HelperStep(h) ==
    \/ FirstLoad(h) \/ Awake(h) \/ LoadGeneration(h) \/ CheckLane(h)
    \/ CountCompleted(h) \/ Retire(h) \/ Claim(h) \/ Render(h)

Next ==
    \/ Plan \/ Shutdown \/ CoordinatorStep
    \/ \E h \in Helpers : HelperStep(h)

Spec == Init /\ [][Next]_vars

\* Each thread keeps running while it can; spans need not come.
FairSpec ==
    /\ Spec /\ WF_vars(CoordinatorStep)
    /\ \A h \in Helpers : WF_vars(HelperStep(h))

-----------------------------------------------------------------------------
(* Properties.                                                             *)

TypeOK ==
    /\ generation \in Nat /\ nextJob \in Nat /\ completed \in 0 .. HelperCount
    /\ pending \in 0 .. HelperCount
    /\ doneEvent \in BOOLEAN /\ wakeEvent \in [Helpers -> BOOLEAN]
    /\ jobCount \in JobCounts \cup {0} /\ dispatchThreads \in 1 .. TotalThreads
    /\ activeHelpers \in 0 .. HelperCount /\ stopping \in BOOLEAN
    /\ pc[Coordinator] \in {"idle", "size", "reset", "counts", "bump", "claim",
                            "render", "wait", "merge"}
    /\ \A h \in Helpers : pc[h] \in {"ready", "asleep", "load", "lane", "claim",
                                    "render", "count", "retire", "ended"}
    /\ observed \in [Helpers -> Nat]
    /\ index \in [Threads -> Jobs \cup {0}] /\ rendered \in [Jobs -> Nat]

\* The comment of RenderWorkerPool: "workers only render disjoint handle ranges
\* into private buffers".  No two threads are ever at work on one job.
DisjointJobs ==
    \A t, u \in Threads :
      t # u /\ pc[t] = "render" /\ pc[u] = "render" => index[t] # index[u]

\* When the coordinator merges, every job of the span was rendered once and
\* nobody still writes into a mix.
MergesFinishedSpan ==
    pc[Coordinator] = "merge" =>
      /\ \A j \in Jobs : rendered[j] = IF j < jobCount THEN 1 ELSE 0
      /\ \A h \in Helpers : pc[h] # "render"

\* While the coordinator prepares a span, no helper reads the plain members it
\* is writing, nor claims from the counters it resets.
QuietWhilePreparing ==
    pc[Coordinator] \in {"size", "reset", "counts", "bump"} =>
      \A h \in Helpers : pc[h] \notin {"lane", "claim", "render", "count", "retire"}

\* A dispatched span ends: every active helper hears of it and reports back.
SpanEnds == (pc[Coordinator] = "claim") ~> (pc[Coordinator] = "idle")

\* Shutdown's join of the helper threads returns.
HelpersEnd == stopping ~> \A h \in Helpers : pc[h] = "ended"
=============================================================================
