------------------------- MODULE RenderWorkersProofs -------------------------
(***************************************************************************)
(* Proofs about RenderWorkers, for any number of helpers and any job       *)
(* counts, where the pool runs without WaitOnAddress (WaitMode = "event"). *)
(* With it a helper left out of a span may read the plain members of the   *)
(* next one, and DisjointJobs does not hold.                               *)
(*                                                                         *)
(* The argument: from Bump until Join exactly the helpers of the span are  *)
(* busy, that is woken or on their way through ThreadEntry, and            *)
(* pendingHelpers is their number.  doneEvent is set by the last of them,  *)
(* so the coordinator leaves FinishIndexed only when nobody is busy, and   *)
(* whatever it writes outside a span has no reader.                        *)
(***************************************************************************)
EXTENDS RenderWorkers, FiniteSetTheorems, TLAPS

Places == {"idle", "size", "reset", "counts", "bump", "claim", "render", "wait",
           "merge", "ready", "asleep", "load", "lane", "count", "retire", "ended"}

\* Between the wake-up of the helpers and the end of FinishIndexed's wait.
InSpan == pc[Coordinator] \in {"claim", "render", "wait"}

\* Helpers that were woken or are on their way through ThreadEntry, and those
\* of them that have yet to be counted.
Busy == {h \in Helpers : \/ wakeEvent[h]
                         \/ pc[h] \in {"load", "lane", "claim", "render", "count",
                                       "retire"}}
Uncounted == {h \in Busy : pc[h] # "retire"}

\* A wake event is taken by a helper that waits, and before Shutdown only the
\* helpers of a span are woken.
HelpersInv ==
    /\ pc \in [Threads -> Places]
    /\ ~stopping =>
         /\ \A h \in Helpers :
              pc[h] # "ended" /\ (wakeEvent[h] => pc[h] \in {"ready", "asleep"})
         /\ InSpan \/ Busy = {}
    /\ stopping =>
         /\ pc[Coordinator] = "idle"
         /\ \A h \in Helpers : pc[h] \in {"ready", "asleep", "ended"}

\* What BeginIndexed has written by each of its steps.
CoordinatorInv ==
    /\ pc[Coordinator] # "idle" => jobCount \in JobCounts
    /\ pc[Coordinator] \in {"reset", "counts", "bump", "claim", "render", "wait"} =>
         activeHelpers >= 1 /\ dispatchThreads = activeHelpers + 1
    /\ pc[Coordinator] \in {"reset", "counts", "bump"} => ~doneEvent
    /\ pc[Coordinator] \in {"counts", "bump"} => nextJob = 0
    /\ pc[Coordinator] = "bump" => completed = 0 /\ pending = activeHelpers
    /\ pc[Coordinator] = "wait" => nextJob >= jobCount

\* The counters of a span and the helpers that still work on it.
CountsInv ==
    InSpan =>
      /\ \A h \in Busy : h <= activeHelpers
      /\ pending = Cardinality(Busy)
      /\ doneEvent <=> pending = 0
      /\ completed + Cardinality(Uncounted) = activeHelpers

\* A job below nextJob is rendered, or being rendered by one thread.
Rendering(j) == \E t \in Threads : pc[t] = "render" /\ index[t] = j

JobsInv ==
    /\ InSpan =>
         /\ \A t \in Threads : pc[t] = "render" => index[t] < nextJob /\ index[t] < jobCount
         /\ DisjointJobs
         /\ \A j \in Jobs :
              rendered[j] = IF j < nextJob /\ j < jobCount /\ ~Rendering(j) THEN 1 ELSE 0
    /\ pc[Coordinator] \in {"size", "reset", "counts", "bump"} =>
         \A j \in Jobs : rendered[j] = 0
    /\ pc[Coordinator] = "merge" =>
         \A j \in Jobs : rendered[j] = IF j < jobCount THEN 1 ELSE 0

IInv == TypeOK /\ HelpersInv /\ CoordinatorInv /\ CountsInv /\ JobsInv

-----------------------------------------------------------------------------
(* Lemmas about the sets of helpers and of jobs.                           *)

\* The coordinator is not a helper, and job indices are naturals.
LEMMA SetFacts ==
    /\ Coordinator \in Threads /\ Coordinator \notin Helpers
    /\ \A h \in Helpers : h \in Threads /\ h \in Nat /\ h >= 1 /\ h <= HelperCount
    /\ Threads = {Coordinator} \cup Helpers
    /\ Jobs \subseteq Nat
    /\ \A n \in JobCounts : n \in Nat /\ n >= 2 /\ (\A j \in Nat : j < n => j \in Jobs)
<1> USE HelperAssumption, JobAssumption DEF Coordinator, Helpers, Threads, Jobs
<1>1. Jobs \subseteq Nat  OBVIOUS
<1>2. ASSUME NEW n \in JobCounts PROVE n \in Nat /\ n >= 2  OBVIOUS
<1>3. ASSUME NEW n \in JobCounts, NEW j \in Nat, j < n PROVE j \in Jobs
  <2>1. j \in 0 .. n - 1  BY <1>2, <1>3
  <2> QED BY <2>1
<1>4. Coordinator \in Threads /\ Coordinator \notin Helpers  OBVIOUS
<1>5. \A h \in Helpers : h \in Threads /\ h \in Nat /\ h >= 1 /\ h <= HelperCount
  OBVIOUS
<1> QED BY <1>1, <1>2, <1>3, <1>4, <1>5

\* The cardinalities CountsInv speaks of are natural numbers.
LEMMA BusyFinite ==
    /\ IsFiniteSet(Busy) /\ IsFiniteSet(Uncounted)
    /\ Cardinality(Busy) \in Nat /\ Cardinality(Uncounted) \in Nat
    /\ Cardinality(Busy) = 0 <=> Busy = {}
<1>1. IsFiniteSet(Helpers)  BY HelperAssumption, FS_Interval DEF Helpers
<1>2. Busy \in SUBSET Helpers /\ Uncounted \in SUBSET Helpers  BY DEF Busy, Uncounted
<1>3. IsFiniteSet(Busy) /\ IsFiniteSet(Uncounted)  BY <1>1, <1>2, FS_Subset
<1> QED BY <1>3, FS_CardinalityType, FS_EmptySet

\* Where a helper is at work, the coordinator is within the span.
LEMMA WorkingFacts ==
    ASSUME IInv, NEW h \in Helpers,
           pc[h] \in {"load", "lane", "claim", "render", "count", "retire"}
    PROVE  /\ ~stopping /\ InSpan /\ h \in Busy /\ ~wakeEvent[h]
           /\ pc[h] # "retire" => h \in Uncounted
BY DEF IInv, HelpersInv, Busy, Uncounted

\* The threads that render are those of the span.
LEMMA RenderingFacts ==
    ASSUME IInv, NEW t \in Threads, pc[t] \in {"claim", "render"}
    PROVE  InSpan /\ ~stopping
<1>1. CASE t = Coordinator
  BY <1>1 DEF IInv, HelpersInv, InSpan
<1>2. CASE t \in Helpers
  BY <1>2, WorkingFacts
<1> QED BY <1>1, <1>2, SetFacts

-----------------------------------------------------------------------------
(* The initial state.                                                      *)

LEMMA InitInvariant == Init => IInv
<1> SUFFICES ASSUME Init PROVE IInv  OBVIOUS
<1> USE SetFacts, HelperAssumption DEF Init
<1>1. pc[Coordinator] = "idle" /\ \A h \in Helpers : pc[h] = "ready"  OBVIOUS
<1>2. TypeOK
  <2>1. dispatchThreads \in 1 .. TotalThreads  BY DEF TotalThreads
  <2>2. observed \in [Helpers -> Nat] /\ wakeEvent \in [Helpers -> BOOLEAN]  OBVIOUS
  <2>3. index \in [Threads -> Jobs \cup {0}] /\ rendered \in [Jobs -> Nat]  OBVIOUS
  <2>4. 0 \in 0 .. HelperCount  OBVIOUS
  <2>5. doneEvent \in BOOLEAN /\ stopping \in BOOLEAN  OBVIOUS
  <2> HIDE DEF Init
  <2>6. /\ generation = 0 /\ nextJob = 0 /\ completed = 0 /\ pending = 0
        /\ jobCount = 0 /\ activeHelpers = 0
    BY DEF Init
  <2> QED BY <1>1, <2>1, <2>2, <2>3, <2>4, <2>5, <2>6 DEF TypeOK
<1>3. HelpersInv
  <2>1. pc \in [Threads -> Places]  BY DEF Places
  <2>2. Busy = {}  BY <1>1 DEF Busy
  <2> QED BY <1>1, <2>1, <2>2 DEF HelpersInv
<1>4. CoordinatorInv  BY <1>1 DEF CoordinatorInv
<1>5. CountsInv  BY <1>1 DEF CountsInv, InSpan
<1>6. JobsInv  BY <1>1 DEF JobsInv, InSpan
<1> QED BY <1>2, <1>3, <1>4, <1>5, <1>6 DEF IInv

-----------------------------------------------------------------------------
(* The coordinator's steps outside a span.                                 *)

\* Steps of the coordinator that leave the helpers and their events alone.
LEMMA CoordinatorFrame ==
    ASSUME IInv, NEW p \in Places, ~stopping,
           pc' = [pc EXCEPT ![Coordinator] = p],
           UNCHANGED <<wakeEvent, stopping>>
    PROVE  /\ \A h \in Helpers : pc'[h] = pc[h]
           /\ pc'[Coordinator] = p
           /\ Busy' = Busy /\ Uncounted' = Uncounted
           /\ InSpan' \/ Busy = {} => HelpersInv'
<1>1. pc \in [Threads -> Places]  BY DEF IInv, HelpersInv
<1>2. /\ \A h \in Helpers : pc'[h] = pc[h]
      /\ pc'[Coordinator] = p /\ pc' \in [Threads -> Places]
  BY <1>1, SetFacts
<1>3. Busy' = Busy  BY <1>2 DEF Busy
<1>4. Uncounted' = Uncounted  BY <1>2, <1>3 DEF Uncounted, Busy
<1>5. ASSUME InSpan' \/ Busy = {} PROVE HelpersInv'
  BY <1>2, <1>3, <1>5 DEF IInv, HelpersInv
<1> QED BY <1>2, <1>3, <1>4, <1>5

LEMMA PlanStep == ASSUME IInv, Plan PROVE IInv'
<1> USE SetFacts
<1>0. /\ pc[Coordinator] = "idle" /\ pc' = [pc EXCEPT ![Coordinator] = "size"]
      /\ ~stopping /\ "size" \in Places /\ UNCHANGED <<shared, dispatchThreads,
                       activeHelpers, stopping, observed, index>>
      /\ jobCount' \in JobCounts /\ rendered' = [j \in Jobs |-> 0]
  BY DEF Plan, Step, Places
<1>1. UNCHANGED <<generation, nextJob, completed, pending, doneEvent, wakeEvent>>
  BY <1>0 DEF shared
<1>2. /\ \A h \in Helpers : pc'[h] = pc[h]
      /\ pc'[Coordinator] = "size" /\ Busy' = Busy
  BY <1>0, <1>1, CoordinatorFrame
<1>3. Busy = {} /\ HelpersInv'
  <2>1. Busy = {}  BY <1>0 DEF IInv, HelpersInv, InSpan
  <2> QED BY <1>0, <1>1, <2>1, CoordinatorFrame
<1>4. TypeOK'  BY <1>0, <1>1, <1>2 DEF IInv, TypeOK
<1>5. CoordinatorInv'  BY <1>0, <1>2 DEF CoordinatorInv
<1>6. CountsInv'  BY <1>2 DEF CountsInv, InSpan
<1>7. JobsInv'  BY <1>0, <1>2 DEF JobsInv, InSpan
<1> QED BY <1>3, <1>4, <1>5, <1>6, <1>7 DEF IInv

LEMMA SizeStep == ASSUME IInv, SizeDispatch PROVE IInv'
<1> USE SetFacts
<1>0. /\ pc[Coordinator] = "size" /\ pc' = [pc EXCEPT ![Coordinator] = "reset"]
      /\ "reset" \in Places /\ ~doneEvent'
      /\ dispatchThreads' = IF jobCount < TotalThreads THEN jobCount ELSE TotalThreads
      /\ activeHelpers' = dispatchThreads' - 1 /\ doneEvent' = FALSE
      /\ UNCHANGED <<generation, nextJob, completed, pending, wakeEvent, jobCount,
                   stopping, observed, index, spans, rendered>>
  BY DEF SizeDispatch, Step, Places
<1>1. ~stopping /\ jobCount \in JobCounts /\ Busy = {}
  BY <1>0 DEF IInv, HelpersInv, CoordinatorInv, InSpan
<1>2. /\ \A h \in Helpers : pc'[h] = pc[h]
      /\ pc'[Coordinator] = "reset" /\ HelpersInv'
  BY <1>0, <1>1, CoordinatorFrame
<1>3. /\ dispatchThreads' \in 2 .. TotalThreads /\ activeHelpers' \in 1 .. HelperCount
      /\ dispatchThreads' = activeHelpers' + 1
  BY <1>0, <1>1, HelperAssumption DEF TotalThreads
<1>4. TypeOK'
  <2>1. dispatchThreads' \in 1 .. TotalThreads /\ activeHelpers' \in 0 .. HelperCount
    <3>1. TotalThreads \in Nat  BY HelperAssumption DEF TotalThreads
    <3>2. 2 .. TotalThreads \subseteq 1 .. TotalThreads  BY <3>1
    <3>3. 1 .. HelperCount \subseteq 0 .. HelperCount  BY HelperAssumption
    <3> QED BY <1>3, <3>2, <3>3
  <2>2. doneEvent' \in BOOLEAN  BY <1>0
  <2> QED BY <1>0, <1>2, <2>1, <2>2 DEF IInv, TypeOK
<1>5. CoordinatorInv'
  BY <1>0, <1>1, <1>2, <1>3, HelperAssumption DEF CoordinatorInv
<1>6. CountsInv'  BY <1>2 DEF CountsInv, InSpan
<1>7. JobsInv'  BY <1>0, <1>2 DEF IInv, JobsInv, InSpan
<1> QED BY <1>2, <1>4, <1>5, <1>6, <1>7 DEF IInv

LEMMA ResetStep == ASSUME IInv, ResetJobs PROVE IInv'
<1> USE SetFacts
<1>0. /\ pc[Coordinator] = "reset" /\ pc' = [pc EXCEPT ![Coordinator] = "counts"]
      /\ "counts" \in Places /\ nextJob' = 0
      /\ UNCHANGED <<generation, completed, pending, doneEvent, wakeEvent, jobCount,
                     dispatchThreads, activeHelpers,
                     stopping, observed, index, spans, rendered>>
  BY DEF ResetJobs, Step, Places, plain
<1>1. ~stopping /\ Busy = {}  BY <1>0 DEF IInv, HelpersInv, InSpan
<1>2. /\ \A h \in Helpers : pc'[h] = pc[h]
      /\ pc'[Coordinator] = "counts" /\ HelpersInv'
  BY <1>0, <1>1, CoordinatorFrame
<1>4. TypeOK'  BY <1>0, <1>2 DEF IInv, TypeOK
<1>5. CoordinatorInv'  BY <1>0, <1>2 DEF IInv, CoordinatorInv
<1>6. CountsInv'  BY <1>2 DEF CountsInv, InSpan
<1>7. JobsInv'  BY <1>0, <1>2 DEF IInv, JobsInv, InSpan
<1> QED BY <1>2, <1>4, <1>5, <1>6, <1>7 DEF IInv

LEMMA CountsStep == ASSUME IInv, ResetCounts PROVE IInv'
<1> USE SetFacts
<1>0. /\ pc[Coordinator] = "counts" /\ pc' = [pc EXCEPT ![Coordinator] = "bump"]
      /\ "bump" \in Places /\ completed' = 0 /\ pending' = activeHelpers
      /\ UNCHANGED <<generation, nextJob, doneEvent, wakeEvent, jobCount,
                     dispatchThreads, activeHelpers,
                     stopping, observed, index, spans, rendered>>
  BY DEF ResetCounts, Step, Places, plain
<1>1. ~stopping /\ Busy = {}  BY <1>0 DEF IInv, HelpersInv, InSpan
<1>2. /\ \A h \in Helpers : pc'[h] = pc[h]
      /\ pc'[Coordinator] = "bump" /\ HelpersInv'
  BY <1>0, <1>1, CoordinatorFrame
<1>4. TypeOK'  BY <1>0, <1>2, HelperAssumption DEF IInv, TypeOK
<1>5. CoordinatorInv'  BY <1>0, <1>2 DEF IInv, CoordinatorInv
<1>6. CountsInv'  BY <1>2 DEF CountsInv, InSpan
<1>7. JobsInv'  BY <1>0, <1>2 DEF IInv, JobsInv, InSpan
<1> QED BY <1>2, <1>4, <1>5, <1>6, <1>7 DEF IInv

LEMMA MergeStep == ASSUME IInv, Merge PROVE IInv'
<1> USE SetFacts
<1>0. /\ pc[Coordinator] = "merge" /\ pc' = [pc EXCEPT ![Coordinator] = "idle"]
      /\ "idle" \in Places /\ activeHelpers' = 0
      /\ UNCHANGED <<generation, nextJob, completed, pending, doneEvent, wakeEvent,
                     jobCount, dispatchThreads,
                     stopping, observed, index, spans, rendered>>
  BY DEF Merge, Step, Places, shared
<1>1. ~stopping /\ Busy = {}  BY <1>0 DEF IInv, HelpersInv, InSpan
<1>2. /\ \A h \in Helpers : pc'[h] = pc[h]
      /\ pc'[Coordinator] = "idle" /\ HelpersInv'
  BY <1>0, <1>1, CoordinatorFrame
<1>4. TypeOK'  BY <1>0, <1>2, HelperAssumption DEF IInv, TypeOK
<1>5. CoordinatorInv'  BY <1>0, <1>2 DEF IInv, CoordinatorInv
<1>6. CountsInv'  BY <1>2 DEF CountsInv, InSpan
<1>7. JobsInv'  BY <1>0, <1>2 DEF IInv, JobsInv, InSpan
<1> QED BY <1>2, <1>4, <1>5, <1>6, <1>7 DEF IInv

\* Shutdown wakes every helper, and there is no span to come.
LEMMA ShutdownStep == ASSUME WaitMode = "event", IInv, Shutdown PROVE IInv'
<1> USE SetFacts
<1>0. /\ pc[Coordinator] = "idle" /\ pc' = [pc EXCEPT ![Coordinator] = "idle"]
      /\ ~stopping /\ stopping' = TRUE
      /\ wakeEvent' = [h \in Helpers |-> TRUE]
      /\ UNCHANGED <<generation, nextJob, completed, pending, doneEvent, jobCount,
                     dispatchThreads, activeHelpers,
                     observed, index, spans, rendered>>
  BY WaitModeAssumption DEF Shutdown, Step, plain
<1>1. pc' = pc  BY <1>0 DEF IInv, HelpersInv
<1>2. Busy = {}  BY <1>0 DEF IInv, HelpersInv, InSpan
<1>3. \A h \in Helpers : pc[h] \in {"ready", "asleep", "ended"}
  BY <1>2 DEF IInv, TypeOK, Busy
<1>4. HelpersInv'  BY <1>0, <1>1, <1>3 DEF IInv, HelpersInv
<1>5. TypeOK'  BY <1>0, <1>1 DEF IInv, TypeOK
<1>6. CoordinatorInv'  BY <1>0, <1>1 DEF IInv, CoordinatorInv
<1>7. CountsInv'  BY <1>0, <1>1 DEF CountsInv, InSpan
<1>8. JobsInv'  BY <1>0, <1>1 DEF JobsInv, InSpan
<1> QED BY <1>4, <1>5, <1>6, <1>7, <1>8 DEF IInv

-----------------------------------------------------------------------------
(* The span: its start and its end.                                        *)

LEMMA BumpStep == ASSUME WaitMode = "event", IInv, Bump PROVE IInv'
<1> USE SetFacts
<1>0. /\ pc[Coordinator] = "bump" /\ pc' = [pc EXCEPT ![Coordinator] = "claim"]
      /\ "claim" \in Places /\ generation' = generation + 1
      /\ wakeEvent' = [h \in Helpers |-> wakeEvent[h] \/ h <= activeHelpers]
      /\ UNCHANGED <<nextJob, completed, pending, doneEvent, jobCount,
                     dispatchThreads, activeHelpers,
                     stopping, observed, index, spans, rendered>>
  BY DEF Bump, Step, Places, plain
<1>1. ~stopping /\ Busy = {}  BY <1>0 DEF IInv, HelpersInv, InSpan
<1>2. /\ \A h \in Helpers : pc[h] \in {"ready", "asleep"} /\ ~wakeEvent[h]
  BY <1>1 DEF IInv, TypeOK, HelpersInv, Busy
<1>3. /\ pc' \in [Threads -> Places] /\ pc'[Coordinator] = "claim"
      /\ \A h \in Helpers : pc'[h] = pc[h]
  BY <1>0 DEF IInv, HelpersInv
<1>4. \A h \in Helpers : wakeEvent'[h] <=> h <= activeHelpers
  BY <1>0, <1>2
<1>5. activeHelpers \in 1 .. HelperCount
  BY <1>0 DEF IInv, TypeOK, CoordinatorInv
<1>6. Busy' = 1 .. activeHelpers /\ Uncounted' = Busy'
  <2>1. \A h \in Helpers : h \in Busy' <=> h <= activeHelpers
    BY <1>2, <1>3, <1>4 DEF Busy
  <2>2. Busy' \subseteq Helpers  BY DEF Busy
  <2>3. \A h \in 1 .. activeHelpers : h \in Helpers  BY <1>5, HelperAssumption DEF Helpers
  <2>4. Busy' = 1 .. activeHelpers
    <3>1. Busy' \subseteq 1 .. activeHelpers  BY <2>1, <2>2, <1>5
    <3>2. 1 .. activeHelpers \subseteq Busy'  BY <2>1, <2>3, <1>5
    <3> QED BY <3>1, <3>2
  <2>5. Uncounted' = Busy'  BY <1>2, <1>3, <2>2 DEF Uncounted
  <2> QED BY <2>4, <2>5
<1>7. Cardinality(Busy') = activeHelpers /\ Cardinality(Uncounted') = activeHelpers
  <2>1. Cardinality(1 .. activeHelpers) = activeHelpers  BY <1>5, FS_Interval
  <2> QED BY <2>1, <1>6
<1>8. HelpersInv'
  BY <1>0, <1>1, <1>2, <1>3 DEF HelpersInv, InSpan
<1>9. TypeOK'
  <2>1. wakeEvent' \in [Helpers -> BOOLEAN]  BY <1>0
  <2>2. generation' \in Nat  BY <1>0 DEF IInv, TypeOK
  <2> QED BY <1>0, <1>3, <2>1, <2>2 DEF IInv, TypeOK
<1>10. CoordinatorInv'  BY <1>0, <1>3 DEF IInv, CoordinatorInv
<1>11. CountsInv'
  <2>1. nextJob' = 0 /\ completed' = 0 /\ pending' = activeHelpers
    BY <1>0 DEF IInv, CoordinatorInv
  <2>2. ~doneEvent /\ doneEvent' = doneEvent  BY <1>0 DEF IInv, CoordinatorInv
  <2>3. \A h \in Busy' : h <= activeHelpers  BY <1>5, <1>6
  <2>4. pending' # 0  BY <2>1, <1>5
  <2>5. doneEvent' <=> pending' = 0  BY <2>2, <2>4
  <2>6. activeHelpers' = activeHelpers /\ pending' = Cardinality(Busy)'
    BY <2>1, <1>0, <1>7
  <2>7. (completed + Cardinality(Uncounted))' = activeHelpers
    <3>1. completed' = 0 /\ Cardinality(Uncounted)' = activeHelpers  BY <2>1, <1>7
    <3> QED BY <3>1, <1>5
  <2> QED BY <2>3, <2>5, <2>6, <2>7 DEF CountsInv
<1>12. JobsInv'
  <2>1. nextJob' = 0 /\ \A j \in Jobs : rendered[j] = 0
    BY <1>0 DEF IInv, CoordinatorInv, JobsInv
  <2>2. \A t \in Threads : pc'[t] # "render"  BY <1>2, <1>3
  <2>3. \A j \in Jobs : ~(j < 0)  OBVIOUS
  <2> QED BY <1>0, <1>3, <2>1, <2>2, <2>3 DEF JobsInv, DisjointJobs
<1> QED BY <1>8, <1>9, <1>10, <1>11, <1>12 DEF IInv

\* The coordinator leaves FinishIndexed when the last helper has retired.
LEMMA JoinStep == ASSUME WaitMode = "event", IInv, Join PROVE IInv'
<1> USE SetFacts
<1>0. /\ pc[Coordinator] = "wait" /\ pc' = [pc EXCEPT ![Coordinator] = "merge"]
      /\ "merge" \in Places /\ doneEvent /\ doneEvent' = FALSE
      /\ UNCHANGED <<generation, nextJob, completed, pending, wakeEvent, jobCount,
                     dispatchThreads, activeHelpers,
                     stopping, observed, index, spans, rendered>>
  BY DEF Join, Step, Places, plain
<1>1. ~stopping  BY <1>0 DEF IInv, HelpersInv, InSpan
<1>2. Busy = {}
  <2>1. pending = 0 /\ pending = Cardinality(Busy)
    BY <1>0 DEF IInv, CountsInv, InSpan
  <2> QED BY <2>1, BusyFinite
<1>3. /\ \A h \in Helpers : pc'[h] = pc[h]
      /\ pc'[Coordinator] = "merge" /\ HelpersInv'
  BY <1>0, <1>1, <1>2, CoordinatorFrame
<1>4. TypeOK'
  <2>1. doneEvent' \in BOOLEAN  BY <1>0
  <2> QED BY <1>0, <1>3, <2>1 DEF IInv, TypeOK
<1>5. CoordinatorInv'  BY <1>0, <1>3 DEF IInv, CoordinatorInv
<1>6. CountsInv'  BY <1>3 DEF CountsInv, InSpan
<1>7. \A j \in Jobs : rendered[j] = IF j < jobCount THEN 1 ELSE 0
  <2>1. \A t \in Threads : pc[t] # "render"
    BY <1>0, <1>2 DEF Busy
  <2>2. \A j \in Jobs : ~Rendering(j)  BY <2>1 DEF Rendering
  <2>3. nextJob >= jobCount /\ nextJob \in Nat /\ jobCount \in Nat
    BY <1>0 DEF IInv, TypeOK, CoordinatorInv
  <2>4. \A j \in Jobs : j < jobCount => j < nextJob  BY <2>3
  <2> QED BY <1>0, <2>2, <2>4 DEF IInv, JobsInv, InSpan
<1>8. JobsInv'  BY <1>0, <1>3, <1>7 DEF JobsInv, InSpan
<1> QED BY <1>3, <1>4, <1>5, <1>6, <1>8 DEF IInv

-----------------------------------------------------------------------------
(* The helpers' steps between two spans or within one.                     *)

\* A step of a helper that is neither awake nor rendering afterwards and that
\* leaves the plain members, the counters and the jobs alone.
LEMMA JobsFrame ==
    ASSUME IInv, UNCHANGED <<nextJob, jobCount, index, rendered>>,
           pc'[Coordinator] = pc[Coordinator],
           \A t \in Threads : pc'[t] = "render" <=> pc[t] = "render"
    PROVE  JobsInv'
<1>1. InSpan' <=> InSpan  BY DEF InSpan
<1>2. ASSUME InSpan
      PROVE  /\ \A t \in Threads : pc'[t] = "render" => index'[t] < nextJob' /\ index'[t] < jobCount'
             /\ DisjointJobs'
  BY <1>2 DEF IInv, JobsInv, DisjointJobs
<1>3. \A j \in Jobs : Rendering(j)' <=> Rendering(j)  BY DEF Rendering
<1>4. ASSUME InSpan
      PROVE  \A j \in Jobs : rendered'[j] =
               IF j < nextJob' /\ j < jobCount' /\ ~Rendering(j)' THEN 1 ELSE 0
  BY <1>3, <1>4 DEF IInv, JobsInv
<1> QED BY <1>1, <1>2, <1>4 DEF IInv, JobsInv

\* A step of helper h that keeps the sets of busy and of uncounted helpers.
LEMMA HelperFrame ==
    ASSUME IInv, NEW h \in Helpers, NEW p \in Places \ {"ended"},
           ~stopping \/ p \in {"ready", "asleep"},
           pc' = [pc EXCEPT ![h] = p],
           wakeEvent'[h] => p = "asleep", wakeEvent' \in [Helpers -> BOOLEAN],
           \A g \in Helpers : g # h => wakeEvent'[g] = wakeEvent[g],
           h \in Busy' <=> h \in Busy, h \in Uncounted' <=> h \in Uncounted,
           UNCHANGED stopping
    PROVE  /\ Busy' = Busy /\ Uncounted' = Uncounted
           /\ \A t \in Threads : t # h => pc'[t] = pc[t]
           /\ pc'[h] = p /\ pc'[Coordinator] = pc[Coordinator]
           /\ HelpersInv'
<1> USE SetFacts
<1>1. /\ pc' \in [Threads -> Places] /\ pc'[h] = p
      /\ \A t \in Threads : t # h => pc'[t] = pc[t]
  BY DEF IInv, HelpersInv
<1>2. pc'[Coordinator] = pc[Coordinator]  BY <1>1
<1>3. \A g \in Helpers : g \in Busy' <=> g \in Busy  BY <1>1 DEF Busy
<1>4. Busy' = Busy  BY <1>3 DEF Busy
<1>5. \A g \in Helpers : g \in Uncounted' <=> g \in Uncounted
  BY <1>1, <1>4 DEF Uncounted
<1>6. Uncounted' = Uncounted  BY <1>5 DEF Uncounted, Busy
<1>7. HelpersInv'
  <2>1. CASE stopping
    <3>1. \A g \in Helpers : pc'[g] \in {"ready", "asleep", "ended"}
      BY <1>1, <2>1 DEF IInv, HelpersInv
    <3> QED BY <1>1, <1>2, <2>1, <3>1 DEF IInv, HelpersInv
  <2>2. CASE ~stopping
    <3>1. InSpan' <=> InSpan  BY <1>2 DEF InSpan
    <3>2. \A g \in Helpers :
            pc'[g] # "ended" /\ (wakeEvent'[g] => pc'[g] \in {"ready", "asleep"})
      BY <1>1, <2>2 DEF IInv, HelpersInv
    <3> QED BY <1>1, <1>4, <2>2, <3>1, <3>2 DEF IInv, HelpersInv
  <2> QED BY <2>1, <2>2
<1> QED BY <1>1, <1>2, <1>4, <1>6, <1>7

HelperPlaces == {"ready", "asleep", "load", "lane", "claim", "render", "count",
                 "retire", "ended"}

\* The other conjuncts of the invariant in such a step.
LEMMA CountersFrame ==
    ASSUME IInv, NEW h \in Helpers, pc'[h] \in HelperPlaces,
           \A t \in Threads : t # h => pc'[t] = pc[t],
           wakeEvent' \in [Helpers -> BOOLEAN], observed' \in [Helpers -> Nat],
           UNCHANGED <<generation, nextJob, completed, pending, doneEvent, jobCount,
                       dispatchThreads, activeHelpers, stopping, index, rendered>>
    PROVE  /\ TypeOK' /\ CoordinatorInv'
           /\ Busy' = Busy /\ Uncounted' = Uncounted => CountsInv'
<1> USE SetFacts
<1>1. pc'[Coordinator] = pc[Coordinator]  OBVIOUS
<1>2. TypeOK'  BY <1>1 DEF IInv, TypeOK, HelperPlaces
<1>3. CoordinatorInv'  BY <1>1 DEF IInv, CoordinatorInv
<1>4. Busy' = Busy /\ Uncounted' = Uncounted => CountsInv'
  BY <1>1 DEF IInv, CountsInv, InSpan
<1> QED BY <1>2, <1>3, <1>4

LEMMA FirstLoadStep ==
    ASSUME IInv, NEW h \in Helpers, FirstLoad(h)
    PROVE  IInv'
<1> USE SetFacts
<1>0. /\ pc[h] = "ready" /\ pc' = [pc EXCEPT ![h] = "asleep"]
      /\ observed' = [observed EXCEPT ![h] = generation]
      /\ UNCHANGED <<generation, nextJob, completed, pending, doneEvent, wakeEvent,
                     jobCount, dispatchThreads, activeHelpers, stopping, index,
                     rendered>>
  BY DEF FirstLoad, Step, shared, plain
<1>1. /\ pc'[h] = "asleep" /\ \A t \in Threads : t # h => pc'[t] = pc[t]
      /\ "asleep" \in Places \ {"ended"}
  BY <1>0 DEF IInv, HelpersInv, Places
<1>2. (h \in Busy' <=> h \in Busy) /\ (h \in Uncounted' <=> h \in Uncounted)
  BY <1>0, <1>1 DEF Busy, Uncounted
<1>3. wakeEvent' \in [Helpers -> BOOLEAN] /\ observed' \in [Helpers -> Nat]
  BY <1>0 DEF IInv, TypeOK
<1>4. Busy' = Busy /\ Uncounted' = Uncounted /\ HelpersInv'
  BY <1>0, <1>1, <1>2, <1>3, HelperFrame
<1>5. TypeOK' /\ CoordinatorInv' /\ CountsInv'
  BY <1>0, <1>1, <1>3, <1>4, CountersFrame DEF HelperPlaces
<1>6. JobsInv'  BY <1>0, <1>1, JobsFrame
<1> QED BY <1>4, <1>5, <1>6 DEF IInv

LEMMA AwakeStep ==
    ASSUME WaitMode = "event", IInv, NEW h \in Helpers, Awake(h)
    PROVE  IInv'
<1> USE SetFacts
<1>0. /\ wakeEvent[h] /\ pc[h] = "asleep"
      /\ pc' = [pc EXCEPT ![h] = IF stopping THEN "ended" ELSE "load"]
      /\ wakeEvent' = [wakeEvent EXCEPT ![h] = FALSE]
      /\ UNCHANGED <<generation, nextJob, completed, pending, doneEvent,
                     jobCount, dispatchThreads, activeHelpers, stopping, observed,
                     index, rendered>>
  BY WaitModeAssumption DEF Awake, Wakeable, Step, plain
<1>1. /\ pc'[h] = IF stopping THEN "ended" ELSE "load"
      /\ \A t \in Threads : t # h => pc'[t] = pc[t]
      /\ "load" \in Places \ {"ended"} /\ "ended" \in Places
      /\ pc' \in [Threads -> Places]
  BY <1>0 DEF IInv, HelpersInv, Places
<1>2. /\ ~wakeEvent'[h] /\ \A g \in Helpers : g # h => wakeEvent'[g] = wakeEvent[g]
      /\ wakeEvent' \in [Helpers -> BOOLEAN] /\ observed' \in [Helpers -> Nat]
  BY <1>0 DEF IInv, TypeOK
<1>3. TypeOK' /\ CoordinatorInv' /\ (Busy' = Busy /\ Uncounted' = Uncounted => CountsInv')
  <2>1. pc'[h] \in HelperPlaces  BY <1>1 DEF HelperPlaces
  <2> QED BY <1>0, <1>1, <1>2, <2>1, CountersFrame
<1>4. JobsInv'
  <2>1. pc'[Coordinator] = pc[Coordinator]  BY <1>1
  <2>2. \A t \in Threads : pc'[t] = "render" <=> pc[t] = "render"  BY <1>0, <1>1
  <2> QED BY <1>0, <2>1, <2>2, JobsFrame
<1>5. HelpersInv' /\ CountsInv'
  <2>1. CASE stopping
    <3>1. pc'[Coordinator] = "idle" /\ \A g \in Helpers : pc'[g] \in {"ready", "asleep", "ended"}
      BY <1>1, <2>1 DEF IInv, HelpersInv
    <3>2. HelpersInv'  BY <1>0, <1>1, <2>1, <3>1 DEF HelpersInv
    <3>3. CountsInv'  BY <3>1 DEF CountsInv, InSpan
    <3> QED BY <3>2, <3>3
  <2>2. CASE ~stopping
    <3>1. h \in Busy /\ h \in Uncounted  BY <1>0 DEF Busy, Uncounted
    <3>2. h \in Busy' /\ h \in Uncounted'  BY <1>1, <2>2 DEF Busy, Uncounted
    <3>3. pc' = [pc EXCEPT ![h] = "load"]  BY <1>0, <2>2
    <3>4. Busy' = Busy /\ Uncounted' = Uncounted /\ HelpersInv'
      BY ZenonT(30), <1>0, <1>1, <1>2, <2>2, <3>1, <3>2, <3>3, HelperFrame
    <3> QED BY <1>3, <3>4
  <2> QED BY <2>1, <2>2
<1> QED BY <1>3, <1>4, <1>5 DEF IInv

LEMMA LoadStep ==
    ASSUME IInv, NEW h \in Helpers, LoadGeneration(h)
    PROVE  IInv'
<1> USE SetFacts
<1>0. /\ pc[h] = "load" /\ pc' = [pc EXCEPT ![h] = "lane"]
      /\ observed' = [observed EXCEPT ![h] = generation]
      /\ UNCHANGED <<generation, nextJob, completed, pending, doneEvent, wakeEvent,
                     jobCount, dispatchThreads, activeHelpers, stopping, index,
                     rendered>>
  BY DEF LoadGeneration, Step, shared, plain
<1>1. /\ pc'[h] = "lane" /\ \A t \in Threads : t # h => pc'[t] = pc[t]
      /\ "lane" \in Places \ {"ended"} /\ ~stopping /\ ~wakeEvent'[h]
  BY <1>0, WorkingFacts DEF IInv, HelpersInv, Places
<1>2. (h \in Busy' <=> h \in Busy) /\ (h \in Uncounted' <=> h \in Uncounted)
  BY <1>0, <1>1 DEF Busy, Uncounted
<1>3. wakeEvent' \in [Helpers -> BOOLEAN] /\ observed' \in [Helpers -> Nat]
  BY <1>0 DEF IInv, TypeOK
<1>4. Busy' = Busy /\ Uncounted' = Uncounted /\ HelpersInv'
  BY <1>0, <1>1, <1>2, <1>3, HelperFrame
<1>5. TypeOK' /\ CoordinatorInv' /\ CountsInv'
  BY <1>0, <1>1, <1>3, <1>4, CountersFrame DEF HelperPlaces
<1>6. JobsInv'  BY <1>0, <1>1, JobsFrame
<1> QED BY <1>4, <1>5, <1>6 DEF IInv

\* A helper that was woken has a lane of the span: it never turns back.
LEMMA LaneStep ==
    ASSUME IInv, NEW h \in Helpers, CheckLane(h)
    PROVE  IInv' /\ pc'[h] = "claim"
<1> USE SetFacts
<1>0. /\ pc[h] = "lane"
      /\ pc' = [pc EXCEPT ![h] = IF h >= dispatchThreads THEN "asleep" ELSE "claim"]
      /\ UNCHANGED <<generation, nextJob, completed, pending, doneEvent, wakeEvent,
                     jobCount, dispatchThreads, activeHelpers, stopping, index,
                     rendered, observed>>
  BY DEF CheckLane, Step, shared, plain
<1>1. ~stopping /\ InSpan /\ h \in Busy /\ ~wakeEvent[h]  BY <1>0, WorkingFacts
<1>2. ~(h >= dispatchThreads)
  <2>1. h <= activeHelpers /\ dispatchThreads = activeHelpers + 1
    BY <1>1 DEF IInv, CountsInv, CoordinatorInv, InSpan
  <2>2. activeHelpers \in Nat  BY DEF IInv, TypeOK
  <2> QED BY <2>1, <2>2
<1>3. /\ pc' = [pc EXCEPT ![h] = "claim"] /\ pc'[h] = "claim"
      /\ \A t \in Threads : t # h => pc'[t] = pc[t]
      /\ "claim" \in Places \ {"ended"}
  BY <1>0, <1>2 DEF IInv, HelpersInv, Places
<1>4. (h \in Busy' <=> h \in Busy) /\ (h \in Uncounted' <=> h \in Uncounted)
  BY <1>0, <1>3 DEF Busy, Uncounted
<1>5. wakeEvent' \in [Helpers -> BOOLEAN] /\ observed' \in [Helpers -> Nat]
  BY <1>0 DEF IInv, TypeOK
<1>6. Busy' = Busy /\ Uncounted' = Uncounted /\ HelpersInv'
  BY <1>0, <1>1, <1>3, <1>4, <1>5, HelperFrame
<1>7. TypeOK' /\ CoordinatorInv' /\ CountsInv'
  BY <1>0, <1>3, <1>5, <1>6, CountersFrame DEF HelperPlaces
<1>8. JobsInv'  BY <1>0, <1>3, JobsFrame
<1> QED BY <1>3, <1>6, <1>7, <1>8 DEF IInv

-----------------------------------------------------------------------------
(* The helpers' reports.                                                   *)

LEMMA CountCompletedStep ==
    ASSUME IInv, NEW h \in Helpers, CountCompleted(h)
    PROVE  IInv'
<1> USE SetFacts
<1>0. /\ pc[h] = "count" /\ pc' = [pc EXCEPT ![h] = "retire"]
      /\ completed' = completed + 1
      /\ UNCHANGED <<generation, nextJob, pending, doneEvent, wakeEvent, jobCount,
                     dispatchThreads, activeHelpers, stopping, observed, index,
                     rendered>>
  BY DEF CountCompleted, Step, plain
<1>1. ~stopping /\ InSpan /\ h \in Busy /\ h \in Uncounted /\ ~wakeEvent[h]
  BY <1>0, WorkingFacts
<1>2. /\ pc'[h] = "retire" /\ \A t \in Threads : t # h => pc'[t] = pc[t]
      /\ pc' \in [Threads -> Places] /\ pc'[Coordinator] = pc[Coordinator]
  BY <1>0 DEF IInv, HelpersInv, Places
<1>3. Busy' = Busy
  <2>1. \A g \in Helpers : g \in Busy' <=> g \in Busy
    BY <1>0, <1>2 DEF Busy
  <2> QED BY <2>1 DEF Busy
<1>4. Uncounted' = Uncounted \ {h}
  <2>1. h \notin Uncounted'  BY <1>2 DEF Uncounted
  <2>2. \A g \in Busy : g # h => (g \in Uncounted' <=> g \in Uncounted)
    BY <1>2, <1>3 DEF Uncounted, Busy
  <2>3. Uncounted \subseteq Busy /\ Uncounted' \subseteq Busy  BY <1>3 DEF Uncounted
  <2> QED BY <2>1, <2>2, <2>3
<1>5. /\ Cardinality(Uncounted') = Cardinality(Uncounted) - 1
      /\ Cardinality(Uncounted) \in Nat /\ Cardinality(Uncounted') \in Nat
  <2>1. /\ IsFiniteSet(Uncounted \ {h})
        /\ Cardinality(Uncounted \ {h}) = Cardinality(Uncounted) - 1
    BY <1>1, BusyFinite, FS_RemoveElement
  <2>2. Cardinality(Uncounted \ {h}) \in Nat  BY <2>1, FS_CardinalityType
  <2> QED BY <1>4, <2>1, <2>2, BusyFinite
<1>6. /\ completed + Cardinality(Uncounted) = activeHelpers
      /\ completed \in Nat /\ activeHelpers \in 0 .. HelperCount
  BY <1>1 DEF IInv, TypeOK, CountsInv
<1>7. completed' \in 0 .. HelperCount
  BY <1>0, <1>5, <1>6, HelperAssumption
<1>8. TypeOK'  BY <1>0, <1>2, <1>7 DEF IInv, TypeOK
<1>9. InSpan' <=> InSpan  BY <1>2 DEF InSpan
<1>10. HelpersInv'
  <2>1. \A g \in Helpers : pc'[g] # "ended" /\ (wakeEvent'[g] => pc'[g] \in {"ready", "asleep"})
    BY <1>0, <1>1, <1>2 DEF IInv, HelpersInv
  <2> QED BY <1>0, <1>1, <1>2, <1>9, <2>1 DEF HelpersInv
<1>11. CoordinatorInv'
  <2>1. pc[Coordinator] # "bump"  BY <1>1 DEF InSpan
  <2> QED BY <1>0, <1>2, <2>1 DEF IInv, CoordinatorInv
<1>12. CountsInv'
  <2>1. (completed + Cardinality(Uncounted))' = activeHelpers'
    <3> HIDE DEF Uncounted
    <3>1. completed' + Cardinality(Uncounted') = activeHelpers  BY <1>0, <1>5, <1>6
    <3> QED BY <1>0, <3>1
  <2> QED BY <1>0, <1>1, <1>3, <2>1 DEF IInv, CountsInv
<1>13. JobsInv'  BY <1>0, <1>2, JobsFrame
<1> QED BY <1>8, <1>10, <1>11, <1>12, <1>13 DEF IInv

\* The last helper of the span, and no other, sets doneEvent.
LEMMA RetireStep ==
    ASSUME IInv, NEW h \in Helpers, Retire(h)
    PROVE  IInv'
<1> USE SetFacts
<1>0. /\ pc[h] = "retire" /\ pc' = [pc EXCEPT ![h] = "asleep"]
      /\ pending' = pending - 1 /\ doneEvent' = (doneEvent \/ pending = 1)
      /\ UNCHANGED <<generation, nextJob, completed, wakeEvent, jobCount,
                     dispatchThreads, activeHelpers, stopping, observed, index,
                     rendered>>
  BY DEF Retire, Step, plain
<1>1. ~stopping /\ InSpan /\ h \in Busy /\ h \notin Uncounted /\ ~wakeEvent[h]
  BY <1>0, WorkingFacts DEF Uncounted
<1>2. /\ pc'[h] = "asleep" /\ \A t \in Threads : t # h => pc'[t] = pc[t]
      /\ pc' \in [Threads -> Places] /\ pc'[Coordinator] = pc[Coordinator]
  BY <1>0 DEF IInv, HelpersInv, Places
<1>3. Busy' = Busy \ {h}
  <2>1. h \notin Busy'  BY <1>0, <1>1, <1>2 DEF Busy
  <2>2. \A g \in Helpers : g # h => (g \in Busy' <=> g \in Busy)
    BY <1>0, <1>2 DEF Busy
  <2>3. Busy \subseteq Helpers /\ Busy' \subseteq Helpers  BY DEF Busy
  <2> QED BY <2>1, <2>2, <2>3
<1>4. Uncounted' = Uncounted
  <2>1. \A g \in Busy' : g \in Uncounted' <=> g \in Uncounted
    BY <1>2, <1>3, <1>1 DEF Uncounted, Busy
  <2>2. Uncounted' \subseteq Busy' /\ Uncounted \subseteq Busy'
    BY <1>1, <1>3 DEF Uncounted
  <2> QED BY <2>1, <2>2
<1>5. /\ Cardinality(Busy') = Cardinality(Busy) - 1
      /\ Cardinality(Busy) \in Nat /\ Cardinality(Busy') \in Nat
  <2>1. /\ IsFiniteSet(Busy \ {h})
        /\ Cardinality(Busy \ {h}) = Cardinality(Busy) - 1
    BY <1>1, BusyFinite, FS_RemoveElement
  <2>2. Cardinality(Busy \ {h}) \in Nat  BY <2>1, FS_CardinalityType
  <2> QED BY <1>3, <2>1, <2>2, BusyFinite
<1>6. pending = Cardinality(Busy) /\ pending \in 1 .. HelperCount
      /\ (doneEvent <=> pending = 0)
  BY <1>1, <1>5 DEF IInv, TypeOK, CountsInv
<1>7. pending' \in 0 .. HelperCount  BY <1>0, <1>6, HelperAssumption
<1>8. TypeOK'
  <2>1. doneEvent' \in BOOLEAN  BY <1>0
  <2> QED BY <1>0, <1>2, <1>7, <2>1 DEF IInv, TypeOK
<1>9. InSpan' <=> InSpan  BY <1>2 DEF InSpan
<1>10. HelpersInv'
  <2>1. \A g \in Helpers : pc'[g] # "ended" /\ (wakeEvent'[g] => pc'[g] \in {"ready", "asleep"})
    BY <1>0, <1>1, <1>2 DEF IInv, HelpersInv
  <2> QED BY <1>0, <1>1, <1>2, <1>9, <2>1 DEF HelpersInv
<1>11. CoordinatorInv'
  <2>1. pc[Coordinator] \notin {"reset", "counts", "bump"}  BY <1>1 DEF InSpan
  <2> QED BY <1>0, <1>2, <2>1 DEF IInv, CoordinatorInv
<1>12. CountsInv'
  <2>1. doneEvent' <=> pending' = 0
    <3>1. pending # 0 /\ (pending' = 0 <=> pending = 1)  BY <1>0, <1>6
    <3> QED BY <1>0, <1>6, <3>1
  <2>2. pending' = Cardinality(Busy)'  BY <1>0, <1>5, <1>6
  <2>3. \A g \in Busy' : g <= activeHelpers'
    BY <1>0, <1>1, <1>3 DEF IInv, CountsInv
  <2>4. (completed + Cardinality(Uncounted))' = activeHelpers'
    BY <1>0, <1>1, <1>4 DEF IInv, CountsInv
  <2> QED BY <2>1, <2>2, <2>3, <2>4 DEF CountsInv
<1>13. JobsInv'  BY <1>0, <1>2, JobsFrame
<1> QED BY <1>8, <1>10, <1>11, <1>12, <1>13 DEF IInv

-----------------------------------------------------------------------------
(* The jobs.                                                               *)

\* What a step of thread t in ProcessJobs leaves alone.
LEMMA ProcessFrame ==
    ASSUME IInv, NEW t \in Threads, pc[t] \in {"claim", "render"},
           NEW p \in {"claim", "render", "count", "wait"},
           p = "wait" => t = Coordinator,
           p = "count" => t # Coordinator,
           p = "wait" => nextJob' >= jobCount,
           pc' = [pc EXCEPT ![t] = p],
           nextJob' \in Nat, nextJob' >= nextJob,
           index' \in [Threads -> Jobs \cup {0}], rendered' \in [Jobs -> Nat],
           UNCHANGED <<generation, completed, pending, doneEvent, wakeEvent, jobCount,
                       dispatchThreads, activeHelpers, stopping, observed>>
    PROVE  /\ pc'[t] = p /\ \A u \in Threads : u # t => pc'[u] = pc[u]
           /\ InSpan /\ InSpan'
           /\ TypeOK' /\ HelpersInv' /\ CoordinatorInv' /\ CountsInv'
<1> USE SetFacts
<1>1. InSpan /\ ~stopping  BY RenderingFacts
<1>2. /\ pc'[t] = p /\ \A u \in Threads : u # t => pc'[u] = pc[u]
      /\ pc' \in [Threads -> Places]
  BY DEF IInv, HelpersInv, Places
<1>3. pc'[Coordinator] \in {"claim", "render", "wait"}
  <2>1. CASE t = Coordinator  BY <1>2, <2>1
  <2>2. CASE t # Coordinator  BY <1>1, <1>2, <2>2 DEF InSpan
  <2> QED BY <2>1, <2>2
<1>4. InSpan'  BY <1>3 DEF InSpan
<1>5. \A h \in Helpers : pc'[h] \in HelperPlaces
  <2>1. \A h \in Helpers : pc[h] \in HelperPlaces  BY DEF IInv, TypeOK, HelperPlaces
  <2>2. t \in Helpers => pc'[t] \in HelperPlaces  BY <1>2 DEF HelperPlaces
  <2> QED BY <1>2, <2>1, <2>2
<1>6. TypeOK'  BY <1>3, <1>5 DEF IInv, TypeOK, HelperPlaces
<1>7. Busy' = Busy
  <2>1. \A h \in Helpers : h \in Busy' <=> h \in Busy
    <3> TAKE h \in Helpers
    <3>1. CASE h = t  BY <1>2, <3>1 DEF Busy
    <3>2. CASE h # t  BY <1>2, <3>2 DEF Busy
    <3> QED BY <3>1, <3>2
  <2> QED BY <2>1 DEF Busy
<1>8. Uncounted' = Uncounted
  <2>1. \A h \in Busy : pc'[h] # "retire" <=> pc[h] # "retire"
    BY <1>2 DEF Busy
  <2> QED BY <1>7, <2>1 DEF Uncounted
<1>9. HelpersInv'
  <2>1. ASSUME NEW h \in Helpers
        PROVE  pc'[h] # "ended" /\ (wakeEvent'[h] => pc'[h] \in {"ready", "asleep"})
    <3>1. pc[h] # "ended" /\ (wakeEvent[h] => pc[h] \in {"ready", "asleep"})
      BY <1>1 DEF IInv, HelpersInv
    <3> QED BY <1>2, <3>1
  <2> QED BY <1>1, <1>2, <1>4, <2>1 DEF HelpersInv
<1>10. CoordinatorInv'
  <2>1. jobCount \in JobCounts /\ activeHelpers >= 1 /\ dispatchThreads = activeHelpers + 1
    BY <1>1 DEF IInv, CoordinatorInv, InSpan
  <2>2. pc'[Coordinator] = "wait" => nextJob' >= jobCount
    <3>1. CASE t = Coordinator  BY <1>2, <3>1
    <3>2. CASE t # Coordinator
      <4>1. nextJob \in Nat /\ jobCount \in Nat  BY <2>1 DEF IInv, TypeOK
      <4>2. pc'[Coordinator] = "wait" => nextJob >= jobCount
        BY <1>2, <3>2 DEF IInv, CoordinatorInv
      <4> QED BY <4>1, <4>2
    <3> QED BY <3>1, <3>2
  <2> QED BY <1>3, <2>1, <2>2 DEF CoordinatorInv
<1>11. CountsInv'  BY <1>1, <1>7, <1>8 DEF IInv, CountsInv
<1> QED BY <1>1, <1>2, <1>4, <1>6, <1>9, <1>10, <1>11

LEMMA IndexFacts == ASSUME IInv, NEW t \in Threads PROVE index[t] \in Nat
<1>1. index[t] \in Jobs \cup {0}  BY DEF IInv, TypeOK
<1>2. \A j \in Jobs : j \in Nat  BY SetFacts
<1> HIDE DEF Jobs
<1> QED BY <1>1, <1>2

LEMMA ClaimStep ==
    ASSUME IInv, NEW t \in Threads, Claim(t)
    PROVE  IInv'
<1> USE SetFacts
<1>0. /\ pc[t] = "claim" /\ nextJob' = nextJob + 1
      /\ UNCHANGED <<generation, completed, pending, doneEvent, wakeEvent, jobCount,
                     dispatchThreads, activeHelpers, stopping, observed, rendered>>
  BY DEF Claim, plain
<1>1. InSpan /\ ~stopping  BY <1>0, RenderingFacts
<1>2. jobCount \in JobCounts /\ jobCount \in Nat /\ nextJob \in Nat
  BY <1>1 DEF IInv, TypeOK, CoordinatorInv, InSpan
<1>3. nextJob' \in Nat /\ nextJob' >= nextJob /\ nextJob' > nextJob  BY <1>0, <1>2
<1>4. index \in [Threads -> Jobs \cup {0}] /\ rendered' \in [Jobs -> Nat]
  BY <1>0 DEF IInv, TypeOK
<1>5. CASE nextJob < jobCount
  <2>1. /\ index' = [index EXCEPT ![t] = nextJob]
        /\ pc' = [pc EXCEPT ![t] = "render"]
    BY <1>5 DEF Claim, Step
  <2>2. nextJob \in Jobs  BY <1>2, <1>5
  <2>3. /\ index' \in [Threads -> Jobs \cup {0}] /\ index'[t] = nextJob
        /\ \A u \in Threads : u # t => index'[u] = index[u]
    BY <1>4, <2>1, <2>2
  <2>4. /\ pc'[t] = "render" /\ \A u \in Threads : u # t => pc'[u] = pc[u]
        /\ InSpan' /\ TypeOK' /\ HelpersInv' /\ CoordinatorInv' /\ CountsInv'
    BY <1>0, <1>3, <1>4, <2>1, <2>3, ProcessFrame
  <2>5. ASSUME NEW u \in Threads, u # t, pc[u] = "render"
        PROVE  index[u] \in Nat /\ index[u] < nextJob /\ index[u] < jobCount
    BY <1>1, <2>5, IndexFacts DEF IInv, JobsInv
  <2>6. \A u \in Threads : pc'[u] = "render" => index'[u] < nextJob' /\ index'[u] < jobCount'
    <3> TAKE u \in Threads
    <3> HAVE pc'[u] = "render"
    <3>1. CASE u = t  BY <1>0, <1>2, <1>3, <1>5, <2>3, <3>1
    <3>2. CASE u # t
      <4>1. index[u] \in Nat /\ index[u] < nextJob /\ index[u] < jobCount
        BY <2>4, <2>5, <3>2
      <4>2. index[u] < nextJob'  BY <1>2, <1>3, <4>1
      <4> QED BY <1>0, <2>3, <3>2, <4>1, <4>2
    <3> QED BY <3>1, <3>2
  <2>7. DisjointJobs'
    <3>1. ASSUME NEW u \in Threads, u # t, pc'[u] = "render"
          PROVE  index'[u] # index'[t]
      <4>1. index[u] \in Nat /\ index[u] < nextJob  BY <2>4, <2>5, <3>1
      <4> QED BY <1>2, <2>3, <3>1, <4>1
    <3>2. ASSUME NEW u \in Threads, NEW v \in Threads, u # v, u # t, v # t,
                 pc'[u] = "render", pc'[v] = "render"
          PROVE  index'[u] # index'[v]
      BY <1>1, <2>3, <2>4, <3>2 DEF IInv, JobsInv, DisjointJobs
    <3> QED BY <3>1, <3>2 DEF DisjointJobs
  <2>8. ASSUME NEW j \in Jobs
        PROVE  rendered'[j] =
                 IF j < nextJob' /\ j < jobCount' /\ ~Rendering(j)' THEN 1 ELSE 0
    <3>1. j \in Nat  OBVIOUS
    <3>2. rendered'[j] = IF j < nextJob /\ j < jobCount /\ ~Rendering(j) THEN 1 ELSE 0
      BY <1>0, <1>1 DEF IInv, JobsInv
    <3>3. CASE j = nextJob
      <4>1. Rendering(j)'  BY <2>3, <2>4, <3>3 DEF Rendering
      <4>2. ~(j < nextJob)  BY <1>2, <3>3
      <4> QED BY <3>2, <4>1, <4>2
    <3>4. CASE j # nextJob
      <4>1. Rendering(j)' <=> Rendering(j)
        BY <1>0, <2>3, <2>4, <3>4 DEF Rendering
      <4>2. j < nextJob' <=> j < nextJob  BY <1>0, <1>2, <3>1, <3>4
      <4> QED BY <1>0, <3>2, <4>1, <4>2
    <3> QED BY <3>3, <3>4
  <2>9. JobsInv'
    <3>1. pc'[Coordinator] \in {"claim", "render", "wait"}  BY <2>4 DEF InSpan
    <3> QED BY <2>6, <2>7, <2>8, <3>1 DEF JobsInv
  <2> QED BY <2>4, <2>9 DEF IInv
<1>6. CASE ~(nextJob < jobCount)
  <2> DEFINE p == IF t = Coordinator THEN "wait" ELSE "count"
  <2>1. index' = index /\ pc' = [pc EXCEPT ![t] = p]
    BY <1>6 DEF Claim, Step
  <2>2. nextJob' >= jobCount  BY <1>2, <1>3, <1>6
  <2>3. /\ pc'[t] = p /\ \A u \in Threads : u # t => pc'[u] = pc[u]
        /\ InSpan' /\ TypeOK' /\ HelpersInv' /\ CoordinatorInv' /\ CountsInv'
    BY <1>0, <1>3, <1>4, <2>1, <2>2, ProcessFrame
  <2>4. \A u \in Threads : pc'[u] = "render" <=> pc[u] = "render"
    BY <1>0, <2>3
  <2>5. \A j \in Jobs : Rendering(j)' <=> Rendering(j)  BY <2>1, <2>4 DEF Rendering
  <2>6. \A u \in Threads : pc'[u] = "render" => index'[u] < nextJob' /\ index'[u] < jobCount'
    <3> TAKE u \in Threads
    <3> HAVE pc'[u] = "render"
    <3>1. index[u] \in Nat /\ index[u] < nextJob /\ index[u] < jobCount
      BY <1>1, <2>4, IndexFacts DEF IInv, JobsInv
    <3>2. index[u] < nextJob'  BY <1>2, <1>3, <3>1
    <3> QED BY <1>0, <2>1, <3>1, <3>2
  <2>7. DisjointJobs'
    BY <1>1, <2>1, <2>4 DEF IInv, JobsInv, DisjointJobs
  <2>8. ASSUME NEW j \in Jobs
        PROVE  rendered'[j] =
                 IF j < nextJob' /\ j < jobCount' /\ ~Rendering(j)' THEN 1 ELSE 0
    <3>1. rendered'[j] = IF j < nextJob /\ j < jobCount /\ ~Rendering(j) THEN 1 ELSE 0
      BY <1>0, <1>1 DEF IInv, JobsInv
    <3>2. j \in Nat  OBVIOUS
    <3>3. j < jobCount => (j < nextJob' /\ j < nextJob)  BY <1>2, <1>3, <1>6, <3>2
    <3> QED BY <1>0, <2>5, <3>1, <3>3
  <2>9. JobsInv'
    <3>1. pc'[Coordinator] \in {"claim", "render", "wait"}  BY <2>3 DEF InSpan
    <3> QED BY <2>6, <2>7, <2>8, <3>1 DEF JobsInv
  <2> QED BY <2>3, <2>9 DEF IInv
<1> QED BY <1>5, <1>6

LEMMA RenderStep ==
    ASSUME IInv, NEW t \in Threads, Render(t)
    PROVE  IInv'
<1> USE SetFacts
<1>0. /\ pc[t] = "render" /\ pc' = [pc EXCEPT ![t] = "claim"]
      /\ rendered' = [rendered EXCEPT ![index[t]] = @ + 1]
      /\ UNCHANGED <<generation, nextJob, completed, pending, doneEvent, wakeEvent,
                     jobCount, dispatchThreads, activeHelpers, stopping, observed,
                     index>>
  BY DEF Render, Step, shared, plain
<1>1. InSpan /\ ~stopping  BY <1>0, RenderingFacts
<1>2. jobCount \in JobCounts /\ jobCount \in Nat /\ nextJob \in Nat
      /\ index' \in [Threads -> Jobs \cup {0}] /\ rendered \in [Jobs -> Nat]
  BY <1>0, <1>1 DEF IInv, TypeOK, CoordinatorInv, InSpan
<1>3. index[t] \in Nat /\ index[t] < nextJob /\ index[t] < jobCount
  BY <1>0, <1>1, IndexFacts DEF IInv, JobsInv
<1>4. index[t] \in Jobs  BY <1>2, <1>3
<1>5. rendered' \in [Jobs -> Nat]
  <2> DEFINE r == rendered[index[t]]
  <2>1. r \in Nat  BY <1>2, <1>4
  <2> HIDE DEF r
  <2>2. r + 1 \in Nat  BY <2>1
  <2> QED BY <1>0, <1>2, <1>4, <2>2 DEF r
<1>6. nextJob' \in Nat /\ nextJob' >= nextJob  BY <1>0, <1>2
<1>7. /\ pc'[t] = "claim" /\ \A u \in Threads : u # t => pc'[u] = pc[u]
      /\ InSpan' /\ TypeOK' /\ HelpersInv' /\ CoordinatorInv' /\ CountsInv'
  BY <1>0, <1>2, <1>5, <1>6, ProcessFrame
<1>8. \A u \in Threads : pc'[u] = "render" => index'[u] < nextJob' /\ index'[u] < jobCount'
  BY <1>0, <1>1, <1>7 DEF IInv, JobsInv
<1>9. DisjointJobs'
  BY <1>0, <1>1, <1>7 DEF IInv, JobsInv, DisjointJobs
<1>10. ASSUME NEW j \in Jobs
       PROVE  rendered'[j] =
                IF j < nextJob' /\ j < jobCount' /\ ~Rendering(j)' THEN 1 ELSE 0
  <2>1. rendered[j] = IF j < nextJob /\ j < jobCount /\ ~Rendering(j) THEN 1 ELSE 0
    BY <1>1 DEF IInv, JobsInv
  <2>2. CASE j = index[t]
    <3>1. rendered[j] = 0  BY <1>0, <2>1, <2>2 DEF Rendering
    <3>2. ~Rendering(j)'
      BY <1>0, <1>1, <1>7, <2>2 DEF Rendering, IInv, JobsInv, DisjointJobs
    <3>3. rendered'[j] = 1  BY <1>0, <1>2, <1>4, <2>2, <3>1
    <3> QED BY <1>0, <1>3, <2>2, <3>2, <3>3
  <2>3. CASE j # index[t]
    <3>1. rendered'[j] = rendered[j]  BY <1>0, <1>2, <2>3
    <3>2. Rendering(j)' <=> Rendering(j)  BY <1>0, <1>7, <2>3 DEF Rendering
    <3> QED BY <1>0, <2>1, <3>1, <3>2
  <2> QED BY <2>2, <2>3
<1>11. JobsInv'
  <2>1. pc'[Coordinator] \in {"claim", "render", "wait"}  BY <1>7 DEF InSpan
  <2> QED BY <1>8, <1>9, <1>10, <2>1 DEF JobsInv
<1> QED BY <1>7, <1>11 DEF IInv

-----------------------------------------------------------------------------
(* The theorems.                                                           *)

LEMMA NextInvariant ==
    ASSUME WaitMode = "event"
    PROVE  IInv /\ [Next]_vars => IInv'
<1> SUFFICES ASSUME IInv, [Next]_vars PROVE IInv'  OBVIOUS
<1>1. CASE Plan \/ Shutdown  BY <1>1, PlanStep, ShutdownStep
<1>2. ASSUME CoordinatorStep PROVE IInv'
  BY <1>2, SetFacts, SizeStep, ResetStep, CountsStep, BumpStep, JoinStep, MergeStep,
     ClaimStep, RenderStep DEF CoordinatorStep
<1>3. ASSUME NEW h \in Helpers, HelperStep(h) PROVE IInv'
  BY <1>3, SetFacts, FirstLoadStep, AwakeStep, LoadStep, LaneStep,
     CountCompletedStep, RetireStep, ClaimStep, RenderStep DEF HelperStep
<1>4. CASE UNCHANGED vars
  <2>1. UNCHANGED <<generation, nextJob, completed, pending, doneEvent, wakeEvent,
                    jobCount, dispatchThreads, activeHelpers, stopping, pc, observed,
                    index, rendered>>
    BY <1>4 DEF vars, shared, plain
  <2>2. Busy' = Busy /\ Uncounted' = Uncounted /\ (InSpan' <=> InSpan)
    BY <2>1 DEF Busy, Uncounted, InSpan
  <2>3. TypeOK' /\ CoordinatorInv'  BY <2>1 DEF IInv, TypeOK, CoordinatorInv
  <2>4. HelpersInv' /\ CountsInv'  BY <2>1, <2>2 DEF IInv, HelpersInv, CountsInv
  <2>5. JobsInv'  BY <2>1, JobsFrame
  <2> QED BY <2>3, <2>4, <2>5 DEF IInv
<1> QED BY <1>1, <1>2, <1>3, <1>4 DEF Next

\* The inductive invariant, for any number of helpers and spans.
THEOREM Invariant == ASSUME WaitMode = "event" PROVE Spec => []IInv
BY InitInvariant, NextInvariant, PTL DEF Spec

\* Type correctness; in particular completedHelpers and pendingHelpers never
\* leave 0 .. HelperCount, whatever the helpers' order.
THEOREM TypeCorrect == ASSUME WaitMode = "event" PROVE Spec => []TypeOK
<1>1. IInv => TypeOK  BY DEF IInv
<1> QED BY <1>1, Invariant, PTL

\* No two threads, the coordinator among them, ever render the same job.
THEOREM JobsAreDisjoint == ASSUME WaitMode = "event" PROVE Spec => []DisjointJobs
<1>1. ASSUME IInv PROVE DisjointJobs
  <2>1. InSpan => DisjointJobs  BY <1>1 DEF IInv, JobsInv
  <2>2. ASSUME ~InSpan PROVE DisjointJobs
    BY <1>1, <2>2, RenderingFacts DEF DisjointJobs
  <2> QED BY <2>1, <2>2
<1> QED BY <1>1, Invariant, PTL

\* The coordinator merges a span in which every job was rendered exactly once,
\* and no helper writes into a mix any more.
THEOREM MergeFindsFinishedSpan ==
    ASSUME WaitMode = "event" PROVE Spec => []MergesFinishedSpan
<1>1. ASSUME IInv PROVE MergesFinishedSpan
  BY <1>1, WorkingFacts DEF IInv, JobsInv, MergesFinishedSpan, InSpan
<1> QED BY <1>1, Invariant, PTL

\* Nobody reads what BeginIndexed writes while it writes it.
THEOREM PreparationIsQuiet ==
    ASSUME WaitMode = "event" PROVE Spec => []QuietWhilePreparing
<1>1. ASSUME IInv PROVE QuietWhilePreparing
  BY <1>1, WorkingFacts DEF QuietWhilePreparing, InSpan
<1> QED BY <1>1, Invariant, PTL
=============================================================================
