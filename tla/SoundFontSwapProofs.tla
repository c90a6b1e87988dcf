------------------------- MODULE SoundFontSwapProofs -------------------------
(***************************************************************************)
(* Proofs about SoundFontSwap, for any threads, any calls they make and    *)
(* any number of requests.                                                 *)
(*                                                                         *)
(* The argument: a request's number is taken by one build only, so each    *)
(* bundle is made once; it then moves from place to place and is destroyed *)
(* from the last one, dropping the reference it holds, so that a bank has  *)
(* as many references as there are bundles left that use it.  A bundle     *)
(* that is read was the active one when the reader looked, and cannot have *)
(* got further than to the retired ones while the reader keeps the         *)
(* reclaimer away.                                                         *)
(***************************************************************************)
EXTENDS SoundFontSwap, FiniteSetTheorems, TLAPS

\* The labels of the three kinds of workers.
LoaderLabels == {"idle", "take", "build", "make", "check", "fail", "mark", "publish"}
BuilderLabels == {"idle", "begin", "aim", "offer"}
CallerLabels == {"away", "idle", "store", "build", "make", "mark", "publish", "reclaim", "path",
                 "copy", "ensure"}

Requesters == Threads \cup {"loader"}
Maybe == Ids \cup {NoBundle}

\* The type invariant, by the component that writes the variables.
RequestTypes ==
    /\ newest \in Ids /\ activatedId \in Ids /\ loadState \in 0 .. 4
    /\ requested \in Maybe /\ handled \in Maybe /\ loadEvent \in BOOLEAN
PointerTypes ==
    /\ active \in Maybe /\ pending \in Maybe /\ next \in Maybe /\ old \in Maybe
    /\ retired \subseteq Ids /\ callback \in Stops
HeapTypes ==
    /\ plain \in [Ids -> BOOLEAN] /\ root \in [Ids -> Maybe] /\ refs \in [Ids -> Nat]
    /\ destroyed \subseteq Ids /\ companion \in [Ids -> Maybe]
StoreTypes ==
    /\ pendingStore \in Maybe /\ pendingFor \in Maybe /\ taken \in Maybe
    /\ rotation \in BOOLEAN /\ builds \in 0 .. MaxBuilds
WorkerTypes ==
    /\ pc \in [Workers -> Labels] /\ id \in [Workers -> Maybe]
    /\ reading \in [Workers -> Maybe] /\ bundle \in [Workers -> Maybe]
    /\ doomed \in [Workers -> SUBSET Ids] /\ buildLock \in Workers \cup {NoOwner}
Types == RequestTypes /\ PointerTypes /\ HeapTypes /\ StoreTypes /\ WorkerTypes

\* Each kind of worker is where it can be.
LabelsInv ==
    /\ pc["loader"] \in LoaderLabels /\ pc["builder"] \in BuilderLabels
    /\ \A t \in Threads : pc[t] \in CallerLabels

\* A request is with the caller that numbered it, stored for the loader, with
\* the loader, or done; what it is to build is not there before.
CallersInv ==
    /\ \A t \in Threads : id[t] # 0 <=> pc[t] \in {"store", "build", "make"}
    /\ \A t \in Threads : id[t] # 0 => /\ id[t] <= newest /\ root[id[t]] = NoBundle
                                       /\ id[t] \notin {requested, handled}
    /\ \A t, u \in Threads : id[t] # 0 /\ id[t] = id[u] => t = u
LoaderInv ==
    /\ requested <= newest /\ handled <= newest
    /\ \A b \in Ids : b > newest => root[b] = NoBundle
    /\ requested \notin {NoBundle, handled} => root[requested] = NoBundle
    /\ id["loader"] # 0 <=> pc["loader"] \in {"build", "make", "check"}
    /\ id["loader"] # 0 => id["loader"] = handled
    /\ pc["loader"] \in {"build", "make"} => root[handled] = NoBundle
RequestsInv == LabelsInv /\ CallersInv /\ LoaderInv

\* soundFontBuildCs_ is held by a build, a telemetry pass that destroys, or
\* the companion builder, and nobody else has bundles to destroy.
LockInv ==
    /\ \A w \in Workers : pc[w] \in {"make", "reclaim", "aim", "offer"} <=> buildLock = w
    /\ \A w \in Workers : doomed[w] # {} => pc[w] = "reclaim"

-----------------------------------------------------------------------------
(* Bundles and their places.                                               *)

\* A bundle that was built and not destroyed.
Held(b) == root[b] # NoBundle /\ b \notin destroyed

Kinds == {"bundle", "doomed", "pending", "active", "old", "next", "retired"}
In(b, k) ==
    \/ k = "bundle" /\ \E w \in Workers : bundle[w] = b
    \/ k = "doomed" /\ \E w \in Workers : b \in doomed[w]
    \/ k = "pending" /\ pending = b
    \/ k = "active" /\ active = b
    \/ k = "old" /\ old = b
    \/ k = "next" /\ callback = "install" /\ next = b
    \/ k = "retired" /\ b \in retired

PlacesInv ==
    /\ \A b \in Ids : Held(b) <=> \E k \in Kinds : In(b, k)
    /\ \A b \in Ids : \A k, l \in Kinds : In(b, k) /\ In(b, l) => k = l

\* Which of the places are empty when.
SlotsInv ==
    /\ \A w \in Workers : bundle[w] # NoBundle => pc[w] \in {"check", "mark", "publish"}
    /\ \A w, u \in Workers : bundle[w] # NoBundle /\ bundle[w] = bundle[u] => w = u
    /\ active # NoBundle
    /\ callback \in {"adopt", "compare", "swap"} => next = NoBundle
    /\ callback = "install" <=> (next # NoBundle /\ next # active)
    /\ callback \in {"announce", "state", "retire"} <=> old # NoBundle
    /\ callback \in {"announce", "state", "retire"} => next = active

\* The bundles that use the bank of bundle r, and so hold a reference to it.
Users(r) == {b \in Ids : root[b] = r /\ b \notin destroyed}

HeapInv ==
    /\ \A b \in Ids : root[b] # NoBundle => root[root[b]] # NoBundle
    /\ \A b \in Ids : plain[b] /\ root[b] # NoBundle => root[b] = b
    /\ \A b \in destroyed : root[b] # NoBundle
    /\ \A r \in Ids : refs[r] = Cardinality(Users(r))

\* Who reads under soundFontBuildCs_ reads a bundle that has been active.
Standing == {active, old} \cup retired
LockedReadsInv ==
    /\ \A w \in Workers :
         reading[w] # NoBundle => pc[w] \in {"make", "copy", "ensure", "aim", "offer"}
    /\ \A w \in Workers : buildLock = w /\ reading[w] # NoBundle => reading[w] \in Standing

BundlesInv ==
    /\ Types /\ RequestsInv /\ LockInv /\ PlacesInv /\ SlotsInv /\ HeapInv
    /\ LockedReadsInv

\* Whatever is read, under it or not, has been active.
Rendered(b) ==
    b \in Standing \/ b \in destroyed \/ \E t \in Workers : b \in doomed[t]
ReadsInv == \A w \in Workers : reading[w] # NoBundle => Rendered(reading[w])

\* The companion store that is offered, or was taken, is for the bundle noted,
\* unless the builder has noted another since it was taken.
StoreInv ==
    /\ pc["builder"] \in {"aim", "offer"} => reading["builder"] # NoBundle
    /\ pc["builder"] = "offer" =>
          pendingFor = reading["builder"] /\ pendingStore = NoBundle
    /\ pendingStore # NoBundle => pendingStore = pendingFor
    /\ taken # NoBundle => taken = pendingFor \/ AimedAgain

-----------------------------------------------------------------------------
(* The steps.                                                              *)

LEMMA Steps ==
    ASSUME [Next]_vars
    PROVE  \/ \E t \in Threads :
                \/ Number(t) \/ StoreRequest(t) \/ ReclaimRetired(t) \/ DestroyRetired(t)
                \/ LoadActive(t) \/ CopyPath(t) \/ SetRotation(t) \/ EnsureHilbertStore(t)
           \/ \E w \in Requesters :
                EnterBuild(w) \/ LeaveBuild(w) \/ Mark(w) \/ Publish(w)
           \/ WaitForRequest \/ TakeRequest \/ CheckNewest \/ ReportFailure
           \/ BuilderBegin \/ BuilderAim \/ BuilderOffer
           \/ AdoptStore \/ CompareStore \/ SwapPending \/ InstallActive \/ Announce
           \/ StoreState \/ Retire \/ UNCHANGED vars
<1>1. "loader" \in Requesters /\ \A t \in Threads : t \in Requesters  BY DEF Requesters
<1> QED BY <1>1 DEF Next, Begin, Continue, Loader, Builder, Callback

\* The workers, and the numbers of requests.
LEMMA NameFacts ==
    /\ Requesters \subseteq Workers /\ Threads \subseteq Workers
    /\ "loader" \in Workers /\ "builder" \in Workers
    /\ "loader" \notin Threads /\ "builder" \notin Threads
    /\ "builder" \notin Requesters
    /\ \A w \in Workers : w \in Threads \/ w = "loader" \/ w = "builder"
    /\ \A w \in Requesters : w \in Threads \/ w = "loader"
    /\ NoOwner \notin Workers
    /\ MaxRequests \in Nat /\ MaxRequests >= 1 /\ 0 \notin Ids
    /\ NoBundle \notin Ids /\ \A n : n \in Maybe <=> n = 0 \/ n \in Ids
    /\ \A n \in Ids : n \in Nat
BY NamesAssumption, RequestsAssumption DEF Requesters, Workers, NoOwner, NoBundle,
   Maybe, Ids

\* A build works on the number of a request that is not built yet.
LEMMA BuildFacts ==
    ASSUME BundlesInv, NEW w \in Requesters, pc[w] = "make"
    PROVE  /\ id[w] \in Ids /\ id[w] <= newest /\ root[id[w]] = NoBundle
           /\ bundle[w] = NoBundle /\ buildLock = w
<1>1. w \in Workers  BY NameFacts
<1>2. id[w] \in Maybe  BY <1>1 DEF BundlesInv, Types, WorkerTypes
<1>3. id[w] # 0 /\ root[id[w]] = NoBundle /\ id[w] <= newest
  BY NameFacts DEF BundlesInv, RequestsInv, CallersInv, LoaderInv
<1>4. bundle[w] = NoBundle /\ buildLock = w
  BY <1>1 DEF BundlesInv, SlotsInv, LockInv
<1> QED BY <1>2, <1>3, <1>4, NameFacts

\* DestroySoundFontBundle of bundles that are held takes their references.
LEMMA DestroyFacts ==
    ASSUME HeapTypes, HeapInv, NEW B, Destroy(B),
           \A b \in B : b # NoBundle => b \in Ids /\ Held(b)
    PROVE  /\ destroyed' = destroyed \cup (B \ {NoBundle})
           /\ refs' \in [Ids -> Nat]
           /\ \A r \in Ids : refs'[r] = Cardinality(Users(r) \ B)
<1>1. /\ destroyed' = destroyed \cup (B \ {NoBundle})
      /\ refs' = [r \in Ids |->
                    refs[r] - Cardinality({b \in B \ {NoBundle} : root[b] = r})]
  BY DEF Destroy
<1>2. ASSUME NEW r \in Ids
      PROVE  /\ refs[r] - Cardinality({b \in B \ {NoBundle} : root[b] = r})
                  = Cardinality(Users(r) \ B)
             /\ Cardinality(Users(r) \ B) \in Nat
  <2> DEFINE D == {b \in B \ {NoBundle} : root[b] = r}
  <2>1. IsFiniteSet(Users(r))
    <3>1. IsFiniteSet(Ids)  BY FS_Interval, NameFacts DEF Ids
    <3>2. Users(r) \in SUBSET Ids  BY DEF Users
    <3> QED BY <3>1, <3>2, FS_Subset
  <2>2. Users(r) \cap B = D
    BY NameFacts DEF Users, Held, NoBundle
  <2>3. Cardinality(Users(r) \ B) = Cardinality(Users(r)) - Cardinality(Users(r) \cap B)
        /\ IsFiniteSet(Users(r) \ B)
    BY <2>1, FS_Difference
  <2>4. IsFiniteSet(Users(r) \cap B)  BY <2>1, FS_Intersection
  <2>5. /\ Cardinality(Users(r)) \in Nat /\ Cardinality(D) \in Nat
        /\ Cardinality(Users(r) \ B) \in Nat
    BY <2>1, <2>2, <2>3, <2>4, FS_CardinalityType
  <2>6. refs[r] = Cardinality(Users(r))  BY DEF HeapInv
  <2> HIDE DEF D
  <2>7. refs[r] - Cardinality(D) = Cardinality(Users(r) \ B)
    BY <2>2, <2>3, <2>5, <2>6
  <2> QED BY <2>5, <2>7 DEF D
<1> QED BY <1>1, <1>2

\* What a bundle that is held may be destroyed from.
LEMMA HeldFacts ==
    ASSUME BundlesInv
    PROVE  /\ pending # NoBundle => pending \in Ids /\ Held(pending)
           /\ \A w \in Workers : bundle[w] # NoBundle => bundle[w] \in Ids /\ Held(bundle[w])
           /\ \A w \in Workers : \A b \in doomed[w] : b \in Ids /\ Held(b)
           /\ \A b \in Standing : b # NoBundle => b \in Ids /\ Held(b)
           /\ active \in Ids /\ pending # active
<1>1. pending # NoBundle => pending \in Ids
  BY NameFacts DEF BundlesInv, Types, PointerTypes, NoBundle
<1>2. active \in Ids
  BY NameFacts DEF BundlesInv, Types, PointerTypes, SlotsInv, NoBundle
<1>3. old # NoBundle => old \in Ids
  BY NameFacts DEF BundlesInv, Types, PointerTypes, NoBundle
<1>4. \A w \in Workers : bundle[w] # NoBundle => bundle[w] \in Ids
  BY NameFacts DEF BundlesInv, Types, WorkerTypes, NoBundle
<1>5. /\ \A w \in Workers : doomed[w] \subseteq Ids
      /\ retired \subseteq Ids
  BY DEF BundlesInv, Types, PointerTypes, WorkerTypes
<1>6. \A b \in Ids : (\E k \in Kinds : In(b, k)) => Held(b)  BY DEF BundlesInv, PlacesInv
<1>7. \A k \in {"bundle", "doomed", "pending", "active", "old", "retired"} : k \in Kinds
  BY DEF Kinds
<1>8. pending # NoBundle => In(pending, "pending")  BY DEF In
<1>9. In(active, "active") /\ In(old, "old") /\ \A b \in retired : In(b, "retired")
  BY DEF In
<1>10. \A w \in Workers : In(bundle[w], "bundle") /\ \A b \in doomed[w] : In(b, "doomed")
  BY DEF In
<1>11. pending # active
  BY <1>2, <1>7, <1>9, NameFacts DEF BundlesInv, PlacesInv, In
<1> QED BY <1>1, <1>2, <1>3, <1>4, <1>5, <1>6, <1>7, <1>8, <1>9, <1>10, <1>11 DEF Standing

\* What a build leaves behind: a bundle with a bank of its own, one that shares
\* the bank of the bundle it read, or nothing.
Fresh(w) ==
    /\ \E isPlain \in BOOLEAN : plain' = [plain EXCEPT ![id[w]] = isPlain]
    /\ root' = [root EXCEPT ![id[w]] = id[w]] /\ refs' = [refs EXCEPT ![id[w]] = 1]
    /\ bundle' = [bundle EXCEPT ![w] = id[w]]
    /\ \E c \in {id[w], NoBundle} : companion' = [companion EXCEPT ![id[w]] = c]
Shared(w) ==
    \E b \in Ids :
        /\ b \in Standing /\ Held(b) /\ root[b] \in Ids
        /\ plain' = [plain EXCEPT ![id[w]] = FALSE]
        /\ root' = [root EXCEPT ![id[w]] = root[b]]
        /\ refs' = [refs EXCEPT ![root[b]] = @ + 1]
        /\ bundle' = [bundle EXCEPT ![w] = id[w]]
        /\ \E c \in {id[w], NoBundle} : companion' = [companion EXCEPT ![id[w]] = c]
Nothing(w) ==
    UNCHANGED <<plain, root, refs, companion>> /\ bundle' = [bundle EXCEPT ![w] = NoBundle]

LEMMA MakeFacts ==
    ASSUME BundlesInv, NEW w \in Requesters, LeaveBuild(w)
    PROVE  Fresh(w) \/ Shared(w) \/ Nothing(w)
<1>1. pc[w] = "make" /\ Make(w) /\ w \in Workers  BY NameFacts DEF LeaveBuild
<1>2. ASSUME NEW isPlain \in {TRUE, w # "loader"}, Built(w, isPlain, id[w], NoBundle),
             refs' = [refs EXCEPT ![id[w]] = 1]
      PROVE  Fresh(w)
  BY <1>2 DEF Built, Hold, Fresh
<1>3. ASSUME reading[w] # NoBundle, Built(w, FALSE, root[reading[w]], reading[w]),
             Share(root[reading[w]])
      PROVE  Shared(w)
  <2>1. reading[w] \in Standing  BY <1>1, <1>3, BuildFacts DEF BundlesInv, LockedReadsInv
  <2>2. reading[w] \in Ids /\ Held(reading[w])  BY <1>3, <2>1, HeldFacts
  <2>3. root[reading[w]] \in Ids
    BY <2>2, NameFacts DEF Held, BundlesInv, Types, HeapTypes, NoBundle
  <2> QED BY <1>3, <2>1, <2>2, <2>3 DEF Shared, Built, Hold, Share
<1>4. ASSUME UNCHANGED <<plain, root, refs, companion>>, Hold(w, NoBundle) PROVE Nothing(w)
  BY <1>4 DEF Nothing, Hold
<1> QED BY <1>1, <1>2, <1>3, <1>4 DEF Make

-----------------------------------------------------------------------------
(* The conjuncts of the invariant that each step preserves.                *)

LEMMA NextRequestTypes == BundlesInv /\ [Next]_vars => RequestTypes'
<1> SUFFICES ASSUME BundlesInv, [Next]_vars PROVE RequestTypes'  OBVIOUS
<1> USE DEF requests, pointers, heap, hilbert, workers, callbackVars, outsideRequests,
           outsideLoader, outsideTelemetry, outsideHilbert, outsideCallback
<1>1. ASSUME NEW t \in Threads, Number(t) PROVE RequestTypes'
  BY <1>1, NameFacts DEF Number, Goto, BundlesInv, Types, RequestTypes, Ids
<1>2. ASSUME NEW t \in Threads, StoreRequest(t) PROVE RequestTypes'
  BY <1>2, NameFacts DEF StoreRequest, Goto, BundlesInv, Types, RequestTypes,
     RequestsInv, WorkerTypes
<1>3. ASSUME NEW w \in Requesters, Mark(w) PROVE RequestTypes'
  BY <1>3 DEF Mark, Goto, BundlesInv, Types, RequestTypes
<1>4. ASSUME WaitForRequest PROVE RequestTypes'
  BY <1>4 DEF WaitForRequest, Goto, BundlesInv, Types, RequestTypes
<1>5. ASSUME TakeRequest PROVE RequestTypes'
  BY <1>5 DEF TakeRequest, Goto, BundlesInv, Types, RequestTypes
<1>6. ASSUME ReportFailure PROVE RequestTypes'
  BY <1>6 DEF ReportFailure, Goto, BundlesInv, Types, RequestTypes
<1>7. ASSUME Announce PROVE RequestTypes'
  BY <1>7, NameFacts DEF Announce, BundlesInv, Types, RequestTypes, SlotsInv,
     PointerTypes, NoBundle
<1>8. ASSUME StoreState PROVE RequestTypes'
  BY <1>8 DEF StoreState, BundlesInv, Types, RequestTypes
<1>9. ASSUME \/ CheckNewest \/ BuilderBegin \/ BuilderAim \/ BuilderOffer \/ AdoptStore
             \/ CompareStore \/ SwapPending \/ InstallActive \/ Retire \/ UNCHANGED vars
      PROVE  RequestTypes'
  <2>1. UNCHANGED <<newest, activatedId, loadState, requested, handled, loadEvent>>
    BY <1>9 DEF CheckNewest, BuilderBegin, BuilderAim, BuilderOffer, AdoptStore,
       CompareStore, SwapPending, InstallActive, Retire, vars
  <2> QED BY <2>1 DEF BundlesInv, Types, RequestTypes
<1>10. ASSUME NEW t \in Threads,
              \/ ReclaimRetired(t) \/ DestroyRetired(t) \/ LoadActive(t) \/ CopyPath(t)
              \/ SetRotation(t) \/ EnsureHilbertStore(t)
       PROVE  RequestTypes'
  <2>1. UNCHANGED <<newest, activatedId, loadState, requested, handled, loadEvent>>
    BY <1>10 DEF ReclaimRetired, DestroyRetired, LoadActive, CopyPath, SetRotation,
       EnsureHilbertStore
  <2> QED BY <2>1 DEF BundlesInv, Types, RequestTypes
<1>11. ASSUME NEW w \in Requesters,
              \/ EnterBuild(w) \/ LeaveBuild(w) \/ Publish(w)
       PROVE  RequestTypes'
  <2>1. UNCHANGED <<newest, activatedId, loadState, requested, handled, loadEvent>>
    BY <1>11 DEF EnterBuild, LeaveBuild, Publish
  <2> QED BY <2>1 DEF BundlesInv, Types, RequestTypes
<1> QED BY <1>1, <1>2, <1>3, <1>4, <1>5, <1>6, <1>7, <1>8, <1>9, <1>10, <1>11, Steps

LEMMA NextPointerTypes == BundlesInv /\ [Next]_vars => PointerTypes'
<1> SUFFICES ASSUME BundlesInv, [Next]_vars PROVE PointerTypes'  OBVIOUS
<1> USE DEF requests, pointers, heap, hilbert, workers, callbackVars, outsideRequests,
           outsideLoader, outsideTelemetry, outsideHilbert, outsideCallback
<1>1. ASSUME NEW w \in Requesters, Publish(w) PROVE PointerTypes'
  BY <1>1, NameFacts DEF Publish, Goto, Hold, Destroy, BundlesInv, Types, PointerTypes,
     WorkerTypes
<1>2. ASSUME NEW t \in Threads, ReclaimRetired(t) PROVE PointerTypes'
  BY <1>2 DEF ReclaimRetired, Goto, BundlesInv, Types, PointerTypes
<1>3. ASSUME AdoptStore PROVE PointerTypes'
  BY <1>3 DEF AdoptStore, BundlesInv, Types, PointerTypes, Stops
<1>4. ASSUME CompareStore PROVE PointerTypes'
  BY <1>4 DEF CompareStore, BundlesInv, Types, PointerTypes, Stops
<1>5. ASSUME SwapPending PROVE PointerTypes'
  BY <1>5, NameFacts DEF SwapPending, BundlesInv, Types, PointerTypes, Maybe, Stops
<1>6. ASSUME InstallActive PROVE PointerTypes'
  BY <1>6 DEF InstallActive, BundlesInv, Types, PointerTypes, Stops
<1>7. ASSUME Announce PROVE PointerTypes'
  BY <1>7 DEF Announce, BundlesInv, Types, PointerTypes, Stops
<1>8. ASSUME StoreState PROVE PointerTypes'
  BY <1>8 DEF StoreState, BundlesInv, Types, PointerTypes, Stops
<1>9. ASSUME Retire PROVE PointerTypes'
  BY <1>9, NameFacts DEF Retire, BundlesInv, Types, PointerTypes, SlotsInv, Maybe,
     Stops, NoBundle
<1>10. ASSUME \/ WaitForRequest \/ TakeRequest \/ CheckNewest \/ ReportFailure
              \/ BuilderBegin \/ BuilderAim \/ BuilderOffer \/ UNCHANGED vars
       PROVE  PointerTypes'
  <2>1. UNCHANGED <<active, pending, next, old, retired, callback>>
    BY <1>10 DEF WaitForRequest, TakeRequest, CheckNewest, ReportFailure, BuilderBegin,
       BuilderAim, BuilderOffer, vars
  <2> QED BY <2>1 DEF BundlesInv, Types, PointerTypes
<1>11. ASSUME NEW t \in Threads,
              \/ Number(t) \/ StoreRequest(t) \/ DestroyRetired(t) \/ LoadActive(t)
              \/ CopyPath(t) \/ SetRotation(t) \/ EnsureHilbertStore(t)
       PROVE  PointerTypes'
  <2>1. UNCHANGED <<active, pending, next, old, retired, callback>>
    BY <1>11 DEF Number, StoreRequest, DestroyRetired, LoadActive, CopyPath,
       SetRotation, EnsureHilbertStore
  <2> QED BY <2>1 DEF BundlesInv, Types, PointerTypes
<1>12. ASSUME NEW w \in Requesters,
              \/ EnterBuild(w) \/ LeaveBuild(w) \/ Mark(w)
       PROVE  PointerTypes'
  <2>1. UNCHANGED <<active, pending, next, old, retired, callback>>
    BY <1>12 DEF EnterBuild, LeaveBuild, Mark
  <2> QED BY <2>1 DEF BundlesInv, Types, PointerTypes
<1> QED BY <1>1, <1>2, <1>3, <1>4, <1>5, <1>6, <1>7, <1>8, <1>9, <1>10, <1>11, <1>12,
      Steps

LEMMA NextStoreTypes == BundlesInv /\ [Next]_vars => StoreTypes'
<1> SUFFICES ASSUME BundlesInv, [Next]_vars PROVE StoreTypes'  OBVIOUS
<1> USE DEF requests, pointers, heap, hilbert, workers, callbackVars, outsideRequests,
           outsideLoader, outsideTelemetry, outsideHilbert, outsideCallback
<1>1. ASSUME NEW t \in Threads, SetRotation(t) PROVE StoreTypes'
  BY <1>1 DEF SetRotation, Goto, Read, BundlesInv, Types, StoreTypes
<1>2. ASSUME NEW t \in Threads, EnsureHilbertStore(t) PROVE StoreTypes'
  BY <1>2, RequestsAssumption DEF EnsureHilbertStore, Goto, Read, BundlesInv, Types,
     StoreTypes
<1>3. ASSUME BuilderAim PROVE StoreTypes'
  BY <1>3, NameFacts DEF BuilderAim, Goto, BundlesInv, Types, StoreTypes, WorkerTypes,
     Maybe
<1>4. ASSUME BuilderOffer PROVE StoreTypes'
  BY <1>4, NameFacts DEF BuilderOffer, Goto, Read, BundlesInv, Types, StoreTypes,
     WorkerTypes
<1>5. ASSUME AdoptStore PROVE StoreTypes'
  BY <1>5 DEF AdoptStore, BundlesInv, Types, StoreTypes, Maybe
<1>6. ASSUME CompareStore PROVE StoreTypes'
  BY <1>6 DEF CompareStore, BundlesInv, Types, StoreTypes, Maybe
<1>7. ASSUME \/ WaitForRequest \/ TakeRequest \/ CheckNewest \/ ReportFailure
             \/ BuilderBegin \/ SwapPending \/ InstallActive \/ Announce \/ StoreState
             \/ Retire \/ UNCHANGED vars
      PROVE  StoreTypes'
  <2>1. UNCHANGED <<pendingStore, pendingFor, taken, rotation, builds>>
    BY <1>7 DEF WaitForRequest, TakeRequest, CheckNewest, ReportFailure, BuilderBegin,
       SwapPending, InstallActive, Announce, StoreState, Retire, vars
  <2> QED BY <2>1 DEF BundlesInv, Types, StoreTypes
<1>8. ASSUME NEW t \in Threads,
             \/ Number(t) \/ StoreRequest(t) \/ ReclaimRetired(t) \/ DestroyRetired(t)
             \/ LoadActive(t) \/ CopyPath(t)
      PROVE  StoreTypes'
  <2>1. UNCHANGED <<pendingStore, pendingFor, taken, rotation, builds>>
    BY <1>8 DEF Number, StoreRequest, ReclaimRetired, DestroyRetired, LoadActive,
       CopyPath
  <2> QED BY <2>1 DEF BundlesInv, Types, StoreTypes
<1>9. ASSUME NEW w \in Requesters,
             \/ EnterBuild(w) \/ LeaveBuild(w) \/ Mark(w) \/ Publish(w)
      PROVE  StoreTypes'
  <2>1. UNCHANGED <<pendingStore, pendingFor, taken, rotation, builds>>
    BY <1>9 DEF EnterBuild, LeaveBuild, Mark, Publish
  <2> QED BY <2>1 DEF BundlesInv, Types, StoreTypes
<1> QED BY <1>1, <1>2, <1>3, <1>4, <1>5, <1>6, <1>7, <1>8, <1>9, Steps

LEMMA NextWorkerTypes == BundlesInv /\ [Next]_vars => WorkerTypes'
<1> SUFFICES ASSUME BundlesInv, [Next]_vars PROVE WorkerTypes'  OBVIOUS
<1> USE DEF requests, pointers, heap, hilbert, workers, callbackVars, outsideRequests,
           outsideLoader, outsideTelemetry, outsideHilbert, outsideCallback
<1>1. ASSUME NEW t \in Threads, Number(t) PROVE WorkerTypes'
  BY <1>1, NameFacts DEF Number, Goto, BundlesInv, Types, WorkerTypes, Labels,
     RequestTypes, Ids, Maybe
<1>2. ASSUME NEW t \in Threads, StoreRequest(t) PROVE WorkerTypes'
  BY <1>2, NameFacts DEF StoreRequest, Goto, BundlesInv, Types, WorkerTypes, Labels,
     Maybe
<1>3. ASSUME NEW w \in Requesters, EnterBuild(w) PROVE WorkerTypes'
  BY <1>3, NameFacts DEF EnterBuild, Goto, Read, BundlesInv, Types, WorkerTypes, Labels,
     PointerTypes, Maybe
<1>4. ASSUME NEW w \in Requesters, LeaveBuild(w) PROVE WorkerTypes'
  BY <1>4, NameFacts DEF LeaveBuild, Make, Built, Share, Goto, Read, Hold, BundlesInv,
     Types, WorkerTypes, Labels, Maybe
<1>5. ASSUME NEW w \in Requesters, Mark(w) PROVE WorkerTypes'
  BY <1>5, NameFacts DEF Mark, Goto, BundlesInv, Types, WorkerTypes, Labels
<1>6. ASSUME NEW w \in Requesters, Publish(w) PROVE WorkerTypes'
  BY <1>6, NameFacts DEF Publish, Goto, Hold, Destroy, BundlesInv, Types, WorkerTypes,
     Labels, Maybe
<1>7. ASSUME WaitForRequest PROVE WorkerTypes'
  BY <1>7, NameFacts DEF WaitForRequest, Goto, BundlesInv, Types, WorkerTypes, Labels
<1>8. ASSUME TakeRequest PROVE WorkerTypes'
  BY <1>8, NameFacts DEF TakeRequest, Goto, BundlesInv, Types, WorkerTypes, Labels,
     RequestTypes, Maybe
<1>9. ASSUME CheckNewest PROVE WorkerTypes'
  BY <1>9, NameFacts DEF CheckNewest, Goto, Hold, Destroy, BundlesInv, Types,
     WorkerTypes, Labels, Maybe
<1>10. ASSUME ReportFailure PROVE WorkerTypes'
  BY <1>10, NameFacts DEF ReportFailure, Goto, BundlesInv, Types, WorkerTypes, Labels
<1>11. ASSUME NEW t \in Threads, ReclaimRetired(t) PROVE WorkerTypes'
  BY <1>11, NameFacts DEF ReclaimRetired, Goto, BundlesInv, Types, WorkerTypes, Labels,
     PointerTypes
<1>12. ASSUME NEW t \in Threads, DestroyRetired(t) PROVE WorkerTypes'
  BY <1>12, NameFacts DEF DestroyRetired, Goto, Destroy, BundlesInv, Types, WorkerTypes,
     Labels
<1>13. ASSUME NEW t \in Threads, LoadActive(t) PROVE WorkerTypes'
  BY <1>13, NameFacts DEF LoadActive, Goto, Read, BundlesInv, Types, WorkerTypes,
     Labels, PointerTypes
<1>14. ASSUME NEW t \in Threads, CopyPath(t) PROVE WorkerTypes'
  BY <1>14, NameFacts DEF CopyPath, Goto, Read, BundlesInv, Types, WorkerTypes, Labels,
     Maybe
<1>15. ASSUME NEW t \in Threads, SetRotation(t) PROVE WorkerTypes'
  BY <1>15, NameFacts DEF SetRotation, Goto, Read, BundlesInv, Types, WorkerTypes,
     Labels, PointerTypes
<1>16. ASSUME NEW t \in Threads, EnsureHilbertStore(t) PROVE WorkerTypes'
  BY <1>16, NameFacts DEF EnsureHilbertStore, Goto, Read, BundlesInv, Types,
     WorkerTypes, Labels, Maybe
<1>17. ASSUME BuilderBegin PROVE WorkerTypes'
  BY <1>17, NameFacts DEF BuilderBegin, Goto, Read, BundlesInv, Types, WorkerTypes,
     Labels, PointerTypes
<1>18. ASSUME BuilderAim PROVE WorkerTypes'
  BY <1>18, NameFacts DEF BuilderAim, Goto, BundlesInv, Types, WorkerTypes, Labels
<1>19. ASSUME BuilderOffer PROVE WorkerTypes'
  BY <1>19, NameFacts DEF BuilderOffer, Goto, Read, BundlesInv, Types, WorkerTypes,
     Labels, Maybe
<1>20. ASSUME \/ AdoptStore \/ CompareStore \/ SwapPending \/ InstallActive \/ Announce
              \/ StoreState \/ Retire \/ UNCHANGED vars
       PROVE  WorkerTypes'
  <2>1. UNCHANGED <<pc, id, reading, bundle, doomed, buildLock>>
    BY <1>20 DEF AdoptStore, CompareStore, SwapPending, InstallActive, Announce,
       StoreState, Retire, vars
  <2> QED BY <2>1 DEF BundlesInv, Types, WorkerTypes, Labels
<1> QED BY <1>1, <1>2, <1>3, <1>4, <1>5, <1>6, <1>7, <1>8, <1>9, <1>10, <1>11, <1>12,
      <1>13, <1>14, <1>15, <1>16, <1>17, <1>18, <1>19, <1>20, Steps

LEMMA NextHeapTypes == BundlesInv /\ [Next]_vars => HeapTypes'
<1> SUFFICES ASSUME BundlesInv, [Next]_vars PROVE HeapTypes'  OBVIOUS
<1> USE DEF requests, pointers, heap, hilbert, workers, callbackVars, outsideRequests,
           outsideLoader, outsideTelemetry, outsideHilbert, outsideCallback
<1>1. ASSUME NEW w \in Requesters, LeaveBuild(w) PROVE HeapTypes'
  <2>1. id[w] \in Ids /\ pc[w] = "make" /\ UNCHANGED destroyed  BY <1>1, BuildFacts DEF LeaveBuild
  <2>2. HeapTypes  BY DEF BundlesInv, Types
  <2>3. CASE Fresh(w)  BY <2>1, <2>2, <2>3, NameFacts DEF Fresh, HeapTypes, Maybe
  <2>4. CASE Shared(w)  BY <2>1, <2>2, <2>4, NameFacts DEF Shared, HeapTypes, Maybe
  <2>5. CASE Nothing(w)  BY <2>1, <2>2, <2>5 DEF Nothing, HeapTypes
  <2> QED BY <1>1, <2>3, <2>4, <2>5, MakeFacts
<1>2. ASSUME NEW w \in Requesters, Publish(w) PROVE HeapTypes'
  <2>1. /\ destroyed' = destroyed \cup ({pending} \ {NoBundle}) /\ refs' \in [Ids -> Nat]
        /\ UNCHANGED <<plain, root, companion>>
    BY <1>2, HeldFacts, DestroyFacts DEF Publish, BundlesInv, Types
  <2> QED BY <2>1, HeldFacts DEF BundlesInv, Types, HeapTypes
<1>3. ASSUME CheckNewest PROVE HeapTypes'
  <2>1. CASE newest # id["loader"]
    <3>1. /\ destroyed' = destroyed \cup ({bundle["loader"]} \ {NoBundle})
          /\ refs' \in [Ids -> Nat] /\ UNCHANGED <<plain, root, companion>>
      BY <1>3, <2>1, NameFacts, HeldFacts, DestroyFacts DEF CheckNewest, BundlesInv, Types
    <3> QED BY <3>1, NameFacts, HeldFacts DEF BundlesInv, Types, HeapTypes
  <2>2. CASE newest = id["loader"]
    BY <1>3, <2>2 DEF CheckNewest, BundlesInv, Types, HeapTypes
  <2> QED BY <2>1, <2>2
<1>4. ASSUME NEW t \in Threads, DestroyRetired(t) PROVE HeapTypes'
  <2>1. /\ destroyed' = destroyed \cup (doomed[t] \ {NoBundle}) /\ refs' \in [Ids -> Nat]
        /\ UNCHANGED <<plain, root, companion>>
    BY <1>4, NameFacts, HeldFacts, DestroyFacts DEF DestroyRetired, BundlesInv, Types
  <2> QED BY <2>1, NameFacts, HeldFacts DEF BundlesInv, Types, HeapTypes
<1>5. ASSUME CompareStore PROVE HeapTypes'
  BY <1>5, NameFacts DEF CompareStore, BundlesInv, Types, HeapTypes, StoreTypes
<1>6. ASSUME \/ WaitForRequest \/ TakeRequest \/ ReportFailure \/ BuilderBegin
             \/ BuilderAim \/ BuilderOffer \/ AdoptStore \/ SwapPending \/ InstallActive
             \/ Announce \/ StoreState \/ Retire \/ UNCHANGED vars
      PROVE  HeapTypes'
  <2>1. UNCHANGED <<plain, root, refs, destroyed, companion>>
    BY <1>6 DEF WaitForRequest, TakeRequest, ReportFailure, BuilderBegin, BuilderAim,
       BuilderOffer, AdoptStore, SwapPending, InstallActive, Announce, StoreState,
       Retire, vars
  <2> QED BY <2>1 DEF BundlesInv, Types, HeapTypes
<1>7. ASSUME NEW t \in Threads,
             \/ Number(t) \/ StoreRequest(t) \/ ReclaimRetired(t) \/ LoadActive(t)
             \/ CopyPath(t) \/ SetRotation(t) \/ EnsureHilbertStore(t)
      PROVE  HeapTypes'
  <2>1. UNCHANGED <<plain, root, refs, destroyed, companion>>
    BY <1>7 DEF Number, StoreRequest, ReclaimRetired, LoadActive, CopyPath, SetRotation,
       EnsureHilbertStore
  <2> QED BY <2>1 DEF BundlesInv, Types, HeapTypes
<1>8. ASSUME NEW w \in Requesters,
             \/ EnterBuild(w) \/ Mark(w)
      PROVE  HeapTypes'
  <2>1. UNCHANGED <<plain, root, refs, destroyed, companion>>
    BY <1>8 DEF EnterBuild, Mark
  <2> QED BY <2>1 DEF BundlesInv, Types, HeapTypes
<1> QED BY <1>1, <1>2, <1>3, <1>4, <1>5, <1>6, <1>7, <1>8, Steps

LEMMA NextTypes == BundlesInv /\ [Next]_vars => Types'
BY NextRequestTypes, NextPointerTypes, NextHeapTypes, NextStoreTypes, NextWorkerTypes
   DEF Types

LEMMA NextLabels == BundlesInv /\ [Next]_vars => LabelsInv'
<1> SUFFICES ASSUME BundlesInv, [Next]_vars PROVE LabelsInv'  OBVIOUS
<1> USE DEF requests, pointers, heap, hilbert, workers, callbackVars, outsideRequests,
           outsideLoader, outsideTelemetry, outsideHilbert, outsideCallback
<1>0. pc \in [Workers -> Labels] /\ LabelsInv
  BY DEF BundlesInv, Types, WorkerTypes, RequestsInv
<1> USE NameFacts
<1>1. ASSUME NEW t \in Threads, Number(t) PROVE LabelsInv'
  <2>1. \E l \in {"build", "store"} : pc' = [pc EXCEPT ![t] = l]
    BY <1>1 DEF Number, Goto
  <2> QED BY <2>1, <1>0 DEF LabelsInv, LoaderLabels, BuilderLabels, CallerLabels
<1>2. ASSUME NEW t \in Threads, StoreRequest(t) PROVE LabelsInv'
  BY <1>2, <1>0 DEF StoreRequest, Goto, LabelsInv, LoaderLabels, BuilderLabels,
     CallerLabels
<1>3. ASSUME NEW w \in Requesters, EnterBuild(w) PROVE LabelsInv'
  BY <1>3, <1>0 DEF EnterBuild, Goto, Read, LabelsInv, LoaderLabels, BuilderLabels,
     CallerLabels
<1>4. ASSUME NEW w \in Requesters, LeaveBuild(w) PROVE LabelsInv'
  <2>1. \E l \in {"idle", "mark", "check"} :
           pc' = [pc EXCEPT ![w] = l] /\ (w = "loader" <=> l = "check")
    BY <1>4 DEF LeaveBuild, Goto
  <2> QED BY <2>1, <1>0 DEF LabelsInv, LoaderLabels, BuilderLabels, CallerLabels
<1>5. ASSUME NEW w \in Requesters, Mark(w) PROVE LabelsInv'
  BY <1>5, <1>0 DEF Mark, Goto, LabelsInv, LoaderLabels, BuilderLabels, CallerLabels
<1>6. ASSUME NEW w \in Requesters, Publish(w) PROVE LabelsInv'
  BY <1>6, <1>0 DEF Publish, Goto, Hold, Destroy, LabelsInv, LoaderLabels,
     BuilderLabels, CallerLabels
<1>7. ASSUME WaitForRequest PROVE LabelsInv'
  BY <1>7, <1>0 DEF WaitForRequest, Goto, LabelsInv, LoaderLabels, BuilderLabels,
     CallerLabels
<1>8. ASSUME TakeRequest PROVE LabelsInv'
  BY <1>8, <1>0 DEF TakeRequest, Goto, LabelsInv, LoaderLabels, BuilderLabels,
     CallerLabels
<1>9. ASSUME CheckNewest PROVE LabelsInv'
  BY <1>9, <1>0 DEF CheckNewest, Goto, Hold, Destroy, LabelsInv, LoaderLabels,
     BuilderLabels, CallerLabels
<1>10. ASSUME ReportFailure PROVE LabelsInv'
  BY <1>10, <1>0 DEF ReportFailure, Goto, LabelsInv, LoaderLabels, BuilderLabels,
     CallerLabels
<1>11. ASSUME NEW t \in Threads, ReclaimRetired(t) PROVE LabelsInv'
  <2>1. \E l \in {"reclaim"} : pc' = [pc EXCEPT ![t] = l]
    BY <1>11 DEF ReclaimRetired, Goto
  <2> QED BY <2>1, <1>0 DEF LabelsInv, LoaderLabels, BuilderLabels, CallerLabels
<1>12. ASSUME NEW t \in Threads, DestroyRetired(t) PROVE LabelsInv'
  BY <1>12, <1>0 DEF DestroyRetired, Goto, Destroy, LabelsInv, LoaderLabels,
     BuilderLabels, CallerLabels
<1>13. ASSUME NEW t \in Threads, LoadActive(t) PROVE LabelsInv'
  BY <1>13, <1>0 DEF LoadActive, Goto, Read, LabelsInv, LoaderLabels, BuilderLabels,
     CallerLabels
<1>14. ASSUME NEW t \in Threads, CopyPath(t) PROVE LabelsInv'
  BY <1>14, <1>0 DEF CopyPath, Goto, Read, LabelsInv, LoaderLabels, BuilderLabels,
     CallerLabels
<1>15. ASSUME NEW t \in Threads, SetRotation(t) PROVE LabelsInv'
  <2>1. \E l \in {"idle", "ensure"} : pc' = [pc EXCEPT ![t] = l]
    BY <1>15, <1>0 DEF SetRotation, Goto
  <2> QED BY <2>1, <1>0 DEF LabelsInv, LoaderLabels, BuilderLabels, CallerLabels
<1>16. ASSUME NEW t \in Threads, EnsureHilbertStore(t) PROVE LabelsInv'
  <2>1. \/ pc' = [pc EXCEPT ![t] = "idle"]
        \/ pc' = [pc EXCEPT ![t] = "idle", !["builder"] = "begin"]
    BY <1>16 DEF EnsureHilbertStore, Goto
  <2> QED BY <2>1, <1>0 DEF LabelsInv, LoaderLabels, BuilderLabels, CallerLabels
<1>17. ASSUME BuilderBegin PROVE LabelsInv'
  BY <1>17, <1>0 DEF BuilderBegin, Goto, Read, LabelsInv, LoaderLabels, BuilderLabels,
     CallerLabels
<1>18. ASSUME BuilderAim PROVE LabelsInv'
  BY <1>18, <1>0 DEF BuilderAim, Goto, LabelsInv, LoaderLabels, BuilderLabels,
     CallerLabels
<1>19. ASSUME BuilderOffer PROVE LabelsInv'
  BY <1>19, <1>0 DEF BuilderOffer, Goto, Read, LabelsInv, LoaderLabels, BuilderLabels,
     CallerLabels
<1>20. ASSUME \/ AdoptStore \/ CompareStore \/ SwapPending \/ InstallActive \/ Announce
              \/ StoreState \/ Retire \/ UNCHANGED vars
       PROVE  LabelsInv'
  <2>1. UNCHANGED <<pc>>
    BY <1>20 DEF AdoptStore, CompareStore, SwapPending, InstallActive, Announce,
       StoreState, Retire, vars
  <2> QED BY <2>1, <1>0 DEF LabelsInv, LoaderLabels, BuilderLabels, CallerLabels
<1> QED BY <1>1, <1>2, <1>3, <1>4, <1>5, <1>6, <1>7, <1>8, <1>9, <1>10, <1>11, <1>12,
      <1>13, <1>14, <1>15, <1>16, <1>17, <1>18, <1>19, <1>20, Steps

LEMMA NextCallers == BundlesInv /\ [Next]_vars => CallersInv'
<1> SUFFICES ASSUME BundlesInv, [Next]_vars PROVE CallersInv'  OBVIOUS
<1> USE DEF requests, pointers, heap, hilbert, workers, callbackVars, outsideRequests,
           outsideLoader, outsideTelemetry, outsideHilbert, outsideCallback
<1>0. /\ pc \in [Workers -> Labels] /\ id \in [Workers -> Maybe] /\ newest \in Ids
      /\ requested \in Maybe /\ handled \in Maybe /\ root \in [Ids -> Maybe]
      /\ CallersInv /\ LoaderInv
  BY DEF BundlesInv, Types, RequestTypes, WorkerTypes, HeapTypes, RequestsInv
<1> USE NameFacts
<1>1. ASSUME NEW t \in Threads, Number(t) PROVE CallersInv'
  <2>1. /\ UNCHANGED <<requested, handled, root>> /\ newest' = newest + 1
        /\ newest < MaxRequests /\ id' = [id EXCEPT ![t] = newest + 1]
        /\ \E l \in {"build", "store"} : pc' = [pc EXCEPT ![t] = l]
    BY <1>1 DEF Number, Goto
  <2>2. newest \in Nat /\ newest + 1 \in Ids /\ requested \in Nat /\ handled \in Nat
        /\ requested <= newest /\ handled <= newest
        /\ \A u \in Threads : id[u] \in Nat
    BY <2>1, <1>0 DEF Ids, Maybe, LoaderInv
  <2>3. root[newest + 1] = NoBundle  BY <2>2, <1>0 DEF LoaderInv
  <2> QED BY <2>1, <2>2, <2>3, <1>0 DEF CallersInv, NoBundle
<1>2. ASSUME NEW t \in Threads, StoreRequest(t) PROVE CallersInv'
  <2>1. /\ UNCHANGED <<newest, handled, root>> /\ pc[t] = "store"
        /\ requested' = id[t] /\ id' = [id EXCEPT ![t] = 0]
        /\ pc' = [pc EXCEPT ![t] = "idle"]
    BY <1>2 DEF StoreRequest, Goto
  <2>2. id[t] # 0 /\ id[t] <= newest /\ root[id[t]] = NoBundle
        /\ \A u \in Threads : u # t => id[u] # id[t]
    BY <2>1, <1>0 DEF CallersInv
  <2> QED BY <2>1, <2>2, <1>0 DEF CallersInv, NoBundle
<1>3. ASSUME NEW w \in Requesters, EnterBuild(w) PROVE CallersInv'
  <2>1. /\ UNCHANGED <<newest, requested, handled, root, id>> /\ pc[w] \in {"build"}
        /\ \E l \in {"make"} : pc' = [pc EXCEPT ![w] = l]
    BY <1>3 DEF EnterBuild, Goto, Read
  <2> QED BY <2>1, <1>0 DEF CallersInv, NoBundle
<1>4. ASSUME NEW w \in Requesters, LeaveBuild(w) PROVE CallersInv'
  <2>1. /\ pc[w] = "make" /\ id[w] \in Ids /\ id[w] <= newest
        /\ UNCHANGED <<newest, requested, handled>>
        /\ id' = [id EXCEPT ![w] = IF w = "loader" THEN id[w] ELSE 0]
    BY <1>4, BuildFacts DEF LeaveBuild
  <2>2. \A b \in Ids : b # id[w] => root'[b] = root[b]
    <3>1. root \in [Ids -> Maybe]  BY DEF BundlesInv, Types, HeapTypes
    <3> QED BY <1>4, <2>1, <3>1, MakeFacts DEF Fresh, Shared, Nothing
  <2>3. \E l \in {"idle", "mark", "check"} :
           pc' = [pc EXCEPT ![w] = l] /\ (w = "loader" <=> l = "check")
    BY <1>4 DEF LeaveBuild, Goto
  <2>4. \A u \in Threads : u # w /\ id[u] # 0 => id[u] # id[w] /\ id[u] \in Ids
    BY <2>1, <1>0 DEF CallersInv, LoaderInv
  <2>5. \A u \in Threads : u # w => pc'[u] = pc[u] /\ id'[u] = id[u]
    BY <2>1, <2>3, <1>0
  <2>6. w \in Threads => id'[w] = 0 /\ pc'[w] \in {"idle", "mark"}
    BY <2>1, <2>3, <1>0
  <2> QED BY <2>1, <2>2, <2>3, <2>4, <2>5, <2>6, <1>0 DEF CallersInv, NoBundle
<1>5. ASSUME NEW w \in Requesters, Mark(w) PROVE CallersInv'
  <2>1. /\ UNCHANGED <<newest, requested, handled, root, id>> /\ pc[w] \in {"mark"}
        /\ \E l \in {"publish"} : pc' = [pc EXCEPT ![w] = l]
    BY <1>5 DEF Mark, Goto
  <2> QED BY <2>1, <1>0 DEF CallersInv, NoBundle
<1>6. ASSUME NEW w \in Requesters, Publish(w) PROVE CallersInv'
  <2>1. /\ UNCHANGED <<newest, requested, handled, root, id>> /\ pc[w] \in {"publish"}
        /\ \E l \in {"take", "idle"} : pc' = [pc EXCEPT ![w] = l]
    BY <1>6 DEF Publish, Goto, Hold, Destroy
  <2> QED BY <2>1, <1>0 DEF CallersInv, NoBundle
<1>7. ASSUME WaitForRequest PROVE CallersInv'
  <2>1. /\ UNCHANGED <<newest, requested, handled, root, id>> /\ pc["loader"] \in {"idle"}
        /\ \E l \in {"take"} : pc' = [pc EXCEPT !["loader"] = l]
    BY <1>7 DEF WaitForRequest, Goto
  <2> QED BY <2>1, <1>0 DEF CallersInv, NoBundle
<1>8. ASSUME TakeRequest PROVE CallersInv'
  BY <1>8, <1>0 DEF TakeRequest, Goto, CallersInv, NoBundle, Maybe
<1>9. ASSUME CheckNewest PROVE CallersInv'
  BY <1>9, <1>0 DEF CheckNewest, Goto, Hold, Destroy, CallersInv, NoBundle, Maybe
<1>10. ASSUME ReportFailure PROVE CallersInv'
  <2>1. /\ UNCHANGED <<newest, requested, handled, root, id>> /\ pc["loader"] \in {"fail"}
        /\ \E l \in {"take"} : pc' = [pc EXCEPT !["loader"] = l]
    BY <1>10 DEF ReportFailure, Goto
  <2> QED BY <2>1, <1>0 DEF CallersInv, NoBundle
<1>11. ASSUME NEW t \in Threads, ReclaimRetired(t) PROVE CallersInv'
  <2>1. /\ UNCHANGED <<newest, requested, handled, root, id>> /\ pc[t] \in {"idle"}
        /\ \E l \in {"reclaim"} : pc' = [pc EXCEPT ![t] = l]
    BY <1>11 DEF ReclaimRetired, Goto
  <2> QED BY <2>1, <1>0 DEF CallersInv, NoBundle
<1>12. ASSUME NEW t \in Threads, DestroyRetired(t) PROVE CallersInv'
  <2>1. /\ UNCHANGED <<newest, requested, handled, root, id>> /\ pc[t] \in {"reclaim"}
        /\ \E l \in {"path"} : pc' = [pc EXCEPT ![t] = l]
    BY <1>12 DEF DestroyRetired, Goto, Destroy
  <2> QED BY <2>1, <1>0 DEF CallersInv, NoBundle
<1>13. ASSUME NEW t \in Threads, LoadActive(t) PROVE CallersInv'
  <2>1. /\ UNCHANGED <<newest, requested, handled, root, id>> /\ pc[t] \in {"path"}
        /\ \E l \in {"copy"} : pc' = [pc EXCEPT ![t] = l]
    BY <1>13 DEF LoadActive, Goto, Read
  <2> QED BY <2>1, <1>0 DEF CallersInv, NoBundle
<1>14. ASSUME NEW t \in Threads, CopyPath(t) PROVE CallersInv'
  <2>1. /\ UNCHANGED <<newest, requested, handled, root, id>> /\ pc[t] \in {"copy"}
        /\ \E l \in {"idle"} : pc' = [pc EXCEPT ![t] = l]
    BY <1>14 DEF CopyPath, Goto, Read
  <2> QED BY <2>1, <1>0 DEF CallersInv, NoBundle
<1>15. ASSUME NEW t \in Threads, SetRotation(t) PROVE CallersInv'
  <2>1. /\ UNCHANGED <<newest, requested, handled, root, id>> /\ pc[t] \in {"idle"}
        /\ \E l \in {"idle", "ensure"} : pc' = [pc EXCEPT ![t] = l]
    BY <1>15, <1>0 DEF SetRotation, Goto, Read
  <2> QED BY <2>1, <1>0 DEF CallersInv, NoBundle
<1>16. ASSUME NEW t \in Threads, EnsureHilbertStore(t) PROVE CallersInv'
  <2>1. UNCHANGED <<newest, requested, handled, root, id>> /\ pc[t] = "ensure"
    BY <1>16 DEF EnsureHilbertStore
  <2>2. \A w \in Workers : \/ w = "builder" \/ pc'[w] = pc[w]
                           \/ w = t /\ pc'[w] = "idle"
    BY <1>16, <1>0 DEF EnsureHilbertStore, Goto
  <2> QED BY <2>1, <2>2, <1>0 DEF CallersInv, NoBundle
<1>17. ASSUME BuilderBegin PROVE CallersInv'
  <2>1. /\ UNCHANGED <<newest, requested, handled, root, id>>
        /\ \E l \in {"aim", "idle"} : pc' = [pc EXCEPT !["builder"] = l]
    BY <1>17 DEF BuilderBegin, Goto, Read
  <2> QED BY <2>1, <1>0 DEF CallersInv, NoBundle
<1>18. ASSUME BuilderAim PROVE CallersInv'
  <2>1. /\ UNCHANGED <<newest, requested, handled, root, id>>
        /\ \E l \in {"offer"} : pc' = [pc EXCEPT !["builder"] = l]
    BY <1>18 DEF BuilderAim, Goto
  <2> QED BY <2>1, <1>0 DEF CallersInv, NoBundle
<1>19. ASSUME BuilderOffer PROVE CallersInv'
  <2>1. /\ UNCHANGED <<newest, requested, handled, root, id>>
        /\ \E l \in {"idle"} : pc' = [pc EXCEPT !["builder"] = l]
    BY <1>19 DEF BuilderOffer, Goto, Read
  <2> QED BY <2>1, <1>0 DEF CallersInv, NoBundle
<1>20. ASSUME \/ AdoptStore \/ CompareStore \/ SwapPending \/ InstallActive \/ Announce
              \/ StoreState \/ Retire \/ UNCHANGED vars
       PROVE  CallersInv'
  <2>1. UNCHANGED <<newest, requested, handled, pc, id, root>>
    BY <1>20 DEF AdoptStore, CompareStore, SwapPending, InstallActive, Announce,
       StoreState, Retire, vars
  <2> QED BY <2>1, <1>0 DEF CallersInv, NoBundle, Maybe
<1> QED BY <1>1, <1>2, <1>3, <1>4, <1>5, <1>6, <1>7, <1>8, <1>9, <1>10, <1>11, <1>12,
      <1>13, <1>14, <1>15, <1>16, <1>17, <1>18, <1>19, <1>20, Steps

LEMMA NextLoader == BundlesInv /\ [Next]_vars => LoaderInv'
<1> SUFFICES ASSUME BundlesInv, [Next]_vars PROVE LoaderInv'  OBVIOUS
<1> USE DEF requests, pointers, heap, hilbert, workers, callbackVars, outsideRequests,
           outsideLoader, outsideTelemetry, outsideHilbert, outsideCallback
<1>0. /\ pc \in [Workers -> Labels] /\ id \in [Workers -> Maybe] /\ newest \in Ids
      /\ requested \in Maybe /\ handled \in Maybe /\ root \in [Ids -> Maybe]
      /\ CallersInv /\ LoaderInv
  BY DEF BundlesInv, Types, RequestTypes, WorkerTypes, HeapTypes, RequestsInv
<1> USE NameFacts
<1>1. ASSUME NEW t \in Threads, Number(t) PROVE LoaderInv'
  <2>1. /\ UNCHANGED <<requested, handled, root>> /\ newest' = newest + 1
        /\ newest < MaxRequests /\ id' = [id EXCEPT ![t] = newest + 1]
        /\ \E l \in {"build", "store"} : pc' = [pc EXCEPT ![t] = l]
    BY <1>1 DEF Number, Goto
  <2>2. newest \in Nat /\ newest + 1 \in Ids /\ requested \in Nat /\ handled \in Nat
        /\ requested <= newest /\ handled <= newest
        /\ \A u \in Threads : id[u] \in Nat
    BY <2>1, <1>0 DEF Ids, Maybe, LoaderInv
  <2>3. root[newest + 1] = NoBundle  BY <2>2, <1>0 DEF LoaderInv
  <2> QED BY <2>1, <2>2, <2>3, <1>0 DEF LoaderInv, NoBundle
<1>2. ASSUME NEW t \in Threads, StoreRequest(t) PROVE LoaderInv'
  <2>1. /\ UNCHANGED <<newest, handled, root>> /\ pc[t] = "store"
        /\ requested' = id[t] /\ id' = [id EXCEPT ![t] = 0]
        /\ pc' = [pc EXCEPT ![t] = "idle"]
    BY <1>2 DEF StoreRequest, Goto
  <2>2. id[t] # 0 /\ id[t] <= newest /\ root[id[t]] = NoBundle
        /\ \A u \in Threads : u # t => id[u] # id[t]
    BY <2>1, <1>0 DEF CallersInv
  <2> QED BY <2>1, <2>2, <1>0 DEF LoaderInv, NoBundle
<1>3. ASSUME NEW w \in Requesters, EnterBuild(w) PROVE LoaderInv'
  <2>1. /\ UNCHANGED <<newest, requested, handled, root, id>> /\ pc[w] \in {"build"}
        /\ \E l \in {"make"} : pc' = [pc EXCEPT ![w] = l]
    BY <1>3 DEF EnterBuild, Goto, Read
  <2> QED BY <2>1, <1>0 DEF LoaderInv, NoBundle
<1>4. ASSUME NEW w \in Requesters, LeaveBuild(w) PROVE LoaderInv'
  <2>1. /\ pc[w] = "make" /\ id[w] \in Ids /\ id[w] <= newest
        /\ UNCHANGED <<newest, requested, handled>>
        /\ id' = [id EXCEPT ![w] = IF w = "loader" THEN id[w] ELSE 0]
    BY <1>4, BuildFacts DEF LeaveBuild
  <2>2. \A b \in Ids : b # id[w] => root'[b] = root[b]
    <3>1. root \in [Ids -> Maybe]  BY DEF BundlesInv, Types, HeapTypes
    <3> QED BY <1>4, <2>1, <3>1, MakeFacts DEF Fresh, Shared, Nothing
  <2>3. \E l \in {"idle", "mark", "check"} :
           pc' = [pc EXCEPT ![w] = l] /\ (w = "loader" <=> l = "check")
    BY <1>4 DEF LeaveBuild, Goto
  <2> QED BY <2>1, <2>2, <2>3, <1>0 DEF CallersInv, LoaderInv, NoBundle
<1>5. ASSUME NEW w \in Requesters, Mark(w) PROVE LoaderInv'
  <2>1. /\ UNCHANGED <<newest, requested, handled, root, id>> /\ pc[w] \in {"mark"}
        /\ \E l \in {"publish"} : pc' = [pc EXCEPT ![w] = l]
    BY <1>5 DEF Mark, Goto
  <2> QED BY <2>1, <1>0 DEF LoaderInv, NoBundle
<1>6. ASSUME NEW w \in Requesters, Publish(w) PROVE LoaderInv'
  <2>1. /\ UNCHANGED <<newest, requested, handled, root, id>> /\ pc[w] \in {"publish"}
        /\ \E l \in {"take", "idle"} : pc' = [pc EXCEPT ![w] = l]
    BY <1>6 DEF Publish, Goto, Hold, Destroy
  <2> QED BY <2>1, <1>0 DEF LoaderInv, NoBundle
<1>7. ASSUME WaitForRequest PROVE LoaderInv'
  <2>1. /\ UNCHANGED <<newest, requested, handled, root, id>> /\ pc["loader"] \in {"idle"}
        /\ \E l \in {"take"} : pc' = [pc EXCEPT !["loader"] = l]
    BY <1>7 DEF WaitForRequest, Goto
  <2> QED BY <2>1, <1>0 DEF LoaderInv, NoBundle
<1>8. ASSUME TakeRequest PROVE LoaderInv'
  BY <1>8, <1>0 DEF TakeRequest, Goto, LoaderInv, NoBundle, Maybe
<1>9. ASSUME CheckNewest PROVE LoaderInv'
  BY <1>9, <1>0 DEF CheckNewest, Goto, Hold, Destroy, LoaderInv, NoBundle, Maybe
<1>10. ASSUME ReportFailure PROVE LoaderInv'
  <2>1. /\ UNCHANGED <<newest, requested, handled, root, id>> /\ pc["loader"] \in {"fail"}
        /\ \E l \in {"take"} : pc' = [pc EXCEPT !["loader"] = l]
    BY <1>10 DEF ReportFailure, Goto
  <2> QED BY <2>1, <1>0 DEF LoaderInv, NoBundle
<1>11. ASSUME NEW t \in Threads, ReclaimRetired(t) PROVE LoaderInv'
  <2>1. /\ UNCHANGED <<newest, requested, handled, root, id>> /\ pc[t] \in {"idle"}
        /\ \E l \in {"reclaim"} : pc' = [pc EXCEPT ![t] = l]
    BY <1>11 DEF ReclaimRetired, Goto
  <2> QED BY <2>1, <1>0 DEF LoaderInv, NoBundle
<1>12. ASSUME NEW t \in Threads, DestroyRetired(t) PROVE LoaderInv'
  <2>1. /\ UNCHANGED <<newest, requested, handled, root, id>> /\ pc[t] \in {"reclaim"}
        /\ \E l \in {"path"} : pc' = [pc EXCEPT ![t] = l]
    BY <1>12 DEF DestroyRetired, Goto, Destroy
  <2> QED BY <2>1, <1>0 DEF LoaderInv, NoBundle
<1>13. ASSUME NEW t \in Threads, LoadActive(t) PROVE LoaderInv'
  <2>1. /\ UNCHANGED <<newest, requested, handled, root, id>> /\ pc[t] \in {"path"}
        /\ \E l \in {"copy"} : pc' = [pc EXCEPT ![t] = l]
    BY <1>13 DEF LoadActive, Goto, Read
  <2> QED BY <2>1, <1>0 DEF LoaderInv, NoBundle
<1>14. ASSUME NEW t \in Threads, CopyPath(t) PROVE LoaderInv'
  <2>1. /\ UNCHANGED <<newest, requested, handled, root, id>> /\ pc[t] \in {"copy"}
        /\ \E l \in {"idle"} : pc' = [pc EXCEPT ![t] = l]
    BY <1>14 DEF CopyPath, Goto, Read
  <2> QED BY <2>1, <1>0 DEF LoaderInv, NoBundle
<1>15. ASSUME NEW t \in Threads, SetRotation(t) PROVE LoaderInv'
  <2>1. /\ UNCHANGED <<newest, requested, handled, root, id>> /\ pc[t] \in {"idle"}
        /\ \E l \in {"idle", "ensure"} : pc' = [pc EXCEPT ![t] = l]
    BY <1>15, <1>0 DEF SetRotation, Goto, Read
  <2> QED BY <2>1, <1>0 DEF LoaderInv, NoBundle
<1>16. ASSUME NEW t \in Threads, EnsureHilbertStore(t) PROVE LoaderInv'
  <2>1. UNCHANGED <<newest, requested, handled, root, id>> /\ pc[t] = "ensure"
    BY <1>16 DEF EnsureHilbertStore
  <2>2. \A w \in Workers : \/ w = "builder" \/ pc'[w] = pc[w]
                           \/ w = t /\ pc'[w] = "idle"
    BY <1>16, <1>0 DEF EnsureHilbertStore, Goto
  <2> QED BY <2>1, <2>2, <1>0 DEF LoaderInv, NoBundle
<1>17. ASSUME BuilderBegin PROVE LoaderInv'
  <2>1. /\ UNCHANGED <<newest, requested, handled, root, id>>
        /\ \E l \in {"aim", "idle"} : pc' = [pc EXCEPT !["builder"] = l]
    BY <1>17 DEF BuilderBegin, Goto, Read
  <2> QED BY <2>1, <1>0 DEF LoaderInv, NoBundle
<1>18. ASSUME BuilderAim PROVE LoaderInv'
  <2>1. /\ UNCHANGED <<newest, requested, handled, root, id>>
        /\ \E l \in {"offer"} : pc' = [pc EXCEPT !["builder"] = l]
    BY <1>18 DEF BuilderAim, Goto
  <2> QED BY <2>1, <1>0 DEF LoaderInv, NoBundle
<1>19. ASSUME BuilderOffer PROVE LoaderInv'
  <2>1. /\ UNCHANGED <<newest, requested, handled, root, id>>
        /\ \E l \in {"idle"} : pc' = [pc EXCEPT !["builder"] = l]
    BY <1>19 DEF BuilderOffer, Goto, Read
  <2> QED BY <2>1, <1>0 DEF LoaderInv, NoBundle
<1>20. ASSUME \/ AdoptStore \/ CompareStore \/ SwapPending \/ InstallActive \/ Announce
              \/ StoreState \/ Retire \/ UNCHANGED vars
       PROVE  LoaderInv'
  <2>1. UNCHANGED <<newest, requested, handled, pc, id, root>>
    BY <1>20 DEF AdoptStore, CompareStore, SwapPending, InstallActive, Announce,
       StoreState, Retire, vars
  <2> QED BY <2>1, <1>0 DEF LoaderInv, NoBundle, Maybe
<1> QED BY <1>1, <1>2, <1>3, <1>4, <1>5, <1>6, <1>7, <1>8, <1>9, <1>10, <1>11, <1>12,
      <1>13, <1>14, <1>15, <1>16, <1>17, <1>18, <1>19, <1>20, Steps

LEMMA NextRequests == BundlesInv /\ [Next]_vars => RequestsInv'
BY NextLabels, NextCallers, NextLoader DEF RequestsInv

LEMMA NextLock == BundlesInv /\ [Next]_vars => LockInv'
<1> SUFFICES ASSUME BundlesInv, [Next]_vars PROVE LockInv'  OBVIOUS
<1> USE DEF requests, pointers, heap, hilbert, workers, callbackVars, outsideRequests,
           outsideLoader, outsideTelemetry, outsideHilbert, outsideCallback
<1>0. /\ pc \in [Workers -> Labels] /\ doomed \in [Workers -> SUBSET Ids]
      /\ LockInv
  BY DEF BundlesInv, Types, WorkerTypes
<1> USE NameFacts
<1>1. ASSUME NEW t \in Threads, Number(t) PROVE LockInv'
  BY <1>1, <1>0 DEF Number, Goto, LockInv
<1>2. ASSUME NEW t \in Threads, StoreRequest(t) PROVE LockInv'
  BY <1>2, <1>0 DEF StoreRequest, Goto, LockInv
<1>3. ASSUME NEW w \in Requesters, EnterBuild(w) PROVE LockInv'
  BY <1>3, <1>0 DEF EnterBuild, Goto, Read, LockInv
<1>4. ASSUME NEW w \in Requesters, LeaveBuild(w) PROVE LockInv'
  <2>1. /\ pc[w] = "make" /\ buildLock' = NoOwner /\ UNCHANGED doomed
        /\ \E l \in {"idle", "mark", "check"} : pc' = [pc EXCEPT ![w] = l]
    BY <1>4 DEF LeaveBuild, Goto
  <2> QED BY <2>1, <1>0 DEF LockInv
<1>5. ASSUME NEW w \in Requesters, Mark(w) PROVE LockInv'
  BY <1>5, <1>0 DEF Mark, Goto, LockInv
<1>6. ASSUME NEW w \in Requesters, Publish(w) PROVE LockInv'
  BY <1>6, <1>0 DEF Publish, Goto, Hold, Destroy, LockInv
<1>7. ASSUME WaitForRequest PROVE LockInv'
  BY <1>7, <1>0 DEF WaitForRequest, Goto, LockInv
<1>8. ASSUME TakeRequest PROVE LockInv'
  BY <1>8, <1>0 DEF TakeRequest, Goto, LockInv
<1>9. ASSUME CheckNewest PROVE LockInv'
  BY <1>9, <1>0 DEF CheckNewest, Goto, Hold, Destroy, LockInv
<1>10. ASSUME ReportFailure PROVE LockInv'
  BY <1>10, <1>0 DEF ReportFailure, Goto, LockInv
<1>11. ASSUME NEW t \in Threads, ReclaimRetired(t) PROVE LockInv'
  BY <1>11, <1>0 DEF ReclaimRetired, Goto, LockInv
<1>12. ASSUME NEW t \in Threads, DestroyRetired(t) PROVE LockInv'
  BY <1>12, <1>0 DEF DestroyRetired, Goto, Destroy, LockInv
<1>13. ASSUME NEW t \in Threads, LoadActive(t) PROVE LockInv'
  BY <1>13, <1>0 DEF LoadActive, Goto, Read, LockInv
<1>14. ASSUME NEW t \in Threads, CopyPath(t) PROVE LockInv'
  BY <1>14, <1>0 DEF CopyPath, Goto, Read, LockInv
<1>15. ASSUME NEW t \in Threads, SetRotation(t) PROVE LockInv'
  BY <1>15, <1>0 DEF SetRotation, Goto, Read, LockInv
<1>16. ASSUME NEW t \in Threads, EnsureHilbertStore(t) PROVE LockInv'
  BY <1>16, <1>0 DEF EnsureHilbertStore, Goto, Read, LockInv
<1>17. ASSUME BuilderBegin PROVE LockInv'
  BY <1>17, <1>0 DEF BuilderBegin, Goto, Read, LockInv
<1>18. ASSUME BuilderAim PROVE LockInv'
  BY <1>18, <1>0 DEF BuilderAim, Goto, LockInv
<1>19. ASSUME BuilderOffer PROVE LockInv'
  BY <1>19, <1>0 DEF BuilderOffer, Goto, Read, LockInv
<1>20. ASSUME \/ AdoptStore \/ CompareStore \/ SwapPending \/ InstallActive \/ Announce
              \/ StoreState \/ Retire \/ UNCHANGED vars
       PROVE  LockInv'
  <2>1. UNCHANGED <<pc, buildLock, doomed>>
    BY <1>20 DEF AdoptStore, CompareStore, SwapPending, InstallActive, Announce,
       StoreState, Retire, vars
  <2> QED BY <2>1, <1>0 DEF LockInv
<1> QED BY <1>1, <1>2, <1>3, <1>4, <1>5, <1>6, <1>7, <1>8, <1>9, <1>10, <1>11, <1>12,
      <1>13, <1>14, <1>15, <1>16, <1>17, <1>18, <1>19, <1>20, Steps

LEMMA NextSlots == BundlesInv /\ [Next]_vars => SlotsInv'
<1> SUFFICES ASSUME BundlesInv, [Next]_vars PROVE SlotsInv'  OBVIOUS
<1> USE DEF requests, pointers, heap, hilbert, workers, callbackVars, outsideRequests,
           outsideLoader, outsideTelemetry, outsideHilbert, outsideCallback
<1>0. /\ pc \in [Workers -> Labels] /\ bundle \in [Workers -> Maybe]
      /\ active \in Maybe /\ next \in Maybe /\ old \in Maybe /\ callback \in Stops
      /\ pending \in Maybe /\ SlotsInv
  BY DEF BundlesInv, Types, WorkerTypes, PointerTypes
<1> USE NameFacts DEF NoBundle
<1>1. ASSUME NEW t \in Threads, Number(t) PROVE SlotsInv'
  BY <1>1, <1>0 DEF Number, Goto, SlotsInv, Stops
<1>2. ASSUME NEW t \in Threads, StoreRequest(t) PROVE SlotsInv'
  BY <1>2, <1>0 DEF StoreRequest, Goto, SlotsInv, Stops
<1>3. ASSUME NEW w \in Requesters, EnterBuild(w) PROVE SlotsInv'
  BY <1>3, <1>0 DEF EnterBuild, Goto, Read, SlotsInv, Stops
<1>4. ASSUME NEW w \in Requesters, LeaveBuild(w) PROVE SlotsInv'
  <2>1. /\ pc[w] = "make" /\ bundle[w] = NoBundle /\ UNCHANGED <<active, next, old, callback>>
    BY <1>4, BuildFacts DEF LeaveBuild
  <2>2. bundle' = [bundle EXCEPT ![w] = bundle'[w]] /\ bundle'[w] \in {id[w], NoBundle}
    BY <1>4, <1>0, MakeFacts DEF Fresh, Shared, Nothing
  <2>3. \E l \in {"idle", "mark", "check"} :
           pc' = [pc EXCEPT ![w] = l] /\ (l = "idle" => bundle'[w] = NoBundle)
    BY <1>4 DEF LeaveBuild, Goto
  <2>4. \A u \in Workers : bundle[u] # NoBundle => bundle[u] # id[w]
    BY <1>4, <2>1, HeldFacts, BuildFacts DEF Held
  <2> QED BY <2>1, <2>2, <2>3, <2>4, <1>0 DEF SlotsInv
<1>5. ASSUME NEW w \in Requesters, Mark(w) PROVE SlotsInv'
  BY <1>5, <1>0 DEF Mark, Goto, SlotsInv, Stops
<1>6. ASSUME NEW w \in Requesters, Publish(w) PROVE SlotsInv'
  BY <1>6, <1>0 DEF Publish, Goto, Hold, Destroy, SlotsInv, Stops
<1>7. ASSUME WaitForRequest PROVE SlotsInv'
  BY <1>7, <1>0 DEF WaitForRequest, Goto, SlotsInv, Stops
<1>8. ASSUME TakeRequest PROVE SlotsInv'
  BY <1>8, <1>0 DEF TakeRequest, Goto, SlotsInv, Stops
<1>9. ASSUME CheckNewest PROVE SlotsInv'
  BY <1>9, <1>0 DEF CheckNewest, Goto, Hold, Destroy, SlotsInv, Stops
<1>10. ASSUME ReportFailure PROVE SlotsInv'
  BY <1>10, <1>0 DEF ReportFailure, Goto, SlotsInv, Stops
<1>11. ASSUME NEW t \in Threads, ReclaimRetired(t) PROVE SlotsInv'
  BY <1>11, <1>0 DEF ReclaimRetired, Goto, SlotsInv, Stops
<1>12. ASSUME NEW t \in Threads, DestroyRetired(t) PROVE SlotsInv'
  BY <1>12, <1>0 DEF DestroyRetired, Goto, Destroy, SlotsInv, Stops
<1>13. ASSUME NEW t \in Threads, LoadActive(t) PROVE SlotsInv'
  BY <1>13, <1>0 DEF LoadActive, Goto, Read, SlotsInv, Stops
<1>14. ASSUME NEW t \in Threads, CopyPath(t) PROVE SlotsInv'
  BY <1>14, <1>0 DEF CopyPath, Goto, Read, SlotsInv, Stops
<1>15. ASSUME NEW t \in Threads, SetRotation(t) PROVE SlotsInv'
  BY <1>15, <1>0 DEF SetRotation, Goto, Read, SlotsInv, Stops
<1>16. ASSUME NEW t \in Threads, EnsureHilbertStore(t) PROVE SlotsInv'
  BY <1>16, <1>0 DEF EnsureHilbertStore, Goto, Read, SlotsInv, Stops
<1>17. ASSUME BuilderBegin PROVE SlotsInv'
  BY <1>17, <1>0 DEF BuilderBegin, Goto, Read, SlotsInv, Stops
<1>18. ASSUME BuilderAim PROVE SlotsInv'
  BY <1>18, <1>0 DEF BuilderAim, Goto, SlotsInv, Stops
<1>19. ASSUME BuilderOffer PROVE SlotsInv'
  BY <1>19, <1>0 DEF BuilderOffer, Goto, Read, SlotsInv, Stops
<1>20. ASSUME AdoptStore PROVE SlotsInv'
  BY <1>20, <1>0 DEF AdoptStore, SlotsInv, Stops
<1>21. ASSUME CompareStore PROVE SlotsInv'
  BY <1>21, <1>0 DEF CompareStore, SlotsInv, Stops
<1>22. ASSUME SwapPending PROVE SlotsInv'
  BY <1>22, <1>0, HeldFacts DEF SwapPending, SlotsInv, Stops
<1>23. ASSUME InstallActive PROVE SlotsInv'
  BY <1>23, <1>0 DEF InstallActive, SlotsInv, Stops
<1>24. ASSUME Announce PROVE SlotsInv'
  BY <1>24, <1>0 DEF Announce, SlotsInv, Stops
<1>25. ASSUME StoreState PROVE SlotsInv'
  BY <1>25, <1>0 DEF StoreState, SlotsInv, Stops
<1>26. ASSUME Retire PROVE SlotsInv'
  BY <1>26, <1>0 DEF Retire, SlotsInv, Stops
<1>27. ASSUME UNCHANGED vars PROVE SlotsInv'
  <2>1. UNCHANGED <<pc, bundle, active, next, old, callback>>
    BY <1>27 DEF vars
  <2> QED BY <2>1, <1>0 DEF SlotsInv, Stops
<1> QED BY <1>1, <1>2, <1>3, <1>4, <1>5, <1>6, <1>7, <1>8, <1>9, <1>10, <1>11, <1>12,
      <1>13, <1>14, <1>15, <1>16, <1>17, <1>18, <1>19, <1>20, <1>21, <1>22, <1>23,
      <1>24, <1>25, <1>26, <1>27, Steps

LEMMA NextPlaces == BundlesInv /\ [Next]_vars => PlacesInv'
<1> SUFFICES ASSUME BundlesInv, [Next]_vars PROVE PlacesInv'  OBVIOUS
<1> USE DEF requests, pointers, heap, hilbert, workers, callbackVars, outsideRequests,
           outsideLoader, outsideTelemetry, outsideHilbert, outsideCallback
<1>0. /\ bundle \in [Workers -> Maybe] /\ doomed \in [Workers -> SUBSET Ids]
      /\ root \in [Ids -> Maybe] /\ retired \subseteq Ids
      /\ LockInv /\ PlacesInv /\ SlotsInv /\ HeapInv
  BY DEF BundlesInv, Types, WorkerTypes, PointerTypes, HeapTypes
<1>a. {"bundle", "doomed", "pending", "active", "old", "next", "retired"} = Kinds
  BY DEF Kinds
<1> USE NameFacts DEF NoBundle
<1>1. ASSUME NEW w \in Requesters, LeaveBuild(w) PROVE PlacesInv'
  <2>1. /\ id[w] \in Ids /\ root[id[w]] = NoBundle /\ bundle[w] = NoBundle /\ w \in Workers
        /\ UNCHANGED <<doomed, pending, active, old, next, callback, retired, destroyed>>
    BY <1>1, BuildFacts DEF LeaveBuild
  <2>2. CASE Nothing(w)
    <3>1. bundle' = bundle /\ UNCHANGED root  BY <2>1, <2>2, <1>0 DEF Nothing
    <3> QED BY <2>1, <3>1, <1>0 DEF PlacesInv, In, Held
  <2>3. CASE Fresh(w) \/ Shared(w)
    <3>1. /\ bundle' = [bundle EXCEPT ![w] = id[w]]
          /\ \E r \in Ids : root' = [root EXCEPT ![id[w]] = r]
      BY <2>1, <2>3 DEF Fresh, Shared
    <3>2. ~Held(id[w]) /\ id[w] \notin destroyed  BY <2>1, <1>0 DEF Held, HeapInv
    <3>3. \A b \in Ids, k \in Kinds :
             In(b, k)' <=> In(b, k) \/ (b = id[w] /\ k = "bundle")
      BY <2>1, <3>1, <1>0 DEF In
    <3>4. \A b \in Ids : Held(b)' <=> Held(b) \/ b = id[w]
      BY <2>1, <3>1, <3>2, <1>0 DEF Held
    <3> QED BY SMTT(30), <2>1, <3>2, <3>3, <3>4, <1>0, <1>a DEF PlacesInv
  <2> QED BY <1>1, <2>2, <2>3, MakeFacts
<1>2. ASSUME NEW w \in Requesters, Publish(w) PROVE PlacesInv'
  <2>1. /\ UNCHANGED <<doomed, active, old, next, callback, retired, root>>
        /\ pending' = bundle[w] /\ bundle' = [bundle EXCEPT ![w] = NoBundle]
        /\ destroyed' = destroyed \cup ({pending} \ {NoBundle})
    BY <1>2 DEF Publish, Hold, Destroy
  <2>2. \A b \in Ids, k \in Kinds :
           In(b, k)' <=> \/ In(b, k) /\ k \notin {"bundle", "pending"}
                         \/ In(b, k) /\ k = "bundle" /\ b # bundle[w]
                         \/ b = bundle[w] /\ k = "pending"
    BY <2>1, <1>0 DEF In, SlotsInv
  <2>3. \A b \in Ids : Held(b)' <=> Held(b) /\ b # pending
    BY <2>1 DEF Held
  <2>4. In(pending, "pending") /\ In(bundle[w], "bundle")  BY DEF In
  <2>5. \A b \in Ids : In(b, "pending") => b = pending  BY DEF In
  <2> QED BY <2>2, <2>3, <2>4, <2>5, <1>0, <1>a DEF PlacesInv
<1>3. ASSUME CheckNewest PROVE PlacesInv'
  <2>1. CASE newest # id["loader"]
    <3>1. /\ UNCHANGED <<doomed, pending, active, old, next, callback, retired, root>>
          /\ bundle' = [bundle EXCEPT !["loader"] = NoBundle]
          /\ destroyed' = destroyed \cup ({bundle["loader"]} \ {NoBundle})
      BY <1>3, <2>1 DEF CheckNewest, Hold, Destroy
    <3>2. \A b \in Ids, k \in Kinds :
             In(b, k)' <=> In(b, k) /\ ~(b = bundle["loader"] /\ k = "bundle")
      BY <3>1, <1>0 DEF In, SlotsInv
    <3>3. \A b \in Ids : Held(b)' <=> Held(b) /\ b # bundle["loader"]
      BY <3>1 DEF Held
    <3>4. In(bundle["loader"], "bundle")  BY DEF In
    <3> QED BY <3>2, <3>3, <3>4, <1>0, <1>a DEF PlacesInv
  <2>2. CASE newest = id["loader"]
    <3>1. UNCHANGED <<doomed, pending, active, old, next, callback, retired, root, bundle,
                      destroyed>>
      BY <1>3, <2>2 DEF CheckNewest
    <3> QED BY <3>1, <1>0 DEF PlacesInv, In, Held
  <2> QED BY <2>1, <2>2
<1>4. ASSUME NEW t \in Threads, ReclaimRetired(t) PROVE PlacesInv'
  <2>1. /\ UNCHANGED <<bundle, pending, active, old, next, callback, root, destroyed>>
        /\ doomed' = [doomed EXCEPT ![t] = retired] /\ retired' = {} /\ doomed[t] = {}
    BY <1>4, <1>0 DEF ReclaimRetired, LockInv
  <2>2. \A b \in Ids, k \in Kinds :
           In(b, k)' <=> \/ In(b, k) /\ k # "retired"
                         \/ In(b, "retired") /\ k = "doomed"
    BY <2>1, <1>0 DEF In
  <2>3. \A b \in Ids : Held(b)' <=> Held(b)  BY <2>1 DEF Held
  <2> QED BY <2>2, <2>3, <1>0, <1>a DEF PlacesInv
<1>5. ASSUME NEW t \in Threads, DestroyRetired(t) PROVE PlacesInv'
  <2>1. /\ UNCHANGED <<bundle, pending, active, old, next, callback, root, retired>>
        /\ doomed' = [doomed EXCEPT ![t] = {}] /\ pc[t] = "reclaim"
        /\ destroyed' = destroyed \cup (doomed[t] \ {NoBundle})
    BY <1>5 DEF DestroyRetired, Destroy
  <2>2. \A w \in Workers : w # t => doomed[w] = {}
    BY <2>1, <1>0 DEF LockInv
  <2>3. \A b \in Ids, k \in Kinds : In(b, k)' <=> In(b, k) /\ k # "doomed"
    BY <2>1, <2>2, <1>0 DEF In
  <2>4. \A b \in Ids : In(b, "doomed") <=> b \in doomed[t]  BY <2>2 DEF In
  <2>5. \A b \in Ids : Held(b)' <=> Held(b) /\ b \notin doomed[t]
    BY <2>1 DEF Held
  <2> QED BY <2>3, <2>4, <2>5, <1>0, <1>a DEF PlacesInv
<1>6. ASSUME AdoptStore PROVE PlacesInv'
  <2>1. UNCHANGED <<bundle, doomed, root, destroyed>>  BY <1>6 DEF AdoptStore
  <2>2. \A b \in Ids, k \in Kinds :
           In(b, k)' <=> In(b, k)
    BY <1>6, <2>1, <1>0 DEF AdoptStore, In, SlotsInv
  <2>3. \A b \in Ids : Held(b)' <=> Held(b)  BY <2>1 DEF Held
  <2> QED BY <2>2, <2>3, <1>0, <1>a DEF PlacesInv
<1>7. ASSUME CompareStore PROVE PlacesInv'
  <2>1. UNCHANGED <<bundle, doomed, root, destroyed>>  BY <1>7 DEF CompareStore
  <2>2. \A b \in Ids, k \in Kinds :
           In(b, k)' <=> In(b, k)
    BY <1>7, <2>1, <1>0 DEF CompareStore, In, SlotsInv
  <2>3. \A b \in Ids : Held(b)' <=> Held(b)  BY <2>1 DEF Held
  <2> QED BY <2>2, <2>3, <1>0, <1>a DEF PlacesInv
<1>8. ASSUME SwapPending PROVE PlacesInv'
  <2>1. UNCHANGED <<bundle, doomed, root, destroyed>>  BY <1>8 DEF SwapPending
  <2>2. \A b \in Ids, k \in Kinds :
           In(b, k)' <=> \/ In(b, k) /\ k # "pending"
                         \/ In(b, "pending") /\ k = "next"
    BY <1>8, <2>1, <1>0 DEF SwapPending, In, SlotsInv
  <2>3. \A b \in Ids : Held(b)' <=> Held(b)  BY <2>1 DEF Held
  <2>4. \A b \in Ids : (\E k \in Kinds : In(b, k)') <=> \E k \in Kinds : In(b, k)
    BY <2>2 DEF Kinds
  <2>5. ASSUME NEW b \in Ids, NEW k \in Kinds, NEW l \in Kinds, In(b, k)', In(b, l)'
        PROVE  k = l
    <3>1. ~In(b, "next")  BY <1>8, <2>1, <1>0 DEF SwapPending, In, SlotsInv, Ids, NoBundle
    <3> QED BY <3>1, <2>2, <2>5, <1>0 DEF PlacesInv, Kinds
  <2> QED BY <2>3, <2>4, <2>5, <1>0 DEF PlacesInv
<1>9. ASSUME InstallActive PROVE PlacesInv'
  <2>1. UNCHANGED <<bundle, doomed, root, destroyed>>  BY <1>9 DEF InstallActive
  <2>2. \A b \in Ids, k \in Kinds :
           In(b, k)' <=> \/ In(b, k) /\ k \notin {"active", "next"}
                         \/ In(b, "next") /\ k = "active"
                         \/ In(b, "active") /\ k = "old"
    BY <1>9, <2>1, <1>0 DEF InstallActive, In, SlotsInv
  <2>3. \A b \in Ids : Held(b)' <=> Held(b)  BY <2>1 DEF Held
  <2>4. \A b \in Ids : ~In(b, "old")
    BY <1>9, <1>0 DEF InstallActive, In, SlotsInv, Ids, NoBundle
  <2>5. ASSUME NEW b \in Ids
        PROVE  (\E k \in Kinds : In(b, k)') <=> \E k \in Kinds : In(b, k)
    BY <2>2, <2>4 DEF Kinds
  <2>6. ASSUME NEW b \in Ids, NEW k \in Kinds, NEW l \in Kinds, In(b, k)', In(b, l)'
        PROVE  k = l
    BY <2>2, <2>4, <2>6, <1>0 DEF PlacesInv, Kinds
  <2> QED BY <2>3, <2>5, <2>6, <1>0 DEF PlacesInv
<1>10. ASSUME Announce PROVE PlacesInv'
  <2>1. UNCHANGED <<bundle, doomed, root, destroyed>>  BY <1>10 DEF Announce
  <2>2. \A b \in Ids, k \in Kinds :
           In(b, k)' <=> In(b, k)
    BY <1>10, <2>1, <1>0 DEF Announce, In, SlotsInv
  <2>3. \A b \in Ids : Held(b)' <=> Held(b)  BY <2>1 DEF Held
  <2> QED BY <2>2, <2>3, <1>0, <1>a DEF PlacesInv
<1>11. ASSUME StoreState PROVE PlacesInv'
  <2>1. UNCHANGED <<bundle, doomed, root, destroyed>>  BY <1>11 DEF StoreState
  <2>2. \A b \in Ids, k \in Kinds :
           In(b, k)' <=> In(b, k)
    BY <1>11, <2>1, <1>0 DEF StoreState, In, SlotsInv
  <2>3. \A b \in Ids : Held(b)' <=> Held(b)  BY <2>1 DEF Held
  <2> QED BY <2>2, <2>3, <1>0, <1>a DEF PlacesInv
<1>12. ASSUME Retire PROVE PlacesInv'
  <2>1. UNCHANGED <<bundle, doomed, root, destroyed>>  BY <1>12 DEF Retire
  <2>2. \A b \in Ids, k \in Kinds :
           In(b, k)' <=> \/ In(b, k) /\ k # "old"
                         \/ In(b, "old") /\ k = "retired"
    BY <1>12, <2>1, <1>0 DEF Retire, In, SlotsInv
  <2>3. \A b \in Ids : Held(b)' <=> Held(b)  BY <2>1 DEF Held
  <2> QED BY <2>2, <2>3, <1>0, <1>a DEF PlacesInv
<1>13. ASSUME \/ WaitForRequest \/ TakeRequest \/ ReportFailure \/ BuilderBegin
              \/ BuilderAim \/ BuilderOffer \/ UNCHANGED vars
       PROVE  PlacesInv'
  <2>1. UNCHANGED <<bundle, doomed, pending, active, old, next, callback, retired, root, destroyed>>
    BY <1>13 DEF WaitForRequest, TakeRequest, ReportFailure, BuilderBegin, BuilderAim,
       BuilderOffer, vars
  <2> QED BY <2>1, <1>0 DEF PlacesInv, In, Held
<1>14. ASSUME NEW t \in Threads,
              \/ Number(t) \/ StoreRequest(t) \/ LoadActive(t) \/ CopyPath(t)
              \/ SetRotation(t) \/ EnsureHilbertStore(t)
       PROVE  PlacesInv'
  <2>1. UNCHANGED <<bundle, doomed, pending, active, old, next, callback, retired, root, destroyed>>
    BY <1>14 DEF Number, StoreRequest, LoadActive, CopyPath, SetRotation,
       EnsureHilbertStore
  <2> QED BY <2>1, <1>0 DEF PlacesInv, In, Held
<1>15. ASSUME NEW w \in Requesters,
              \/ EnterBuild(w) \/ Mark(w)
       PROVE  PlacesInv'
  <2>1. UNCHANGED <<bundle, doomed, pending, active, old, next, callback, retired, root, destroyed>>
    BY <1>15 DEF EnterBuild, Mark
  <2> QED BY <2>1, <1>0 DEF PlacesInv, In, Held
<1> QED BY <1>1, <1>2, <1>3, <1>4, <1>5, <1>6, <1>7, <1>8, <1>9, <1>10, <1>11, <1>12,
      <1>13, <1>14, <1>15, Steps

\* Destroying bundles that are held keeps the count of references.
LEMMA DestroyKeepsHeap ==
    ASSUME HeapTypes, HeapInv, NEW B, Destroy(B), UNCHANGED <<plain, root>>,
           \A b \in B : b # NoBundle => b \in Ids /\ Held(b)
    PROVE  HeapInv'
<1>1. /\ destroyed' = destroyed \cup (B \ {NoBundle})
      /\ \A r \in Ids : refs'[r] = Cardinality(Users(r) \ B)
  BY DestroyFacts
<1>2. \A r \in Ids : Users(r)' = Users(r) \ B
  BY <1>1, NameFacts DEF Users, NoBundle
<1>3. \A b \in destroyed' : root[b] # NoBundle
  BY <1>1 DEF HeapInv, Held
<1> QED BY <1>1, <1>2, <1>3 DEF HeapInv

LEMMA UsersAreFinite == \A r \in Ids : IsFiniteSet(Users(r))
<1>1. IsFiniteSet(Ids)  BY FS_Interval, NameFacts DEF Ids
<1>2. \A r \in Ids : Users(r) \in SUBSET Ids  BY DEF Users
<1> QED BY <1>1, <1>2, FS_Subset

LEMMA NextHeap == BundlesInv /\ [Next]_vars => HeapInv'
<1> SUFFICES ASSUME BundlesInv, [Next]_vars PROVE HeapInv'  OBVIOUS
<1> USE DEF requests, pointers, heap, hilbert, workers, callbackVars, outsideRequests,
           outsideLoader, outsideTelemetry, outsideHilbert, outsideCallback
<1>0. HeapTypes /\ HeapInv  BY DEF BundlesInv, Types
<1>1. ASSUME NEW w \in Requesters, LeaveBuild(w) PROVE HeapInv'
  <2>0. PICK n \in Ids : n = id[w]  BY <1>1, BuildFacts DEF LeaveBuild
  <2>1. root[n] = NoBundle /\ destroyed' = destroyed
    BY <1>1, <2>0, BuildFacts DEF LeaveBuild
  <2>2. \A b \in Ids : root[b] # n  BY <2>1, <1>0, NameFacts DEF HeapInv, HeapTypes, NoBundle
  <2>3. n \notin destroyed  BY <2>1, <1>0 DEF HeapInv
  <2>4. CASE Nothing(w)
    <3>1. UNCHANGED <<plain, root, refs>>  BY <2>4 DEF Nothing
    <3> QED BY <2>1, <3>1, <1>0 DEF HeapInv, Users
  <2>5. CASE Fresh(w)
    <3>1. /\ \E isPlain \in BOOLEAN : plain' = [plain EXCEPT ![n] = isPlain]
          /\ root' = [root EXCEPT ![n] = n] /\ refs' = [refs EXCEPT ![n] = 1]
      BY <2>0, <2>5 DEF Fresh
    <3>2. /\ root'[n] = n /\ \A b \in Ids : b # n => root'[b] = root[b]
          /\ refs'[n] = 1 /\ \A b \in Ids : b # n => refs'[b] = refs[b]
          /\ \A b \in Ids : b # n => plain'[b] = plain[b]
      BY <2>1, <3>1, <1>0 DEF HeapTypes
    <3>3. Users(n)' = {n}  BY <2>1, <2>2, <2>3, <3>2 DEF Users
    <3>4. \A r \in Ids : r # n => Users(r)' = Users(r)
      BY <2>1, <3>2, NameFacts DEF Users, NoBundle
    <3>7. refs'[n] = Cardinality(Users(n)')  BY <3>2, <3>3, FS_Singleton
    <3>8. \A r \in Ids : r # n => refs'[r] = Cardinality(Users(r)')
      BY <3>2, <3>4, <1>0 DEF HeapInv
    <3>5. \A r \in Ids : refs'[r] = Cardinality(Users(r)')  BY <3>7, <3>8
    <3>6. /\ \A b \in Ids : root'[b] # NoBundle => root'[root'[b]] # NoBundle
          /\ \A b \in Ids : plain'[b] /\ root'[b] # NoBundle => root'[b] = b
          /\ \A b \in destroyed' : root'[b] # NoBundle
      BY <2>1, <2>2, <3>2, <1>0, NameFacts DEF HeapInv, HeapTypes, NoBundle
    <3> QED BY <3>5, <3>6 DEF HeapInv
  <2>6. CASE Shared(w)
    <3>1. PICK r \in Ids : /\ root[r] # NoBundle
                           /\ plain' = [plain EXCEPT ![n] = FALSE]
                           /\ root' = [root EXCEPT ![n] = r]
                           /\ refs' = [refs EXCEPT ![r] = refs[r] + 1]
      BY <2>0, <2>6, <1>0 DEF Shared, Held, HeapInv
    <3>2. /\ root'[n] = r /\ \A b \in Ids : b # n => root'[b] = root[b]
          /\ refs'[r] = refs[r] + 1 /\ \A b \in Ids : b # r => refs'[b] = refs[b]
          /\ ~plain'[n] /\ \A b \in Ids : b # n => plain'[b] = plain[b]
          /\ r # n
      BY <2>1, <3>1, <1>0 DEF HeapTypes
    <3>3. Users(r)' = Users(r) \cup {n} /\ n \notin Users(r)
      BY <2>1, <2>3, <3>2, NameFacts DEF Users, NoBundle
    <3>4. \A q \in Ids : q # r => Users(q)' = Users(q)
      BY <2>1, <3>2, NameFacts DEF Users, NoBundle
    <3>5. Cardinality(Users(r)') = Cardinality(Users(r)) + 1
      BY <3>3, UsersAreFinite, FS_AddElement
    <3>6. \A q \in Ids : refs'[q] = Cardinality(Users(q)')
      BY <3>2, <3>4, <3>5, <1>0 DEF HeapInv
    <3>7. /\ \A b \in Ids : root'[b] # NoBundle => root'[root'[b]] # NoBundle
          /\ \A b \in Ids : plain'[b] /\ root'[b] # NoBundle => root'[b] = b
          /\ \A b \in destroyed' : root'[b] # NoBundle
      BY <2>1, <2>2, <3>1, <3>2, <1>0, NameFacts DEF HeapInv, HeapTypes, NoBundle
    <3> QED BY <3>6, <3>7 DEF HeapInv
  <2> QED BY <1>1, <2>4, <2>5, <2>6, MakeFacts
<1>2. ASSUME NEW w \in Requesters, Publish(w) PROVE HeapInv'
  <2>1. UNCHANGED <<plain, root>> /\ Destroy({pending})  BY <1>2 DEF Publish
  <2> QED BY <2>1, <1>0, HeldFacts, DestroyKeepsHeap
<1>3. ASSUME CheckNewest PROVE HeapInv'
  <2>1. CASE newest # id["loader"]
    <3>1. UNCHANGED <<plain, root>> /\ Destroy({bundle["loader"]})
      BY <1>3, <2>1 DEF CheckNewest
    <3> QED BY <3>1, <1>0, NameFacts, HeldFacts, DestroyKeepsHeap
  <2>2. CASE newest = id["loader"]
    <3>1. UNCHANGED <<plain, root, refs, destroyed>>  BY <1>3, <2>2 DEF CheckNewest
    <3> QED BY <3>1, <1>0 DEF HeapInv, Users
  <2> QED BY <2>1, <2>2
<1>4. ASSUME NEW t \in Threads, DestroyRetired(t) PROVE HeapInv'
  <2>1. UNCHANGED <<plain, root>> /\ Destroy(doomed[t])  BY <1>4 DEF DestroyRetired
  <2> QED BY <2>1, <1>0, NameFacts, HeldFacts, DestroyKeepsHeap
<1>5. ASSUME \/ WaitForRequest \/ TakeRequest \/ ReportFailure \/ BuilderBegin
             \/ BuilderAim \/ BuilderOffer \/ AdoptStore \/ CompareStore \/ SwapPending
             \/ InstallActive \/ Announce \/ StoreState \/ Retire \/ UNCHANGED vars
      PROVE  HeapInv'
  <2>1. UNCHANGED <<plain, root, refs, destroyed>>
    BY <1>5 DEF WaitForRequest, TakeRequest, ReportFailure, BuilderBegin, BuilderAim,
       BuilderOffer, AdoptStore, CompareStore, SwapPending, InstallActive, Announce,
       StoreState, Retire, vars
  <2> QED BY <2>1, <1>0 DEF HeapInv, Users
<1>6. ASSUME NEW t \in Threads,
             \/ Number(t) \/ StoreRequest(t) \/ ReclaimRetired(t) \/ LoadActive(t)
             \/ CopyPath(t) \/ SetRotation(t) \/ EnsureHilbertStore(t)
      PROVE  HeapInv'
  <2>1. UNCHANGED <<plain, root, refs, destroyed>>
    BY <1>6 DEF Number, StoreRequest, ReclaimRetired, LoadActive, CopyPath, SetRotation,
       EnsureHilbertStore
  <2> QED BY <2>1, <1>0 DEF HeapInv, Users
<1>7. ASSUME NEW w \in Requesters,
             \/ EnterBuild(w) \/ Mark(w)
      PROVE  HeapInv'
  <2>1. UNCHANGED <<plain, root, refs, destroyed>>
    BY <1>7 DEF EnterBuild, Mark
  <2> QED BY <2>1, <1>0 DEF HeapInv, Users
<1> QED BY <1>1, <1>2, <1>3, <1>4, <1>5, <1>6, <1>7, Steps

LEMMA NextLockedReads == BundlesInv /\ [Next]_vars => LockedReadsInv'
<1> SUFFICES ASSUME BundlesInv, [Next]_vars PROVE LockedReadsInv'  OBVIOUS
<1> USE DEF requests, pointers, heap, hilbert, workers, callbackVars, outsideRequests,
           outsideLoader, outsideTelemetry, outsideHilbert, outsideCallback
<1>0. /\ pc \in [Workers -> Labels] /\ reading \in [Workers -> Maybe]
      /\ LockInv /\ LockedReadsInv
  BY DEF BundlesInv, Types, WorkerTypes
<1> USE NameFacts DEF NoBundle
<1>1. ASSUME NEW t \in Threads, Number(t) PROVE LockedReadsInv'
  BY <1>1, <1>0 DEF Number, Goto, LockedReadsInv, LockInv, Standing
<1>2. ASSUME NEW t \in Threads, StoreRequest(t) PROVE LockedReadsInv'
  BY <1>2, <1>0 DEF StoreRequest, Goto, LockedReadsInv, LockInv, Standing
<1>3. ASSUME NEW w \in Requesters, EnterBuild(w) PROVE LockedReadsInv'
  BY <1>3, <1>0 DEF EnterBuild, Goto, Read, LockedReadsInv, LockInv, Standing
<1>4. ASSUME NEW w \in Requesters, LeaveBuild(w) PROVE LockedReadsInv'
  <2>1. /\ pc[w] = "make" /\ buildLock' = NoOwner /\ UNCHANGED <<active, old, retired>>
        /\ reading' = [reading EXCEPT ![w] = NoBundle]
        /\ \E l \in {"idle", "mark", "check"} : pc' = [pc EXCEPT ![w] = l]
    BY <1>4 DEF LeaveBuild, Goto, Read
  <2> QED BY <2>1, <1>0 DEF LockedReadsInv
<1>5. ASSUME NEW w \in Requesters, Mark(w) PROVE LockedReadsInv'
  BY <1>5, <1>0 DEF Mark, Goto, LockedReadsInv, LockInv, Standing
<1>6. ASSUME NEW w \in Requesters, Publish(w) PROVE LockedReadsInv'
  BY <1>6, <1>0 DEF Publish, Goto, Hold, Destroy, LockedReadsInv, LockInv, Standing
<1>7. ASSUME WaitForRequest PROVE LockedReadsInv'
  BY <1>7, <1>0 DEF WaitForRequest, Goto, LockedReadsInv, LockInv, Standing
<1>8. ASSUME TakeRequest PROVE LockedReadsInv'
  BY <1>8, <1>0 DEF TakeRequest, Goto, LockedReadsInv, LockInv, Standing
<1>9. ASSUME CheckNewest PROVE LockedReadsInv'
  BY <1>9, <1>0 DEF CheckNewest, Goto, Hold, Destroy, LockedReadsInv, LockInv, Standing
<1>10. ASSUME ReportFailure PROVE LockedReadsInv'
  BY <1>10, <1>0 DEF ReportFailure, Goto, LockedReadsInv, LockInv, Standing
<1>11. ASSUME NEW t \in Threads, ReclaimRetired(t) PROVE LockedReadsInv'
  BY <1>11, <1>0 DEF ReclaimRetired, Goto, LockedReadsInv, LockInv, Standing
<1>12. ASSUME NEW t \in Threads, DestroyRetired(t) PROVE LockedReadsInv'
  BY <1>12, <1>0 DEF DestroyRetired, Goto, Destroy, LockedReadsInv, LockInv, Standing
<1>13. ASSUME NEW t \in Threads, LoadActive(t) PROVE LockedReadsInv'
  BY <1>13, <1>0 DEF LoadActive, Goto, Read, LockedReadsInv, LockInv, Standing
<1>14. ASSUME NEW t \in Threads, CopyPath(t) PROVE LockedReadsInv'
  BY <1>14, <1>0 DEF CopyPath, Goto, Read, LockedReadsInv, LockInv, Standing
<1>15. ASSUME NEW t \in Threads, SetRotation(t) PROVE LockedReadsInv'
  BY <1>15, <1>0 DEF SetRotation, Goto, Read, LockedReadsInv, LockInv, Standing
<1>16. ASSUME NEW t \in Threads, EnsureHilbertStore(t) PROVE LockedReadsInv'
  BY <1>16, <1>0 DEF EnsureHilbertStore, Goto, Read, LockedReadsInv, LockInv, Standing
<1>17. ASSUME BuilderBegin PROVE LockedReadsInv'
  BY <1>17, <1>0 DEF BuilderBegin, Goto, Read, LockedReadsInv, LockInv, Standing
<1>18. ASSUME BuilderAim PROVE LockedReadsInv'
  BY <1>18, <1>0 DEF BuilderAim, Goto, LockedReadsInv, LockInv, Standing
<1>19. ASSUME BuilderOffer PROVE LockedReadsInv'
  BY <1>19, <1>0 DEF BuilderOffer, Goto, Read, LockedReadsInv, LockInv, Standing
<1>20. ASSUME InstallActive PROVE LockedReadsInv'
  BY <1>20, <1>0 DEF InstallActive, LockedReadsInv, LockInv, Standing, SlotsInv,
     BundlesInv
<1>21. ASSUME Retire PROVE LockedReadsInv'
  BY <1>21, <1>0 DEF Retire, LockedReadsInv, LockInv, Standing, SlotsInv
<1>22. ASSUME \/ AdoptStore \/ CompareStore \/ SwapPending \/ Announce \/ StoreState
              \/ UNCHANGED vars
       PROVE  LockedReadsInv'
  <2>1. UNCHANGED <<pc, reading, buildLock, active, old, retired>>
    BY <1>22 DEF AdoptStore, CompareStore, SwapPending, Announce, StoreState, vars
  <2> QED BY <2>1, <1>0 DEF LockedReadsInv, LockInv, Standing
<1> QED BY <1>1, <1>2, <1>3, <1>4, <1>5, <1>6, <1>7, <1>8, <1>9, <1>10, <1>11, <1>12,
      <1>13, <1>14, <1>15, <1>16, <1>17, <1>18, <1>19, <1>20, <1>21, <1>22, Steps

LEMMA NextBundles == BundlesInv /\ [Next]_vars => BundlesInv'
BY NextTypes, NextRequests, NextLock, NextPlaces, NextSlots, NextHeap, NextLockedReads
   DEF BundlesInv

-----------------------------------------------------------------------------
(* The bundles.                                                            *)

LEMMA InitBundles == Init => BundlesInv
<1> SUFFICES ASSUME Init PROVE BundlesInv  OBVIOUS
<1> USE NameFacts DEF NoBundle
<1>a. PICK start \in Starts :
        /\ newest = start.request /\ activatedId = start.request
        /\ active = start.request
        /\ plain = [b \in Ids |-> b = start.request]
        /\ root = [b \in Ids |-> IF b = start.request THEN b ELSE NoBundle]
        /\ refs = [b \in Ids |-> IF b = start.request THEN 1 ELSE 0]
        /\ builds = start.builds
        /\ pc = [w \in Workers |->
                    IF w \in Threads \ start.callers THEN "away" ELSE "idle"]
  BY DEF Init
<1>b. start.request \in Ids /\ start.builds \in 0 .. MaxBuilds
  BY StartsAssumption
<1> DEFINE n == start.request
<1>1. n \in Ids /\ n \in Nat /\ n > 0 /\ MaxBuilds \in Nat
  BY <1>b, RequestsAssumption DEF Ids
<1>c. /\ newest = n /\ activatedId = n /\ active = n
      /\ plain = [b \in Ids |-> b = n] /\ root = [b \in Ids |-> IF b = n THEN b ELSE 0]
      /\ refs = [b \in Ids |-> IF b = n THEN 1 ELSE 0] /\ builds \in 0 .. MaxBuilds
      /\ pc \in [Workers -> {"away", "idle"}] /\ pc["loader"] = "idle"
      /\ pc["builder"] = "idle"
  BY <1>a, <1>b
<1> HIDE DEF n
<1>2. Types
  <2>1. n \in Maybe /\ 0 \in Maybe  BY <1>1 DEF Maybe
  <2>6. loadEvent \in BOOLEAN /\ rotation \in BOOLEAN  BY DEF Init
  <2>7. loadState = 0 /\ requested = 0 /\ handled = 0  BY DEF Init
  <2>8. pending = 0 /\ next = 0 /\ old = 0 /\ retired = {} /\ callback = "adopt"
    BY DEF Init
  <2>9. pendingStore = 0 /\ pendingFor = 0 /\ taken = 0  BY DEF Init
  <2>2. RequestTypes /\ PointerTypes
    BY <1>1, <1>c, <2>1, <2>6, <2>7, <2>8 DEF RequestTypes, PointerTypes, Stops
  <2>3. HeapTypes  BY <1>1, <1>c, <2>1 DEF Init, HeapTypes
  <2>4. StoreTypes  BY <1>1, <1>c, <2>1, <2>6, <2>9 DEF StoreTypes
  <2>5. WorkerTypes  BY <1>c, <2>1 DEF Init, WorkerTypes, Labels
  <2> QED BY <2>2, <2>3, <2>4, <2>5 DEF Types
<1>3. RequestsInv
  <2>1. /\ requested = 0 /\ handled = 0 /\ id = [w \in Workers |-> 0]
    BY DEF Init
  <2>2. LabelsInv  BY <1>c DEF LabelsInv, LoaderLabels, BuilderLabels, CallerLabels
  <2>3. CallersInv  BY <1>c, <2>1 DEF CallersInv
  <2>4. LoaderInv  BY <1>1, <1>c, <2>1 DEF LoaderInv, Ids
  <2> QED BY <2>2, <2>3, <2>4 DEF RequestsInv
<1>4. LockInv  BY <1>c DEF Init, LockInv
<1>5. \A b \in Ids : Held(b) <=> b = n  BY <1>1, <1>c DEF Init, Held
<1>6. \A b \in Ids, k \in Kinds : In(b, k) <=> b = n /\ k = "active"
  BY <1>1, <1>c DEF Init, In, Kinds
<1>7. PlacesInv  BY <1>5, <1>6 DEF PlacesInv, Kinds
<1>8. SlotsInv  BY <1>1, <1>c DEF Init, SlotsInv
<1>9. HeapInv
  <2>1. Users(n) = {n} /\ \A r \in Ids : r # n => Users(r) = {}
    BY <1>1, <1>c DEF Init, Users
  <2>2. \A r \in Ids : refs[r] = Cardinality(Users(r))
    <3>1. refs[n] = Cardinality(Users(n))  BY <1>1, <1>c, <2>1, FS_Singleton
    <3>2. \A r \in Ids : r # n => refs[r] = Cardinality(Users(r))
      BY <1>c, <2>1, FS_EmptySet
    <3> QED BY <3>1, <3>2
  <2> QED BY <1>1, <1>c, <2>2 DEF Init, HeapInv
<1>10. LockedReadsInv  BY <1>c DEF Init, LockedReadsInv
<1> QED BY <1>2, <1>3, <1>4, <1>7, <1>8, <1>9, <1>10 DEF BundlesInv

\* Bundles are made once, are in one place each, and count as references while
\* they are not destroyed.
THEOREM Invariant == Spec => []BundlesInv
<1>1. Init => BundlesInv  BY InitBundles
<1>2. BundlesInv /\ [Next]_vars => BundlesInv'  BY NextBundles
<1> QED BY <1>1, <1>2, PTL DEF Spec

\* Every variable has its type.
THEOREM TypeCorrect == Spec => []TypeOK
<1>1. BundlesInv => TypeOK
  <2> SUFFICES ASSUME BundlesInv PROVE TypeOK  OBVIOUS
  <2>1. Maybe = 0 .. MaxRequests /\ Ids \subseteq Nat
    BY NameFacts, RequestsAssumption DEF Maybe, Ids, NoBundle
  <2>2. RequestTypes /\ PointerTypes /\ StoreTypes  BY DEF BundlesInv, Types
  <2>3. HeapTypes /\ WorkerTypes  BY DEF BundlesInv, Types
  <2>4. /\ newest \in Ids /\ activatedId \in Ids /\ loadState \in 0 .. 4
        /\ {loadEvent, rotation} \subseteq BOOLEAN
        /\ retired \subseteq Ids /\ builds \in 0 .. MaxBuilds /\ callback \in Stops
    BY <2>2 DEF RequestTypes, PointerTypes, StoreTypes
  <2>5. {requested, handled, active, pending, pendingStore, pendingFor, next, old, taken}
          \subseteq 0 .. MaxRequests
    BY <2>1, <2>2 DEF RequestTypes, PointerTypes, StoreTypes
  <2>6. /\ destroyed \subseteq Ids /\ plain \in [Ids -> BOOLEAN]
        /\ root \in [Ids -> Ids \cup {NoBundle}] /\ refs \in [Ids -> Nat]
        /\ companion \in [Ids -> Ids \cup {NoBundle}]
    BY <2>3 DEF HeapTypes, Maybe
  <2>7. /\ buildLock \in Workers \cup {NoOwner}
        /\ pc \in [Workers -> Labels] /\ id \in [Workers -> 0 .. MaxRequests]
        /\ reading \in [Workers -> 0 .. MaxRequests]
        /\ bundle \in [Workers -> 0 .. MaxRequests] /\ doomed \in [Workers -> SUBSET Ids]
    BY <2>1, <2>3 DEF WorkerTypes
  <2> QED BY <2>4, <2>5, <2>6, <2>7 DEF TypeOK
<1> QED BY <1>1, Invariant, PTL

\* A bundle that is in a place, and not destroyed, is alive with its bank.
LEMMA HeldIsAlive ==
    ASSUME BundlesInv, NEW b \in Ids, Held(b)
    PROVE  Alive(b)
<1>1. HeapTypes /\ HeapInv  BY DEF BundlesInv, Types
<1>2. root[b] \in Ids  BY <1>1, NameFacts DEF Held, HeapTypes, NoBundle
<1>3. b \in Users(root[b])  BY DEF Users, Held
<1>4. /\ Cardinality(Users(root[b])) \in Nat
      /\ Cardinality(Users(root[b])) = 0 <=> Users(root[b]) = {}
  BY <1>2, UsersAreFinite, FS_CardinalityType, FS_EmptySet
<1>5. refs[root[b]] > 0  BY <1>1, <1>2, <1>3, <1>4 DEF HeapInv
<1> QED BY <1>1, <1>5 DEF Alive, Exists, Held, HeapInv

\* A set of those w that have a property only one has, and whether one has it.
LEMMA CountsOne ==
    ASSUME NEW S, \A u, w \in S : u = w
    PROVE  Cardinality(S) = IF S # {} THEN 1 ELSE 0
<1>1. CASE S = {}  BY <1>1, FS_EmptySet
<1>2. CASE S # {}
  <2>1. PICK w : w \in S  BY <1>2
  <2>2. S = {w}  BY <2>1
  <2> QED BY <1>2, <2>2, FS_Singleton
<1> QED BY <1>1, <1>2

\* A bundle that was built and not destroyed is in exactly one place on its
\* way, and a destroyed one in none: none is leaked, freed twice or activated
\* twice, whichever of two publications comes last.
THEOREM BundlesInOnePlace == Spec => []OnePlace
<1> SUFFICES ASSUME BundlesInv PROVE OnePlace  BY Invariant, PTL
<1> SUFFICES ASSUME NEW b \in Ids, root[b] # NoBundle
    PROVE  Cardinality({w \in Workers : bundle[w] = b}) +
           Cardinality({w \in Workers : b \in doomed[w]}) +
           Cardinality({p \in {<<1, pending>>, <<2, active>>, <<3, old>>} : p[2] = b}) +
           Cardinality({p \in {"install"} : p = callback /\ next = b}) +
           Cardinality({b} \cap retired)
           = IF b \in destroyed THEN 0 ELSE 1
  BY DEF OnePlace
<1> DEFINE C1 == {w \in Workers : bundle[w] = b}
           C2 == {w \in Workers : b \in doomed[w]}
           C3 == {p \in {<<1, pending>>, <<2, active>>, <<3, old>>} : p[2] = b}
           C4 == {p \in {"install"} : p = callback /\ next = b}
           C5 == {b} \cap retired
<1>1. \A k, l \in Kinds : In(b, k) /\ In(b, l) => k = l  BY DEF BundlesInv, PlacesInv
<1>2. b \notin destroyed <=> \E k \in Kinds : In(b, k)  BY DEF BundlesInv, PlacesInv, Held
<1>3. {"bundle", "doomed", "pending", "active", "old", "next", "retired"} = Kinds
  BY DEF Kinds
<1>4. C1 # {} <=> In(b, "bundle")  BY DEF In
<1>5. C2 # {} <=> In(b, "doomed")  BY DEF In
<1>6. C3 # {} <=> In(b, "pending") \/ In(b, "active") \/ In(b, "old")
  <2>1. /\ <<1, pending>> \in C3 <=> pending = b
        /\ <<2, active>> \in C3 <=> active = b
        /\ <<3, old>> \in C3 <=> old = b
    OBVIOUS
  <2>2. \A p \in C3 : p \in {<<1, pending>>, <<2, active>>, <<3, old>>}  OBVIOUS
  <2>3. C3 # {} <=> pending = b \/ active = b \/ old = b
    <3> HIDE DEF C3
    <3> QED BY <2>1, <2>2
  <2> QED BY <2>3 DEF In
<1>7. C4 # {} <=> In(b, "next")  BY DEF In
<1>8. C5 # {} <=> In(b, "retired")  BY DEF In
<1>9. Cardinality(C1) = IF C1 # {} THEN 1 ELSE 0
  <2>1. \A u, w \in C1 : u = w  BY NameFacts DEF BundlesInv, SlotsInv, NoBundle
  <2> HIDE DEF C1
  <2> QED BY <2>1, CountsOne
<1>10. Cardinality(C2) = IF C2 # {} THEN 1 ELSE 0
  <2>1. \A u, w \in C2 : u = w
    <3>1. \A w \in C2 : w \in Workers /\ doomed[w] # {}  OBVIOUS
    <3> HIDE DEF C2
    <3> QED BY <3>1 DEF BundlesInv, LockInv
  <2> HIDE DEF C2
  <2> QED BY <2>1, CountsOne
<1>11. Cardinality(C3) = IF C3 # {} THEN 1 ELSE 0
  <2>1. ~(pending = b /\ active = b) /\ ~(pending = b /\ old = b) /\ ~(active = b /\ old = b)
    BY <1>1, <1>3 DEF In
  <2>2. \A u, w \in C3 : u = w  BY <2>1
  <2> HIDE DEF C3
  <2> QED BY <2>2, CountsOne
<1>12. Cardinality(C4) = IF C4 # {} THEN 1 ELSE 0
  <2>1. \A u, w \in C4 : u = w  OBVIOUS
  <2> HIDE DEF C4
  <2> QED BY <2>1, CountsOne
<1>13. Cardinality(C5) = IF C5 # {} THEN 1 ELSE 0
  <2>1. \A u, w \in C5 : u = w  OBVIOUS
  <2> HIDE DEF C5
  <2> QED BY <2>1, CountsOne
<1>14. Cardinality(C1) + Cardinality(C2) + Cardinality(C3) + Cardinality(C4) + Cardinality(C5)
         = IF b \in destroyed THEN 0 ELSE 1
  <2> HIDE DEF C1, C2, C3, C4, C5
  <2>1. CASE b \in destroyed
    <3>1. C1 = {} /\ C2 = {} /\ C3 = {} /\ C4 = {} /\ C5 = {}
      BY <2>1, <1>2, <1>3, <1>4, <1>5, <1>6, <1>7, <1>8
    <3> QED BY <2>1, <3>1, <1>9, <1>10, <1>11, <1>12, <1>13
  <2>2. CASE b \notin destroyed
    <3>1. PICK k \in Kinds : In(b, k)  BY <2>2, <1>2
    <3>2. \A l \in Kinds : In(b, l) <=> l = k  BY <3>1, <1>1
    <3>3. C1 # {} <=> k = "bundle"  BY <3>2, <1>3, <1>4
    <3>4. C2 # {} <=> k = "doomed"  BY <3>2, <1>3, <1>5
    <3>5. C3 # {} <=> k \in {"pending", "active", "old"}  BY <3>2, <1>3, <1>6
    <3>6. C4 # {} <=> k = "next"  BY <3>2, <1>3, <1>7
    <3>7. C5 # {} <=> k = "retired"  BY <3>2, <1>3, <1>8
    <3> QED BY <2>2, <3>3, <3>4, <3>5, <3>6, <3>7, <1>3, <1>9, <1>10, <1>11, <1>12, <1>13
  <2> QED BY <2>1, <2>2
<1> QED BY <1>14

-----------------------------------------------------------------------------
(* The readers.                                                            *)

LEMMA NextReads ==
    ASSUME BundlesInv, ReadsInv, [Next]_vars
    PROVE  ReadsInv'
<1> USE DEF requests, pointers, heap, hilbert, workers, callbackVars, outsideRequests,
           outsideLoader, outsideTelemetry, outsideHilbert, outsideCallback
<1>0. /\ pc \in [Workers -> Labels] /\ reading \in [Workers -> Maybe]
      /\ doomed \in [Workers -> SUBSET Ids]
      /\ LockedReadsInv /\ LockInv /\ ReadsInv /\ SlotsInv
  BY NameFacts DEF BundlesInv, Types, WorkerTypes
<1> USE NameFacts DEF NoBundle
<1>1. ASSUME NEW t \in Threads, Number(t) PROVE ReadsInv'
  BY <1>1, <1>0 DEF Number, ReadsInv, Rendered, Standing
<1>2. ASSUME NEW t \in Threads, StoreRequest(t) PROVE ReadsInv'
  BY <1>2, <1>0 DEF StoreRequest, Goto, ReadsInv, Rendered, Standing
<1>3. ASSUME NEW w \in Requesters, EnterBuild(w) PROVE ReadsInv'
  BY <1>3, <1>0 DEF EnterBuild, Goto, Read, ReadsInv, Rendered, Standing
<1>4. ASSUME NEW w \in Requesters, LeaveBuild(w) PROVE ReadsInv'
  <2>1. /\ UNCHANGED <<active, old, retired, destroyed, doomed>>
        /\ reading' = [reading EXCEPT ![w] = NoBundle]
    BY <1>4 DEF LeaveBuild, Read
  <2> QED BY <2>1, <1>0 DEF ReadsInv, Rendered, Standing
<1>5. ASSUME NEW w \in Requesters, Mark(w) PROVE ReadsInv'
  BY <1>5, <1>0 DEF Mark, Goto, ReadsInv, Rendered, Standing
<1>6. ASSUME NEW w \in Requesters, Publish(w) PROVE ReadsInv'
  BY <1>6, <1>0 DEF Publish, Goto, Hold, Destroy, ReadsInv, Rendered, Standing
<1>7. ASSUME WaitForRequest PROVE ReadsInv'
  BY <1>7, <1>0 DEF WaitForRequest, Goto, ReadsInv, Rendered, Standing
<1>8. ASSUME TakeRequest PROVE ReadsInv'
  BY <1>8, <1>0 DEF TakeRequest, Goto, ReadsInv, Rendered, Standing
<1>9. ASSUME CheckNewest PROVE ReadsInv'
  BY <1>9, <1>0 DEF CheckNewest, Goto, Hold, Destroy, ReadsInv, Rendered, Standing
<1>10. ASSUME ReportFailure PROVE ReadsInv'
  BY <1>10, <1>0 DEF ReportFailure, Goto, ReadsInv, Rendered, Standing
<1>11. ASSUME NEW t \in Threads, ReclaimRetired(t) PROVE ReadsInv'
  <2>1. /\ UNCHANGED <<reading, active, old, destroyed>>
        /\ doomed' = [doomed EXCEPT ![t] = retired] /\ pc[t] = "idle" /\ t \in Workers
    BY <1>11 DEF ReclaimRetired
  <2>2. doomed[t] = {}  BY <2>1, <1>0 DEF LockInv
  <2>3. ASSUME NEW b, Rendered(b) PROVE Rendered(b)'
    BY <2>1, <2>2, <2>3, <1>0 DEF Rendered, Standing
  <2> QED BY <2>1, <2>3, <1>0 DEF ReadsInv
<1>12. ASSUME NEW t \in Threads, DestroyRetired(t) PROVE ReadsInv'
  <2>1. /\ UNCHANGED <<reading, active, old, retired>> /\ t \in Workers
        /\ doomed' = [doomed EXCEPT ![t] = {}]
        /\ destroyed' = destroyed \cup (doomed[t] \ {NoBundle})
    BY <1>12 DEF DestroyRetired, Destroy
  <2>2. NoBundle \notin doomed[t]  BY <2>1, <1>0
  <2>3. ASSUME NEW b, Rendered(b) PROVE Rendered(b)'
    BY <2>1, <2>2, <2>3, <1>0 DEF Rendered, Standing
  <2> QED BY <2>1, <2>3, <1>0 DEF ReadsInv
<1>13. ASSUME NEW t \in Threads, LoadActive(t) PROVE ReadsInv'
  BY <1>13, <1>0 DEF LoadActive, Goto, Read, ReadsInv, Rendered, Standing
<1>14. ASSUME NEW t \in Threads, CopyPath(t) PROVE ReadsInv'
  BY <1>14, <1>0 DEF CopyPath, Goto, Read, ReadsInv, Rendered, Standing
<1>15. ASSUME NEW t \in Threads, SetRotation(t) PROVE ReadsInv'
  <2>1. /\ UNCHANGED <<active, old, retired, destroyed, doomed>>
        /\ reading' = reading \/ reading' = [reading EXCEPT ![t] = active]
    BY <1>15 DEF SetRotation, Read
  <2> QED BY <2>1, <1>0 DEF ReadsInv, Rendered, Standing
<1>16. ASSUME NEW t \in Threads, EnsureHilbertStore(t) PROVE ReadsInv'
  <2>1. /\ UNCHANGED <<active, old, retired, destroyed, doomed>>
        /\ reading' = [reading EXCEPT ![t] = NoBundle]
    BY <1>16 DEF EnsureHilbertStore, Read
  <2> QED BY <2>1, <1>0 DEF ReadsInv, Rendered, Standing
<1>17. ASSUME BuilderBegin PROVE ReadsInv'
  BY <1>17, <1>0 DEF BuilderBegin, Goto, Read, ReadsInv, Rendered, Standing
<1>18. ASSUME BuilderAim PROVE ReadsInv'
  BY <1>18, <1>0 DEF BuilderAim, Goto, ReadsInv, Rendered, Standing
<1>19. ASSUME BuilderOffer PROVE ReadsInv'
  BY <1>19, <1>0 DEF BuilderOffer, Goto, Read, ReadsInv, Rendered, Standing
<1>20. ASSUME InstallActive PROVE ReadsInv'
  BY <1>20, <1>0 DEF InstallActive, ReadsInv, Rendered, Standing, SlotsInv
<1>21. ASSUME Retire PROVE ReadsInv'
  BY <1>21, <1>0 DEF Retire, ReadsInv, Rendered, Standing, SlotsInv
<1>22. ASSUME \/ AdoptStore \/ CompareStore \/ SwapPending \/ Announce \/ StoreState
              \/ UNCHANGED vars
       PROVE  ReadsInv'
  <2>1. UNCHANGED <<reading, active, old, retired, destroyed, doomed>>
    BY <1>22 DEF AdoptStore, CompareStore, SwapPending, Announce, StoreState, vars
  <2> QED BY <2>1, <1>0 DEF ReadsInv, Rendered, Standing
<1> QED BY <1>1, <1>2, <1>3, <1>4, <1>5, <1>6, <1>7, <1>8, <1>9, <1>10, <1>11, <1>12,
      <1>13, <1>14, <1>15, <1>16, <1>17, <1>18, <1>19, <1>20, <1>21, <1>22, Steps

\* Nobody uses freed memory: a bundle that the cores render from, that the
\* callback is about to activate, or that a build, the companion builder or a
\* caller is reading, has not been freed, and neither has the bank it shares with
\* an older bundle; the one thing that destroys a bundle being read is the
\* telemetry pass of another caller than its reader, who reads it without
\* soundFontBuildCs_.
THEOREM NothingFreedIsUsed == Spec => UsedIsAlive
<1>1. Init => ReadsInv  BY NameFacts DEF Init, ReadsInv
<1>2. BundlesInv /\ ReadsInv /\ [Next]_vars => ReadsInv'  BY NextReads
<1>3. BundlesInv /\ ReadsInv =>
        /\ Alive(active) /\ \A b \in {pending, next} \ {NoBundle} : Alive(b)
        /\ \A w \in Workers : reading[w] # NoBundle =>
              \/ Alive(reading[w])
              \/ ReadsUnlocked(w) /\ reading[w] \in destroyed
  <2> SUFFICES ASSUME BundlesInv, ReadsInv
               PROVE  /\ Alive(active)
                      /\ \A b \in {pending, next} \ {NoBundle} : Alive(b)
                      /\ \A w \in Workers : reading[w] # NoBundle =>
                            \/ Alive(reading[w])
                            \/ ReadsUnlocked(w) /\ reading[w] \in destroyed
    OBVIOUS
  <2> USE NameFacts DEF NoBundle
  <2>1. \A b \in Standing : b # NoBundle => Alive(b)  BY HeldFacts, HeldIsAlive
  <2>2. Alive(active)
    <3>1. active \in Standing /\ active # NoBundle  BY DEF Standing, BundlesInv, SlotsInv
    <3> QED BY <2>1, <3>1
  <2>3. pending # NoBundle => Alive(pending)  BY HeldFacts, HeldIsAlive
  <2>4. next # NoBundle => Alive(next)
    <3>1. CASE next = active  BY <2>2, <3>1
    <3>2. CASE next # active /\ next # NoBundle
      <4>1. callback = "install" /\ next \in Ids
        BY <3>2 DEF BundlesInv, SlotsInv, Types, PointerTypes
      <4>2. In(next, "next") /\ "next" \in Kinds  BY <4>1 DEF In, Kinds
      <4>3. Held(next)  BY <4>1, <4>2 DEF BundlesInv, PlacesInv
      <4> QED BY <4>1, <4>3, HeldIsAlive
    <3> QED BY <3>1, <3>2
  <2>5. ASSUME NEW w \in Workers, reading[w] # NoBundle
        PROVE  Alive(reading[w]) \/ (ReadsUnlocked(w) /\ reading[w] \in destroyed)
    <3>1. pc[w] \in {"make", "copy", "ensure", "aim", "offer"}
      BY <2>5 DEF BundlesInv, LockedReadsInv
    <3>2. CASE pc[w] \in {"make", "aim", "offer"}
      <4>1. reading[w] \in Standing
        BY <2>5, <3>2 DEF BundlesInv, LockInv, LockedReadsInv
      <4> QED BY <2>1, <2>5, <4>1
    <3>3. CASE pc[w] \in {"copy", "ensure"}
      <4>1. Rendered(reading[w])  BY <2>5 DEF ReadsInv
      <4>2. CASE reading[w] \in Standing  BY <2>1, <2>5, <4>2
      <4>3. CASE reading[w] \in destroyed  BY <3>3, <4>3 DEF ReadsUnlocked
      <4>4. CASE \E t \in Workers : reading[w] \in doomed[t]
        BY <4>4, HeldFacts, HeldIsAlive
      <4> QED BY <4>1, <4>2, <4>3, <4>4 DEF Rendered
    <3> QED BY <3>1, <3>2, <3>3
  <2> QED BY <2>2, <2>3, <2>4, <2>5
<1>4. BundlesInv /\ ReadsInv /\ [Next]_vars =>
        [\A w \in Workers, b \in destroyed' \ destroyed : reading[w] = b =>
            ReadsUnlocked(w) /\ \E t \in Threads \ {w} : b \in doomed[t]]_vars
  <2> SUFFICES ASSUME BundlesInv, ReadsInv, [Next]_vars,
                      NEW w \in Workers, NEW b \in destroyed' \ destroyed, reading[w] = b
               PROVE  ReadsUnlocked(w) /\ \E t \in Threads \ {w} : b \in doomed[t]
    OBVIOUS
  <2> USE NameFacts DEF NoBundle
  <2>1. b # NoBundle /\ (b \in Standing \/ \E t \in Workers : b \in doomed[t])
    <3>1. destroyed' \subseteq Ids  BY NextHeapTypes DEF HeapTypes
    <3>2. b # NoBundle  BY <3>1
    <3> QED BY <3>2 DEF ReadsInv, Rendered
  <2>2. ASSUME NEW t \in Threads, DestroyRetired(t), b \in doomed[t]
        PROVE  ReadsUnlocked(w) /\ \E u \in Threads \ {w} : b \in doomed[u]
    <3>1. pc[t] = "reclaim" /\ t \in Workers  BY <2>2 DEF DestroyRetired
    <3>2. pc[w] \in {"make", "copy", "ensure", "aim", "offer"}
      BY <2>1 DEF BundlesInv, LockedReadsInv
    <3>3. buildLock = t /\ w # t  BY <3>1, <3>2 DEF BundlesInv, LockInv
    <3>4. pc[w] \notin {"make", "aim", "offer"}  BY <3>3 DEF BundlesInv, LockInv
    <3> QED BY <2>2, <3>2, <3>3, <3>4 DEF ReadsUnlocked
  <2>3. ASSUME NEW k \in Kinds, In(b, k)
        PROVE  k \in {"active", "old", "retired", "doomed"}
    <3>1. b \in Ids  BY <2>1, HeldFacts
    <3>2. \E l \in {"active", "old", "retired", "doomed"} : In(b, l) /\ l \in Kinds
      BY <2>1 DEF In, Standing, Kinds
    <3> QED BY <2>3, <3>1, <3>2 DEF BundlesInv, PlacesInv
  <2>4. ASSUME NEW u \in Requesters, Publish(u) PROVE FALSE
    <3>1. destroyed' = destroyed \cup ({pending} \ {NoBundle})
      BY <2>4 DEF Publish, Destroy
    <3>2. In(b, "pending")  BY <3>1 DEF In
    <3> QED BY <2>3, <3>2 DEF Kinds
  <2>5. ASSUME CheckNewest PROVE FALSE
    <3>1. \/ destroyed' = destroyed \cup ({bundle["loader"]} \ {NoBundle})
          \/ destroyed' = destroyed
      BY <2>5 DEF CheckNewest, Destroy
    <3>2. In(b, "bundle")  BY <3>1 DEF In
    <3> QED BY <2>3, <3>2 DEF Kinds
  <2>6. ASSUME UNCHANGED destroyed PROVE FALSE  BY <2>6
  <2>7. ASSUME NEW t \in Threads, DestroyRetired(t)
        PROVE  ReadsUnlocked(w) /\ \E u \in Threads \ {w} : b \in doomed[u]
    <3>1. b \in doomed[t]  BY <2>7 DEF DestroyRetired, Destroy
    <3> QED BY <2>2, <2>7, <3>1
  <2>8. CASE \E t \in Threads : \/ Number(t) \/ StoreRequest(t) \/ ReclaimRetired(t)
                                \/ LoadActive(t) \/ CopyPath(t) \/ SetRotation(t)
                                \/ EnsureHilbertStore(t)
    BY <2>6, <2>8 DEF Number, StoreRequest, ReclaimRetired, LoadActive, CopyPath,
       SetRotation, EnsureHilbertStore, heap, outsideTelemetry, outsideHilbert
  <2>9. CASE \E u \in Requesters : EnterBuild(u) \/ LeaveBuild(u) \/ Mark(u)
    BY <2>6, <2>9 DEF EnterBuild, LeaveBuild, Mark, heap
  <2>10. CASE WaitForRequest \/ TakeRequest \/ ReportFailure \/ Builder
    BY <2>6, <2>10 DEF WaitForRequest, TakeRequest, ReportFailure, Builder, BuilderBegin,
       BuilderAim, BuilderOffer, heap, outsideHilbert
  <2>11. CASE Callback \/ UNCHANGED vars
    BY <2>6, <2>11 DEF Callback, AdoptStore, CompareStore, SwapPending, InstallActive,
       Announce, StoreState, Retire, heap, outsideCallback, vars
  <2> QED BY <2>4, <2>5, <2>7, <2>8, <2>9, <2>10, <2>11, Steps DEF Builder, Callback
<1> QED BY <1>1, <1>2, <1>3, <1>4, Invariant, PTL DEF Spec, UsedIsAlive

-----------------------------------------------------------------------------
(* The companion store.                                                    *)

LEMMA NextStore ==
    ASSUME BundlesInv, StoreInv, [Next]_vars
    PROVE  StoreInv'
<1> USE DEF requests, pointers, heap, hilbert, workers, callbackVars, outsideRequests,
           outsideLoader, outsideTelemetry, outsideHilbert, outsideCallback
<1>0. /\ pc \in [Workers -> Labels] /\ companion \in [Ids -> Maybe]
      /\ builds \in Nat /\ StoreInv /\ active \in Ids
  BY HeldFacts DEF BundlesInv, Types, WorkerTypes, HeapTypes, StoreTypes
<1>a. reading \in [Workers -> Maybe]  BY DEF BundlesInv, Types, WorkerTypes
<1> USE NameFacts DEF NoBundle
<1>1. ASSUME NEW t \in Threads, Number(t) PROVE StoreInv'
  <2>1. /\ UNCHANGED <<companion, builds, rotation, pendingStore, pendingFor, taken>>
        /\ reading'["builder"] = reading["builder"]
        /\ \E l \in {"build", "store"} : pc' = [pc EXCEPT ![t] = l]
    BY <1>1, <1>a DEF Number, Goto
  <2> QED BY <2>1, <1>0 DEF StoreInv, AimedAgain
<1>2. ASSUME NEW t \in Threads, StoreRequest(t) PROVE StoreInv'
  <2>1. /\ UNCHANGED <<companion, builds, rotation, pendingStore, pendingFor, taken>>
        /\ reading'["builder"] = reading["builder"]
        /\ \E l \in {"idle"} : pc' = [pc EXCEPT ![t] = l]
    BY <1>2, <1>a DEF StoreRequest, Goto
  <2> QED BY <2>1, <1>0 DEF StoreInv, AimedAgain
<1>3. ASSUME NEW w \in Requesters, EnterBuild(w) PROVE StoreInv'
  <2>1. /\ UNCHANGED <<companion, builds, rotation, pendingStore, pendingFor, taken>>
        /\ reading'["builder"] = reading["builder"]
        /\ \E l \in {"make"} : pc' = [pc EXCEPT ![w] = l]
    BY <1>3, <1>a DEF EnterBuild, Goto, Read
  <2> QED BY <2>1, <1>0 DEF StoreInv, AimedAgain
<1>4. ASSUME NEW w \in Requesters, LeaveBuild(w) PROVE StoreInv'
  <2>1. /\ UNCHANGED <<pendingStore, pendingFor, taken>>
        /\ reading'["builder"] = reading["builder"]
        /\ \E l \in {"idle", "check", "mark"} : pc' = [pc EXCEPT ![w] = l]
    BY <1>4, <1>a DEF LeaveBuild, Goto, Read
  <2> QED BY <2>1, <1>0 DEF StoreInv, AimedAgain
<1>5. ASSUME NEW w \in Requesters, Mark(w) PROVE StoreInv'
  <2>1. /\ UNCHANGED <<companion, builds, rotation, pendingStore, pendingFor, taken>>
        /\ reading'["builder"] = reading["builder"]
        /\ \E l \in {"publish"} : pc' = [pc EXCEPT ![w] = l]
    BY <1>5, <1>a DEF Mark, Goto
  <2> QED BY <2>1, <1>0 DEF StoreInv, AimedAgain
<1>6. ASSUME NEW w \in Requesters, Publish(w) PROVE StoreInv'
  <2>1. /\ UNCHANGED <<companion, builds, rotation, pendingStore, pendingFor, taken>>
        /\ reading'["builder"] = reading["builder"]
        /\ \E l \in {"take", "idle"} : pc' = [pc EXCEPT ![w] = l]
    BY <1>6, <1>a DEF Publish, Goto
  <2> QED BY <2>1, <1>0 DEF StoreInv, AimedAgain
<1>7. ASSUME WaitForRequest PROVE StoreInv'
  <2>1. /\ UNCHANGED <<companion, builds, rotation, pendingStore, pendingFor, taken>>
        /\ reading'["builder"] = reading["builder"]
        /\ \E l \in {"take"} : pc' = [pc EXCEPT !["loader"] = l]
    BY <1>7, <1>a DEF WaitForRequest, Goto
  <2> QED BY <2>1, <1>0 DEF StoreInv, AimedAgain
<1>8. ASSUME TakeRequest PROVE StoreInv'
  <2>1. /\ UNCHANGED <<companion, builds, rotation, pendingStore, pendingFor, taken>>
        /\ reading'["builder"] = reading["builder"]
        /\ \E l \in {"idle", "build"} : pc' = [pc EXCEPT !["loader"] = l]
    BY <1>8, <1>a DEF TakeRequest, Goto
  <2> QED BY <2>1, <1>0 DEF StoreInv, AimedAgain
<1>9. ASSUME CheckNewest PROVE StoreInv'
  <2>1. /\ UNCHANGED <<companion, builds, rotation, pendingStore, pendingFor, taken>>
        /\ reading'["builder"] = reading["builder"]
        /\ \E l \in {"take", "fail", "mark"} : pc' = [pc EXCEPT !["loader"] = l]
    BY <1>9, <1>a DEF CheckNewest, Goto
  <2> QED BY <2>1, <1>0 DEF StoreInv, AimedAgain
<1>10. ASSUME ReportFailure PROVE StoreInv'
  <2>1. /\ UNCHANGED <<companion, builds, rotation, pendingStore, pendingFor, taken>>
        /\ reading'["builder"] = reading["builder"]
        /\ \E l \in {"take"} : pc' = [pc EXCEPT !["loader"] = l]
    BY <1>10, <1>a DEF ReportFailure, Goto
  <2> QED BY <2>1, <1>0 DEF StoreInv, AimedAgain
<1>11. ASSUME NEW t \in Threads, ReclaimRetired(t) PROVE StoreInv'
  <2>1. /\ UNCHANGED <<companion, builds, rotation, pendingStore, pendingFor, taken>>
        /\ reading'["builder"] = reading["builder"]
        /\ \E l \in {"reclaim"} : pc' = [pc EXCEPT ![t] = l]
    BY <1>11, <1>a DEF ReclaimRetired, Goto
  <2> QED BY <2>1, <1>0 DEF StoreInv, AimedAgain
<1>12. ASSUME NEW t \in Threads, DestroyRetired(t) PROVE StoreInv'
  <2>1. /\ UNCHANGED <<companion, builds, rotation, pendingStore, pendingFor, taken>>
        /\ reading'["builder"] = reading["builder"]
        /\ \E l \in {"path"} : pc' = [pc EXCEPT ![t] = l]
    BY <1>12, <1>a DEF DestroyRetired, Goto
  <2> QED BY <2>1, <1>0 DEF StoreInv, AimedAgain
<1>13. ASSUME NEW t \in Threads, LoadActive(t) PROVE StoreInv'
  <2>1. /\ UNCHANGED <<companion, builds, rotation, pendingStore, pendingFor, taken>>
        /\ reading'["builder"] = reading["builder"]
        /\ \E l \in {"copy"} : pc' = [pc EXCEPT ![t] = l]
    BY <1>13, <1>a DEF LoadActive, Goto, Read
  <2> QED BY <2>1, <1>0 DEF StoreInv, AimedAgain
<1>14. ASSUME NEW t \in Threads, CopyPath(t) PROVE StoreInv'
  <2>1. /\ UNCHANGED <<companion, builds, rotation, pendingStore, pendingFor, taken>>
        /\ reading'["builder"] = reading["builder"]
        /\ \E l \in {"idle"} : pc' = [pc EXCEPT ![t] = l]
    BY <1>14, <1>a DEF CopyPath, Goto, Read
  <2> QED BY <2>1, <1>0 DEF StoreInv, AimedAgain
<1>15. ASSUME NEW t \in Threads, SetRotation(t) PROVE StoreInv'
  BY <1>15, <1>0, <1>a DEF SetRotation, Goto, Read, StoreInv, AimedAgain
<1>16. ASSUME NEW t \in Threads, EnsureHilbertStore(t) PROVE StoreInv'
  <2>1. /\ UNCHANGED <<pendingStore, pendingFor, taken>>
        /\ reading'["builder"] = reading["builder"]
        /\ \/ pc' = [pc EXCEPT ![t] = "idle"]
           \/ pc["builder"] = "idle" /\ pc'["builder"] = "begin"
    BY <1>16, <1>0, <1>a DEF EnsureHilbertStore, Goto, Read
  <2> QED BY <2>1, <1>0 DEF StoreInv, AimedAgain
<1>17. ASSUME BuilderBegin PROVE StoreInv'
  BY <1>17, <1>0, <1>a DEF BuilderBegin, Goto, Read, StoreInv, AimedAgain
<1>18. ASSUME BuilderAim PROVE StoreInv'
  BY <1>18, <1>0, <1>a DEF BuilderAim, Goto, StoreInv, AimedAgain
<1>19. ASSUME BuilderOffer PROVE StoreInv'
  BY <1>19, <1>0, <1>a DEF BuilderOffer, Goto, Read, StoreInv, AimedAgain
<1>20. ASSUME AdoptStore PROVE StoreInv'
  BY <1>20, <1>0, <1>a DEF AdoptStore, StoreInv, AimedAgain
<1>21. ASSUME CompareStore PROVE StoreInv'
  BY <1>21, <1>0, <1>a DEF CompareStore, StoreInv, AimedAgain
<1>22. ASSUME \/ SwapPending \/ InstallActive \/ Announce \/ StoreState \/ Retire
              \/ UNCHANGED vars
       PROVE  StoreInv'
  <2>1. UNCHANGED <<pc, companion, builds, rotation, pendingStore, pendingFor, taken, reading>>
    BY <1>22 DEF SwapPending, InstallActive, Announce, StoreState, Retire, vars
  <2> QED BY <2>1, <1>0 DEF StoreInv, AimedAgain
<1> QED BY <1>1, <1>2, <1>3, <1>4, <1>5, <1>6, <1>7, <1>8, <1>9, <1>10, <1>11, <1>12,
      <1>13, <1>14, <1>15, <1>16, <1>17, <1>18, <1>19, <1>20, <1>21, <1>22, Steps

\* A bundle gets a companion store made of its own samples, or the builder has
\* noted the bundle of a further build since the callback took the store.
THEOREM CompanionIsOwn == Spec => CompanionMatches
<1>1. Init => StoreInv  BY NameFacts DEF Init, StoreInv, NoBundle
<1>2. BundlesInv /\ StoreInv /\ [Next]_vars => StoreInv'  BY NextStore
<1>3. BundlesInv /\ StoreInv /\ [Next]_vars =>
        [\A b \in Ids : companion'[b] \in {companion[b], b, NoBundle} \/ AimedAgain]_vars
  <2> SUFFICES ASSUME BundlesInv, StoreInv, [Next]_vars, NEW b \in Ids
               PROVE  companion'[b] \in {companion[b], b, NoBundle} \/ AimedAgain
    OBVIOUS
  <2> USE NameFacts DEF NoBundle
  <2>0. companion \in [Ids -> Maybe] /\ active \in Ids
    BY HeldFacts DEF BundlesInv, Types, HeapTypes
  <2>1. ASSUME NEW w \in Requesters, LeaveBuild(w)
        PROVE  companion'[b] \in {companion[b], b, NoBundle}
    BY <2>0, <2>1, BuildFacts, MakeFacts DEF LeaveBuild, Fresh, Shared, Nothing
  <2>2. ASSUME CompareStore
        PROVE  companion'[b] \in {companion[b], b, NoBundle} \/ AimedAgain
    <3>1. CASE active = pendingFor /\ companion[active] = NoBundle
      <4>1. companion' = [companion EXCEPT ![active] = taken]
        BY <2>2, <3>1 DEF CompareStore
      <4> QED BY <2>0, <3>1, <4>1 DEF StoreInv
    <3>2. CASE ~(active = pendingFor /\ companion[active] = NoBundle)
      BY <2>2, <3>2 DEF CompareStore
    <3> QED BY <3>1, <3>2
  <2>6. ASSUME UNCHANGED companion PROVE companion'[b] = companion[b]  BY <2>6
  <2>8. CASE \E t \in Threads : \/ Number(t) \/ StoreRequest(t) \/ ReclaimRetired(t)
                                \/ DestroyRetired(t) \/ LoadActive(t) \/ CopyPath(t)
                                \/ SetRotation(t) \/ EnsureHilbertStore(t)
    BY <2>6, <2>8 DEF Number, StoreRequest, ReclaimRetired, DestroyRetired, LoadActive,
       CopyPath, SetRotation, EnsureHilbertStore, hilbert, outsideTelemetry, outsideHilbert
  <2>9. CASE \E u \in Requesters : EnterBuild(u) \/ Mark(u) \/ Publish(u)
    BY <2>6, <2>9 DEF EnterBuild, Mark, Publish
  <2>10. CASE WaitForRequest \/ TakeRequest \/ CheckNewest \/ ReportFailure \/ Builder
    BY <2>6, <2>10 DEF WaitForRequest, TakeRequest, CheckNewest, ReportFailure, Builder,
       BuilderBegin, BuilderAim, BuilderOffer, hilbert, outsideLoader, outsideHilbert
  <2>11. CASE \/ AdoptStore \/ SwapPending \/ InstallActive \/ Announce \/ StoreState
              \/ Retire \/ UNCHANGED vars
    BY <2>6, <2>11 DEF AdoptStore, SwapPending, InstallActive, Announce, StoreState,
       Retire, hilbert, outsideCallback, vars
  <2> QED BY <2>1, <2>2, <2>8, <2>9, <2>10, <2>11, Steps DEF Builder, Callback
<1> QED BY <1>1, <1>2, <1>3, Invariant, PTL DEF Spec, CompanionMatches
=============================================================================
