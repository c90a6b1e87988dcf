---------------------------- MODULE SoundFontSwap ----------------------------
(***************************************************************************)
(* How a SoundFont is replaced while the driver renders                    *)
(* (src/src/driver/DriverSoundFont.cpp).  A request is built into a bundle *)
(* by the caller (LoadSoundFont) or the loader thread (QueueSoundFontLoad  *)
(* and QueueSoundFontStack), published as the pending bundle, activated by *)
(* the audio callback between two blocks, retired, and destroyed by a      *)
(* telemetry pass.  A builder thread makes the Hilbert companion store of  *)
(* the active bundle, which the callback adopts.                           *)
(*                                                                         *)
(* A step makes one access to a shared variable.  A bundle is named by the *)
(* number of its request; audio is running, so only the callback activates.*)
(***************************************************************************)
EXTENDS Integers, FiniteSets

CONSTANTS Threads,      \* callers of the driver's interface
          Calls,          \* the calls each of them makes
          MaxRequests,    \* bound: requests, the initial one included
          MaxBuilds,      \* bound: companion stores built
          Starts          \* the situations the model starts from

ASSUME RequestsAssumption == MaxRequests \in Nat \ {0} /\ MaxBuilds \in Nat
ASSUME CallsAssumption ==
    Calls \in [Threads -> SUBSET {"load", "queue", "telemetry", "rotation"}]
ASSUME NamesAssumption == {"loader", "builder", "none"} \cap Threads = {}

NoBundle == 0
Ids == 1 .. MaxRequests

\* The request that is rendered, the companion stores built (for requests that
\* are gone), and the threads that hold the interface.
ASSUME StartsAssumption ==
    Starts \subseteq [request : Ids, builds : 0 .. MaxBuilds, callers : SUBSET Threads]

Workers == Threads \cup {"loader", "builder"}
NoOwner == "none"

VARIABLES
    newest, activatedId, loadState,    \* soundFontRequestId_, ..ActivatedId_, ..LoadState_
    requested, loadEvent, handled,     \* requestedSoundFontId_, soundFontLoadEvent_
    active, pending, retired,          \* the three bundle pointers; the last is a list
    plain, root, refs, destroyed,      \* per bundle: no stack; the bundle that owns
                                       \* its bank; references to that; Destroy called
    companion,                         \* per bundle: whose samples hilbertData rotates
    pendingStore, pendingFor, rotation, builds,
    buildLock,                         \* the owner of soundFontBuildCs_
    pc, id, reading, bundle, doomed,   \* a worker: its request, the bundle it reads
                                       \* from, the one it holds, those it destroys
    callback, next, old, taken         \* the audio callback

requests == <<newest, requested, loadEvent>>
pointers == <<active, pending, retired>>
heap == <<plain, root, refs, destroyed>>
hilbert == <<companion, pendingStore, pendingFor, rotation, builds>>
workers == <<pc, id, reading, bundle, doomed>>
callbackVars == <<callback, next, old, taken>>
vars == <<requests, activatedId, loadState, handled, pointers, heap, hilbert,
          buildLock, workers, callbackVars>>

\* The driver has loaded a SoundFont and started audio; the bundles of earlier
\* requests are gone.
Init ==
    /\ \E start \in Starts :
        /\ newest = start.request /\ activatedId = start.request
        /\ active = start.request
        /\ plain = [b \in Ids |-> b = start.request]
        /\ root = [b \in Ids |-> IF b = start.request THEN b ELSE NoBundle]
        /\ refs = [b \in Ids |-> IF b = start.request THEN 1 ELSE 0]
        /\ builds = start.builds
        /\ pc = [w \in Workers |->
                    IF w \in Threads \ start.callers THEN "away" ELSE "idle"]
    /\ loadState = 0 /\ requested = 0 /\ loadEvent = FALSE /\ handled = 0
    /\ pending = NoBundle /\ retired = {}
    /\ destroyed = {} /\ companion = [b \in Ids |-> NoBundle]
    /\ pendingStore = NoBundle /\ pendingFor = NoBundle
    /\ rotation = FALSE /\ buildLock = NoOwner /\ id = [w \in Workers |-> 0]
    /\ reading = [w \in Workers |-> NoBundle] /\ bundle = [w \in Workers |-> NoBundle]
    /\ doomed = [w \in Workers |-> {}]
    /\ callback = "adopt" /\ next = NoBundle /\ old = NoBundle /\ taken = NoBundle

Goto(w, label) == pc' = [pc EXCEPT ![w] = label]
Read(w, b) == reading' = [reading EXCEPT ![w] = b]
Hold(w, b) == bundle' = [bundle EXCEPT ![w] = b]

-----------------------------------------------------------------------------
(* Bundles.                                                                *)

\* The memory of bundle b: a plain bundle is its own bank and lives while it
\* is referenced, a stack lives until it is destroyed.
Exists(b) == IF plain[b] THEN refs[b] > 0 ELSE root[b] # NoBundle /\ b \notin destroyed

\* b and the parsed data of its bank can be read.
Alive(b) == Exists(b) /\ refs[root[b]] > 0

\* DestroySoundFontBundle on each of B: the bundle drops its reference.
Destroy(B) ==
    /\ destroyed' = destroyed \cup (B \ {NoBundle})
    /\ refs' = [r \in Ids |-> refs[r] - Cardinality({b \in B \ {NoBundle} : root[b] = r})]

\* Mutant: the view holds no reference on the bank it shares.
ShareUncounted(r) == UNCHANGED refs

\* MakeBankView takes a reference on the bundle that owns the bank.
Share(r) == refs' = [refs EXCEPT ![r] = @ + 1]

\* A built bundle has a companion store when the rotation mode needs one or,
\* as a stack, when the bundle it was derived from (or none) had one.
Built(w, isPlain, owner, source) ==
    /\ plain' = [plain EXCEPT ![id[w]] = isPlain]
    /\ root' = [root EXCEPT ![id[w]] = owner]
    /\ companion' = [companion EXCEPT
           ![id[w]] = IF rotation \/ (source # NoBundle /\ companion[source] # NoBundle)
                      THEN id[w] ELSE NoBundle]
    /\ Hold(w, id[w])

\* BuildSoundFontBundle and BuildSoundFontStackBundle (of one bank): a fresh
\* bundle, a stack with a view of the bank of the bundle it reads, or a
\* failure.
Make(w) ==
    \/ \E isPlain \in {TRUE, w # "loader"} :
          Built(w, isPlain, id[w], NoBundle) /\ refs' = [refs EXCEPT ![id[w]] = 1]
    \/ /\ reading[w] # NoBundle
       /\ Built(w, FALSE, root[reading[w]], reading[w]) /\ Share(root[reading[w]])
    \/ UNCHANGED <<plain, root, refs, companion>> /\ Hold(w, NoBundle)

-----------------------------------------------------------------------------
(* Requests: LoadSoundFont builds in the caller, QueueSoundFontLoad and    *)
(* QueueSoundFontStack leave the request to the loader.                    *)

outsideRequests == <<activatedId, handled, callbackVars, pendingStore,
                     pendingFor, rotation, builds, active, retired>>

\* A request takes its number.
Number(t) ==
    /\ pc[t] = "idle" /\ newest < MaxRequests
    /\ \E call \in Calls[t] \cap {"load", "queue"} :
          Goto(t, IF call = "load" THEN "build" ELSE "store")
    /\ newest' = newest + 1 /\ id' = [id EXCEPT ![t] = newest + 1]
    /\ UNCHANGED <<requested, loadEvent, loadState, pending, heap, companion,
                   buildLock, reading, bundle, doomed, outsideRequests>>

\* The request is stored under cs and the loader is woken.
StoreRequest(t) ==
    /\ pc[t] = "store"
    /\ requested' = id[t] /\ loadState' = 1 /\ loadEvent' = TRUE
    /\ Goto(t, "idle") /\ id' = [id EXCEPT ![t] = 0]
    /\ UNCHANGED <<newest, pending, heap, companion, buildLock, reading, bundle,
                   doomed, outsideRequests>>

\* soundFontBuildCs_ is entered; the loader looks at the active bundle.
EnterBuild(w) ==
    /\ pc[w] = "build" /\ buildLock = NoOwner /\ buildLock' = w
    /\ Read(w, IF w = "loader" THEN active ELSE NoBundle)
    /\ Goto(w, "make")
    /\ UNCHANGED <<requests, loadState, pending, heap, companion, id, bundle, doomed,
                   outsideRequests>>

LeaveBuild(w) ==
    /\ pc[w] = "make" /\ Make(w)
    /\ buildLock' = NoOwner /\ Read(w, NoBundle)
    /\ Goto(w, IF w = "loader" THEN "check"
               ELSE IF bundle'[w] = NoBundle THEN "idle" ELSE "mark")
    /\ id' = [id EXCEPT ![w] = IF w = "loader" THEN @ ELSE 0]
    /\ UNCHANGED <<requests, loadState, pending, destroyed, doomed,
                   outsideRequests>>

Mark(w) ==
    /\ pc[w] = "mark" /\ loadState' = 2 /\ Goto(w, "publish")
    /\ UNCHANGED <<requests, pending, heap, companion, buildLock, id, reading, bundle,
                   doomed, outsideRequests>>

\* Mutant: the superseded bundle is left to the telemetry pass as well.
PublishRetired(w) ==
    /\ pc[w] = "publish"
    /\ pending' = bundle[w] /\ Hold(w, NoBundle) /\ Destroy({pending})
    /\ retired' = retired \cup ({pending} \ {NoBundle})
    /\ Goto(w, IF w = "loader" THEN "take" ELSE "idle")
    /\ UNCHANGED <<requests, loadState, plain, root, companion, buildLock, id, reading,
                   doomed, activatedId, handled, callbackVars, pendingStore,
                   pendingFor, rotation, builds, active>>

\* PublishSoundFontBundle: the bundle it replaces was never rendered.
Publish(w) ==
    /\ pc[w] = "publish"
    /\ pending' = bundle[w] /\ Hold(w, NoBundle) /\ Destroy({pending})
    /\ Goto(w, IF w = "loader" THEN "take" ELSE "idle")
    /\ UNCHANGED <<requests, loadState, plain, root, companion, buildLock, id, reading,
                   doomed, outsideRequests>>

-----------------------------------------------------------------------------
(* SoundFontLoaderLoop.                                                    *)

outsideLoader == <<newest, requested, activatedId, pointers, hilbert, buildLock,
                   reading, doomed, callbackVars>>

WaitForRequest ==
    /\ pc["loader"] = "idle" /\ loadEvent /\ loadEvent' = FALSE
    /\ Goto("loader", "take")
    /\ UNCHANGED <<loadState, handled, heap, id, bundle, outsideLoader>>

TakeRequest ==
    /\ pc["loader"] = "take"
    /\ IF requested \in {0, handled}
         THEN Goto("loader", "idle") /\ UNCHANGED <<id, handled>>
         ELSE /\ id' = [id EXCEPT !["loader"] = requested] /\ handled' = requested
              /\ Goto("loader", "build")
    /\ UNCHANGED <<loadEvent, loadState, heap, bundle, outsideLoader>>

\* What was built for a superseded request is destroyed.
CheckNewest ==
    /\ pc["loader"] = "check"
    /\ IF newest # id["loader"]
         THEN /\ Destroy({bundle["loader"]}) /\ Hold("loader", NoBundle)
              /\ Goto("loader", "take")
         ELSE /\ Goto("loader", IF bundle["loader"] = NoBundle THEN "fail" ELSE "mark")
              /\ UNCHANGED <<destroyed, refs, bundle>>
    /\ id' = [id EXCEPT !["loader"] = 0]
    /\ UNCHANGED <<loadEvent, loadState, handled, plain, root, outsideLoader>>

ReportFailure ==
    /\ pc["loader"] = "fail" /\ loadState' = 4 /\ Goto("loader", "take")
    /\ UNCHANGED <<loadEvent, handled, heap, id, bundle, outsideLoader>>

Loader == \/ WaitForRequest \/ TakeRequest \/ EnterBuild("loader")
          \/ LeaveBuild("loader") \/ CheckNewest \/ ReportFailure
          \/ Mark("loader") \/ Publish("loader")

-----------------------------------------------------------------------------
(* BuildRuntimeLinkTelemetry: ReclaimRetiredSoundFonts, then the path of   *)
(* the active bundle is copied.                                            *)

outsideTelemetry == <<requests, activatedId, loadState, handled, active, pending,
                      plain, root, hilbert, id, bundle, callbackVars>>

ReclaimRetired(t) ==
    /\ pc[t] = "idle" /\ "telemetry" \in Calls[t]
    /\ buildLock = NoOwner /\ buildLock' = t
    /\ doomed' = [doomed EXCEPT ![t] = retired] /\ retired' = {}
    /\ Goto(t, "reclaim")
    /\ UNCHANGED <<reading, destroyed, refs, outsideTelemetry>>

DestroyRetired(t) ==
    /\ pc[t] = "reclaim" /\ Destroy(doomed[t])
    /\ doomed' = [doomed EXCEPT ![t] = {}]
    /\ buildLock' = IF buildLock = t THEN NoOwner ELSE buildLock
    /\ Goto(t, "path")
    /\ UNCHANGED <<retired, reading, outsideTelemetry>>

\* CopyActiveSoundFontPath, under buildMutex
LoadActive(t) ==
    /\ pc[t] = "path" /\ \A u \in Threads : pc[u] # "copy"
    /\ Read(t, active) /\ Goto(t, "copy")
    /\ UNCHANGED <<retired, doomed, buildLock, destroyed, refs, outsideTelemetry>>
CopyPath(t) ==
    /\ pc[t] = "copy" /\ Read(t, NoBundle) /\ Goto(t, "idle")
    /\ UNCHANGED <<retired, doomed, buildLock, destroyed, refs, outsideTelemetry>>

-----------------------------------------------------------------------------
(* The Hilbert companion store.                                            *)

outsideHilbert == <<requests, activatedId, loadState, handled, pointers, heap,
                    companion, id, bundle, doomed, callbackVars>>

\* A rotation mode is set, any number of times (bound: before the last request);
\* for one that needs the store, EnsureHilbertStoreAsync looks at the active
\* bundle and starts the builder unless one runs (bound: MaxBuilds).
SetRotation(t) ==
    /\ pc[t] = "idle" /\ "rotation" \in Calls[t] /\ newest < MaxRequests
    /\ rotation' \in BOOLEAN
    /\ IF rotation' THEN Read(t, active) /\ Goto(t, "ensure") ELSE UNCHANGED <<reading, pc>>
    /\ UNCHANGED <<pendingStore, pendingFor, builds, buildLock, outsideHilbert>>

\* (A bundle freed meanwhile reads as with or without a store.)
EnsureHilbertStore(t) ==
    /\ pc[t] = "ensure" /\ Read(t, NoBundle)
    /\ \/ /\ companion[reading[t]] = NoBundle \/ ~Exists(reading[t])
          /\ pc["builder"] = "idle" /\ builds < MaxBuilds
          /\ pc' = [pc EXCEPT ![t] = "idle", !["builder"] = "begin"]
          /\ builds' = builds + 1
       \/ /\ \/ companion[reading[t]] # NoBundle \/ ~Exists(reading[t])
             \/ pc["builder"] # "idle" \/ builds = MaxBuilds
          /\ Goto(t, "idle") /\ UNCHANGED builds
    /\ UNCHANGED <<pendingStore, pendingFor, rotation, buildLock, outsideHilbert>>

\* BuildHilbertForActiveBundle
BuilderBegin ==
    /\ pc["builder"] = "begin" /\ buildLock = NoOwner
    /\ IF companion[active] = NoBundle
         THEN buildLock' = "builder" /\ Read("builder", active) /\ Goto("builder", "aim")
         ELSE Goto("builder", "idle") /\ UNCHANGED <<buildLock, reading>>
    /\ UNCHANGED <<pendingStore, pendingFor, rotation, builds, outsideHilbert>>

\* The store is made, one nobody adopted is freed, and the bundle noted.
BuilderAim ==
    /\ pc["builder"] = "aim" /\ pendingStore' = NoBundle
    /\ pendingFor' = reading["builder"] /\ Goto("builder", "offer")
    /\ UNCHANGED <<rotation, builds, buildLock, reading, outsideHilbert>>

BuilderOffer ==
    /\ pc["builder"] = "offer" /\ pendingStore' = reading["builder"]
    /\ buildLock' = NoOwner /\ Read("builder", NoBundle) /\ Goto("builder", "idle")
    /\ UNCHANGED <<pendingFor, rotation, builds, outsideHilbert>>

Builder == BuilderBegin \/ BuilderAim \/ BuilderOffer

-----------------------------------------------------------------------------
(* The audio callback.                                                     *)

outsideCallback == <<requests, handled, heap, pendingFor, rotation, builds, buildLock,
                     workers>>

\* AdoptPendingHilbertAtBlockBoundary takes the store,
AdoptStore ==
    /\ callback = "adopt"
    /\ taken' = pendingStore /\ pendingStore' = NoBundle
    /\ callback' = IF pendingStore = NoBundle THEN "swap" ELSE "compare"
    /\ UNCHANGED <<companion, pointers, activatedId, loadState, next, old,
                   outsideCallback>>

\* Mutant: whatever store is there is adopted.
CompareNothing ==
    /\ callback = "compare"
    /\ companion' = IF companion[active] = NoBundle
                    THEN [companion EXCEPT ![active] = taken] ELSE companion
    /\ taken' = NoBundle /\ callback' = "swap"
    /\ UNCHANGED <<pendingStore, pointers, activatedId, loadState, next, old,
                   outsideCallback>>

\* and gives it to the active bundle if that is the one it was made for and
\* has none; it is freed by the next build otherwise.
CompareStore ==
    /\ callback = "compare"
    /\ companion' = IF active = pendingFor /\ companion[active] = NoBundle
                    THEN [companion EXCEPT ![active] = taken] ELSE companion
    /\ taken' = NoBundle /\ callback' = "swap"
    /\ UNCHANGED <<pendingStore, pointers, activatedId, loadState, next, old,
                   outsideCallback>>

\* ActivatePendingSoundFontAtBlockBoundary takes the pending bundle,
SwapPending ==
    /\ callback = "swap"
    /\ next' = pending /\ pending' = NoBundle
    /\ callback' = IF pending = NoBundle THEN "adopt" ELSE "install"
    /\ UNCHANGED <<active, retired, companion, pendingStore, activatedId, loadState,
                   old, taken, outsideCallback>>

\* Mutant: the pending pointer is cleared only now.
InstallClears ==
    /\ callback = "install"
    /\ old' = active /\ active' = next /\ callback' = "announce"
    /\ pending' = NoBundle
    /\ UNCHANGED <<retired, companion, pendingStore, activatedId, loadState,
                   next, taken, outsideCallback>>

\* points the cores at it and makes it the active one,
InstallActive ==
    /\ callback = "install"
    /\ old' = active /\ active' = next /\ callback' = "announce"
    /\ UNCHANGED <<pending, retired, companion, pendingStore, activatedId, loadState,
                   next, taken, outsideCallback>>

\* and reports it, as the state of the newest request only if it is that,
Announce ==
    /\ callback = "announce" /\ activatedId' = next
    /\ callback' = IF newest = next THEN "state" ELSE "retire"
    /\ UNCHANGED <<pointers, companion, pendingStore, loadState, next, old, taken,
                   outsideCallback>>

StoreState ==
    /\ callback = "state" /\ loadState' = 3 /\ callback' = "retire"
    /\ UNCHANGED <<pointers, companion, pendingStore, activatedId, next, old, taken,
                    outsideCallback>>

\* RetireSoundFontBundle.  Every core then renders the block from the active
\* bundle.
Retire ==
    /\ callback = "retire"
    /\ retired' = retired \cup {old} /\ old' = NoBundle /\ next' = NoBundle
    /\ callback' = "adopt"
    /\ UNCHANGED <<active, pending, companion, pendingStore, activatedId, loadState,
                   taken, outsideCallback>>

Callback == \/ AdoptStore \/ CompareStore \/ SwapPending
            \/ InstallActive \/ Announce \/ StoreState \/ Retire

-----------------------------------------------------------------------------
Begin(t) == Number(t) \/ ReclaimRetired(t) \/ SetRotation(t)
Continue(t) == \/ StoreRequest(t) \/ EnterBuild(t) \/ LeaveBuild(t) \/ Mark(t)
               \/ Publish(t) \/ DestroyRetired(t) \/ LoadActive(t) \/ CopyPath(t)
               \/ EnsureHilbertStore(t)

Next ==
    \/ \E t \in Threads : Begin(t) \/ Continue(t)
    \/ Loader \/ Builder \/ Callback

\* The driver's threads go on, calls in progress too, and the loader gets
\* soundFontBuildCs_ at last; nobody has to make a call.
Fairness ==
    /\ WF_vars(Callback) /\ WF_vars(Loader) /\ WF_vars(Builder)
    /\ SF_vars(EnterBuild("loader")) /\ \A t \in Threads : WF_vars(Continue(t))

Spec == Init /\ [][Next]_vars /\ Fairness

-----------------------------------------------------------------------------
(* Properties.                                                             *)

Labels == {"away", "idle", "store", "build", "make", "mark", "publish", "take", "check",
           "fail", "reclaim", "path", "copy", "ensure", "begin", "aim",
           "offer"}
Stops == {"adopt", "compare", "swap", "install", "announce", "state",
          "retire"}

\* Every variable has its type.
TypeOK ==
    /\ newest \in Ids /\ activatedId \in Ids /\ loadState \in 0 .. 4
    /\ {requested, handled, active, pending, pendingStore, pendingFor, next, old,
        taken} \subseteq 0 .. MaxRequests
    /\ {loadEvent, rotation} \subseteq BOOLEAN
    /\ retired \subseteq Ids /\ destroyed \subseteq Ids
    /\ plain \in [Ids -> BOOLEAN] /\ root \in [Ids -> Ids \cup {NoBundle}]
    /\ refs \in [Ids -> Nat] /\ companion \in [Ids -> Ids \cup {NoBundle}]
    /\ builds \in 0 .. MaxBuilds /\ buildLock \in Workers \cup {NoOwner}
    /\ pc \in [Workers -> Labels] /\ id \in [Workers -> 0 .. MaxRequests]
    /\ reading \in [Workers -> 0 .. MaxRequests]
    /\ bundle \in [Workers -> 0 .. MaxRequests] /\ doomed \in [Workers -> SUBSET Ids]
    /\ callback \in Stops

\* Nobody uses freed memory: a bundle that the cores render from, that the
\* callback is about to activate, or that a build, the companion builder or a
\* caller is reading, has not been freed, and neither has the parsed data of the
\* bank it shares with an older bundle.  One case is excepted: a caller reads the
\* active bundle without soundFontBuildCs_ (CopyActiveSoundFontPath,
\* EnsureHilbertStoreAsync), and the telemetry pass of another caller, and
\* nothing else, destroys it.
ReadsUnlocked(w) == pc[w] \in {"copy", "ensure"}
UsedIsAlive ==
    /\ [](/\ Alive(active) /\ \A b \in {pending, next} \ {NoBundle} : Alive(b)
          /\ \A w \in Workers : reading[w] # NoBundle =>
                \/ Alive(reading[w])
                \/ ReadsUnlocked(w) /\ reading[w] \in destroyed)
    /\ [][\A w \in Workers, b \in destroyed' \ destroyed : reading[w] = b =>
             ReadsUnlocked(w) /\ \E t \in Threads \ {w} : b \in doomed[t]]_vars

\* A bundle that was built and not destroyed is in exactly one place on its
\* way, and a destroyed one in none: none is leaked, freed twice or activated
\* twice, whichever of two publications comes last.
OnePlace ==
    \A b \in Ids : root[b] # NoBundle =>
        Cardinality({w \in Workers : bundle[w] = b}) +
        Cardinality({w \in Workers : b \in doomed[w]}) +
        Cardinality({p \in {<<1, pending>>, <<2, active>>, <<3, old>>} : p[2] = b}) +
        Cardinality({p \in {"install"} : p = callback /\ next = b}) +
        Cardinality({b} \cap retired)
        = IF b \in destroyed THEN 0 ELSE 1

\* A bundle gets a companion store made of its own samples: one that was being
\* built while the bundle was replaced is not adopted by its successor.  One case
\* is excepted: since the callback took the store, the builder has noted the
\* bundle of a further build in pendingHilbertFor_.
AimedAgain == pc["builder"] = "offer" \/ pendingStore # NoBundle
CompanionMatches ==
    [][\A b \in Ids : companion'[b] \in {companion[b], b, NoBundle} \/ AimedAgain]_vars

\* A queued request that is the newest one, and not taken up by the loader yet,
\* is settled unless a newer one comes: it is activated and reported so, or the
\* loader goes back to sleep having built nothing for it.  (A LoadSoundFont on
\* its way may publish an older bundle last, and that bundle wins.)
Loading(t) == pc[t] \in {"build", "make", "mark", "publish"}
QueuedSettles ==
    \A n \in Ids \ {1} :
        (requested = n /\ newest = n /\ handled # n /\ \A t \in Threads : ~Loading(t))
            ~> \/ activatedId = n /\ loadState = 3
               \/ handled = n /\ pc["loader"] = "idle" /\ root[n] = NoBundle
               \/ newest # n
=============================================================================
