------------------------------ MODULE VoicePool ------------------------------
(***************************************************************************)
(* The voice pool of VoiceManager: launching, stealing, releasing and      *)
(* retiring the voices of a note, the pedals, merged voices and their      *)
(* forks, and the incremental steal index that all of these keep up to     *)
(* date.  Everything runs on the audio thread, one call at a time, so a    *)
(* public operation is one action; what is hard is what a long sequence    *)
(* of them does to the intrusive lists.                                    *)
(*                                                                         *)
(* The operators below take the pool, a record, to the pools the code may  *)
(* leave: a steal takes any indexed voice, since scores, levels and ages   *)
(* are left out.  Intrusive links are the sets and sequences they stand    *)
(* for: a play group is the live voices of one play index, a class list    *)
(* the Active voices of a class, a channel page the live voices of a       *)
(* channel.                                                                *)
(***************************************************************************)
EXTENDS Integers, Sequences, FiniteSets, SequencesExt

CONSTANTS
    Handles,   \* the slots of the pool
    Channels,
    Notes,
    Launches,  \* note-ons: [note, layers, mult], where a layer [class, offBy]
               \* is a region of the note, and mult the note-ons merged in it
    Limits,    \* values the host may give the voice limit
    Batching   \* stealBatchingEnabled_ (off in correctness mode)

VARIABLES
    pool,      \* VoiceManager
    born,      \* noteLaunchHandles_: the voices the last event launched
    sustain,   \* ChannelCache: channels whose CC64 is at least 64
    sostenuto  \* ChannelCache: channels whose CC66 is at least 64

vars == <<pool, born, sustain, sostenuto>>

Keys == Channels \X Notes
NoClass == 0
NoPlay == 0          \* UINT32_MAX
NoVoice == 0         \* kInvalidVoice

Capacity == Cardinality(Handles)

\* Initialize refuses a pool of no voices.
ASSUME HandlesAssumption ==
    IsFiniteSet(Handles) /\ Handles # {} /\ NoVoice \notin Handles
ASSUME KeysAssumption == Channels # {} /\ Notes # {}
\* LaunchVoiceGroup refuses a note of no layers.
ASSUME LaunchesAssumption ==
    \A on \in Launches :
        /\ on.note \in Notes /\ on.mult \in Nat \ {0}
        /\ on.layers \in Seq([class : Nat, offBy : Nat]) /\ on.layers # <<>>
ASSUME LimitsAssumption == Limits \subseteq Nat \ {0}
ASSUME BatchingAssumption == Batching \in BOOLEAN

FreeVoice ==
    [state |-> "Free", key |-> CHOOSE k \in Keys : TRUE, play |-> NoPlay,
     mult |-> 1, class |-> NoClass, held |-> {}]

\* VoiceManager::Reset: every slot free; the index is built by the first steal.
EmptyPool(limit) ==
    [voice |-> [h \in Handles |-> FreeVoice],
     chain |-> [k \in Keys |-> <<>>],       \* note-ons waiting, newest first
     active |-> <<>>,                       \* activeList_
     free |-> Handles,                      \* freeStack_
     leaf |-> [h \in Handles |-> 0],        \* position in the steal key, 0: none
     volatile |-> {},                       \* stealVolatileList_
     valid |-> FALSE,                       \* stealHeapValid_
     over |-> FALSE,                        \* stealHeapCount_ exceeds the leaves
     deferred |-> {},                       \* stealCandidateDeferred_
     limit |-> limit]                       \* voiceLimit_

Init ==
    /\ pool = EmptyPool(Capacity)
    /\ born = {}
    /\ sustain = {}
    /\ sostenuto = {}

-----------------------------------------------------------------------------
(* Loops. *)

\* A loop over the entries of a list, in order.
Along(Step(_, _), start, list) ==
    LET after[i \in 0 .. Len(list)] ==
            IF i = 0 THEN start ELSE Step(after[i - 1], list[i])
    IN  after[Len(list)]

\* n rounds of a loop whose step has several outcomes.
Rounds(Step(_), start, n) ==
    LET after[i \in 0 .. n] ==
            IF i = 0 THEN start ELSE UNION {Step(s) : s \in after[i - 1]}
    IN  after[n]

\* The members of S in the order of a list.
Picked(list, S) ==
    Along(LAMBDA r, h : IF h \in S THEN Append(r, h) ELSE r, <<>>, list)

-----------------------------------------------------------------------------
(* Reading the pool. *)

In(p, state) == {h \in Handles : p.voice[h].state = state}
Live(p) == Handles \ In(p, "Free")
OfChannel(p, c) == {h \in Live(p) : p.voice[h].key[1] = c}
Position(p, h) == SelectInSeq(p.active, LAMBDA g : g = h)
Waits(p, h) == Contains(p.chain[p.voice[h].key], h)

Group(p, h) ==
    IF p.voice[h].play = NoPlay THEN {h}
    ELSE {g \in Live(p) : p.voice[g].play = p.voice[h].play}

\* nextPlayIndex_ and nextForkPlayIndex_: an index no live voice has.
FreshPlay(p) ==
    Min({n \in 1 .. Capacity + 1 : \A h \in Live(p) : p.voice[h].play # n})

InOrder(p, S) == Picked(p.active, S)

\* Between events.  A free slot's row means nothing, the next launch writes
\* all of it; play indices matter only where they are equal, so a group goes
\* by the place of its first voice.
Settled(p) ==
    [p EXCEPT !.voice = [h \in Handles |->
        IF @[h].state = "Free" THEN FreeVoice
        ELSE [@[h] EXCEPT !.play = Min({Position(p, g) : g \in Group(p, h)})]]]

-----------------------------------------------------------------------------
(* The steal index.                                                        *)

\* RemoveStealCandidate; what is left of an invalid index is never read.
Unindex(p, h) == [p EXCEPT !.leaf[h] = 0, !.volatile = @ \ {h}]

\* PushStealCandidate: counts a new leaf, whatever the slot held.
Index(p, h) ==
    IF ~p.valid THEN p
    ELSE IF p.voice[h].state = "Releasing" THEN [p EXCEPT !.volatile = @ \union {h}]
    ELSE [p EXCEPT !.leaf[h] = Position(p, h), !.over = @ \/ p.leaf[h] # 0]

\* UpdateStealCandidate: moves the voice to the tier it belongs to.
Refresh(p, h) ==
    LET q == Unindex(p, h) IN
    IF ~p.valid \/ h \in p.deferred THEN p
    ELSE CASE p.voice[h].state = "Active" -> [q EXCEPT !.leaf[h] = Position(p, h)]
           [] p.voice[h].state = "Releasing" -> [q EXCEPT !.volatile = @ \union {h}]
           [] OTHER -> q

\* BuildStealHeap: from the active list alone.
Rebuilt(p) ==
    [p EXCEPT !.leaf = [h \in Handles |-> IF h \in In(p, "Active")
                                          THEN Position(p, h) ELSE 0],
              !.volatile = In(p, "Releasing"),
              !.over = FALSE,
              !.valid = TRUE]

Invalidated(p) ==
    [p EXCEPT !.leaf = [h \in Handles |-> 0], !.volatile = {},
              !.over = FALSE, !.valid = FALSE]

Indexed(p) == p.volatile \union {h \in Handles : p.leaf[h] # 0}

\* The index a pop looks at: rebuilt when it is invalid, and when the count
\* promises a leaf and the tree has none.
Searched(p) ==
    IF ~p.valid \/ (p.over /\ \A h \in Handles : p.leaf[h] = 0)
    THEN Rebuilt(p) ELSE p

\* A leaf names its voice by position.  One past the list rebuilds the index.
Winner(p, h) == IF h \in p.volatile THEN h ELSE p.active[p.leaf[h]]
Dangling(p, h) == h \notin p.volatile /\ p.leaf[h] > Len(p.active)

Picks(p, reserve) ==
    {[pool |-> IF reserve THEN p ELSE Unindex(p, Winner(p, h)),
      victim |-> Winner(p, h)] : h \in {g \in Indexed(p) : ~Dangling(p, g)}}

\* PopStealCandidate, tiers; reserve leaves the winner's entry in place.
PopTier(p, reserve) ==
    LET s == Searched(p) IN
    IF Indexed(s) = {} THEN {[pool |-> s, victim |-> NoVoice]}
    ELSE Picks(s, reserve)
         \union IF \E h \in Indexed(s) : Dangling(s, h)
                THEN Picks(Rebuilt(s), reserve) ELSE {}

\* The ring of released voices, looked at only when no slot is free, and then
\* first; all of them are in it (its overflow is left out).
RingVictims(p) == IF p.free = {} THEN In(p, "Releasing") ELSE {}

\* PopStealCandidate(FALSE)
Pop(p) ==
    IF RingVictims(p) = {} THEN PopTier(p, FALSE)
    ELSE LET s == IF p.valid THEN p ELSE Rebuilt(p)
         IN  {[pool |-> Unindex(s, h), victim |-> h] : h \in RingVictims(p)}

-----------------------------------------------------------------------------
(* The life of a voice. *)

Unlink(p, h) == [p EXCEPT !.chain[p.voice[h].key] = RemoveFirst(@, h)]

\* StartRelease
Release(p, h) ==
    IF p.voice[h].state # "Active" THEN p
    ELSE Refresh([Unlink(p, h) EXCEPT !.voice[h].state = "Releasing",
                                      !.voice[h].held = {}], h)

ReleaseAll(p, S) == Along(Release, p, InOrder(p, S))

\* Mutant of Vacate: the moved voice keeps the steal key of its old position.
VacateStaleKey(p, h, popped) ==
    LET last == Len(p.active)
        at == Position(p, h)
    IN  [p EXCEPT !.voice[h].state = "Free",
                  !.free = @ \union {h},
                  !.active = SubSeq([@ EXCEPT ![at] = p.active[last]], 1, last - 1)]

\* Swap-removal: the last voice of the active list takes the freed position,
\* and its steal key, which embeds the position, is written again.
Vacate(p, h, popped) ==
    LET last == Len(p.active)
        at == Position(p, h)
        moved == p.active[last]
        q == [p EXCEPT !.voice[h].state = "Free",
                       !.free = @ \union {h},
                       !.active = SubSeq([@ EXCEPT ![at] = moved], 1, last - 1)]
    IN  IF moved \in {h, popped} THEN q ELSE Refresh(q, moved)

\* Mutant of Drop: the voice stays on its key's chain.
DropLinked(p, h, popped) ==
    IF p.voice[h].state = "Free" THEN p
    ELSE [Vacate(Unindex(p, h), h, popped) EXCEPT !.deferred = @ \ {h}]

\* RetireVoice, and RetireStolenSibling where the selected victim keeps out
\* of the index.
Drop(p, h, popped) ==
    LET q == Vacate(Unlink(Unindex(p, h), h), h, popped)
    IN  IF p.voice[h].state = "Free" THEN p ELSE [q EXCEPT !.deferred = @ \ {h}]
RetireVoice(p, h) == Drop(p, h, NoVoice)
RetireStolenSibling(p, h, victim) == Drop(p, h, victim)

\* InitializePreparedVoice and LinkChannelKey
Prepare(p, h, key) ==
    [p EXCEPT !.voice[h] = [state |-> "Active", key |-> key, play |-> NoPlay,
                            mult |-> 1, class |-> NoClass, held |-> {}],
              !.chain[key] = <<h>> \o @,
              !.deferred = @ \union {h}]

\* AllocateVoiceOrSteal, free slot
TakeFree(p, key) ==
    {LET q == [p EXCEPT !.free = @ \ {h}, !.active = Append(@, h)]
     IN  [pool |-> Prepare(q, h, key), handle |-> h] : h \in p.free}

\* Mutant of TakeVictim: the victim alone is taken, its siblings play on.
TakeVictimAlone(p, key, victim) ==
    [pool |-> Prepare(Unlink(p, victim), victim, key), handle |-> victim]

\* AllocateVoiceOrSteal, steal: the siblings of the victim go with it.
TakeVictim(p, key, victim) ==
    LET q == Along(LAMBDA r, h : RetireStolenSibling(r, h, victim),
                   p, InOrder(p, Group(p, victim) \ {victim}))
    IN  [pool |-> Prepare(Unlink(q, victim), victim, key), handle |-> victim]

\* Mutant of HasRoom: a free slot is enough.
HasRoomUnlimited(p) == p.free # {}

HasRoom(p) == p.free # {} /\ Len(p.active) < p.limit

\* AllocateVoiceOrSteal; pops are the selections it may make.
Allocate(p, key, pops) ==
    CASE Len(p.active) > p.limit -> {[pool |-> p, handle |-> NoVoice]}
      [] HasRoom(p) -> TakeFree(p, key)
      [] OTHER ->
            {IF r.victim = NoVoice THEN [pool |-> r.pool, handle |-> NoVoice]
             ELSE TakeVictim(r.pool, key, r.victim) : r \in pops}

\* CommitVoiceConfiguration of every layer
Commit(p, handles) ==
    Along(LAMBDA q, h : Index([q EXCEPT !.deferred = @ \ {h}], h), p, handles)

\* ConfigureVoice of every layer, then the group becomes stealable.
Configure(p, handles, layers, play, mult) ==
    Commit([p EXCEPT !.voice = [h \in Handles |->
                IF \A i \in DOMAIN handles : handles[i] # h THEN @[h]
                ELSE [@[h] EXCEPT
                        !.play = play, !.mult = mult,
                        !.class = layers[CHOOSE i \in DOMAIN handles :
                                            handles[i] = h].class]]],
           handles)

Launched(p, handles, layers, play, mult) ==
    [pool |-> Configure(p, handles, layers, play, mult), born |-> ToSet(handles)]

-----------------------------------------------------------------------------
(* Launching a note. *)

\* ChokeExclusiveClasses: whole notes, once, before any layer of the new one.
ChokedClasses(layers) ==
    {IF layers[i].offBy # NoClass THEN layers[i].offBy ELSE layers[i].class :
        i \in DOMAIN layers} \ {NoClass}
Choked(p, channel, layers) ==
    UNION {Group(p, h) : h \in {g \in In(p, "Active") :
                                   /\ p.voice[g].key[1] = channel
                                   /\ p.voice[g].class \in ChokedClasses(layers)}}
Choke(p, channel, layers) == ReleaseAll(p, Choked(p, channel, layers))

\* ReplaceGroupInPlace: every voice keeps its slot and its position.
ReplaceInPlace(p, handles, key) ==
    Along(LAMBDA q, h : Prepare(Unlink(Unindex(q, h), h), h, key), p, handles)

\* TryLaunchSingleVoiceInPlace: a full pool, one layer, any candidate, or a
\* released voice without siblings.
InPlace(p, key, layers, play, mult) ==
    IF p.free # {} \/ Len(layers) # 1 THEN {}
    ELSE LET lone == {h \in RingVictims(p) : Group(p, h) = {h}}
             tier == IF lone # {} /\ lone = RingVictims(p) THEN {}
                     ELSE {r \in PopTier(p, TRUE) : r.victim # NoVoice}
             picks == tier
                      \union {[pool |-> p, victim |-> h] : h \in lone}
         IN {Launched(ReplaceInPlace(r.pool, <<r.victim>>, key), <<r.victim>>,
                       layers, play, mult) : r \in picks}

\* ReuseMatchingStealGroup: the victim's group has as many layers.
Matching(p, key, layers, play, mult) ==
    IF p.free # {} THEN {}
    ELSE LET picks == {r \in PopTier(p, TRUE) :
                          /\ r.victim # NoVoice
                          /\ Cardinality(Group(p, r.victim)) = Len(layers)}
             Slots(r) == <<r.victim>> \o InOrder(p, Group(p, r.victim) \ {r.victim})
         IN {Launched(ReplaceInPlace(r.pool, Slots(r), key), Slots(r),
                       layers, play, mult) : r \in picks}

\* PopStealCandidates: up to n pops before the first layer is placed.
PopMany(p, n) ==
    LET more(s) ==
            {IF r.victim = NoVoice THEN [s EXCEPT !.pool = r.pool]
             ELSE [pool |-> r.pool,
                   popped |-> Append(s.popped,
                                     [victim |-> r.victim,
                                      position |-> Position(s.pool, r.victim)])] :
                r \in Pop(s.pool)}
    IN  Rounds(more, {[pool |-> p, popped |-> <<>>]}, n)

\* RearmLiveBatchVictims: what was popped, not used and still sounds goes
\* back with the key it had; a released victim does not.
Rearm(p, popped, used) ==
    Along(LAMBDA q, i :
             LET h == popped[i].victim IN
             IF i \in used \/ q.voice[h].state # "Active" THEN q
             ELSE [q EXCEPT !.leaf[h] = IF @ # 0 THEN @ ELSE popped[i].position,
                            !.over = @ \/ q.leaf[h] # 0],
          p, [i \in DOMAIN popped |-> i])

\* One layer of the general path.  A victim of the batch is used only where
\* the layer must steal; the probe for a matching group has seen the winner.
PlaceLayer(s, key, count, probed) ==
    LET unused == {i \in s.cursor .. Len(s.popped) :
                      s.pool.voice[s.popped[i].victim].state = "Active"}
        cursor == IF unused = {} THEN Len(s.popped) + 1 ELSE Min(unused)
        feed == unused # {} /\ s.pool.free = {} /\ Len(s.pool.active) >= s.pool.limit
        Pops(q) ==
            IF feed THEN {[pool |-> q, victim |-> s.popped[cursor].victim]}
            ELSE {r \in Pop(q) :
                    probed /\ s.handles = <<>> =>
                        \/ r.victim \in RingVictims(q) \union {NoVoice}
                        \/ Cardinality(Group(q, r.victim)) # count}
    IN {[s EXCEPT !.pool = r.pool,
                  !.handles = Append(@, r.handle),
                  !.cursor = IF feed THEN cursor + 1 ELSE cursor,
                  !.used = IF feed /\ r.handle # NoVoice THEN @ \union {cursor} ELSE @,
                  !.failed = r.handle = NoVoice] :
            r \in Allocate(s.pool, key, Pops(s.pool))}

PlaceLayers(p, key, count, batch) ==
    LET probed == p.free = {}
        start == {s \in IF batch THEN PopMany(p, count)
                        ELSE {[pool |-> p, popped |-> <<>>]} :
                    probed /\ s.popped # <<>> =>
                        Cardinality(Group(p, s.popped[1].victim)) # count}
    IN  Rounds(LAMBDA s : IF s.failed THEN {s} ELSE PlaceLayer(s, key, count, probed),
               {[pool |-> s.pool, popped |-> s.popped, cursor |-> 1,
                 used |-> {}, handles |-> <<>>, failed |-> FALSE] : s \in start},
               count)

\* A layer found no slot: the layers placed so far are retired again.
RollBack(p, handles) ==
    Along(LAMBDA q, h : IF h = NoVoice THEN q ELSE RetireVoice(q, h), p, handles)

\* The allocation loop of LaunchVoiceGroup.
General(p, key, layers, play, mult, batch) ==
    {LET q == Rearm(s.pool, s.popped, s.used) IN
     IF s.failed THEN [pool |-> RollBack(q, s.handles), born |-> {}]
     ELSE Launched(q, s.handles, layers, play, mult) :
        s \in PlaceLayers(p, key, Len(layers), batch)}

\* The batch is for layered notes; with no free slot an entry of the ring of
\* released voices, even a stale one, rules it out.
BatchChoices(p, layers) ==
    IF ~Batching \/ Len(layers) < 2 \/ RingVictims(p) # {} THEN {FALSE}
    ELSE IF p.free = {} THEN BOOLEAN ELSE {TRUE}

LaunchVoiceGroup(p, key, layers, mult) ==
    IF Len(layers) > p.limit THEN {[pool |-> p, born |-> {}]}
    ELSE LET q == Choke(p, key[1], layers)
             play == FreshPlay(q)
         IN InPlace(q, key, layers, play, mult)
            \union Matching(q, key, layers, play, mult)
            \union UNION {General(q, key, layers, play, mult, b) :
                             b \in BatchChoices(q, layers)}

-----------------------------------------------------------------------------
(* Note-offs and forks. *)

Hold(p, h, pedal) == [p EXCEPT !.voice[h].held = @ \union pedal]

\* The layers of a generation that waits on a key, in walking order.
Layers(p, key, play, newest) ==
    Picked(IF newest THEN p.chain[key] ELSE Reverse(p.chain[key]),
           {h \in Handles : p.voice[h].play = play})

\* NoteOffPlayIndex: a held voice leaves its key's chain, so that the next
\* note-off finds the next note.
NoteOffPlayIndex(p, key, play, down) ==
    Along(LAMBDA q, h :
             IF down \/ "sostenuto" \in q.voice[h].held
             THEN Unlink(Hold(q, h, IF down THEN {"sustain"} ELSE {}), h)
             ELSE Release(q, h),
          p, Layers(p, key, play, FALSE))

\* A slot for one more layer of a twin; pops are the selections it may make.
PlaceTwinLayer(s, key, pops) ==
    IF s.failed THEN {s}
    ELSE {[pool |-> r.pool, handles |-> Append(s.handles, r.handle),
           failed |-> r.handle = NoVoice] : r \in Allocate(s.pool, key, pops)}

\* Mutant of PlaceTwin: the sources are victims like any other.
PlaceTwinUnkeyed(p, key, source) ==
    Rounds(LAMBDA s : PlaceTwinLayer(s, key, Pop(s.pool)),
           {[pool |-> p, handles |-> <<>>, failed |-> FALSE]}, Len(source))

\* The sources are re-keyed to be the last choice.
TwinPops(p, source) ==
    LET spare == {r \in Pop(p) : r.victim \notin ToSet(source)}
    IN  IF spare = {} THEN Pop(p) ELSE spare

\* The slots of a twin.
PlaceTwin(p, key, source) ==
    {[s EXCEPT !.pool = Along(Refresh, @, source)] :
        s \in Rounds(LAMBDA t : PlaceTwinLayer(t, key, TwinPops(t.pool, source)),
                     {[pool |-> p, handles |-> <<>>, failed |-> FALSE]}, Len(source))}

\* Each layer of the twin plays on from its source, as `units` note-ons; `rest`
\* of them stay.
Split(p, source, twin, play, units, rest) ==
    Along(LAMBDA q, i :
             [q EXCEPT !.voice[twin[i]] =
                           [q.voice[source[i]] EXCEPT
                               !.state = "Active", !.play = play,
                               !.mult = units, !.held = @ \ {"sustain"}],
                       !.voice[source[i]].mult = rest],
          p, [i \in DOMAIN twin |-> i])

\* ForkReleasedUnits: `units` copies of the generation move to a twin, which
\* takes the note-off.
ForkReleasedUnits(p, key, play, units, down, newest) ==
    LET source == Layers(p, key, play, newest)
        mult == p.voice[source[1]].mult
        Twin(s) ==
            LET fresh == FreshPlay(s.pool)
                q == Split(s.pool, source, s.handles, fresh, units, mult - units)
            IN  NoteOffPlayIndex(Commit(q, s.handles), key, fresh, down)
    IN  IF source = <<>> \/ units >= mult THEN {[pool |-> p, forked |-> FALSE]}
        ELSE {IF s.failed THEN [pool |-> RollBack(s.pool, s.handles), forked |-> FALSE]
              ELSE [pool |-> Twin(s), forked |-> TRUE] :
                 s \in PlaceTwin(p, key, source)}

\* NoteOffOldestPlayIndices: each pass serves one generation or one fork.
NoteOffs(p, key, count, down, newest) ==
    LET pass(s) ==
            LET chain == s.pool.chain[key]
                h == IF newest THEN chain[1] ELSE chain[Len(chain)]
                v == s.pool.voice[h]
                left == count - s.released
                forks == ForkReleasedUnits(s.pool, key, v.play, left, down, newest)
            IN  IF left = 0 \/ chain = <<>> THEN {s}
                ELSE IF v.mult > left
                THEN {[released |-> count,
                       pool |-> IF r.forked THEN r.pool
                                ELSE NoteOffPlayIndex(r.pool, key, v.play, down)] :
                         r \in forks}
                ELSE {[released |-> s.released + v.mult,
                       pool |-> NoteOffPlayIndex(s.pool, key, v.play, down)]}
    IN  {s.pool : s \in Rounds(pass, {[released |-> 0, pool |-> p]}, count)}

-----------------------------------------------------------------------------
(* Pedals. *)

\* ReleaseSustain, ReleaseSostenuto: a voice goes when nothing else keeps it.
Lift(p, h, pedal) == [p EXCEPT !.voice[h].held = @ \ {pedal}]

ReleaseSustain(p, c) ==
    Along(LAMBDA q, h : IF "sostenuto" \in q.voice[h].held
                        THEN Lift(q, h, "sustain")
                        ELSE Release(Lift(q, h, "sustain"), h),
          p, InOrder(p, {h \in OfChannel(p, c) : "sustain" \in p.voice[h].held}))

ReleaseSostenuto(p, c) ==
    Along(LAMBDA q, h : IF Waits(q, h) \/ "sustain" \in q.voice[h].held
                        THEN Lift(q, h, "sostenuto")
                        ELSE Release(Lift(q, h, "sostenuto"), h),
          p, InOrder(p, {h \in OfChannel(p, c) : "sostenuto" \in p.voice[h].held}))

CaptureSostenuto(p, c) ==
    Along(LAMBDA q, h : Hold(q, h, {"sostenuto"}), p,
          InOrder(p, {h \in OfChannel(p, c) \intersect In(p, "Active") : Waits(p, h)}))

-----------------------------------------------------------------------------
(* The events of the audio thread. *)

\* Driver::HandleNoteOn
NoteOn(key, layers, mult) ==
    /\ \E r \in LaunchVoiceGroup(pool, key, layers, mult) :
          pool' = Settled(r.pool) /\ born' = r.born
    /\ UNCHANGED <<sustain, sostenuto>>

\* Driver::HandleNoteOff, and HandleStaleNoteOffBatch for more than one.
NoteOff(key, count, newest) ==
    /\ \E q \in NoteOffs(pool, key, count, key[1] \in sustain, newest) :
          pool' = Settled(q)
    /\ born' = {}
    /\ UNCHANGED <<sustain, sostenuto>>

\* CC64
SustainPedal(c, down) ==
    /\ sustain' = IF down THEN sustain \union {c} ELSE sustain \ {c}
    /\ pool' = IF down THEN pool ELSE ReleaseSustain(pool, c)
    /\ born' = {}
    /\ UNCHANGED sostenuto

\* CC66
SostenutoPedal(c, down) ==
    /\ sostenuto' = IF down THEN sostenuto \union {c} ELSE sostenuto \ {c}
    /\ pool' = CASE down /\ c \notin sostenuto -> CaptureSostenuto(pool, c)
                 [] ~down /\ c \in sostenuto -> ReleaseSostenuto(pool, c)
                 [] OTHER -> pool
    /\ born' = {}
    /\ UNCHANGED sustain

\* Mutant of ResetControllers: the pedals are cleared before they are read.
ResetControllersClearFirst(c) ==
    /\ sustain' = sustain \ {c}
    /\ sostenuto' = sostenuto \ {c}
    /\ pool' = IF c \in sustain' THEN ReleaseSustain(pool, c) ELSE pool
    /\ born' = {}

\* CC121
ResetControllers(c) ==
    LET p == IF c \in sustain THEN ReleaseSustain(pool, c) ELSE pool IN
    /\ pool' = IF c \in sostenuto THEN ReleaseSostenuto(p, c) ELSE p
    /\ sustain' = sustain \ {c}
    /\ sostenuto' = sostenuto \ {c}
    /\ born' = {}

\* CC120: SilenceChannelImmediate
AllSoundOff(c) ==
    /\ pool' = Settled(Along(RetireVoice, pool,
                             Reverse(InOrder(pool, OfChannel(pool, c)))))
    /\ born' = {}
    /\ UNCHANGED <<sustain, sostenuto>>

\* CC123: ReleaseChannel
AllNotesOff(c) ==
    /\ pool' = ReleaseAll(pool, OfChannel(pool, c))
    /\ born' = {}
    /\ UNCHANGED <<sustain, sostenuto>>

\* The renderer: an envelope or a sample has ended.
RetireRendered(h) ==
    /\ h \in Live(pool)
    /\ pool' = Settled(RetireVoice(pool, h))
    /\ born' = {}
    /\ UNCHANGED <<sustain, sostenuto>>

\* EnforceVoiceLimit: the sounding voices above the limit are released, and
\* the index is left to the next steal.
EnforceVoiceLimit(p) ==
    LET sounding == In(p, "Active")
        victims == sounding \intersect Indexed(Searched(p))
        excess == Cardinality(sounding) - p.limit
    IN  IF Cardinality(sounding) <= p.limit THEN {p}
        ELSE {ReleaseAll(Invalidated(p), S) :
                 S \in kSubset(Min({excess, Cardinality(victims)}), victims)}

\* ApplyRuntimeVoiceLimit, before a block is planned; with the limit it had,
\* the next of the passes that are 10 ms apart.
ApplyRuntimeVoiceLimit(limit) ==
    LET p == [pool EXCEPT !.limit = limit] IN
    /\ pool' \in IF Len(p.active) > limit THEN EnforceVoiceLimit(p) ELSE {p}
    /\ born' = {}
    /\ UNCHANGED <<sustain, sostenuto>>

\* kInternalResetMessage
Reset ==
    /\ pool' = EmptyPool(pool.limit)
    /\ sustain' = {}
    /\ sostenuto' = {}
    /\ born' = {}

Next ==
    \/ \E c \in Channels, on \in Launches :
          NoteOn(<<c, on.note>>, on.layers, on.mult)
    \/ \E key \in Keys, count \in 1 .. 2, newest \in BOOLEAN :
          NoteOff(key, count, newest)
    \/ \E c \in Channels, down \in BOOLEAN : SustainPedal(c, down)
    \/ \E c \in Channels, down \in BOOLEAN : SostenutoPedal(c, down)
    \/ \E c \in Channels : ResetControllers(c)
    \/ \E c \in Channels : AllSoundOff(c)
    \/ \E c \in Channels : AllNotesOff(c)
    \/ \E h \in Handles : RetireRendered(h)
    \/ \E limit \in Limits : ApplyRuntimeVoiceLimit(limit)
    \/ Reset

Spec == Init /\ [][Next]_vars

-----------------------------------------------------------------------------
(* Properties. *)

VoiceType ==
    [state : {"Free", "Active", "Releasing"}, key : Keys, play : Nat,
     mult : Nat \ {0}, class : Nat, held : SUBSET {"sustain", "sostenuto"}]

(* Types, and the lists agree on which slots sound: a slot is free, or it is
   once on the active list; a key's chain holds Active voices of that key.   *)
TypeOK ==
    /\ pool.voice \in [Handles -> VoiceType]
    /\ born \subseteq In(pool, "Active")
    /\ pool.limit \in Nat \ {0}
    /\ sustain \subseteq Channels /\ sostenuto \subseteq Channels
    /\ pool.free = In(pool, "Free")
    /\ ToSet(pool.active) = Live(pool)
    /\ Len(pool.active) = Cardinality(Live(pool))
    /\ \A k \in Keys :
          /\ ToSet(pool.chain[k]) \subseteq
                {h \in In(pool, "Active") : pool.voice[h].key = k}
          /\ Len(pool.chain[k]) = Cardinality(ToSet(pool.chain[k]))

(* Between two events every Active voice has a steal key, with the position
   it has now on the active list; no other slot has one, and no launch is
   left half committed.  A key of another position makes a steal take the
   wrong voice, or read past the list.                                       *)
IndexCurrent ==
    /\ pool.deferred = {}
    /\ pool.valid =>
          /\ \A h \in Handles :
                pool.leaf[h] = IF h \in In(pool, "Active") THEN Position(pool, h)
                               ELSE 0
          /\ pool.volatile \subseteq In(pool, "Releasing")

(* No note hangs: what sounds waits for its note-off on its key's chain, or a
   pedal that is down now keeps it.                                          *)
NoHungNotes ==
    \A h \in In(pool, "Active") :
        \/ Waits(pool, h)
        \/ "sustain" \in pool.voice[h].held /\ pool.voice[h].key[1] \in sustain
        \/ "sostenuto" \in pool.voice[h].held /\ pool.voice[h].key[1] \in sostenuto

(* One note-off ends one unit: the key's waiting generations, newest first,
   with their layers and the note-ons each stands for.                       *)
Waiting(p, key) ==
    LET chain == p.chain[key]
        heads == SelectSeq(chain, LAMBDA h :
                    \A i \in 1 .. Len(chain) :
                        chain[i] \in Group(p, h) =>
                            SelectInSeq(chain, LAMBDA g : g = h) <= i)
    IN  [i \in DOMAIN heads |->
            [layers |-> Group(p, heads[i]) \intersect ToSet(chain),
             units |-> p.voice[heads[i]].mult]]

Serve(waiting, newest) ==
    IF waiting = <<>> THEN waiting
    ELSE LET i == IF newest THEN 1 ELSE Len(waiting)
         IN  IF waiting[i].units > 1 THEN [waiting EXCEPT ![i].units = @ - 1]
             ELSE RemoveAt(waiting, i)

Served(waiting, count, newest) ==
    LET serve[i \in 0 .. count] ==
            IF i = 0 THEN waiting ELSE Serve(serve[i - 1], newest)
    IN  serve[count]

\* Slots the twin of a merged generation of the key may need.
TwinLayers(p, key) ==
    Max({0} \union {Cardinality(Waiting(p, key)[i].layers) :
                       i \in {j \in DOMAIN Waiting(p, key) :
                                 Waiting(p, key)[j].units > 1}})

(* Whatever note-offs of a key come next, `count` of them leave what `count`
   single ones would, generation by generation with all their layers, and
   leave the other keys alone.  Where the twin of a split note has to steal
   and the index has another voice, it never takes the note being split.     *)
ReleasesOneUnit ==
    \A key \in Keys, count \in 1 .. 2, newest \in BOOLEAN :
    LET before == Waiting(pool, key)
        paired == before[IF newest THEN 1 ELSE Len(before)]
        need == TwinLayers(pool, key)
        roomy == /\ Cardinality(pool.free) >= need
                 /\ Len(pool.active) + need <= pool.limit
        spare == /\ Len(pool.active) <= pool.limit
                 /\ Cardinality(Indexed(Searched(pool)) \ paired.layers)
                       >= Cardinality(paired.layers)
    IN \A q \in NoteOffs(pool, key, count, key[1] \in sustain, newest) :
          /\ need = 0 \/ roomy =>
                /\ Waiting(q, key) = Served(before, count, newest)
                /\ \A h \in Live(pool) : pool.voice[h].key # key =>
                      q.voice[h] = pool.voice[h]
                /\ \A k \in Keys \ {key} : q.chain[k] = pool.chain[k]
          /\ before # <<>> /\ paired.units > count /\ spare =>
                \E i \in DOMAIN Waiting(q, key) :
                    Waiting(q, key)[i] = [paired EXCEPT !.units = @ - count]

(* A launch is whole: as many voices as the note has layers, none of them
   used twice, at the head of its key's chain; of every older note all layers
   are left or none, unless a one-layer note took one over in place; of what
   is left a launch releases the notes of its exclusive classes and no others. *)
LaunchWhole ==
    [][born' # {} =>
        LET key == pool'.voice[CHOOSE h \in born' : TRUE].key
            kept == (Live(pool) \intersect Live(pool')) \ born'
            Mutes(on, h) ==
                \E g \in Group(pool, h) \intersect In(pool, "Active") :
                    /\ pool.voice[g].key[1] = key[1]
                    /\ \E i \in DOMAIN on.layers :
                          pool.voice[g].class \in
                             {IF on.layers[i].offBy # NoClass THEN on.layers[i].offBy
                              ELSE on.layers[i].class} \ {NoClass}
        IN  /\ ToSet(SubSeq(pool'.chain[key], 1, Cardinality(born'))) = born'
            /\ \A h \in born' : Group(pool', h) = born'
            /\ Cardinality(born') > 1 =>
                  \A h \in Live(pool) : \/ Group(pool, h) \subseteq kept
                                        \/ Group(pool, h) \intersect kept = {}
            /\ \E on \in Launches :
                  /\ on.note = key[2] /\ Len(on.layers) = Cardinality(born')
                  /\ \A h \in born' : pool'.voice[h].mult = on.mult
                  /\ \A h \in kept \intersect In(pool, "Active") :
                        h \in In(pool', "Active") <=> ~Mutes(on, h)]_vars

(* The pool grows no further than the limit, whatever an event needs slots
   for: the layers of a launch, which take free slots, victims and slots that
   a steal has just freed, or the twin of a note that is split.  While more
   voices sound than a lowered limit allows, none is added.                  *)
LimitKept ==
    [][\/ Len(pool'.active) <= pool'.limit
       \/ Len(pool'.active) <= Len(pool.active)]_vars

=============================================================================
