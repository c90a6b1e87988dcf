--------------------------- MODULE PageFeedProofs ---------------------------
(***************************************************************************)
(* Proofs about PageFeed, for any number of pages from three on, any page  *)
(* capacity and any number of events.                                      *)
(*                                                                         *)
(* The argument is in two parts.  Every page is in exactly one place, and  *)
(* each step of the three threads moves at most one page from one place to *)
(* another: the counts of pages and the room in the queues follow.  And as *)
(* long as no copy of the direct producer ran over a page, the slots that  *)
(* are still to be played hold different events, none of them played, all  *)
(* of them events the feeders have already passed on: each step keeps the  *)
(* live slots, makes slots live that hold the feeder's next events, or     *)
(* plays some.                                                             *)
(***************************************************************************)
EXTENDS PageFeed, FiniteSetTheorems, SequenceTheorems, TLAPS

Labels == {"idle", "load", "acquire", "check", "observe", "retry", "wait", "open",
           "copy", "cas", "seal", "publish", "count", "pop", "fill", "stopped"}
Waiting == {"acquire", "check", "observe", "retry", "wait"}

\* The places a page can be in.
Places == {"free", "recycled", "ready", "active", "direct", "compiler", "open",
           "hand"}
In(p, k) ==
    \/ k = "free" /\ p \in RangeOf(compilerFree)
    \/ k = "recycled" /\ p \in RangeOf(recycled)
    \/ k = "ready" /\ p \in RangeOf(ready)
    \/ k = "active" /\ p \in Active
    \/ k = "direct" /\ held["direct"] = p
    \/ k = "compiler" /\ held["compiler"] = p
    \/ k = "open" /\ directState.page = p
    \/ k = "hand" /\ hand.page = p

\* A sequence of different elements.
Distinct(s) == \A i, j \in 1 .. Len(s) : s[i] = s[j] => i = j

PlacesInv ==
    /\ Distinct(compilerFree) /\ Distinct(recycled) /\ Distinct(ready)
    /\ \A p \in Pages : \E k \in Places : In(p, k)
    /\ \A p \in Pages : \A k, l \in Places : In(p, k) /\ In(p, l) => k = l

\* The direct producer: only it opens a page, so that the open page is the one
\* it loaded or none, and there is none while it looks for one.
DirectInv ==
    /\ pc \in [Feeders -> Labels]
    /\ directState.page = NoPage => directState = None
    /\ pc["direct"] # "seal" => directState.count < PageCapacity
    /\ pc["direct"] \in Waiting \cup {"open", "publish", "count"} => directState = None
    /\ pc["direct"] \in {"copy", "cas", "seal"} =>
         /\ directState \in {snapshot, None} /\ snapshot.page \in Pages
         /\ IF pc["direct"] = "seal" THEN snapshot.count = PageCapacity
            ELSE snapshot.count < PageCapacity
    /\ held["direct"] # NoPage <=> pc["direct"] \in {"open", "publish"}
    /\ pc["direct"] \notin {"idle", "seal", "publish", "count"} => done < Len(stage)

CompilerInv ==
    /\ held["compiler"] # NoPage <=> pc["compiler"] \in {"fill", "publish"}
    /\ pc["compiler"] \in Waiting \cup {"pop", "stopped"} =>
         compiledCount = 0 /\ drained = 0
    /\ pc["compiler"] = "fill" /\ timed # NoEvent => drained < PageCapacity
    /\ pc["compiler"] = "publish" => compiledCount > 0

AudioInv ==
    /\ hand.page = NoPage => hand = None
    /\ hand # None => hand.count > 0
    /\ hand # None <=> audio \in {"counted", "schedule"}
    /\ \A p \in RangeOf(ready) : count[p] > 0

CursorInv == cursors \in [Active -> [offset : Nat, count : Nat]]

SubmittedInv ==
    /\ submitted \in [Feeders -> Nat]
    /\ submitted["direct"] <= MaxDirect /\ submitted["compiler"] <= MaxRing

FeedInv ==
    /\ TypeOK /\ PlacesInv /\ DirectInv /\ CompilerInv /\ AudioInv /\ CursorInv
    /\ SubmittedInv

\* The last direct event and the last ring event that left their feeder.
DirectSent == submitted["direct"] - Len(stage) + done
RingPopped == MaxDirect + submitted["compiler"] - Len(ring)
RingSent == IF timed = NoEvent THEN RingPopped ELSE RingPopped - 1

SourcesInv ==
    /\ \A i \in 1 .. Len(stage) : stage[i] = submitted["direct"] - Len(stage) + i
    /\ Len(stage) <= submitted["direct"]
    /\ \A i \in 1 .. Len(ring) : ring[i] = RingPopped + i
    /\ Len(ring) <= submitted["compiler"]
    /\ timed # NoEvent => timed = RingPopped
    /\ pc["compiler"] \in {"pop", "publish", "count"} => timed = NoEvent

Used(e) == \/ dispatched[e] > 0
           \/ \E p \in Pages : \E i \in Live(p) : events[p][i] = e

EventsInv ==
    /\ \A e \in Events : dispatched[e] <= 1
    /\ \A p \in Pages : \A i \in Live(p) :
         events[p][i] \in Events /\ dispatched[events[p][i]] = 0
    /\ \A p, q \in Pages : \A i \in Live(p), j \in Live(q) :
         events[p][i] = events[q][j] => p = q /\ i = j
    /\ \A e \in accepted : Used(e)
    /\ \A e \in DirectEvents : Used(e) => e <= DirectSent
    /\ \A e \in RingEvents : Used(e) => e <= RingSent

\* What the producer is about to commit is still behind the count it loaded.
CopiedInv ==
    pc["direct"] = "cas" /\ directState = snapshot =>
      \A i \in 1 .. Taken : events[snapshot.page][snapshot.count + i] = stage[done + i]

IInv == FeedInv /\ SourcesInv /\ CopiedInv /\ (~overrun => EventsInv)

-----------------------------------------------------------------------------
(* Lemmas about sequences of different elements.                           *)

LEMMA AppendRange ==
    ASSUME NEW S, NEW s \in Seq(S), NEW x \in S
    PROVE  /\ Append(s, x) \in Seq(S)
           /\ RangeOf(Append(s, x)) = RangeOf(s) \cup {x}
           /\ Distinct(s) /\ x \notin RangeOf(s) => Distinct(Append(s, x))
<1> DEFINE n == Len(s)  t == Append(s, x)
<1>1. t \in Seq(S) /\ n \in Nat /\ Len(t) = n + 1 /\ t[n + 1] = x
      /\ \A i \in 1 .. n : t[i] = s[i]
  OBVIOUS
<1> HIDE DEF t
<1>2. RangeOf(t) = RangeOf(s) \cup {x}
  <2>1. ASSUME NEW y \in RangeOf(t) PROVE y \in RangeOf(s) \cup {x}
    <3>1. PICK i \in 1 .. n + 1 : y = t[i]  BY <1>1, <2>1 DEF RangeOf
    <3>2. i \in 1 .. n \/ i = n + 1  BY <1>1
    <3> QED BY <1>1, <3>1, <3>2 DEF RangeOf
  <2>2. ASSUME NEW y \in RangeOf(s) PROVE y \in RangeOf(t)
    <3>1. PICK i \in 1 .. n : y = s[i]  BY <2>2 DEF RangeOf
    <3>2. i \in 1 .. n + 1  BY <1>1
    <3> QED BY <1>1, <3>1, <3>2 DEF RangeOf
  <2>3. x \in RangeOf(t)
    <3>1. n + 1 \in 1 .. n + 1  BY <1>1
    <3> QED BY <1>1, <3>1 DEF RangeOf
  <2> QED BY <2>1, <2>2, <2>3
<1>3. ASSUME Distinct(s), x \notin RangeOf(s) PROVE Distinct(t)
  <2>1. ASSUME NEW i \in 1 .. n + 1, NEW j \in 1 .. n + 1, t[i] = t[j]
        PROVE  i = j
    <3>1. (i \in 1 .. n \/ i = n + 1) /\ (j \in 1 .. n \/ j = n + 1)  BY <1>1
    <3>2. \A k \in 1 .. n : s[k] # x  BY <1>3 DEF RangeOf
    <3>3. CASE i \in 1 .. n /\ j \in 1 .. n
      BY <1>1, <1>3, <2>1, <3>3 DEF Distinct
    <3> QED BY <1>1, <2>1, <3>1, <3>2, <3>3
  <2> QED BY <1>1, <2>1 DEF Distinct
<1> QED BY <1>1, <1>2, <1>3 DEF t

LEMMA TailRange ==
    ASSUME NEW S, NEW s \in Seq(S), s # << >>, Distinct(s)
    PROVE  /\ Head(s) \in S /\ Head(s) \in RangeOf(s)
           /\ Tail(s) \in Seq(S)
           /\ RangeOf(Tail(s)) = RangeOf(s) \ {Head(s)} /\ Distinct(Tail(s))
<1> DEFINE n == Len(s)  t == Tail(s)
<1>1. /\ t \in Seq(S) /\ n \in Nat /\ n >= 1 /\ Len(t) = n - 1 /\ Head(s) = s[1]
      /\ \A i \in 1 .. n - 1 : t[i] = s[i + 1]
      /\ \A i \in 1 .. n : s[i] \in S
  OBVIOUS
<1> HIDE DEF t
<1>2. ASSUME NEW y \in RangeOf(t) PROVE y \in RangeOf(s) \ {s[1]}
  <2>1. PICK i \in 1 .. n - 1 : y = t[i]  BY <1>1, <1>2 DEF RangeOf
  <2>2. i + 1 \in 1 .. n /\ 1 \in 1 .. n /\ i + 1 # 1  BY <1>1
  <2> QED BY <1>1, <2>1, <2>2 DEF RangeOf, Distinct
<1>3. ASSUME NEW y \in RangeOf(s), y # s[1] PROVE y \in RangeOf(t)
  <2>1. PICK i \in 1 .. n : y = s[i]  BY <1>3 DEF RangeOf
  <2> DEFINE j == i - 1
  <2>2. j \in 1 .. n - 1 /\ j + 1 = i  BY <1>1, <1>3, <2>1
  <2> HIDE DEF j
  <2>3. t[j] = y  BY <1>1, <2>1, <2>2
  <2> QED BY <1>1, <2>2, <2>3 DEF RangeOf
<1>4. Distinct(t)
  <2>1. ASSUME NEW i \in 1 .. n - 1, NEW j \in 1 .. n - 1, t[i] = t[j] PROVE i = j
    <3>1. i + 1 \in 1 .. n /\ j + 1 \in 1 .. n  BY <1>1
    <3>2. i + 1 = j + 1  BY <1>1, <2>1, <3>1 DEF Distinct
    <3> QED BY <1>1, <3>2
  <2> QED BY <1>1, <2>1 DEF Distinct
<1>5. s[1] \in RangeOf(s) /\ s[1] \in S
  <2>1. 1 \in 1 .. n  BY <1>1
  <2> QED BY <1>1, <2>1 DEF RangeOf
<1> QED BY <1>1, <1>2, <1>3, <1>4, <1>5 DEF t

LEMMA FrontRange ==
    ASSUME NEW S, NEW s \in Seq(S), s # << >>, Distinct(s)
    PROVE  /\ s[Len(s)] \in S /\ s[Len(s)] \in RangeOf(s)
           /\ SubSeq(s, 1, Len(s) - 1) \in Seq(S)
           /\ RangeOf(SubSeq(s, 1, Len(s) - 1)) = RangeOf(s) \ {s[Len(s)]}
           /\ Distinct(SubSeq(s, 1, Len(s) - 1))
<1> DEFINE n == Len(s)  t == SubSeq(s, 1, Len(s) - 1)
<1>1. n \in Nat /\ n >= 1 /\ \A i \in 1 .. n : s[i] \in S  OBVIOUS
<1>2. t \in Seq(S) /\ Len(t) = n - 1 /\ \A i \in 1 .. n - 1 : t[i] = s[i]
  <2>1. 1 \in Int /\ n - 1 \in Int /\ \A i \in 1 .. n - 1 : s[i] \in S  BY <1>1
  <2>2. /\ t \in Seq(S) /\ Len(t) = IF 1 <= n - 1 THEN (n - 1) - 1 + 1 ELSE 0
        /\ \A i \in 1 .. (n - 1) - 1 + 1 : t[i] = s[1 + i - 1]
    BY <2>1, SubSeqProperties
  <2>3. \A i \in 1 .. n - 1 : i \in 1 .. (n - 1) - 1 + 1 /\ 1 + i - 1 = i  BY <1>1
  <2> HIDE DEF t
  <2>4. Len(t) = n - 1
    <3> HIDE DEF n
    <3>1. n = 1 \/ n > 1  BY <1>1
    <3>2. n = 1 => ~(1 <= n - 1) /\ 0 = n - 1  OBVIOUS
    <3>3. n > 1 => 1 <= n - 1 /\ ((n - 1) - 1) + 1 = n - 1  BY <1>1
    <3> QED BY <2>2, <3>1, <3>2, <3>3
  <2>5. ASSUME NEW i \in 1 .. n - 1 PROVE t[i] = s[i]
    <3>1. t[i] = s[1 + i - 1]  BY <2>2, <2>3
    <3>2. 1 + i - 1 = i  BY <2>3
    <3> QED BY <3>1, <3>2
  <2> QED BY <2>2, <2>4, <2>5
<1> HIDE DEF t
<1>3. n \in 1 .. n /\ \A i \in 1 .. n - 1 : i \in 1 .. n /\ i # n  BY <1>1
<1>4. \A i \in 1 .. n : i # n => i \in 1 .. n - 1  BY <1>1
<1>5. RangeOf(t) = RangeOf(s) \ {s[n]}
  <2>1. ASSUME NEW y \in RangeOf(t) PROVE y \in RangeOf(s) \ {s[n]}
    <3>1. PICK i \in 1 .. n - 1 : y = t[i]  BY <1>2, <2>1 DEF RangeOf
    <3> QED BY <1>2, <1>3, <3>1 DEF RangeOf, Distinct
  <2>2. ASSUME NEW y \in RangeOf(s), y # s[n] PROVE y \in RangeOf(t)
    <3>1. PICK i \in 1 .. n : y = s[i]  BY <2>2 DEF RangeOf
    <3>2. i \in 1 .. n - 1  BY <1>4, <2>2, <3>1
    <3> QED BY <1>2, <3>1, <3>2 DEF RangeOf
  <2> QED BY <2>1, <2>2
<1>6. Distinct(t)  BY <1>2, <1>3 DEF Distinct
<1>7. s[n] \in RangeOf(s) /\ s[n] \in S  BY <1>1, <1>3 DEF RangeOf
<1> QED BY <1>2, <1>5, <1>6, <1>7 DEF t

\* A sequence of different elements is as long as its range is large.
LEMMA DistinctLength ==
    ASSUME NEW S, NEW s \in Seq(S), Distinct(s)
    PROVE  IsFiniteSet(RangeOf(s)) /\ Cardinality(RangeOf(s)) = Len(s)
<1> DEFINE n == Len(s)  D == 1 .. n
<1>1. n \in Nat /\ s \in [D -> RangeOf(s)]
  <2>1. n \in Nat /\ s \in [D -> S]  OBVIOUS
  <2> QED BY <2>1 DEF RangeOf
<1>2. IsInjective(s)  BY <1>1 DEF Distinct, IsInjective
<1>3. \A y \in RangeOf(s) : \E i \in D : s[i] = y  BY DEF RangeOf
<1>4. s \in Bijection(D, RangeOf(s))
  BY <1>1, <1>2, <1>3 DEF Bijection, Injection, Surjection
<1>5. ExistsBijection(D, RangeOf(s))  BY <1>4 DEF ExistsBijection
<1>6. IsFiniteSet(D) /\ Cardinality(D) = n  BY <1>1, FS_Interval
<1> QED BY <1>5, <1>6, FS_Bijection

-----------------------------------------------------------------------------
(* The steps, and the conjuncts of the invariant that each preserves.      *)

LEMMA Steps ==
    ASSUME [Next]_vars
    PROVE  \/ Submit \/ RingSubmit
           \/ \E f \in Feeders :
                \/ AcquirePage(f) \/ AcquireFails(f) \/ CheckCancelled(f)
                \/ ObserveEpoch(f) \/ Wake(f) \/ TimeOut(f) \/ PublishPage(f)
                \/ CountPublished(f)
           \/ LoadState \/ OpenPage \/ CopyEvents \/ CommitEvents \/ CommitFails
           \/ SealPage \/ PopFirst \/ CompilerStops \/ CompileOne \/ PopNext
           \/ FinishPage \/ ReturnPage \/ FlushNothing \/ DetachOpenPage
           \/ TakeReady \/ CountTaken \/ SchedulePage \/ ImportEnds
           \/ (\E p \in Pages : Dispatch(p)) \/ CallbackEnds \/ Cancel \/ StopAudio
           \/ UNCHANGED vars
<1>1. "direct" \in Feeders /\ "compiler" \in Feeders  BY DEF Feeders
<1> QED BY <1>1 DEF Next, DirectStep, CompilerStep, AudioStep, FeederStep

\* A feeder's labels and its page, whichever of the two it is.
LEMMA FeederFacts ==
    ASSUME FeedInv
    PROVE  /\ pc \in [Feeders -> Labels] /\ held \in [Feeders -> Pages \cup {NoPage}]
           /\ Feeders = {"direct", "compiler"} /\ NoPage \notin Pages
           /\ \A f \in Feeders : pc[f] = "publish" => held[f] \in Pages
BY NoPageAssumption DEF FeedInv, DirectInv, CompilerInv, TypeOK, Feeders

\* AcquireForCompiler gives a page that was recycled or free.
LEMMA AcquireFacts ==
    ASSUME FeedInv, NEW f \in Feeders, AcquirePage(f)
    PROVE  \E q \in Pages :
             /\ held' = [held EXCEPT ![f] = q] /\ held' \in [Feeders -> Pages \cup {NoPage}]
             /\ compilerFree' \in Seq(Pages) /\ Distinct(compilerFree)'
             /\ recycled' \in Seq(Pages) /\ Distinct(recycled)'
             /\ \/ /\ q \in RangeOf(recycled) /\ UNCHANGED compilerFree
                   /\ RangeOf(recycled)' = RangeOf(recycled) \ {q}
                \/ /\ q \in RangeOf(compilerFree) /\ UNCHANGED recycled
                   /\ RangeOf(compilerFree)' = RangeOf(compilerFree) \ {q}
<1> USE DEF FeedInv, TypeOK, PlacesInv
<1>1. /\ compilerFree \in Seq(Pages) /\ Distinct(compilerFree)
      /\ recycled \in Seq(Pages) /\ Distinct(recycled)
      /\ held \in [Feeders -> Pages \cup {NoPage}]
  OBVIOUS
<1>2. CASE recycled # << >>
  <2>1. /\ held' = [held EXCEPT ![f] = Head(recycled)] /\ recycled' = Tail(recycled)
        /\ compilerFree' = compilerFree
    BY <1>2 DEF AcquirePage, TakePage
  <2>2. Head(recycled) \in Pages /\ Head(recycled) \in RangeOf(recycled)
        /\ Tail(recycled) \in Seq(Pages) /\ Distinct(Tail(recycled))
        /\ RangeOf(Tail(recycled)) = RangeOf(recycled) \ {Head(recycled)}
    BY <1>1, <1>2, TailRange
  <2>3. held' \in [Feeders -> Pages \cup {NoPage}]  BY <1>1, <2>1, <2>2
  <2>4. recycled' \in Seq(Pages) /\ Distinct(recycled)'
        /\ RangeOf(recycled)' = RangeOf(recycled) \ {Head(recycled)}
    BY <2>1, <2>2
  <2>5. compilerFree' \in Seq(Pages) /\ Distinct(compilerFree)'  BY <1>1, <2>1
  <2> QED BY <2>1, <2>2, <2>3, <2>4, <2>5
<1>3. CASE recycled = << >>
  <2> DEFINE q == compilerFree[Len(compilerFree)]
             rest == SubSeq(compilerFree, 1, Len(compilerFree) - 1)
  <2>1. /\ held' = [held EXCEPT ![f] = q] /\ compilerFree' = rest
        /\ recycled' = recycled /\ compilerFree # << >>
    BY <1>3 DEF AcquirePage, TakePage, Available
  <2>2. q \in Pages /\ q \in RangeOf(compilerFree)
        /\ rest \in Seq(Pages) /\ Distinct(rest)
        /\ RangeOf(rest) = RangeOf(compilerFree) \ {q}
    BY <1>1, <2>1, FrontRange
  <2> HIDE DEF q, rest
  <2>3. held' \in [Feeders -> Pages \cup {NoPage}]  BY <1>1, <2>1, <2>2
  <2>4. compilerFree' \in Seq(Pages) /\ Distinct(compilerFree)'
        /\ RangeOf(compilerFree)' = RangeOf(compilerFree) \ {q}
    BY <2>1, <2>2
  <2>5. recycled' \in Seq(Pages) /\ Distinct(recycled)'  BY <1>1, <2>1
  <2> QED BY <2>1, <2>2, <2>3, <2>4, <2>5
<1> QED BY <1>2, <1>3

\* A page that is in one place is in no other.
LEMMA OnlyPlace ==
    ASSUME FeedInv, NEW p \in Pages, NEW k \in Places, NEW l \in Places, k # l, In(p, k)
    PROVE  ~In(p, l)
BY DEF FeedInv, PlacesInv

LEMMA PageIn ==
    ASSUME FeedInv, NEW p \in Pages
    PROVE  /\ p \in RangeOf(ready) => p \notin Active /\ p # held["compiler"]
                                    /\ p # held["direct"] /\ p # hand.page
                                    /\ p # directState.page
           /\ p \in Active => p # held["compiler"] /\ p # held["direct"]
                              /\ p # hand.page /\ p # directState.page
           /\ p = held["compiler"] => p # held["direct"] /\ p # hand.page
                                      /\ p # directState.page
           /\ p = held["direct"] => p # hand.page /\ p # directState.page
           /\ p = hand.page => p # directState.page
           /\ p \in RangeOf(compilerFree) \cup RangeOf(recycled) =>
                p \notin RangeOf(ready) /\ p \notin Active /\ p # held["compiler"]
                /\ p # held["direct"] /\ p # hand.page /\ p # directState.page
<1> USE DEF In, Places
<1>1. \A k \in Places, l \in Places : In(p, k) /\ In(p, l) => k = l
  BY DEF FeedInv, PlacesInv
<1> QED BY <1>1

\* What the direct producer copies fits behind the events it has seen.
LEMMA TakenFacts ==
    ASSUME FeedInv, pc["direct"] \in {"copy", "cas"}
    PROVE  /\ snapshot.page \in Pages /\ snapshot.count \in 0 .. PageCapacity - 1
           /\ Taken \in Nat /\ Taken >= 1 /\ snapshot.count + Taken \in 1 .. PageCapacity
           /\ done \in Nat /\ Len(stage) \in Nat /\ done + Taken <= Len(stage)
           /\ snapshot = Open(snapshot.page, snapshot.count)
<1>1. /\ snapshot.page \in Pages /\ snapshot.count \in 0 .. PageCapacity
      /\ snapshot.count < PageCapacity /\ done \in 0 .. Len(stage) /\ done < Len(stage)
      /\ Len(stage) \in Nat
      /\ snapshot = [page |-> snapshot.page, count |-> snapshot.count]
  BY DEF FeedInv, TypeOK, DirectInv
<1> QED BY <1>1, PageCapacityAssumption DEF Taken, Open

\* A cursor moved on.
LEMMA MovedCursor ==
    ASSUME NEW c, NEW p \in DOMAIN c, NEW o \in Nat, NEW k \in Nat, NEW u \in Nat,
           c[p] = [offset |-> o, count |-> k]
    PROVE  LET d == [c EXCEPT ![p].offset = u]
           IN  /\ DOMAIN d = DOMAIN c /\ d[p] = [offset |-> u, count |-> k]
               /\ \A q \in DOMAIN c : q # p => d[q] = c[q]
<1>1. [c[p] EXCEPT !.offset = u] = [offset |-> u, count |-> k]
  <2>1. [[offset |-> o, count |-> k] EXCEPT !.offset = u] = [offset |-> u, count |-> k]
    OBVIOUS
  <2> QED BY <2>1
<1> DEFINE v == [offset |-> u, count |-> k]
<1>2. [c EXCEPT ![p].offset = u] = [c EXCEPT ![p] = v]  BY <1>1, Zenon
<1> HIDE DEF v
<1>3. /\ DOMAIN [c EXCEPT ![p] = v] = DOMAIN c /\ [c EXCEPT ![p] = v][p] = v
      /\ \A q \in DOMAIN c : q # p => [c EXCEPT ![p] = v][q] = c[q]
  OBVIOUS
<1> QED BY <1>2, <1>3 DEF v

\* The events of a run of slots.
Played(p, u, e) == {i \in cursors[p].offset + 1 .. u : events[p][i] = e}

\* A run of a page is played, and the page recycled when that was the last one.
LEMMA DispatchFacts ==
    ASSUME FeedInv, NEW p \in Pages, Dispatch(p)
    PROVE  /\ cursors[p].offset \in Nat /\ cursors[p].count \in Nat
           /\ cursors[p] = [offset |-> cursors[p].offset, count |-> cursors[p].count]
           /\ \E u \in cursors[p].offset + 1 .. cursors[p].count :
                /\ dispatched' = [e \in Events |->
                                    dispatched[e] + Cardinality(Played(p, u, e))]
                /\ \/ /\ u = cursors[p].count /\ Active' = Active \ {p}
                      /\ cursors' = [q \in Active \ {p} |-> cursors[q]]
                      /\ count' = [count EXCEPT ![p] = 0]
                      /\ recycled' = Append(recycled, p)
                   \/ /\ u < cursors[p].count /\ Active' = Active
                      /\ cursors' = [cursors EXCEPT ![p].offset = u]
                      /\ cursors'[p] = [offset |-> u, count |-> cursors[p].count]
                      /\ \A q \in Active : q # p => cursors'[q] = cursors[q]
                      /\ UNCHANGED <<count, recycled>>
<1> DEFINE o == cursors[p].offset  k == cursors[p].count
<1>1. p \in Active /\ cursors[p] \in [offset : Nat, count : Nat]
  BY DEF Dispatch, FeedInv, CursorInv
<1>2. o \in Nat /\ k \in Nat /\ cursors[p] = [offset |-> o, count |-> k]  BY <1>1
<1> HIDE DEF o, k
<1>3. PICK n \in 1 .. k - o :
        /\ dispatched' = [e \in Events |->
              dispatched[e] + Cardinality({i \in o + 1 .. o + n : events[p][i] = e})]
        /\ IF o + n = k
             THEN /\ cursors' = [q \in Active \ {p} |-> cursors[q]]
                  /\ count' = [count EXCEPT ![p] = 0]
                  /\ recycled' = Append(recycled, p)
             ELSE /\ cursors' = [cursors EXCEPT ![p].offset = o + n]
                  /\ UNCHANGED <<count, recycled>>
  BY DEF Dispatch, o, k
<1> DEFINE u == o + n
<1>4. u \in o + 1 .. k /\ u \in Nat /\ (u # k => u < k)  BY <1>2
<1>5. dispatched' = [e \in Events |-> dispatched[e] + Cardinality(Played(p, u, e))]
  BY <1>3 DEF Played, o
<1>6. CASE u = k
  <2>1. Active' = Active \ {p}  BY <1>3, <1>6 DEF Active
  <2> QED BY <1>2, <1>3, <1>4, <1>5, <1>6, <2>1 DEF o, k
<1>7. CASE u # k
  <2>1. cursors' = [cursors EXCEPT ![p].offset = u] /\ UNCHANGED <<count, recycled>>
    BY <1>3, <1>7
  <2> HIDE DEF u
  <2>2. /\ DOMAIN cursors' = DOMAIN cursors
        /\ cursors'[p] = [offset |-> u, count |-> k]
        /\ \A q \in DOMAIN cursors : q # p => cursors'[q] = cursors[q]
    BY <1>1, <1>2, <1>4, <2>1, MovedCursor DEF Active
  <2> QED BY <1>2, <1>4, <1>5, <1>7, <2>1, <2>2 DEF Active, o, k
<1> QED BY <1>6, <1>7

\* The direct producer.
LEMMA NextDirect == FeedInv /\ [Next]_vars => DirectInv'
<1> SUFFICES ASSUME FeedInv, [Next]_vars PROVE DirectInv'  OBVIOUS
<1> USE DEF pool, pages, feeder, direct, compiler, audioVars, history
<1>0. pc \in [Feeders -> Labels] /\ NoPage \notin Pages  BY FeederFacts
<1>1. ASSUME Submit PROVE DirectInv'
  BY <1>1 DEF Submit, Goto, FeedInv, TypeOK, DirectInv, None, Feeders, Labels,
     Waiting
<1>2. ASSUME RingSubmit PROVE DirectInv'
  BY <1>2 DEF RingSubmit, FeedInv, TypeOK, DirectInv, None, Feeders, Labels,
     Waiting
<1>3. ASSUME NEW f \in Feeders, AcquirePage(f) PROVE DirectInv'
  <2>1. PICK q \in Pages : held' = [held EXCEPT ![f] = q]  BY <1>3, AcquireFacts
  <2> QED BY <1>3, <2>1, <1>0
    DEF AcquirePage, Goto, FeedInv, TypeOK, DirectInv, None, Feeders, Labels,
      Waiting
<1>4. ASSUME NEW f \in Feeders, AcquireFails(f) PROVE DirectInv'
  BY <1>4 DEF AcquireFails, Goto, FeedInv, TypeOK, DirectInv, None, Feeders,
     Labels, Waiting
<1>5. ASSUME NEW f \in Feeders, CheckCancelled(f) PROVE DirectInv'
  BY <1>5 DEF CheckCancelled, Goto, Return, FeedInv, TypeOK, DirectInv, None,
     Feeders, Labels, Waiting
<1>6. ASSUME NEW f \in Feeders, ObserveEpoch(f) PROVE DirectInv'
  BY <1>6 DEF ObserveEpoch, Goto, FeedInv, TypeOK, DirectInv, None, Feeders,
     Labels, Waiting
<1>7. ASSUME NEW f \in Feeders, Wake(f) PROVE DirectInv'
  BY <1>7 DEF Wake, Resume, Goto, FeedInv, TypeOK, DirectInv, None, Feeders,
     Labels, Waiting
<1>8. ASSUME NEW f \in Feeders, TimeOut(f) PROVE DirectInv'
  BY <1>8 DEF TimeOut, Resume, Goto, FeedInv, TypeOK, DirectInv, None, Feeders,
     Labels, Waiting
<1>9. ASSUME NEW f \in Feeders, PublishPage(f) PROVE DirectInv'
  BY <1>9 DEF PublishPage, Goto, Sealed, FeedInv, TypeOK, DirectInv, None,
     Feeders, Labels, Waiting
<1>10. ASSUME NEW f \in Feeders, CountPublished(f) PROVE DirectInv'
  BY <1>10 DEF CountPublished, Goto, Sealed, Continue, Return, EndChunk,
     FeedInv, TypeOK, DirectInv, None, Feeders, Labels, Waiting
<1>11. ASSUME LoadState PROVE DirectInv'
  BY <1>11 DEF LoadState, Goto, FeedInv, TypeOK, DirectInv, None, Feeders,
     Labels, Waiting
<1>12. ASSUME OpenPage PROVE DirectInv'
  BY <1>12 DEF OpenPage, Goto, Open, FeedInv, TypeOK, DirectInv, None, Feeders,
     Labels, Waiting
<1>13. ASSUME CopyEvents PROVE DirectInv'
  BY <1>13 DEF CopyEvents, Goto, FeedInv, TypeOK, DirectInv, None, Feeders,
     Labels, Waiting
<1>14. ASSUME CommitEvents PROVE DirectInv'
  <2> DEFINE n == snapshot.count + Taken
  <2>1. /\ n \in 1 .. PageCapacity /\ snapshot.page \in Pages /\ done \in Nat
        /\ Taken \in Nat /\ Len(stage) \in Nat /\ done + Taken <= Len(stage)
    BY <1>14, TakenFacts DEF CommitEvents
  <2>2. /\ directState' = [page |-> snapshot.page, count |-> n]
        /\ held' = held /\ pc["direct"] = "cas"
        /\ IF n = PageCapacity
             THEN pc' = [pc EXCEPT !["direct"] = "seal"] /\ snapshot' = directState'
             ELSE \/ pc' = [pc EXCEPT !["direct"] = "idle"]
                  \/ /\ pc' = [pc EXCEPT !["direct"] = "load"]
                     /\ done + Taken # Len(stage) /\ done' = done + Taken
                     /\ stage' = stage
    BY <1>14 DEF CommitEvents, Open, Goto, Continue, Return
  <2> HIDE DEF n
  <2>3. CASE n = PageCapacity
    BY <2>1, <2>2, <2>3, <1>0 DEF FeedInv, DirectInv, Feeders, Labels, Waiting
  <2>4. CASE n # PageCapacity
    BY <2>1, <2>2, <2>4, <1>0, PageCapacityAssumption
    DEF FeedInv, DirectInv, Feeders, Labels, Waiting
  <2> QED BY <2>3, <2>4
<1>15. ASSUME CommitFails PROVE DirectInv'
  BY <1>15 DEF CommitFails, Continue, Return, Goto, FeedInv, TypeOK, DirectInv,
     None, Feeders, Labels, Waiting
<1>16. ASSUME SealPage PROVE DirectInv'
  BY <1>16, PageCapacityAssumption, <1>0 DEF SealPage, Goto, Continue, Return,
     FeedInv, TypeOK, DirectInv, None, Feeders, Labels, Waiting
<1>17. ASSUME PopFirst PROVE DirectInv'
  BY <1>17 DEF PopFirst, Goto, FeedInv, TypeOK, DirectInv, None, Feeders,
     Labels, Waiting
<1>18. ASSUME CompilerStops PROVE DirectInv'
  BY <1>18 DEF CompilerStops, Goto, FeedInv, TypeOK, DirectInv, None, Feeders,
     Labels, Waiting
<1>19. ASSUME CompileOne PROVE DirectInv'
  BY <1>19 DEF CompileOne, FeedInv, TypeOK, DirectInv, None, Feeders, Labels,
     Waiting
<1>20. ASSUME PopNext PROVE DirectInv'
  BY <1>20 DEF PopNext, MoreToCompile, FeedInv, TypeOK, DirectInv, None,
     Feeders, Labels, Waiting
<1>21. ASSUME FinishPage PROVE DirectInv'
  BY <1>21 DEF FinishPage, Goto, FeedInv, TypeOK, DirectInv, None, Feeders,
     Labels, Waiting
<1>22. ASSUME ReturnPage PROVE DirectInv'
  BY <1>22 DEF ReturnPage, Goto, EndChunk, FeedInv, TypeOK, DirectInv, None,
     Feeders, Labels, Waiting
<1>23. ASSUME FlushNothing PROVE DirectInv'
  BY <1>23 DEF FlushNothing, FeedInv, TypeOK, DirectInv, None, Feeders, Labels,
     Waiting
<1>24. ASSUME DetachOpenPage PROVE DirectInv'
  BY <1>24, PageCapacityAssumption, <1>0 DEF DetachOpenPage, FeedInv, TypeOK,
     DirectInv, None, Feeders, Labels, Waiting
<1>25. ASSUME TakeReady PROVE DirectInv'
  BY <1>25 DEF TakeReady, Open, FeedInv, TypeOK, DirectInv, None, Feeders,
     Labels, Waiting
<1>26. ASSUME CountTaken PROVE DirectInv'
  BY <1>26 DEF CountTaken, FeedInv, TypeOK, DirectInv, None, Feeders, Labels,
     Waiting
<1>27. ASSUME SchedulePage PROVE DirectInv'
  BY <1>27 DEF SchedulePage, FeedInv, TypeOK, DirectInv, None, Feeders, Labels,
     Waiting
<1>28. ASSUME ImportEnds PROVE DirectInv'
  BY <1>28 DEF ImportEnds, FeedInv, TypeOK, DirectInv, None, Feeders, Labels,
     Waiting
<1>29. ASSUME NEW p \in Pages, Dispatch(p) PROVE DirectInv'
  BY <1>29 DEF Dispatch, FeedInv, TypeOK, DirectInv, None, Feeders, Labels,
     Waiting
<1>30. ASSUME CallbackEnds PROVE DirectInv'
  BY <1>30 DEF CallbackEnds, FeedInv, TypeOK, DirectInv, None, Feeders, Labels,
     Waiting
<1>31. ASSUME Cancel PROVE DirectInv'
  BY <1>31 DEF Cancel, FeedInv, TypeOK, DirectInv, None, Feeders, Labels,
     Waiting
<1>32. ASSUME StopAudio PROVE DirectInv'
  BY <1>32 DEF StopAudio, FeedInv, TypeOK, DirectInv, None, Feeders, Labels,
     Waiting
<1>33. ASSUME UNCHANGED vars PROVE DirectInv'
  BY <1>33 DEF vars, FeedInv, TypeOK, DirectInv, None, Feeders, Labels, Waiting
<1> QED BY <1>1, <1>2, <1>3, <1>4, <1>5, <1>6, <1>7, <1>8, <1>9, <1>10, <1>11,
      <1>12, <1>13, <1>14, <1>15, <1>16, <1>17, <1>18, <1>19, <1>20, <1>21,
      <1>22, <1>23, <1>24, <1>25, <1>26, <1>27, <1>28, <1>29, <1>30, <1>31,
      <1>32, <1>33, Steps

\* The compiler thread.
LEMMA NextCompiler == FeedInv /\ [Next]_vars => CompilerInv'
<1> SUFFICES ASSUME FeedInv, [Next]_vars PROVE CompilerInv'  OBVIOUS
<1> USE DEF pool, pages, feeder, direct, compiler, audioVars, history
<1>0. /\ pc \in [Feeders -> Labels] /\ NoPage \notin Pages
      /\ Feeders = {"direct", "compiler"}
  BY FeederFacts
<1>1. ASSUME Submit PROVE CompilerInv'
  BY <1>1, <1>0 DEF Submit, Goto, FeedInv, TypeOK, CompilerInv, None, Waiting
<1>2. ASSUME RingSubmit PROVE CompilerInv'
  BY <1>2, <1>0 DEF RingSubmit, FeedInv, TypeOK, CompilerInv, None, Waiting
<1>3. ASSUME NEW f \in Feeders, AcquirePage(f) PROVE CompilerInv'
  <2>1. PICK q \in Pages : held' = [held EXCEPT ![f] = q]  BY <1>3, AcquireFacts
  <2> QED BY <1>3, <2>1, <1>0, PageCapacityAssumption
    DEF AcquirePage, Goto, FeedInv, TypeOK, CompilerInv, Waiting
<1>4. ASSUME NEW f \in Feeders, AcquireFails(f) PROVE CompilerInv'
  BY <1>4, <1>0 DEF AcquireFails, Goto, FeedInv, TypeOK, CompilerInv, None,
     Waiting
<1>5. ASSUME NEW f \in Feeders, CheckCancelled(f) PROVE CompilerInv'
  BY <1>5, <1>0 DEF CheckCancelled, Goto, Return, FeedInv, TypeOK, CompilerInv,
     None, Waiting
<1>6. ASSUME NEW f \in Feeders, ObserveEpoch(f) PROVE CompilerInv'
  BY <1>6, <1>0 DEF ObserveEpoch, Goto, FeedInv, TypeOK, CompilerInv, None,
     Waiting
<1>7. ASSUME NEW f \in Feeders, Wake(f) PROVE CompilerInv'
  BY <1>7, <1>0 DEF Wake, Resume, Goto, FeedInv, TypeOK, CompilerInv, None,
     Waiting
<1>8. ASSUME NEW f \in Feeders, TimeOut(f) PROVE CompilerInv'
  BY <1>8, <1>0 DEF TimeOut, Resume, Goto, FeedInv, TypeOK, CompilerInv, None,
     Waiting
<1>9. ASSUME NEW f \in Feeders, PublishPage(f) PROVE CompilerInv'
  BY <1>9, <1>0 DEF PublishPage, Goto, Sealed, FeedInv, TypeOK, CompilerInv,
     None, Waiting
<1>10. ASSUME NEW f \in Feeders, CountPublished(f) PROVE CompilerInv'
  BY SMTT(30), <1>10, <1>0 DEF CountPublished, Goto, Sealed, Continue, Return, EndChunk,
     FeedInv, TypeOK, CompilerInv, None, Waiting
<1>11. ASSUME LoadState PROVE CompilerInv'
  BY <1>11, <1>0 DEF LoadState, Goto, FeedInv, TypeOK, CompilerInv, None,
     Waiting
<1>12. ASSUME OpenPage PROVE CompilerInv'
  BY <1>12, <1>0 DEF OpenPage, Goto, Open, FeedInv, TypeOK, CompilerInv, None,
     Waiting
<1>13. ASSUME CopyEvents PROVE CompilerInv'
  BY <1>13, <1>0 DEF CopyEvents, Goto, FeedInv, TypeOK, CompilerInv, None,
     Waiting
<1>14. ASSUME CommitEvents PROVE CompilerInv'
  BY <1>14, <1>0 DEF CommitEvents, Goto, Continue, Return, Open, Taken,
     FeedInv, TypeOK, CompilerInv, None, Waiting
<1>15. ASSUME CommitFails PROVE CompilerInv'
  BY <1>15, <1>0 DEF CommitFails, Continue, Return, Goto, FeedInv, TypeOK,
     CompilerInv, None, Waiting
<1>16. ASSUME SealPage PROVE CompilerInv'
  BY <1>16, <1>0 DEF SealPage, Goto, Continue, Return, FeedInv, TypeOK,
     CompilerInv, None, Waiting
<1>17. ASSUME PopFirst PROVE CompilerInv'
  BY <1>17, <1>0 DEF PopFirst, Goto, FeedInv, TypeOK, CompilerInv, None,
     Waiting
<1>18. ASSUME CompilerStops PROVE CompilerInv'
  BY <1>18, <1>0 DEF CompilerStops, Goto, FeedInv, TypeOK, CompilerInv, None,
     Waiting
<1>19. ASSUME CompileOne PROVE CompilerInv'
  BY <1>19, <1>0 DEF CompileOne, FeedInv, TypeOK, CompilerInv, None, Waiting
<1>20. ASSUME PopNext PROVE CompilerInv'
  BY <1>20, <1>0 DEF PopNext, MoreToCompile, FeedInv, TypeOK, CompilerInv,
     None, Waiting
<1>21. ASSUME FinishPage PROVE CompilerInv'
  BY <1>21, <1>0 DEF FinishPage, Goto, FeedInv, TypeOK, CompilerInv, None,
     Waiting
<1>22. ASSUME ReturnPage PROVE CompilerInv'
  BY <1>22, <1>0 DEF ReturnPage, Goto, EndChunk, FeedInv, TypeOK, CompilerInv,
     None, Waiting
<1>23. ASSUME FlushNothing PROVE CompilerInv'
  BY <1>23, <1>0 DEF FlushNothing, FeedInv, TypeOK, CompilerInv, None, Waiting
<1>24. ASSUME DetachOpenPage PROVE CompilerInv'
  BY <1>24, <1>0 DEF DetachOpenPage, FeedInv, TypeOK, CompilerInv, None,
     Waiting
<1>25. ASSUME TakeReady PROVE CompilerInv'
  BY <1>25, <1>0 DEF TakeReady, Open, FeedInv, TypeOK, CompilerInv, None,
     Waiting
<1>26. ASSUME CountTaken PROVE CompilerInv'
  BY <1>26, <1>0 DEF CountTaken, FeedInv, TypeOK, CompilerInv, None, Waiting
<1>27. ASSUME SchedulePage PROVE CompilerInv'
  BY <1>27, <1>0 DEF SchedulePage, FeedInv, TypeOK, CompilerInv, None, Waiting
<1>28. ASSUME ImportEnds PROVE CompilerInv'
  BY <1>28, <1>0 DEF ImportEnds, FeedInv, TypeOK, CompilerInv, None, Waiting
<1>29. ASSUME NEW p \in Pages, Dispatch(p) PROVE CompilerInv'
  BY <1>29, <1>0 DEF Dispatch, FeedInv, TypeOK, CompilerInv, None, Waiting
<1>30. ASSUME CallbackEnds PROVE CompilerInv'
  BY <1>30, <1>0 DEF CallbackEnds, FeedInv, TypeOK, CompilerInv, None, Waiting
<1>31. ASSUME Cancel PROVE CompilerInv'
  BY <1>31, <1>0 DEF Cancel, FeedInv, TypeOK, CompilerInv, None, Waiting
<1>32. ASSUME StopAudio PROVE CompilerInv'
  BY <1>32, <1>0 DEF StopAudio, FeedInv, TypeOK, CompilerInv, None, Waiting
<1>33. ASSUME UNCHANGED vars PROVE CompilerInv'
  BY <1>33, <1>0 DEF vars, FeedInv, TypeOK, CompilerInv, None, Waiting
<1> QED BY <1>1, <1>2, <1>3, <1>4, <1>5, <1>6, <1>7, <1>8, <1>9, <1>10, <1>11,
      <1>12, <1>13, <1>14, <1>15, <1>16, <1>17, <1>18, <1>19, <1>20, <1>21,
      <1>22, <1>23, <1>24, <1>25, <1>26, <1>27, <1>28, <1>29, <1>30, <1>31,
      <1>32, <1>33, Steps

\* The audio callback.
LEMMA NextAudio == FeedInv /\ [Next]_vars => AudioInv'
<1> SUFFICES ASSUME FeedInv, [Next]_vars PROVE AudioInv'  OBVIOUS
<1> USE DEF pool, pages, feeder, direct, compiler, audioVars, history
<1>1. ASSUME Submit PROVE AudioInv'
  BY <1>1 DEF Submit, Goto, FeedInv, TypeOK, AudioInv, None, Feeders
<1>2. ASSUME RingSubmit PROVE AudioInv'
  BY <1>2 DEF RingSubmit, FeedInv, TypeOK, AudioInv, None, Feeders
<1>3. ASSUME NEW f \in Feeders, AcquirePage(f) PROVE AudioInv'
  BY <1>3 DEF AcquirePage, Goto, TakePage, Available, FeedInv, TypeOK,
     AudioInv, None, Feeders
<1>4. ASSUME NEW f \in Feeders, AcquireFails(f) PROVE AudioInv'
  BY <1>4 DEF AcquireFails, Goto, FeedInv, TypeOK, AudioInv, None, Feeders
<1>5. ASSUME NEW f \in Feeders, CheckCancelled(f) PROVE AudioInv'
  BY <1>5 DEF CheckCancelled, Goto, Return, FeedInv, TypeOK, AudioInv, None,
     Feeders
<1>6. ASSUME NEW f \in Feeders, ObserveEpoch(f) PROVE AudioInv'
  BY <1>6 DEF ObserveEpoch, Goto, FeedInv, TypeOK, AudioInv, None, Feeders
<1>7. ASSUME NEW f \in Feeders, Wake(f) PROVE AudioInv'
  BY <1>7 DEF Wake, Resume, Goto, FeedInv, TypeOK, AudioInv, None, Feeders
<1>8. ASSUME NEW f \in Feeders, TimeOut(f) PROVE AudioInv'
  BY <1>8 DEF TimeOut, Resume, Goto, FeedInv, TypeOK, AudioInv, None, Feeders
<1>9. ASSUME NEW f \in Feeders, PublishPage(f) PROVE AudioInv'
  <2>1. held[f] \in Pages /\ Sealed(f) > 0 /\ count \in [Pages -> 0 .. PageCapacity]
        /\ ready \in Seq(Pages)
    <3>1. compiledCount \in Int /\ (pc["compiler"] = "publish" => compiledCount > 0)
      BY DEF FeedInv, TypeOK, CompilerInv
    <3>2. pc[f] = "publish" /\ (f = "direct" \/ f = "compiler")
      BY <1>9 DEF PublishPage, Feeders
    <3>3. Sealed(f) > 0  BY <3>1, <3>2, PageCapacityAssumption DEF Sealed
    <3> QED BY <3>2, <3>3, FeederFacts DEF FeedInv, TypeOK
  <2>2. RangeOf(ready)' = RangeOf(ready) \cup {held[f]}
    BY <1>9, <2>1, AppendRange DEF PublishPage
  <2>3. RangeOf(ready) \subseteq Pages  BY <2>1 DEF RangeOf
  <2>4. count' = [count EXCEPT ![held[f]] = Sealed(f)]  BY <1>9 DEF PublishPage
  <2>5. \A p \in RangeOf(ready)' : count'[p] > 0
    BY <2>1, <2>2, <2>3, <2>4 DEF FeedInv, AudioInv
  <2> QED BY <1>9, <2>5 DEF PublishPage, FeedInv, AudioInv, None
<1>10. ASSUME NEW f \in Feeders, CountPublished(f) PROVE AudioInv'
  BY <1>10 DEF CountPublished, Goto, Sealed, Continue, Return, EndChunk,
     FeedInv, TypeOK, AudioInv, None, Feeders
<1>11. ASSUME LoadState PROVE AudioInv'
  BY <1>11 DEF LoadState, Goto, FeedInv, TypeOK, AudioInv, None, Feeders
<1>12. ASSUME OpenPage PROVE AudioInv'
  BY <1>12 DEF OpenPage, Goto, Open, FeedInv, TypeOK, AudioInv, None, Feeders
<1>13. ASSUME CopyEvents PROVE AudioInv'
  BY <1>13 DEF CopyEvents, Goto, FeedInv, TypeOK, AudioInv, None, Feeders
<1>14. ASSUME CommitEvents PROVE AudioInv'
  BY <1>14 DEF CommitEvents, Goto, Continue, Return, Open, Taken, FeedInv,
     TypeOK, AudioInv, None, Feeders
<1>15. ASSUME CommitFails PROVE AudioInv'
  BY <1>15 DEF CommitFails, Continue, Return, Goto, FeedInv, TypeOK, AudioInv,
     None, Feeders
<1>16. ASSUME SealPage PROVE AudioInv'
  BY <1>16 DEF SealPage, Goto, Continue, Return, FeedInv, TypeOK, AudioInv,
     None, Feeders
<1>17. ASSUME PopFirst PROVE AudioInv'
  BY <1>17 DEF PopFirst, Goto, FeedInv, TypeOK, AudioInv, None, Feeders
<1>18. ASSUME CompilerStops PROVE AudioInv'
  BY <1>18 DEF CompilerStops, Goto, FeedInv, TypeOK, AudioInv, None, Feeders
<1>19. ASSUME CompileOne PROVE AudioInv'
  BY <1>19 DEF CompileOne, FeedInv, TypeOK, AudioInv, None, Feeders
<1>20. ASSUME PopNext PROVE AudioInv'
  BY <1>20 DEF PopNext, MoreToCompile, FeedInv, TypeOK, AudioInv, None, Feeders
<1>21. ASSUME FinishPage PROVE AudioInv'
  BY <1>21 DEF FinishPage, Goto, FeedInv, TypeOK, AudioInv, None, Feeders
<1>22. ASSUME ReturnPage PROVE AudioInv'
  <2>1. held["compiler"] \in Pages /\ held["compiler"] \notin RangeOf(ready)
    BY <1>22, FeederFacts, PageIn DEF ReturnPage, FeedInv, CompilerInv
  <2> QED BY SMTT(30), <1>22, <2>1 DEF ReturnPage, FeedInv, TypeOK, AudioInv, None, RangeOf
<1>23. ASSUME FlushNothing PROVE AudioInv'
  BY <1>23 DEF FlushNothing, FeedInv, TypeOK, AudioInv, None, Feeders
<1>24. ASSUME DetachOpenPage PROVE AudioInv'
  BY <1>24 DEF DetachOpenPage, FeedInv, TypeOK, DirectInv, AudioInv, None
<1>25. ASSUME TakeReady PROVE AudioInv'
  <2> DEFINE p == Head(ready)
  <2>1. ready \in Seq(Pages) /\ Distinct(ready) /\ ready # << >>
    BY <1>25 DEF TakeReady, FeedInv, TypeOK, PlacesInv
  <2>2. p \in Pages /\ p \in RangeOf(ready) /\ RangeOf(Tail(ready)) \subseteq RangeOf(ready)
    BY <2>1, TailRange
  <2>3. count[p] > 0  BY <2>2 DEF FeedInv, AudioInv
  <2>4. hand' = [page |-> p, count |-> count[p]]  BY <1>25 DEF TakeReady, Open
  <2>5. RangeOf(ready)' = RangeOf(Tail(ready)) /\ count' = count  BY <1>25 DEF TakeReady
  <2> HIDE DEF p
  <2>6. \A r \in RangeOf(ready)' : count'[r] > 0  BY <2>2, <2>5 DEF FeedInv, AudioInv
  <2> QED BY <1>25, <2>2, <2>3, <2>4, <2>6, NoPageAssumption DEF TakeReady, AudioInv, None
<1>26. ASSUME CountTaken PROVE AudioInv'
  BY <1>26 DEF CountTaken, FeedInv, TypeOK, AudioInv, None, Feeders
<1>27. ASSUME SchedulePage PROVE AudioInv'
  BY <1>27 DEF SchedulePage, FeedInv, TypeOK, AudioInv, None, Feeders
<1>28. ASSUME ImportEnds PROVE AudioInv'
  BY <1>28 DEF ImportEnds, FeedInv, TypeOK, AudioInv, None, Feeders
<1>29. ASSUME NEW p \in Pages, Dispatch(p) PROVE AudioInv'
  <2>1. p \notin RangeOf(ready)  BY <1>29, PageIn DEF Dispatch
  <2>2. UNCHANGED <<ready, hand, audio>> /\ (count' = count \/ count' = [count EXCEPT ![p] = 0])
    BY <1>29 DEF Dispatch
  <2> QED BY SMTT(30), <2>1, <2>2 DEF FeedInv, TypeOK, AudioInv, None, RangeOf
<1>30. ASSUME CallbackEnds PROVE AudioInv'
  BY <1>30 DEF CallbackEnds, FeedInv, TypeOK, AudioInv, None, Feeders
<1>31. ASSUME Cancel PROVE AudioInv'
  BY <1>31 DEF Cancel, FeedInv, TypeOK, AudioInv, None, Feeders
<1>32. ASSUME StopAudio PROVE AudioInv'
  BY <1>32 DEF StopAudio, FeedInv, TypeOK, AudioInv, None, Feeders
<1>33. ASSUME UNCHANGED vars PROVE AudioInv'
  BY <1>33 DEF vars, FeedInv, TypeOK, AudioInv, None, Feeders
<1> QED BY <1>1, <1>2, <1>3, <1>4, <1>5, <1>6, <1>7, <1>8, <1>9, <1>10, <1>11,
      <1>12, <1>13, <1>14, <1>15, <1>16, <1>17, <1>18, <1>19, <1>20, <1>21,
      <1>22, <1>23, <1>24, <1>25, <1>26, <1>27, <1>28, <1>29, <1>30, <1>31,
      <1>32, <1>33, Steps

\* The cursors of the scheduler.
LEMMA NextCursors == FeedInv /\ [Next]_vars => CursorInv'
<1> SUFFICES ASSUME FeedInv, [Next]_vars PROVE CursorInv'  OBVIOUS
<1> USE DEF pool, pages, feeder, direct, compiler, audioVars, history
<1>1. ASSUME \/ Submit \/ RingSubmit \/ LoadState \/ OpenPage \/ CopyEvents
             \/ CommitEvents \/ CommitFails \/ SealPage \/ PopFirst
             \/ CompilerStops \/ CompileOne \/ PopNext \/ FinishPage
             \/ ReturnPage \/ FlushNothing \/ DetachOpenPage \/ TakeReady
             \/ CountTaken \/ ImportEnds \/ CallbackEnds \/ Cancel
             \/ StopAudio \/ UNCHANGED vars
      PROVE  CursorInv'
  <2>1. UNCHANGED cursors
    BY <1>1 DEF Submit, RingSubmit, LoadState, OpenPage, CopyEvents,
       CommitEvents, CommitFails, SealPage, PopFirst, CompilerStops,
       CompileOne, PopNext, FinishPage, ReturnPage, FlushNothing,
       DetachOpenPage, TakeReady, CountTaken, ImportEnds, CallbackEnds, Cancel,
       StopAudio, vars
  <2> QED BY <2>1 DEF FeedInv, CursorInv, Active
<1>2. ASSUME NEW f \in Feeders, 
             \/ AcquirePage(f) \/ AcquireFails(f) \/ CheckCancelled(f)
             \/ ObserveEpoch(f) \/ Wake(f) \/ TimeOut(f) \/ PublishPage(f)
             \/ CountPublished(f)
      PROVE  CursorInv'
  <2>1. UNCHANGED cursors
    BY <1>2 DEF AcquirePage, AcquireFails, CheckCancelled, ObserveEpoch, Wake,
       Resume, TimeOut, PublishPage, CountPublished
  <2> QED BY <2>1 DEF FeedInv, CursorInv, Active
<1>3. ASSUME SchedulePage PROVE CursorInv'
  <2>1. hand.count \in Nat /\ hand.page \in Pages /\ hand.count > 0
        /\ cursors \in [Active -> [offset : Nat, count : Nat]]
    BY <1>3, PageCapacityAssumption DEF SchedulePage, None, FeedInv, TypeOK, AudioInv, CursorInv
  <2>2. Active' = Active \cup {hand.page} /\ cursors' =
          [p \in Active \cup {hand.page} |->
             IF p = hand.page THEN [offset |-> 0, count |-> hand.count] ELSE cursors[p]]
    BY <1>3 DEF SchedulePage, Active
  <2>3. [offset |-> 0, count |-> hand.count] \in [offset : Nat, count : Nat]  BY <2>1
  <2> QED BY <2>1, <2>2, <2>3 DEF CursorInv
<1>4. ASSUME NEW p \in Pages, Dispatch(p) PROVE CursorInv'
  <2>1. /\ cursors \in [Active -> [offset : Nat, count : Nat]]
        /\ cursors[p].offset \in Nat /\ cursors[p].count \in Nat
    BY <1>4, DispatchFacts DEF FeedInv, CursorInv
  <2>2. PICK u \in cursors[p].offset + 1 .. cursors[p].count :
          \/ Active' = Active \ {p} /\ cursors' = [q \in Active \ {p} |-> cursors[q]]
          \/ /\ Active' = Active
             /\ cursors'[p] = [offset |-> u, count |-> cursors[p].count]
             /\ \A q \in Active : q # p => cursors'[q] = cursors[q]
             /\ cursors' = [cursors EXCEPT ![p].offset = u]
    BY <1>4, DispatchFacts
  <2>3. CASE Active' = Active \ {p} /\ cursors' = [q \in Active \ {p} |-> cursors[q]]
    BY <2>1, <2>3 DEF CursorInv
  <2>4. CASE /\ Active' = Active
             /\ cursors'[p] = [offset |-> u, count |-> cursors[p].count]
             /\ \A q \in Active : q # p => cursors'[q] = cursors[q]
             /\ cursors' = [cursors EXCEPT ![p].offset = u]
    <3>1. \A q \in Active : cursors'[q] \in [offset : Nat, count : Nat]
      <4>1. u \in Nat  BY <2>1, <2>2
      <4>2. [offset |-> u, count |-> cursors[p].count] \in [offset : Nat, count : Nat]
        BY <2>1, <4>1
      <4> QED BY <2>1, <2>4, <4>2
    <3>2. cursors' = [q \in Active' |-> cursors'[q]]
      <4> DEFINE r == [cursors[p] EXCEPT !.offset = u]
      <4>1. cursors' = [cursors EXCEPT ![p] = r]  BY <2>4, Zenon
      <4> HIDE DEF r
      <4> QED BY <2>1, <2>4, <4>1 DEF Active
    <3> QED BY <2>4, <3>1, <3>2 DEF CursorInv
  <2> QED BY <2>2, <2>3, <2>4
<1> QED BY <1>1, <1>2, <1>3, <1>4, Steps

\* The number of events given to the feeders.
LEMMA NextSubmitted == FeedInv /\ [Next]_vars => SubmittedInv'
<1> SUFFICES ASSUME FeedInv, [Next]_vars PROVE SubmittedInv'  OBVIOUS
<1> USE DEF pool, pages, feeder, direct, compiler, audioVars, history
<1>1. ASSUME Submit PROVE SubmittedInv'
  BY SMTT(30), <1>1 DEF Submit, Goto, FeedInv, TypeOK, SubmittedInv, Feeders
<1>2. ASSUME RingSubmit PROVE SubmittedInv'
  <2>1. /\ submitted \in [Feeders -> Nat] /\ submitted["compiler"] < MaxRing
        /\ submitted' = [submitted EXCEPT !["compiler"] = submitted["compiler"] + 1]
    BY <1>2 DEF RingSubmit, FeedInv, SubmittedInv
  <2> QED BY <2>1, BoundAssumption DEF FeedInv, SubmittedInv, Feeders
<1>3. ASSUME NEW f \in Feeders, AcquirePage(f) PROVE SubmittedInv'
  BY <1>3 DEF AcquirePage, Goto, TakePage, Available, FeedInv, TypeOK,
     SubmittedInv, Feeders
<1>4. ASSUME NEW f \in Feeders, AcquireFails(f) PROVE SubmittedInv'
  BY <1>4 DEF AcquireFails, Goto, FeedInv, TypeOK, SubmittedInv, Feeders
<1>5. ASSUME NEW f \in Feeders, CheckCancelled(f) PROVE SubmittedInv'
  BY <1>5 DEF CheckCancelled, Goto, Return, FeedInv, TypeOK, SubmittedInv,
     Feeders
<1>6. ASSUME NEW f \in Feeders, ObserveEpoch(f) PROVE SubmittedInv'
  BY <1>6 DEF ObserveEpoch, Goto, FeedInv, TypeOK, SubmittedInv, Feeders
<1>7. ASSUME NEW f \in Feeders, Wake(f) PROVE SubmittedInv'
  BY <1>7 DEF Wake, Resume, Goto, FeedInv, TypeOK, SubmittedInv, Feeders
<1>8. ASSUME NEW f \in Feeders, TimeOut(f) PROVE SubmittedInv'
  BY <1>8 DEF TimeOut, Resume, Goto, FeedInv, TypeOK, SubmittedInv, Feeders
<1>9. ASSUME NEW f \in Feeders, PublishPage(f) PROVE SubmittedInv'
  BY <1>9 DEF PublishPage, Goto, Sealed, FeedInv, TypeOK, SubmittedInv, Feeders
<1>10. ASSUME NEW f \in Feeders, CountPublished(f) PROVE SubmittedInv'
  BY <1>10 DEF CountPublished, Goto, Sealed, Continue, Return, EndChunk,
     FeedInv, TypeOK, SubmittedInv, Feeders
<1>11. ASSUME LoadState PROVE SubmittedInv'
  BY <1>11 DEF LoadState, Goto, FeedInv, TypeOK, SubmittedInv, Feeders
<1>12. ASSUME OpenPage PROVE SubmittedInv'
  BY <1>12 DEF OpenPage, Goto, Open, FeedInv, TypeOK, SubmittedInv, Feeders
<1>13. ASSUME CopyEvents PROVE SubmittedInv'
  BY <1>13 DEF CopyEvents, Goto, FeedInv, TypeOK, SubmittedInv, Feeders
<1>14. ASSUME CommitEvents PROVE SubmittedInv'
  BY <1>14 DEF CommitEvents, Goto, Continue, Return, Open, Taken, FeedInv,
     TypeOK, SubmittedInv, Feeders
<1>15. ASSUME CommitFails PROVE SubmittedInv'
  BY <1>15 DEF CommitFails, Continue, Return, Goto, FeedInv, TypeOK,
     SubmittedInv, Feeders
<1>16. ASSUME SealPage PROVE SubmittedInv'
  BY <1>16 DEF SealPage, Goto, Continue, Return, FeedInv, TypeOK, SubmittedInv,
     Feeders
<1>17. ASSUME PopFirst PROVE SubmittedInv'
  BY <1>17 DEF PopFirst, Goto, FeedInv, TypeOK, SubmittedInv, Feeders
<1>18. ASSUME CompilerStops PROVE SubmittedInv'
  BY <1>18 DEF CompilerStops, Goto, FeedInv, TypeOK, SubmittedInv, Feeders
<1>19. ASSUME CompileOne PROVE SubmittedInv'
  BY <1>19 DEF CompileOne, FeedInv, TypeOK, SubmittedInv, Feeders
<1>20. ASSUME PopNext PROVE SubmittedInv'
  BY <1>20 DEF PopNext, MoreToCompile, FeedInv, TypeOK, SubmittedInv, Feeders
<1>21. ASSUME FinishPage PROVE SubmittedInv'
  BY <1>21 DEF FinishPage, Goto, FeedInv, TypeOK, SubmittedInv, Feeders
<1>22. ASSUME ReturnPage PROVE SubmittedInv'
  BY <1>22 DEF ReturnPage, Goto, EndChunk, FeedInv, TypeOK, SubmittedInv,
     Feeders
<1>23. ASSUME FlushNothing PROVE SubmittedInv'
  BY <1>23 DEF FlushNothing, FeedInv, TypeOK, SubmittedInv, Feeders
<1>24. ASSUME DetachOpenPage PROVE SubmittedInv'
  BY <1>24 DEF DetachOpenPage, FeedInv, TypeOK, SubmittedInv, Feeders
<1>25. ASSUME TakeReady PROVE SubmittedInv'
  BY <1>25 DEF TakeReady, Open, FeedInv, TypeOK, SubmittedInv, Feeders
<1>26. ASSUME CountTaken PROVE SubmittedInv'
  BY <1>26 DEF CountTaken, FeedInv, TypeOK, SubmittedInv, Feeders
<1>27. ASSUME SchedulePage PROVE SubmittedInv'
  BY <1>27 DEF SchedulePage, FeedInv, TypeOK, SubmittedInv, Feeders
<1>28. ASSUME ImportEnds PROVE SubmittedInv'
  BY <1>28 DEF ImportEnds, FeedInv, TypeOK, SubmittedInv, Feeders
<1>29. ASSUME NEW p \in Pages, Dispatch(p) PROVE SubmittedInv'
  BY <1>29 DEF Dispatch, FeedInv, TypeOK, SubmittedInv, Feeders
<1>30. ASSUME CallbackEnds PROVE SubmittedInv'
  BY <1>30 DEF CallbackEnds, FeedInv, TypeOK, SubmittedInv, Feeders
<1>31. ASSUME Cancel PROVE SubmittedInv'
  BY <1>31 DEF Cancel, FeedInv, TypeOK, SubmittedInv, Feeders
<1>32. ASSUME StopAudio PROVE SubmittedInv'
  BY <1>32 DEF StopAudio, FeedInv, TypeOK, SubmittedInv, Feeders
<1>33. ASSUME UNCHANGED vars PROVE SubmittedInv'
  BY <1>33 DEF vars, FeedInv, TypeOK, SubmittedInv, Feeders
<1> QED BY <1>1, <1>2, <1>3, <1>4, <1>5, <1>6, <1>7, <1>8, <1>9, <1>10, <1>11,
      <1>12, <1>13, <1>14, <1>15, <1>16, <1>17, <1>18, <1>19, <1>20, <1>21,
      <1>22, <1>23, <1>24, <1>25, <1>26, <1>27, <1>28, <1>29, <1>30, <1>31,
      <1>32, <1>33, Steps

-----------------------------------------------------------------------------
(* A step moves at most one page from one place to another.                *)

LEMMA Unmoved ==
    ASSUME FeedInv, UNCHANGED <<compilerFree, recycled, ready, held, hand, Active>>,
           directState'.page = directState.page
    PROVE  PlacesInv'
<1>1. \A p \in Pages, k \in Places : In(p, k)' <=> In(p, k)  BY DEF In, RangeOf
<1>2. Distinct(compilerFree)' /\ Distinct(recycled)' /\ Distinct(ready)'
  BY DEF FeedInv, PlacesInv, Distinct
<1> QED BY <1>1, <1>2 DEF FeedInv, PlacesInv

LEMMA MovePage ==
    ASSUME FeedInv, NEW q \in Pages, NEW a \in Places, NEW b \in Places, In(q, a),
           In(q, b)', ~In(q, a)',
           \A p \in Pages, k \in Places :
             p # q \/ k \notin {a, b} => (In(p, k)' <=> In(p, k)),
           Distinct(compilerFree)', Distinct(recycled)', Distinct(ready)'
    PROVE  PlacesInv'
<1>1. \A p \in Pages, k \in Places, l \in Places : In(p, k) /\ In(p, l) => k = l
  BY DEF FeedInv, PlacesInv
<1>2. \A p \in Pages : \E k \in Places : In(p, k)  BY DEF FeedInv, PlacesInv
<1>3. \A p \in Pages : \E k \in Places : In(p, k)'
  <2> TAKE p \in Pages
  <2>1. CASE p = q  BY <2>1
  <2>2. CASE p # q
    <3>1. PICK k \in Places : In(p, k)  BY <1>2
    <3> QED BY <2>2, <3>1
  <2> QED BY <2>1, <2>2
<1>4. \A p \in Pages, k \in Places, l \in Places : In(p, k)' /\ In(p, l)' => k = l
  <2> TAKE p \in Pages, k \in Places, l \in Places
  <2>1. CASE p = q
    <3>1. \A m \in Places : In(q, m)' => m = b
      <4> TAKE m \in Places
      <4>1. CASE m \notin {a, b}  BY <1>1, <4>1
      <4> QED BY <4>1
    <3> QED BY <2>1, <3>1
  <2>2. CASE p # q  BY <1>1, <2>2
  <2> QED BY <2>1, <2>2
<1> HIDE DEF In, Distinct, Places
<1> QED BY <1>3, <1>4 DEF PlacesInv

LEMMA NextPlaces == FeedInv /\ [Next]_vars => PlacesInv'
<1> SUFFICES ASSUME FeedInv, [Next]_vars PROVE PlacesInv'  OBVIOUS
<1> USE DEF pool, pages, feeder, direct, compiler, audioVars, history
<1>0. /\ held \in [Feeders -> Pages \cup {NoPage}] /\ NoPage \notin Pages
      /\ Feeders = {"direct", "compiler"}
      /\ compilerFree \in Seq(Pages) /\ Distinct(compilerFree)
      /\ recycled \in Seq(Pages) /\ Distinct(recycled)
      /\ ready \in Seq(Pages) /\ Distinct(ready)
  BY FeederFacts DEF FeedInv, TypeOK, PlacesInv
<1>1. ASSUME \/ Submit \/ RingSubmit \/ LoadState \/ CopyEvents \/ CommitFails
             \/ PopFirst \/ CompilerStops \/ CompileOne \/ PopNext \/ FinishPage
             \/ FlushNothing \/ CountTaken \/ ImportEnds \/ CallbackEnds
             \/ Cancel \/ StopAudio \/ UNCHANGED vars
      PROVE  PlacesInv'
  <2>1. UNCHANGED <<compilerFree, recycled, ready, held, hand, cursors, directState>>
    BY <1>1 DEF Submit, RingSubmit, LoadState, CopyEvents, CommitFails, PopFirst,
         CompilerStops, CompileOne, PopNext, FinishPage, FlushNothing, CountTaken,
         ImportEnds, CallbackEnds, Cancel, StopAudio, vars
  <2> QED BY <2>1, Unmoved DEF Active
<1>2. ASSUME NEW f \in Feeders,
             \/ AcquireFails(f) \/ CheckCancelled(f) \/ ObserveEpoch(f) \/ Wake(f)
             \/ TimeOut(f) \/ CountPublished(f)
      PROVE  PlacesInv'
  <2>1. UNCHANGED <<compilerFree, recycled, ready, held, hand, cursors, directState>>
    BY <1>2 DEF AcquireFails, CheckCancelled, ObserveEpoch, Wake, TimeOut, Resume,
         CountPublished
  <2> QED BY <2>1, Unmoved DEF Active
<1>3. ASSUME NEW f \in Feeders, AcquirePage(f) PROVE PlacesInv'
  <2> PICK q \in Pages :
           /\ held' = [held EXCEPT ![f] = q]
           /\ Distinct(compilerFree)' /\ Distinct(recycled)'
           /\ \/ /\ q \in RangeOf(recycled) /\ UNCHANGED compilerFree
                 /\ RangeOf(recycled)' = RangeOf(recycled) \ {q}
              \/ /\ q \in RangeOf(compilerFree) /\ UNCHANGED recycled
                 /\ RangeOf(compilerFree)' = RangeOf(compilerFree) \ {q}
    BY <1>3, AcquireFacts
  <2>1. UNCHANGED <<ready, hand, cursors, directState>> /\ held[f] = NoPage
    BY <1>3 DEF AcquirePage, FeedInv, DirectInv, CompilerInv, Feeders
  <2>2. Distinct(ready)'  BY <1>0, <2>1
  <2>3. CASE RangeOf(recycled)' = RangeOf(recycled) \ {q} /\ q \in RangeOf(recycled)
             /\ UNCHANGED compilerFree
    <3>1. \A p \in Pages, k \in Places :
            p # q \/ k \notin {"recycled", f} => (In(p, k)' <=> In(p, k))
      BY SMTT(30), <1>0, <2>1, <2>3 DEF In, Active, Places, RangeOf
    <3>2. In(q, "recycled") /\ ~In(q, "recycled")' /\ In(q, f)'
      BY <1>0, <2>1, <2>3 DEF In
    <3> QED BY <1>0, <2>2, <3>1, <3>2, MovePage DEF Places
  <2>4. CASE RangeOf(compilerFree)' = RangeOf(compilerFree) \ {q}
             /\ q \in RangeOf(compilerFree) /\ UNCHANGED recycled
    <3>1. \A p \in Pages, k \in Places :
            p # q \/ k \notin {"free", f} => (In(p, k)' <=> In(p, k))
      <4>1. RangeOf(recycled)' = RangeOf(recycled) /\ RangeOf(ready)' = RangeOf(ready)
            /\ Active' = Active
        BY <2>1, <2>4 DEF RangeOf, Active
      <4> QED BY <1>0, <2>1, <2>4, <4>1 DEF In, Places
    <3>2. In(q, "free") /\ ~In(q, "free")' /\ In(q, f)'
      BY <1>0, <2>1, <2>4 DEF In
    <3> QED BY <1>0, <2>2, <3>1, <3>2, MovePage DEF Places
  <2> QED BY <2>3, <2>4
<1>4. ASSUME NEW f \in Feeders, PublishPage(f) PROVE PlacesInv'
  <2> PICK q \in Pages : q = held[f]  BY <1>4, FeederFacts DEF PublishPage
  <2>1. /\ q = held[f] /\ held' = [held EXCEPT ![f] = NoPage]
        /\ UNCHANGED <<compilerFree, recycled, hand, cursors, directState>>
        /\ ready' = Append(ready, q)
    BY <1>4, FeederFacts DEF PublishPage
  <2>2. q \notin RangeOf(ready)  BY <1>0, <2>1, PageIn
  <2>3. RangeOf(ready)' = RangeOf(ready) \cup {q} /\ Distinct(ready)'
    BY <1>0, <2>1, <2>2, AppendRange
  <2>4. Distinct(compilerFree)' /\ Distinct(recycled)'  BY <1>0, <2>1
  <2>5. \A p \in Pages, k \in Places :
          p # q \/ k \notin {f, "ready"} => (In(p, k)' <=> In(p, k))
    BY <1>0, <2>1, <2>3 DEF In, Active, Places, RangeOf
  <2>6. In(q, f) /\ ~In(q, f)' /\ In(q, "ready")'
    BY <1>0, <2>1, <2>3 DEF In
  <2> QED BY <1>0, <2>1, <2>3, <2>4, <2>5, <2>6, MovePage DEF Places
<1>5. ASSUME OpenPage PROVE PlacesInv'
  <2> PICK q \in Pages : q = held["direct"]
    BY <1>0, <1>5 DEF OpenPage, FeedInv, DirectInv
  <2>1. /\ q = held["direct"] /\ held' = [held EXCEPT !["direct"] = NoPage]
        /\ UNCHANGED <<compilerFree, recycled, ready, hand, cursors>>
        /\ directState.page = NoPage /\ directState'.page = q
    BY <1>0, <1>5 DEF OpenPage, Open, None, FeedInv, DirectInv
  <2>2. Distinct(compilerFree)' /\ Distinct(recycled)' /\ Distinct(ready)'  BY <1>0, <2>1
  <2>3. \A p \in Pages, k \in Places :
          p # q \/ k \notin {"direct", "open"} => (In(p, k)' <=> In(p, k))
    BY <1>0, <2>1 DEF In, Active, Places, RangeOf
  <2>4. In(q, "direct") /\ ~In(q, "direct")' /\ In(q, "open")'
    BY <1>0, <2>1 DEF In
  <2> QED BY <2>1, <2>2, <2>3, <2>4, MovePage DEF Places
<1>6. ASSUME CommitEvents PROVE PlacesInv'
  <2>1. /\ UNCHANGED <<compilerFree, recycled, ready, held, hand, cursors>>
        /\ directState'.page = directState.page
    BY <1>6 DEF CommitEvents, Open
  <2> QED BY <2>1, Unmoved DEF Active
<1>7. ASSUME SealPage PROVE PlacesInv'
  <2>1. CASE directState # snapshot
    <3>1. UNCHANGED <<compilerFree, recycled, ready, held, hand, cursors, directState>>
      BY <1>7, <2>1 DEF SealPage
    <3> QED BY <3>1, Unmoved DEF Active
  <2>2. CASE directState = snapshot
    <3> PICK q \in Pages : q = directState.page
      BY <1>7, <2>2 DEF SealPage, FeedInv, DirectInv
    <3>1. /\ q = directState.page /\ held' = [held EXCEPT !["direct"] = q]
          /\ UNCHANGED <<compilerFree, recycled, ready, hand, cursors>>
          /\ directState'.page = NoPage /\ held["direct"] = NoPage
      BY <1>0, <1>7, <2>2 DEF SealPage, None, FeedInv, DirectInv
    <3>2. Distinct(compilerFree)' /\ Distinct(recycled)' /\ Distinct(ready)'
      BY <1>0, <3>1
    <3>3. \A p \in Pages, k \in Places :
            p # q \/ k \notin {"open", "direct"} => (In(p, k)' <=> In(p, k))
      BY <1>0, <3>1 DEF In, Active, Places, RangeOf
    <3>4. In(q, "open") /\ ~In(q, "open")' /\ In(q, "direct")'
      BY <1>0, <3>1 DEF In
    <3> QED BY <3>1, <3>2, <3>3, <3>4, MovePage DEF Places
  <2> QED BY <2>1, <2>2
<1>8. ASSUME ReturnPage PROVE PlacesInv'
  <2> PICK q \in Pages : q = held["compiler"]
    BY <1>0, <1>8 DEF ReturnPage, FeedInv, CompilerInv
  <2>1. /\ q = held["compiler"] /\ held' = [held EXCEPT !["compiler"] = NoPage]
        /\ UNCHANGED <<recycled, ready, hand, cursors, directState>>
        /\ compilerFree' = Append(compilerFree, q)
    BY <1>0, <1>8 DEF ReturnPage, FeedInv, CompilerInv
  <2>2. q \notin RangeOf(compilerFree)  BY <2>1, PageIn
  <2>3. RangeOf(compilerFree)' = RangeOf(compilerFree) \cup {q} /\ Distinct(compilerFree)'
    BY <1>0, <2>1, <2>2, AppendRange
  <2>4. Distinct(recycled)' /\ Distinct(ready)'  BY <1>0, <2>1
  <2>5. \A p \in Pages, k \in Places :
          p # q \/ k \notin {"compiler", "free"} => (In(p, k)' <=> In(p, k))
    BY <1>0, <2>1, <2>3 DEF In, Active, Places, RangeOf
  <2>6. In(q, "compiler") /\ ~In(q, "compiler")' /\ In(q, "free")'
    BY <1>0, <2>1, <2>3 DEF In
  <2> QED BY <2>1, <2>3, <2>4, <2>5, <2>6, MovePage DEF Places
<1>9. ASSUME DetachOpenPage PROVE PlacesInv'
  <2> PICK q \in Pages : q = directState.page
    BY <1>0, <1>9 DEF DetachOpenPage, None, FeedInv, TypeOK, DirectInv
  <2>1. /\ q = directState.page /\ hand.page = NoPage /\ hand'.page = q /\ directState'.page = NoPage
        /\ UNCHANGED <<compilerFree, recycled, ready, held, cursors>>
    BY <1>0, <1>9 DEF DetachOpenPage, None, FeedInv, TypeOK, DirectInv, AudioInv
  <2>2. Distinct(compilerFree)' /\ Distinct(recycled)' /\ Distinct(ready)'  BY <1>0, <2>1
  <2>3. \A p \in Pages, k \in Places :
          p # q \/ k \notin {"open", "hand"} => (In(p, k)' <=> In(p, k))
    BY <1>0, <2>1 DEF In, Active, Places, RangeOf
  <2>4. In(q, "open") /\ ~In(q, "open")' /\ In(q, "hand")'  BY <1>0, <2>1 DEF In
  <2> QED BY <2>1, <2>2, <2>3, <2>4, MovePage DEF Places
<1>10. ASSUME TakeReady PROVE PlacesInv'
  <2> PICK q \in Pages : q = Head(ready)  BY <1>0, <1>10, TailRange DEF TakeReady
  <2>1. /\ ready # << >> /\ q = Head(ready) /\ hand.page = NoPage /\ hand'.page = q /\ ready' = Tail(ready)
        /\ UNCHANGED <<compilerFree, recycled, held, directState, cursors>>
    BY <1>10 DEF TakeReady, Open, None, FeedInv, AudioInv
  <2>2. /\ q \in RangeOf(ready) /\ Distinct(ready)'
        /\ RangeOf(ready)' = RangeOf(ready) \ {q}
    BY <1>0, <2>1, TailRange
  <2>3. Distinct(compilerFree)' /\ Distinct(recycled)'  BY <1>0, <2>1
  <2>4. \A p \in Pages, k \in Places :
          p # q \/ k \notin {"ready", "hand"} => (In(p, k)' <=> In(p, k))
    <3>1. RangeOf(recycled)' = RangeOf(recycled) /\ Active' = Active
          /\ RangeOf(compilerFree)' = RangeOf(compilerFree)
      BY <2>1 DEF RangeOf, Active
    <3> QED BY <1>0, <2>1, <2>2, <3>1 DEF In, Places
  <2>5. In(q, "ready") /\ ~In(q, "ready")' /\ In(q, "hand")'  BY <1>0, <2>1, <2>2 DEF In
  <2> QED BY <2>2, <2>3, <2>4, <2>5, MovePage DEF Places
<1>11. ASSUME SchedulePage PROVE PlacesInv'
  <2> PICK q \in Pages : q = hand.page
    BY <1>0, <1>11 DEF SchedulePage, None, FeedInv, TypeOK, AudioInv
  <2>1. /\ q = hand.page /\ hand'.page = NoPage /\ Active' = Active \cup {q}
        /\ UNCHANGED <<compilerFree, recycled, ready, held, directState>>
    BY <1>0, <1>11 DEF SchedulePage, None, Active, FeedInv, TypeOK, AudioInv
  <2>2. Distinct(compilerFree)' /\ Distinct(recycled)' /\ Distinct(ready)'  BY <1>0, <2>1
  <2>3. \A p \in Pages, k \in Places :
          p # q \/ k \notin {"hand", "active"} => (In(p, k)' <=> In(p, k))
    <3>1. RangeOf(recycled)' = RangeOf(recycled) /\ RangeOf(ready)' = RangeOf(ready)
          /\ RangeOf(compilerFree)' = RangeOf(compilerFree)
      BY <2>1 DEF RangeOf
    <3> QED BY <1>0, <2>1, <3>1 DEF In, Places
  <2>4. In(q, "hand") /\ ~In(q, "hand")' /\ In(q, "active")'  BY <1>0, <2>1 DEF In
  <2> QED BY <2>1, <2>2, <2>3, <2>4, MovePage DEF Places
<1>12. ASSUME NEW q \in Pages, Dispatch(q) PROVE PlacesInv'
  <2>1. UNCHANGED <<compilerFree, ready, held, hand, directState>> /\ q \in Active
    BY <1>12 DEF Dispatch
  <2>2. \/ recycled' = recycled /\ Active' = Active
        \/ recycled' = Append(recycled, q) /\ Active' = Active \ {q}
    BY <1>12 DEF Dispatch, Active
  <2>3. CASE recycled' = recycled /\ Active' = Active  BY <2>1, <2>3, Unmoved
  <2>4. CASE recycled' = Append(recycled, q) /\ Active' = Active \ {q}
    <3>1. q \notin RangeOf(recycled)  BY <2>1, PageIn
    <3>2. RangeOf(recycled)' = RangeOf(recycled) \cup {q} /\ Distinct(recycled)'
      BY <1>0, <2>4, <3>1, AppendRange
    <3>3. Distinct(compilerFree)' /\ Distinct(ready)'  BY <1>0, <2>1
    <3>4. \A p \in Pages, k \in Places :
            p # q \/ k \notin {"active", "recycled"} => (In(p, k)' <=> In(p, k))
      BY <1>0, <2>1, <2>4, <3>2 DEF In, Places, RangeOf
    <3>5. In(q, "active") /\ ~In(q, "active")' /\ In(q, "recycled")'
      BY <2>1, <2>4, <3>2 DEF In
    <3> QED BY <3>2, <3>3, <3>4, <3>5, MovePage DEF Places
  <2> QED BY <2>2, <2>3, <2>4
<1> QED BY <1>1, <1>2, <1>3, <1>4, <1>5, <1>6, <1>7, <1>8, <1>9, <1>10, <1>11,
      <1>12, Steps

-----------------------------------------------------------------------------
(* The types, in groups of variables that the same steps change.           *)

QueueType ==
    /\ compilerFree \in Seq(Pages) /\ recycled \in Seq(Pages)
    /\ ready \in Seq(Pages) /\ readyEvents \in Int
    /\ poolLock \in Feeders \cup {"free"}
PageType ==
    /\ events \in [Pages -> [Slots -> Events \cup {NoEvent}]]
    /\ count \in [Pages -> 0 .. PageCapacity]
StateType ==
    /\ directState \in [page : Pages \cup {NoPage}, count : 0 .. PageCapacity]
    /\ snapshot \in [page : Pages \cup {NoPage}, count : 0 .. PageCapacity]
    /\ hand \in [page : Pages \cup {NoPage}, count : 0 .. PageCapacity]
SourceType ==
    /\ stage \in Seq(DirectEvents) /\ done \in 0 .. Len(stage)
    /\ ring \in Seq(RingEvents) /\ timed \in RingEvents \cup {NoEvent}
    /\ compiledCount \in 0 .. drained /\ drained \in 0 .. PageCapacity
SchedulerType ==
    /\ audio \in {"flush", "import", "counted", "schedule", "dispatch", "stopped"}
    /\ Active \subseteq Pages
    /\ \A p \in Active : /\ cursors[p].count \in 1 .. PageCapacity
                         /\ cursors[p].offset \in 0 .. cursors[p].count - 1
HistoryType ==
    /\ progress \in BOOLEAN /\ cancelled \in BOOLEAN /\ overrun \in BOOLEAN
    /\ accepted \subseteq DirectEvents /\ dispatched \in [Events -> Nat]
FeederType ==
    /\ pc["direct"] \in {"idle", "load", "acquire", "check", "observe", "retry",
           "wait", "open", "copy", "cas", "seal", "publish", "count"}
    /\ pc["compiler"] \in {"pop", "acquire", "check", "observe", "retry", "wait",
           "fill", "publish", "count", "stopped"}
    /\ held \in [Feeders -> Pages \cup {NoPage}] /\ moved \in [Feeders -> BOOLEAN]

LEMMA TypeParts ==
    TypeOK <=> /\ QueueType /\ PageType /\ StateType /\ SourceType /\ SchedulerType
               /\ HistoryType /\ FeederType
BY DEF TypeOK, QueueType, PageType, StateType, SourceType, SchedulerType, HistoryType, FeederType

LEMMA NextQueueType == FeedInv /\ [Next]_vars => QueueType'
<1> SUFFICES ASSUME FeedInv, [Next]_vars PROVE QueueType'  OBVIOUS
<1> USE DEF pool, pages, feeder, direct, compiler, audioVars, history
<1>0. QueueType  BY TypeParts DEF FeedInv
<1>1. ASSUME \/ Submit \/ RingSubmit \/ LoadState \/ OpenPage \/ CopyEvents
             \/ CommitEvents \/ CommitFails \/ SealPage \/ PopFirst
             \/ CompilerStops \/ CompileOne \/ PopNext \/ FinishPage
             \/ FlushNothing \/ DetachOpenPage \/ SchedulePage \/ ImportEnds
             \/ CallbackEnds \/ Cancel \/ StopAudio \/ UNCHANGED vars
      PROVE  QueueType'
  <2>1. UNCHANGED <<compilerFree, recycled, ready, readyEvents, poolLock>>
    BY <1>1 DEF Submit, RingSubmit, LoadState, OpenPage, CopyEvents,
       CommitEvents, CommitFails, SealPage, PopFirst, CompilerStops,
       CompileOne, PopNext, FinishPage, FlushNothing, DetachOpenPage,
       SchedulePage, ImportEnds, CallbackEnds, Cancel, StopAudio, vars
  <2> QED BY <2>1, <1>0 DEF QueueType
<1>2. ASSUME NEW f \in Feeders, 
             \/ AcquireFails(f) \/ CheckCancelled(f) \/ ObserveEpoch(f)
             \/ Wake(f) \/ TimeOut(f)
      PROVE  QueueType'
  <2>1. UNCHANGED <<compilerFree, recycled, ready, readyEvents, poolLock>>
    BY <1>2 DEF AcquireFails, CheckCancelled, ObserveEpoch, Wake, Resume,
       TimeOut
  <2> QED BY <2>1, <1>0 DEF QueueType
<1>3. ASSUME NEW f \in Feeders, AcquirePage(f) PROVE QueueType'
  <2>1. compilerFree' \in Seq(Pages) /\ recycled' \in Seq(Pages)  BY <1>3, AcquireFacts
  <2> QED BY <1>3, <2>1, <1>0 DEF AcquirePage, QueueType
<1>4. ASSUME NEW f \in Feeders, PublishPage(f) PROVE QueueType'
  <2>1. Append(ready, held[f]) \in Seq(Pages)
    BY <1>4, <1>0, FeederFacts, AppendRange DEF PublishPage, QueueType
  <2> QED BY <1>4, <2>1, <1>0 DEF PublishPage, QueueType
<1>5. ASSUME NEW f \in Feeders, CountPublished(f) PROVE QueueType'
  <2>1. Sealed(f) \in Int
    BY PageCapacityAssumption DEF Sealed, FeedInv, TypeOK
  <2> QED BY <1>5, <2>1, <1>0 DEF CountPublished, QueueType
<1>6. ASSUME ReturnPage PROVE QueueType'
  <2>1. held["compiler"] \in Pages
    BY <1>6, FeederFacts DEF ReturnPage, FeedInv, CompilerInv
  <2>2. Append(compilerFree, held["compiler"]) \in Seq(Pages)
    BY <1>0, <2>1, AppendRange DEF QueueType
  <2> QED BY <1>6, <2>2, <1>0 DEF ReturnPage, QueueType
<1>7. ASSUME TakeReady PROVE QueueType'
  <2>1. Tail(ready) \in Seq(Pages)
    BY <1>7, <1>0, TailRange DEF TakeReady, QueueType, FeedInv, PlacesInv
  <2> QED BY <1>7, <2>1, <1>0 DEF TakeReady, QueueType
<1>8. ASSUME CountTaken PROVE QueueType'
  <2>1. hand.count \in Int  BY DEF FeedInv, TypeOK
  <2> QED BY <1>8, <2>1, <1>0 DEF CountTaken, QueueType
<1>9. ASSUME NEW p \in Pages, Dispatch(p) PROVE QueueType'
  <2>1. Append(recycled, p) \in Seq(Pages)  BY <1>0, AppendRange DEF QueueType
  <2> QED BY <1>9, <2>1, <1>0 DEF Dispatch, QueueType
<1> QED BY <1>1, <1>2, <1>3, <1>4, <1>5, <1>6, <1>7, <1>8, <1>9, Steps

LEMMA NextPageType == FeedInv /\ [Next]_vars => PageType'
<1> SUFFICES ASSUME FeedInv, [Next]_vars PROVE PageType'  OBVIOUS
<1> USE DEF pool, pages, feeder, direct, compiler, audioVars, history
<1>0. PageType  BY TypeParts DEF FeedInv
<1>1. ASSUME \/ Submit \/ RingSubmit \/ LoadState \/ OpenPage \/ CommitEvents
             \/ CommitFails \/ SealPage \/ PopFirst \/ CompilerStops
             \/ PopNext \/ FinishPage \/ FlushNothing \/ DetachOpenPage
             \/ TakeReady \/ CountTaken \/ ImportEnds \/ CallbackEnds
             \/ Cancel \/ StopAudio \/ UNCHANGED vars
      PROVE  PageType'
  <2>1. UNCHANGED <<events, count>>
    BY <1>1 DEF Submit, RingSubmit, LoadState, OpenPage, CommitEvents,
       CommitFails, SealPage, PopFirst, CompilerStops, PopNext, FinishPage,
       FlushNothing, DetachOpenPage, TakeReady, CountTaken, ImportEnds,
       CallbackEnds, Cancel, StopAudio, vars
  <2> QED BY <2>1, <1>0 DEF PageType
<1>2. ASSUME NEW f \in Feeders, 
             \/ AcquirePage(f) \/ AcquireFails(f) \/ CheckCancelled(f)
             \/ ObserveEpoch(f) \/ Wake(f) \/ TimeOut(f) \/ CountPublished(f)
      PROVE  PageType'
  <2>1. UNCHANGED <<events, count>>
    BY <1>2 DEF AcquirePage, AcquireFails, CheckCancelled, ObserveEpoch, Wake,
       Resume, TimeOut, CountPublished
  <2> QED BY <2>1, <1>0 DEF PageType
<1>3. ASSUME NEW f \in Feeders, PublishPage(f) PROVE PageType'
  <2>1. Sealed(f) \in 0 .. PageCapacity
    BY PageCapacityAssumption DEF Sealed, FeedInv, TypeOK
  <2> QED BY <1>3, <2>1, <1>0 DEF PublishPage, PageType
<1>4. ASSUME CopyEvents PROVE PageType'
  <2>1. \A i \in Slots : i \in Behind => stage[done + i - snapshot.count] \in Events
    <3> TAKE i \in Slots
    <3> HAVE i \in Behind
    <3>1. /\ done \in Nat /\ Len(stage) \in Nat /\ done + Taken <= Len(stage)
          /\ snapshot.count \in Nat /\ Taken \in Nat
          /\ i \in snapshot.count + 1 .. snapshot.count + Taken
      BY <1>4, TakenFacts, PageCapacityAssumption DEF CopyEvents, Behind
    <3>2. done + (i - snapshot.count) \in 1 .. Len(stage)  BY <3>1
    <3>3. stage \in Seq(DirectEvents)  BY DEF FeedInv, TypeOK
    <3>4. stage[done + (i - snapshot.count)] \in DirectEvents  BY <3>2, <3>3
    <3> QED BY <3>4 DEF Events
  <2> DEFINE page == [i \in Slots |-> IF i \in Behind
                        THEN stage[done + i - snapshot.count]
                        ELSE events[snapshot.page][i]]
  <2>2. events' = [events EXCEPT ![snapshot.page] = page] /\ UNCHANGED count
    BY <1>4 DEF CopyEvents
  <2>3. snapshot.page \in Pages  BY <1>4, TakenFacts DEF CopyEvents
  <2>4. page \in [Slots -> Events \cup {NoEvent}]  BY <1>0, <2>1, <2>3 DEF PageType
  <2> HIDE DEF page
  <2> QED BY <1>0, <2>2, <2>4 DEF PageType
<1>5. ASSUME CompileOne PROVE PageType'
  <2>1. timed \in Events  BY <1>5 DEF CompileOne, FeedInv, TypeOK, Events
  <2> QED BY <1>5, <2>1, <1>0 DEF CompileOne, PageType
<1>6. ASSUME ReturnPage PROVE PageType'
  <2>1. 0 \in 0 .. PageCapacity  BY PageCapacityAssumption
  <2> QED BY <1>6, <2>1, <1>0 DEF ReturnPage, PageType
<1>7. ASSUME SchedulePage PROVE PageType'
  <2>1. hand.count \in 0 .. PageCapacity  BY DEF FeedInv, TypeOK
  <2> QED BY <1>7, <2>1, <1>0 DEF SchedulePage, PageType
<1>8. ASSUME NEW p \in Pages, Dispatch(p) PROVE PageType'
  <2>1. 0 \in 0 .. PageCapacity  BY PageCapacityAssumption
  <2>2. UNCHANGED events /\ (UNCHANGED count \/ count' = [count EXCEPT ![p] = 0])
    BY <1>8 DEF Dispatch
  <2> QED BY <2>1, <2>2, <1>0 DEF PageType
<1> QED BY <1>1, <1>2, <1>3, <1>4, <1>5, <1>6, <1>7, <1>8, Steps

LEMMA NextStateType == FeedInv /\ [Next]_vars => StateType'
<1> SUFFICES ASSUME FeedInv, [Next]_vars PROVE StateType'  OBVIOUS
<1> USE DEF pool, pages, feeder, direct, compiler, audioVars, history
<1>0. StateType  BY TypeParts DEF FeedInv
<1>c. None \in [page : Pages \cup {NoPage}, count : 0 .. PageCapacity]
  BY PageCapacityAssumption DEF None
<1>1. ASSUME \/ Submit \/ RingSubmit \/ CopyEvents \/ PopFirst
             \/ CompilerStops \/ CompileOne \/ PopNext \/ FinishPage
             \/ ReturnPage \/ FlushNothing \/ CountTaken \/ ImportEnds
             \/ CallbackEnds \/ Cancel \/ StopAudio
             \/ (\E p \in Pages : Dispatch(p)) \/ UNCHANGED vars
      PROVE  StateType'
  <2>1. UNCHANGED <<directState, snapshot, hand>>
    BY <1>1 DEF Submit, RingSubmit, CopyEvents, PopFirst, CompilerStops,
       CompileOne, PopNext, FinishPage, ReturnPage, FlushNothing, CountTaken,
       ImportEnds, Dispatch, CallbackEnds, Cancel, StopAudio, vars
  <2> QED BY <2>1, <1>0 DEF StateType
<1>2. ASSUME NEW f \in Feeders, 
             \/ AcquirePage(f) \/ AcquireFails(f) \/ ObserveEpoch(f)
             \/ Wake(f) \/ TimeOut(f) \/ PublishPage(f)
      PROVE  StateType'
  <2>1. UNCHANGED <<directState, snapshot, hand>>
    BY <1>2 DEF AcquirePage, AcquireFails, ObserveEpoch, Wake, Resume, TimeOut,
       PublishPage
  <2> QED BY <2>1, <1>0 DEF StateType
<1>3. ASSUME NEW f \in Feeders, CheckCancelled(f) PROVE StateType'
  BY <1>3, <1>0, <1>c DEF CheckCancelled, Return, Goto, StateType, None
<1>4. ASSUME NEW f \in Feeders, CountPublished(f) PROVE StateType'
  BY <1>4, <1>0, <1>c DEF CountPublished, Continue, Return, Goto, StateType, None
<1>5. ASSUME LoadState PROVE StateType'
  BY <1>5, <1>0, <1>c DEF LoadState, StateType, None
<1>6. ASSUME OpenPage PROVE StateType'
  <2>1. held["direct"] \in Pages  BY <1>6, FeederFacts DEF OpenPage, FeedInv, DirectInv
  <2> QED BY <1>6, <2>1, <1>0, PageCapacityAssumption DEF OpenPage, Open, StateType
<1>7. ASSUME CommitEvents PROVE StateType'
  <2> DEFINE n == snapshot.count + Taken
  <2>1. n \in 0 .. PageCapacity /\ snapshot.page \in Pages
    BY <1>7, TakenFacts, PageCapacityAssumption DEF CommitEvents
  <2>2. /\ directState' = [page |-> snapshot.page, count |-> n] /\ hand' = hand
        /\ snapshot' = directState' \/ snapshot' = None
    BY <1>7 DEF CommitEvents, Open, Continue, Return
  <2> HIDE DEF n
  <2> QED BY <2>1, <2>2, <1>0, <1>c DEF StateType, None
<1>8. ASSUME CommitFails PROVE StateType'
  BY <1>8, <1>0, <1>c DEF CommitFails, Continue, Return, Goto, StateType, None
<1>9. ASSUME SealPage PROVE StateType'
  BY <1>9, <1>0, <1>c DEF SealPage, Continue, Return, Goto, StateType, None
<1>10. ASSUME DetachOpenPage PROVE StateType'
  BY <1>10, <1>0, <1>c DEF DetachOpenPage, StateType, None
<1>11. ASSUME TakeReady PROVE StateType'
  <2> DEFINE p == Head(ready)
  <2>1. p \in Pages /\ count \in [Pages -> 0 .. PageCapacity]
    BY <1>11, TailRange DEF TakeReady, FeedInv, TypeOK, PlacesInv
  <2>2. hand' = [page |-> p, count |-> count[p]] /\ UNCHANGED <<directState, snapshot>>
    BY <1>11 DEF TakeReady, Open
  <2> HIDE DEF p
  <2> QED BY <2>1, <2>2, <1>0 DEF StateType
<1>12. ASSUME SchedulePage PROVE StateType'
  BY <1>12, <1>0, <1>c DEF SchedulePage, StateType, None
<1> QED BY <1>1, <1>2, <1>3, <1>4, <1>5, <1>6, <1>7, <1>8, <1>9, <1>10, <1>11,
      <1>12, Steps

LEMMA NextSourceType == FeedInv /\ [Next]_vars => SourceType'
<1> SUFFICES ASSUME FeedInv, [Next]_vars PROVE SourceType'  OBVIOUS
<1> USE DEF pool, pages, feeder, direct, compiler, audioVars, history
<1>0. SourceType  BY TypeParts DEF FeedInv
<1>c. << >> \in Seq(DirectEvents) /\ Len(<< >>) = 0 /\ 0 \in 0 .. 0
      /\ 0 \in 0 .. PageCapacity
  BY PageCapacityAssumption
<1>1. ASSUME \/ LoadState \/ OpenPage \/ CopyEvents \/ CompilerStops
             \/ FinishPage \/ FlushNothing \/ DetachOpenPage \/ TakeReady
             \/ CountTaken \/ SchedulePage \/ ImportEnds \/ CallbackEnds
             \/ Cancel \/ StopAudio \/ (\E p \in Pages : Dispatch(p))
             \/ UNCHANGED vars
      PROVE  SourceType'
  <2>1. UNCHANGED <<stage, done, ring, timed, compiledCount, drained>>
    BY <1>1 DEF LoadState, OpenPage, CopyEvents, CompilerStops, FinishPage,
       FlushNothing, DetachOpenPage, TakeReady, CountTaken, SchedulePage,
       ImportEnds, Dispatch, CallbackEnds, Cancel, StopAudio, vars
  <2> QED BY <2>1, <1>0 DEF SourceType
<1>2. ASSUME NEW f \in Feeders, 
             \/ AcquirePage(f) \/ AcquireFails(f) \/ ObserveEpoch(f)
             \/ Wake(f) \/ TimeOut(f) \/ PublishPage(f)
      PROVE  SourceType'
  <2>1. UNCHANGED <<stage, done, ring, timed, compiledCount, drained>>
    BY <1>2 DEF AcquirePage, AcquireFails, ObserveEpoch, Wake, Resume, TimeOut,
       PublishPage
  <2> QED BY <2>1, <1>0 DEF SourceType
<1>3. ASSUME Submit PROVE SourceType'
  <2>1. PICK n \in 1 .. PageCapacity :
          /\ submitted["direct"] + n <= MaxDirect
          /\ stage' = [i \in 1 .. n |-> submitted["direct"] + i]
    BY <1>3 DEF Submit
  <2>2. submitted["direct"] \in Nat /\ n \in Nat
    BY PageCapacityAssumption DEF FeedInv, SubmittedInv, Feeders
  <2>3. \A i \in 1 .. n : submitted["direct"] + i \in DirectEvents
    BY <2>1, <2>2, BoundAssumption DEF DirectEvents
  <2>4. stage' \in [1 .. n -> DirectEvents]  BY <2>1, <2>3
  <2>5. stage' \in Seq(DirectEvents) /\ Len(stage') \in Nat
    BY <2>2, <2>4, SeqDef, LenProperties
  <2> QED BY <1>3, <2>5, <1>0 DEF Submit, SourceType
<1>4. ASSUME RingSubmit PROVE SourceType'
  <2>1. submitted'["compiler"] \in 1 .. MaxRing
    BY <1>4, BoundAssumption DEF RingSubmit, FeedInv, SubmittedInv, Feeders
  <2>2. MaxDirect + submitted'["compiler"] \in RingEvents
    BY <2>1, BoundAssumption DEF RingEvents
  <2>3. ring' \in Seq(RingEvents)  BY <1>4, <1>0, <2>2, AppendRange DEF RingSubmit, SourceType
  <2> QED BY <1>4, <2>3, <1>0 DEF RingSubmit, SourceType
<1>5. ASSUME NEW f \in Feeders, CheckCancelled(f) PROVE SourceType'
  BY <1>5, <1>0, <1>c DEF CheckCancelled, Return, SourceType
<1>6. ASSUME NEW f \in Feeders, CountPublished(f) PROVE SourceType'
  BY <1>6, <1>0, <1>c DEF CountPublished, Continue, Return, EndChunk, SourceType
<1>7. ASSUME CommitEvents PROVE SourceType'
  <2>1. done \in Nat /\ Taken \in Nat /\ Len(stage) \in Nat /\ done + Taken <= Len(stage)
    BY <1>7, TakenFacts DEF CommitEvents
  <2>2. /\ \/ stage' = << >> /\ done' = 0
           \/ stage' = stage /\ done' = done + Taken
        /\ UNCHANGED <<ring, timed, compiledCount, drained>>
    BY <1>7 DEF CommitEvents, Continue, Return
  <2>3. done + Taken \in 0 .. Len(stage)  BY <2>1
  <2> QED BY <2>2, <2>3, <1>0, <1>c DEF SourceType
<1>8. ASSUME CommitFails PROVE SourceType'
  BY <1>8, <1>0, <1>c DEF CommitFails, Continue, Return, SourceType
<1>9. ASSUME SealPage PROVE SourceType'
  BY <1>9, <1>0, <1>c DEF SealPage, Continue, Return, SourceType
<1>10. ASSUME PopFirst PROVE SourceType'
  <2>1. Head(ring) \in RingEvents /\ Tail(ring) \in Seq(RingEvents)
    BY <1>10, <1>0 DEF PopFirst, SourceType
  <2> QED BY <1>10, <2>1, <1>0 DEF PopFirst, SourceType
<1>11. ASSUME CompileOne PROVE SourceType'
  <2>1. drained + 1 \in 0 .. PageCapacity
    BY <1>11, <1>0, PageCapacityAssumption DEF CompileOne, SourceType, FeedInv, CompilerInv
  <2>2. compiledCount \in 0 .. drained + 1 /\ compiledCount + 1 \in 0 .. drained + 1
    BY <1>0, PageCapacityAssumption DEF SourceType
  <2> QED BY <1>11, <2>1, <2>2, <1>0 DEF CompileOne, SourceType
<1>12. ASSUME PopNext PROVE SourceType'
  <2>1. Head(ring) \in RingEvents /\ Tail(ring) \in Seq(RingEvents)
    BY <1>12, <1>0 DEF PopNext, MoreToCompile, SourceType
  <2> QED BY <1>12, <2>1, <1>0 DEF PopNext, SourceType
<1>13. ASSUME ReturnPage PROVE SourceType'
  BY <1>13, <1>0, <1>c DEF ReturnPage, EndChunk, SourceType
<1> QED BY <1>1, <1>2, <1>3, <1>4, <1>5, <1>6, <1>7, <1>8, <1>9, <1>10, <1>11,
      <1>12, <1>13, Steps

LEMMA NextSchedulerType == FeedInv /\ [Next]_vars => SchedulerType'
<1> SUFFICES ASSUME FeedInv, [Next]_vars PROVE SchedulerType'  OBVIOUS
<1> USE DEF pool, pages, feeder, direct, compiler, audioVars, history
<1>0. SchedulerType  BY TypeParts DEF FeedInv
<1>1. ASSUME \/ Submit \/ RingSubmit \/ LoadState \/ OpenPage \/ CopyEvents
             \/ CommitEvents \/ CommitFails \/ SealPage \/ PopFirst
             \/ CompilerStops \/ CompileOne \/ PopNext \/ FinishPage
             \/ ReturnPage \/ Cancel \/ UNCHANGED vars
      PROVE  SchedulerType'
  <2>1. UNCHANGED <<audio, cursors>>
    BY <1>1 DEF Submit, RingSubmit, LoadState, OpenPage, CopyEvents,
       CommitEvents, CommitFails, SealPage, PopFirst, CompilerStops,
       CompileOne, PopNext, FinishPage, ReturnPage, Cancel, vars
  <2> QED BY <2>1, <1>0 DEF SchedulerType, Active
<1>2. ASSUME NEW f \in Feeders, 
             \/ AcquirePage(f) \/ AcquireFails(f) \/ CheckCancelled(f)
             \/ ObserveEpoch(f) \/ Wake(f) \/ TimeOut(f) \/ PublishPage(f)
             \/ CountPublished(f)
      PROVE  SchedulerType'
  <2>1. UNCHANGED <<audio, cursors>>
    BY <1>2 DEF AcquirePage, AcquireFails, CheckCancelled, ObserveEpoch, Wake,
       Resume, TimeOut, PublishPage, CountPublished
  <2> QED BY <2>1, <1>0 DEF SchedulerType, Active
<1>3. ASSUME FlushNothing PROVE SchedulerType'
  BY <1>3, <1>0 DEF FlushNothing, SchedulerType, Active
<1>4. ASSUME DetachOpenPage PROVE SchedulerType'
  BY <1>4, <1>0 DEF DetachOpenPage, SchedulerType, Active
<1>5. ASSUME TakeReady PROVE SchedulerType'
  BY <1>5, <1>0 DEF TakeReady, SchedulerType, Active
<1>6. ASSUME CountTaken PROVE SchedulerType'
  BY <1>6, <1>0 DEF CountTaken, SchedulerType, Active
<1>7. ASSUME SchedulePage PROVE SchedulerType'
  <2>1. /\ hand.page \in Pages /\ hand.count \in 1 .. PageCapacity
        /\ cursors' = [p \in Active \cup {hand.page} |->
             IF p = hand.page THEN [offset |-> 0, count |-> hand.count] ELSE cursors[p]]
    BY <1>7, PageCapacityAssumption DEF SchedulePage, None, FeedInv, TypeOK, AudioInv
  <2>2. Active' = Active \cup {hand.page}  BY <2>1 DEF Active
  <2>3. 0 \in 0 .. hand.count - 1  BY <2>1, PageCapacityAssumption
  <2>4. ASSUME NEW p \in Active \cup {hand.page}
        PROVE  cursors'[p].count \in 1 .. PageCapacity
               /\ cursors'[p].offset \in 0 .. cursors'[p].count - 1
    <3>1. CASE p = hand.page
      <4>1. cursors'[p] = [offset |-> 0, count |-> hand.count]  BY <2>1, <3>1
      <4> QED BY <2>1, <2>3, <4>1
    <3>2. CASE p # hand.page
      <4>1. p \in Active /\ cursors'[p] = cursors[p]  BY <2>1, <2>4, <3>2
      <4> QED BY <1>0, <4>1 DEF SchedulerType
    <3> QED BY <3>1, <3>2
  <2> QED BY <1>7, <2>1, <2>2, <2>4, <1>0 DEF SchedulePage, SchedulerType
<1>8. ASSUME ImportEnds PROVE SchedulerType'
  BY <1>8, <1>0 DEF ImportEnds, SchedulerType, Active
<1>9. ASSUME NEW p \in Pages, Dispatch(p) PROVE SchedulerType'
  <2>1. PICK u \in cursors[p].offset + 1 .. cursors[p].count :
          \/ Active' = Active \ {p} /\ cursors' = [q \in Active \ {p} |-> cursors[q]]
          \/ /\ Active' = Active /\ u < cursors[p].count
             /\ cursors'[p] = [offset |-> u, count |-> cursors[p].count]
             /\ \A q \in Active : q # p => cursors'[q] = cursors[q]
    BY <1>9, DispatchFacts
  <2>2. /\ p \in Active /\ cursors[p].offset \in Nat
        /\ cursors[p].count \in 1 .. PageCapacity
    BY <1>9, <1>0, DispatchFacts DEF Dispatch, SchedulerType
  <2>3. CASE Active' = Active \ {p} /\ cursors' = [q \in Active \ {p} |-> cursors[q]]
    <3>1. \A q \in Active \ {p} : cursors'[q] = cursors[q]  BY <2>3
    <3> QED BY <1>9, <2>3, <3>1, <1>0 DEF Dispatch, SchedulerType
  <2>4. CASE /\ Active' = Active /\ u < cursors[p].count
             /\ cursors'[p] = [offset |-> u, count |-> cursors[p].count]
             /\ \A q \in Active : q # p => cursors'[q] = cursors[q]
    <3>1. u \in 0 .. cursors[p].count - 1  BY <2>1, <2>2, <2>4, PageCapacityAssumption
    <3> QED BY <1>9, <2>2, <2>4, <3>1, <1>0 DEF Dispatch, SchedulerType
  <2> QED BY <2>1, <2>3, <2>4
<1>10. ASSUME CallbackEnds PROVE SchedulerType'
  BY <1>10, <1>0 DEF CallbackEnds, SchedulerType, Active
<1>11. ASSUME StopAudio PROVE SchedulerType'
  BY <1>11, <1>0 DEF StopAudio, SchedulerType, Active
<1> QED BY <1>1, <1>2, <1>3, <1>4, <1>5, <1>6, <1>7, <1>8, <1>9, <1>10, <1>11, Steps

LEMMA NextHistoryType == FeedInv /\ [Next]_vars => HistoryType'
<1> SUFFICES ASSUME FeedInv, [Next]_vars PROVE HistoryType'  OBVIOUS
<1> USE DEF pool, pages, feeder, direct, compiler, audioVars, history
<1>0. HistoryType  BY TypeParts DEF FeedInv
<1>1. ASSUME \/ Submit \/ RingSubmit \/ LoadState \/ OpenPage \/ CommitFails
             \/ SealPage \/ PopFirst \/ CompilerStops \/ CompileOne \/ PopNext
             \/ FinishPage \/ ReturnPage \/ TakeReady \/ SchedulePage
             \/ ImportEnds \/ CallbackEnds \/ StopAudio \/ UNCHANGED vars
      PROVE  HistoryType'
  <2>1. UNCHANGED <<progress, cancelled, overrun, accepted, dispatched>>
    BY <1>1 DEF Submit, RingSubmit, LoadState, OpenPage, CommitFails, SealPage,
       PopFirst, CompilerStops, CompileOne, PopNext, FinishPage, ReturnPage,
       TakeReady, SchedulePage, ImportEnds, CallbackEnds, StopAudio, vars
  <2> QED BY <2>1, <1>0 DEF HistoryType
<1>2. ASSUME NEW f \in Feeders, 
             \/ AcquirePage(f) \/ AcquireFails(f) \/ CheckCancelled(f)
             \/ ObserveEpoch(f) \/ Wake(f) \/ TimeOut(f) \/ PublishPage(f)
             \/ CountPublished(f)
      PROVE  HistoryType'
  <2>1. UNCHANGED <<progress, cancelled, overrun, accepted, dispatched>>
    BY <1>2 DEF AcquirePage, AcquireFails, CheckCancelled, ObserveEpoch, Wake,
       Resume, TimeOut, PublishPage, CountPublished
  <2> QED BY <2>1, <1>0 DEF HistoryType
<1>3. ASSUME CopyEvents PROVE HistoryType'
  <2>1. overrun' \in BOOLEAN  BY <1>3, <1>0 DEF CopyEvents, HistoryType
  <2> QED BY <1>3, <2>1, <1>0 DEF CopyEvents, HistoryType
<1>4. ASSUME CommitEvents PROVE HistoryType'
  <2>1. \A i \in 1 .. Taken : stage[done + i] \in DirectEvents
    <3> TAKE i \in 1 .. Taken
    <3>1. done + i \in 1 .. Len(stage)  BY <1>4, TakenFacts DEF CommitEvents
    <3> QED BY <3>1 DEF FeedInv, TypeOK
  <2> QED BY <1>4, <2>1, <1>0 DEF CommitEvents, HistoryType
<1>5. ASSUME FlushNothing PROVE HistoryType'
  BY <1>5, <1>0 DEF FlushNothing, HistoryType
<1>6. ASSUME DetachOpenPage PROVE HistoryType'
  BY <1>6, <1>0 DEF DetachOpenPage, HistoryType
<1>7. ASSUME CountTaken PROVE HistoryType'
  BY <1>7, <1>0 DEF CountTaken, HistoryType
<1>8. ASSUME NEW p \in Pages, Dispatch(p) PROVE HistoryType'
  <2>1. PICK u \in cursors[p].offset + 1 .. cursors[p].count :
          dispatched' = [e \in Events |-> dispatched[e] + Cardinality(Played(p, u, e))]
    BY <1>8, DispatchFacts
  <2>2. \A e \in Events : Cardinality(Played(p, u, e)) \in Nat
    <3> TAKE e \in Events
    <3>0. cursors[p].offset \in Nat /\ cursors[p].count \in Nat  BY <1>8, DispatchFacts
    <3>1. cursors[p].offset + 1 \in Int /\ u \in Int  BY <2>1, <3>0
    <3>2. IsFiniteSet(cursors[p].offset + 1 .. u)  BY <3>1, FS_Interval
    <3>3. Played(p, u, e) \in SUBSET (cursors[p].offset + 1 .. u)  BY DEF Played
    <3> QED BY <3>2, <3>3, FS_Subset, FS_CardinalityType
  <2>3. dispatched' \in [Events -> Nat]  BY <1>0, <2>1, <2>2 DEF HistoryType
  <2> QED BY <1>8, <2>3, <1>0 DEF Dispatch, HistoryType
<1>9. ASSUME Cancel PROVE HistoryType'
  BY <1>9, <1>0 DEF Cancel, HistoryType
<1> QED BY <1>1, <1>2, <1>3, <1>4, <1>5, <1>6, <1>7, <1>8, <1>9, Steps

LEMMA NextFeederType == FeedInv /\ [Next]_vars => FeederType'
<1> SUFFICES ASSUME FeedInv, [Next]_vars PROVE FeederType'  OBVIOUS
<1> USE DEF pool, pages, feeder, direct, compiler, audioVars, history
<1>0. FeederType  BY TypeParts DEF FeedInv
<1>c. pc \in [Feeders -> Labels] /\ Feeders = {"direct", "compiler"}  BY FeederFacts
<1>1. ASSUME \/ RingSubmit \/ CompileOne \/ PopNext \/ FlushNothing
             \/ DetachOpenPage \/ TakeReady \/ CountTaken \/ SchedulePage
             \/ ImportEnds \/ StopAudio \/ (\E p \in Pages : Dispatch(p))
             \/ UNCHANGED vars
      PROVE  FeederType'
  <2>1. UNCHANGED <<pc, held, moved>>
    BY <1>1 DEF RingSubmit, CompileOne, PopNext, FlushNothing, DetachOpenPage,
       TakeReady, CountTaken, SchedulePage, ImportEnds, Dispatch, StopAudio,
       vars
  <2> QED BY <2>1, <1>0 DEF FeederType
<1>2. ASSUME Submit PROVE FeederType'
  BY <1>2, <1>0, <1>c DEF Submit, Goto, FeederType
<1>3. ASSUME NEW f \in Feeders, AcquirePage(f) PROVE FeederType'
  <2>1. held' \in [Feeders -> Pages \cup {NoPage}]  BY <1>3, AcquireFacts
  <2> QED BY <1>3, <2>1, <1>0, <1>c DEF AcquirePage, Goto, FeederType
<1>4. ASSUME NEW f \in Feeders, AcquireFails(f) PROVE FeederType'
  BY <1>4, <1>0, <1>c DEF AcquireFails, Goto, FeederType
<1>5. ASSUME NEW f \in Feeders, CheckCancelled(f) PROVE FeederType'
  BY <1>5, <1>0, <1>c DEF CheckCancelled, Return, Goto, FeederType
<1>6. ASSUME NEW f \in Feeders, ObserveEpoch(f) PROVE FeederType'
  BY <1>6, <1>0, <1>c DEF ObserveEpoch, Goto, FeederType
<1>7. ASSUME NEW f \in Feeders, Wake(f) PROVE FeederType'
  BY <1>7, <1>0, <1>c DEF Wake, Resume, Goto, FeederType
<1>8. ASSUME NEW f \in Feeders, TimeOut(f) PROVE FeederType'
  BY <1>8, <1>0, <1>c DEF TimeOut, Resume, Goto, FeederType
<1>9. ASSUME NEW f \in Feeders, PublishPage(f) PROVE FeederType'
  BY <1>9, <1>0, <1>c DEF PublishPage, Goto, FeederType
<1>10. ASSUME NEW f \in Feeders, CountPublished(f) PROVE FeederType'
  BY <1>10, <1>0, <1>c DEF CountPublished, Continue, Return, EndChunk, Goto, FeederType
<1>11. ASSUME LoadState PROVE FeederType'
  BY <1>11, <1>0, <1>c DEF LoadState, Goto, FeederType
<1>12. ASSUME OpenPage PROVE FeederType'
  BY <1>12, <1>0, <1>c DEF OpenPage, Goto, FeederType
<1>13. ASSUME CopyEvents PROVE FeederType'
  BY <1>13, <1>0, <1>c DEF CopyEvents, Goto, FeederType
<1>14. ASSUME CommitEvents PROVE FeederType'
  BY <1>14, <1>0, <1>c DEF CommitEvents, Continue, Return, Goto, FeederType
<1>15. ASSUME CommitFails PROVE FeederType'
  BY <1>15, <1>0, <1>c DEF CommitFails, Continue, Return, Goto, FeederType
<1>16. ASSUME SealPage PROVE FeederType'
  <2>1. snapshot.page \in Pages  BY <1>16 DEF SealPage, FeedInv, DirectInv
  <2> QED BY <1>16, <2>1, <1>0, <1>c DEF SealPage, Continue, Return, Goto, FeederType
<1>17. ASSUME PopFirst PROVE FeederType'
  BY <1>17, <1>0, <1>c DEF PopFirst, Goto, FeederType
<1>18. ASSUME CompilerStops PROVE FeederType'
  BY <1>18, <1>0, <1>c DEF CompilerStops, Goto, FeederType
<1>19. ASSUME FinishPage PROVE FeederType'
  BY <1>19, <1>0, <1>c DEF FinishPage, Goto, FeederType
<1>20. ASSUME ReturnPage PROVE FeederType'
  BY <1>20, <1>0, <1>c DEF ReturnPage, EndChunk, Goto, FeederType
<1>21. ASSUME CallbackEnds PROVE FeederType'
  BY <1>21, <1>0, <1>c DEF CallbackEnds, FeederType
<1>22. ASSUME Cancel PROVE FeederType'
  BY <1>22, <1>0, <1>c DEF Cancel, FeederType
<1> QED BY <1>1, <1>2, <1>3, <1>4, <1>5, <1>6, <1>7, <1>8, <1>9, <1>10, <1>11,
      <1>12, <1>13, <1>14, <1>15, <1>16, <1>17, <1>18, <1>19, <1>20, <1>21,
      <1>22, Steps

-----------------------------------------------------------------------------
(* The initial state, and the theorems about pages.                        *)

LEMMA InitFeed == Init => FeedInv
<1> SUFFICES ASSUME Init PROVE FeedInv  OBVIOUS
<1> USE DEF Init
<1>1. /\ PageCount \in Nat /\ PageCount >= 3 /\ PageCapacity \in Nat /\ PageCapacity >= 1
      /\ MaxDirect \in Nat /\ MaxRing \in Nat /\ NoPage \notin Pages
  BY PageAssumption, PageCapacityAssumption, BoundAssumption, NoPageAssumption
<1>2. compilerFree \in Seq(Pages) /\ Len(compilerFree) = PageCount
  <2>1. \A i \in 1 .. PageCount : PageCount - i \in Pages  BY <1>1 DEF Pages
  <2>2. compilerFree \in [1 .. PageCount -> Pages]  BY <2>1
  <2>3. DOMAIN compilerFree = 1 .. PageCount  BY <2>2
  <2>4. compilerFree \in Seq(Pages)  BY <1>1, <2>2, SeqDef
  <2>5. Len(compilerFree) \in Nat /\ DOMAIN compilerFree = 1 .. Len(compilerFree)
    BY <2>4, LenProperties
  <2> QED BY <1>1, <2>3, <2>4, <2>5
<1>3. Distinct(compilerFree)  BY <1>1, <1>2 DEF Distinct
<1>4. \A p \in Pages : p \in RangeOf(compilerFree)
  <2> TAKE p \in Pages
  <2>1. PageCount - p \in 1 .. PageCount /\ PageCount - (PageCount - p) = p
    BY <1>1 DEF Pages
  <2>2. compilerFree[PageCount - p] = p  BY <2>1
  <2> QED BY <1>2, <2>1, <2>2 DEF RangeOf
<1>5. /\ << >> \in Seq(Pages) /\ << >> \in Seq(DirectEvents) /\ << >> \in Seq(RingEvents)
      /\ Len(<< >>) = 0 /\ RangeOf(<< >>) = {} /\ Distinct(<< >>)
  BY EmptySeq DEF RangeOf, Distinct
<1>6. Active = {} /\ cursors \in [Active -> [offset : Nat, count : Nat]]
  <2>1. cursors \in Seq({}) /\ Len(cursors) = 0  BY EmptySeq
  <2>2. DOMAIN cursors = 1 .. 0 /\ cursors \in [1 .. 0 -> {}]  BY <2>1, LenProperties
  <2>3. \A i \in 1 .. 0 : FALSE  OBVIOUS
  <2> QED BY <2>2, <2>3 DEF Active
<1>7. QueueType  BY <1>2, <1>5 DEF QueueType
<1>8. PageType  BY <1>1 DEF PageType
<1>9. StateType  BY <1>1 DEF StateType, None
<1>10. SourceType  BY <1>1, <1>5 DEF SourceType
<1>11. SchedulerType  BY <1>6 DEF SchedulerType
<1>12. HistoryType  BY DEF HistoryType
<1>13. FeederType  BY DEF FeederType, Feeders
<1>14. TypeOK  BY <1>7, <1>8, <1>9, <1>10, <1>11, <1>12, <1>13, TypeParts
<1>15. PlacesInv
  <2>1. ready = << >> /\ recycled = << >>  OBVIOUS
  <2>2. \A p \in Pages, k \in Places : In(p, k) <=> k = "free"
    BY <1>1, <1>4, <1>5, <1>6 DEF In, Places, None, Feeders
  <2> QED BY <1>3, <1>5, <2>1, <2>2 DEF PlacesInv, Places
<1>16. DirectInv  BY <1>1 DEF DirectInv, None, Feeders, Labels, Waiting
<1>17. CompilerInv  BY DEF CompilerInv, Feeders, Waiting
<1>18. AudioInv  BY <1>5 DEF AudioInv, None
<1>19. CursorInv  BY <1>6 DEF CursorInv
<1>20. SubmittedInv  BY <1>1 DEF SubmittedInv, Feeders
<1> QED BY <1>14, <1>15, <1>16, <1>17, <1>18, <1>19, <1>20 DEF FeedInv

LEMMA NextFeed == FeedInv /\ [Next]_vars => FeedInv'
<1> SUFFICES ASSUME FeedInv, [Next]_vars PROVE FeedInv'  OBVIOUS
<1>1. /\ QueueType' /\ PageType' /\ StateType' /\ SourceType' /\ SchedulerType'
      /\ HistoryType' /\ FeederType'
  BY NextQueueType, NextPageType, NextStateType, NextSourceType, NextSchedulerType,
     NextHistoryType, NextFeederType
<1>2. TypeOK'
  BY <1>1 DEF TypeOK, QueueType, PageType, StateType, SourceType, SchedulerType,
       HistoryType, FeederType
<1> QED BY <1>2, NextPlaces, NextDirect, NextCompiler, NextAudio, NextCursors,
      NextSubmitted DEF FeedInv

\* The pages stay where they should be and the variables have their types.
THEOREM FeedInvariant == Spec => []FeedInv
BY NextFeed, InitFeed, PTL DEF Spec

\* The types of PageFeed hold in every state of the page feed.
THEOREM TypeCorrect == Spec => []TypeOK
<1>1. FeedInv => TypeOK  BY DEF FeedInv
<1> QED BY <1>1, FeedInvariant, PTL

LEMMA DisjointSum ==
    ASSUME NEW S, NEW T, IsFiniteSet(S), IsFiniteSet(T), S \cap T = {}
    PROVE  IsFiniteSet(S \cup T) /\ Cardinality(S \cup T) = Cardinality(S) + Cardinality(T)
<1>1. Cardinality(S \cap T) = 0  BY FS_EmptySet
<1>2. Cardinality(S) \in Nat /\ Cardinality(T) \in Nat  BY FS_CardinalityType
<1>3. /\ IsFiniteSet(S \cup T)
      /\ Cardinality(S \cup T) = Cardinality(S) + Cardinality(T) - Cardinality(S \cap T)
  BY FS_Union
<1> QED BY <1>1, <1>2, <1>3

LEMMA PageNumbers ==
    /\ PageCount \in Nat /\ IsFiniteSet(Pages) /\ Cardinality(Pages) = PageCount
    /\ PageCapacity \in Nat /\ IsFiniteSet(Slots) /\ Cardinality(Slots) = PageCapacity
    /\ \A S \in SUBSET Pages : IsFiniteSet(S) /\ Cardinality(S) \in Nat
    /\ \A S \in SUBSET Pages, p \in Pages : p \notin S => Cardinality(S) < PageCount
<1>1. PageCount \in Nat /\ PageCount >= 3 /\ PageCapacity \in Nat /\ PageCapacity >= 1
  BY PageAssumption, PageCapacityAssumption
<1>2. IsFiniteSet(Pages) /\ Cardinality(Pages) = PageCount
  <2>1. IsFiniteSet(0 .. PageCount - 1)
        /\ Cardinality(0 .. PageCount - 1) =
             IF 0 > PageCount - 1 THEN 0 ELSE (PageCount - 1) - 0 + 1
    BY <1>1, FS_Interval
  <2> QED BY <1>1, <2>1 DEF Pages
<1>3. IsFiniteSet(Slots) /\ Cardinality(Slots) = PageCapacity
  <2>1. IsFiniteSet(1 .. PageCapacity)
        /\ Cardinality(1 .. PageCapacity) =
             IF 1 > PageCapacity THEN 0 ELSE PageCapacity - 1 + 1
    BY <1>1, FS_Interval
  <2> QED BY <1>1, <2>1 DEF Slots
<1>4. ASSUME NEW S \in SUBSET Pages
      PROVE  /\ IsFiniteSet(S) /\ Cardinality(S) \in Nat
             /\ \A p \in Pages : p \notin S => Cardinality(S) < PageCount
  <2>1. /\ IsFiniteSet(S) /\ Cardinality(S) <= Cardinality(Pages)
        /\ Cardinality(Pages) = Cardinality(S) => Pages = S
    BY <1>2, FS_Subset
  <2>2. Cardinality(S) \in Nat  BY <2>1, FS_CardinalityType
  <2> QED BY <1>1, <1>2, <2>1, <2>2
<1> QED BY <1>1, <1>2, <1>3, <1>4

\* The lengths of the pool's queues are the numbers of their pages.
LEMMA QueueNumbers ==
    ASSUME FeedInv
    PROVE  /\ RangeOf(compilerFree) \subseteq Pages
           /\ Cardinality(RangeOf(compilerFree)) = Len(compilerFree)
           /\ RangeOf(recycled) \subseteq Pages
           /\ Cardinality(RangeOf(recycled)) = Len(recycled)
           /\ RangeOf(ready) \subseteq Pages
           /\ Cardinality(RangeOf(ready)) = Len(ready)
           /\ Active \subseteq Pages
<1>1. /\ compilerFree \in Seq(Pages) /\ Distinct(compilerFree)
      /\ recycled \in Seq(Pages) /\ Distinct(recycled)
      /\ ready \in Seq(Pages) /\ Distinct(ready) /\ Active \subseteq Pages
  BY DEF FeedInv, TypeOK, PlacesInv
<1>2. \A s \in Seq(Pages) : RangeOf(s) \subseteq Pages  BY DEF RangeOf
<1> QED BY <1>1, <1>2, DistinctLength

\* No path of the exchange loses a page or gives it to two threads: at any time
\* every page of the pool is in exactly one of the places a page can be in.
THEOREM EveryPageInOnePlace == Spec => []OnePlace
<1>1. FeedInv => OnePlace
  <2> SUFFICES ASSUME FeedInv PROVE OnePlace  OBVIOUS
  <2> DEFINE A == RangeOf(compilerFree)  B == RangeOf(recycled)  C == RangeOf(ready)
             D == Active  H == PagesInHand \ {NoPage}
  <2>1. A \subseteq Pages /\ B \subseteq Pages /\ C \subseteq Pages /\ D \subseteq Pages
    BY QueueNumbers
  <2>2. H = {p \in Pages : \E k \in {"direct", "compiler", "open", "hand"} : In(p, k)}
    BY SMTT(30), NoPageAssumption DEF PagesInHand, In, FeedInv, TypeOK, Feeders
  <2>3. \A p \in Pages, k \in Places, l \in Places : In(p, k) /\ In(p, l) => k = l
    BY DEF FeedInv, PlacesInv
  <2>4. \A p \in Pages : \E k \in Places : In(p, k)
    BY DEF FeedInv, PlacesInv
  <2>5. \A p \in Pages : /\ p \in A <=> In(p, "free")
                         /\ p \in B <=> In(p, "recycled")
                         /\ p \in C <=> In(p, "ready")
                         /\ p \in D <=> In(p, "active")
    BY DEF In
  <2>6. Pages \subseteq A \cup B \cup C \cup D \cup PagesInHand
    <3> HIDE DEF A, B, C, D
    <3> QED BY <2>2, <2>4, <2>5 DEF Places
  <2>7. /\ A \cap B = {} /\ (A \cup B) \cap C = {} /\ (A \cup B \cup C) \cap D = {}
        /\ (A \cup B \cup C \cup D) \cap H = {}
    <3> HIDE DEF A, B, C, D, H
    <3> QED BY <2>1, <2>2, <2>3, <2>5 DEF Places
  <2>8. Pages = A \cup B \cup C \cup D \cup H
    <3> HIDE DEF A, B, C, D
    <3> QED BY <2>1, <2>2, <2>6, NoPageAssumption
  <2>9. /\ IsFiniteSet(A) /\ IsFiniteSet(B) /\ IsFiniteSet(C) /\ IsFiniteSet(D)
        /\ IsFiniteSet(H) /\ IsFiniteSet(A \cup B) /\ IsFiniteSet(A \cup B \cup C)
        /\ IsFiniteSet(A \cup B \cup C \cup D)
        /\ Cardinality(A) \in Nat /\ Cardinality(B) \in Nat /\ Cardinality(C) \in Nat
        /\ Cardinality(D) \in Nat /\ Cardinality(H) \in Nat
    <3> HIDE DEF A, B, C, D, H
    <3> QED BY <2>1, <2>8, PageNumbers
  <2>10. Len(compilerFree) + Len(recycled) + Len(ready) + Cardinality(D)
           + Cardinality(H) = PageCount
    <3>1. /\ Cardinality(A) = Len(compilerFree) /\ Cardinality(B) = Len(recycled)
          /\ Cardinality(C) = Len(ready)
      BY QueueNumbers
    <3> HIDE DEF A, B, C, D, H
    <3>2. Cardinality(A \cup B) = Cardinality(A) + Cardinality(B)
      BY <2>7, <2>9, DisjointSum
    <3>3. Cardinality(A \cup B \cup C) = Cardinality(A \cup B) + Cardinality(C)
      BY <2>7, <2>9, DisjointSum
    <3>4. Cardinality(A \cup B \cup C \cup D) =
            Cardinality(A \cup B \cup C) + Cardinality(D)
      BY <2>7, <2>9, DisjointSum
    <3>5. Cardinality(Pages) = Cardinality(A \cup B \cup C \cup D) + Cardinality(H)
      BY <2>7, <2>8, <2>9, DisjointSum
    <3> QED BY <2>9, <3>1, <3>2, <3>3, <3>4, <3>5, PageNumbers
  <2> QED BY <2>6, <2>10 DEF OnePlace
<1> QED BY <1>1, FeedInvariant, PTL

\* A ready push, an import and a recycled page always find room: each queue lacks
\* at least the page that is to be pushed.
THEOREM PagesFindRoom == Spec => []RoomForPages
<1>1. FeedInv => RoomForPages
  <2> SUFFICES ASSUME FeedInv PROVE RoomForPages  OBVIOUS
  <2>1. ASSUME NEW f \in Feeders, pc[f] = "publish" PROVE Len(ready) < PageCount
    <3>1. held[f] \in Pages /\ (f = "direct" \/ f = "compiler")
      BY <2>1, FeederFacts DEF Feeders
    <3>2. held[f] \notin RangeOf(ready)  BY <3>1, PageIn
    <3> QED BY <3>1, <3>2, PageNumbers, QueueNumbers
  <2>2. ASSUME audio = "schedule"
        PROVE  /\ Cardinality(Active) < PageCount /\ hand.count > 0
               /\ Cardinality(Scheduled) + hand.count <= PageCount * PageCapacity
    <3>1. hand.page \in Pages /\ hand.count \in 1 .. PageCapacity
      BY <2>2, PageCapacityAssumption DEF None, FeedInv, TypeOK, AudioInv
    <3>2. hand.page \notin Active  BY <3>1, PageIn
    <3> DEFINE R == Pages \ {hand.page}
    <3>3. IsFiniteSet(R) /\ Cardinality(R) = PageCount - 1
      BY <3>1, PageNumbers, FS_RemoveElement
    <3>4. Scheduled \in SUBSET (R \X Slots)
      <4>1. ASSUME NEW s \in Scheduled PROVE s \in R \X Slots
        <5>1. s \in Pages \X Slots /\ s[1] \in Active  BY <4>1 DEF Scheduled
        <5>2. s = <<s[1], s[2]>> /\ s[1] \in Pages /\ s[2] \in Slots  BY <5>1
        <5>3. s[1] \in R  BY <3>2, <5>1, <5>2
        <5> HIDE DEF R
        <5> QED BY <5>2, <5>3
      <4> QED BY <4>1
    <3> HIDE DEF R
    <3>5. IsFiniteSet(R \X Slots) /\ Cardinality(R \X Slots) = (PageCount - 1) * PageCapacity
      BY <3>3, PageNumbers, FS_Product
    <3>6. Cardinality(Scheduled) <= (PageCount - 1) * PageCapacity
          /\ Cardinality(Scheduled) \in Nat
      BY <3>4, <3>5, FS_Subset, FS_CardinalityType
    <3>7. (PageCount - 1) * PageCapacity + PageCapacity = PageCount * PageCapacity
          /\ (PageCount - 1) * PageCapacity \in Int
      BY PageAssumption, PageCapacityAssumption
    <3>8. Cardinality(Scheduled) + hand.count <= PageCount * PageCapacity
      <4> DEFINE m == (PageCount - 1) * PageCapacity  n == PageCount * PageCapacity
      <4>1. m + PageCapacity = n /\ m \in Int  BY <3>7
      <4>2. Cardinality(Scheduled) <= m  BY <3>6
      <4> HIDE DEF m, n
      <4>3. Cardinality(Scheduled) + hand.count <= n
        BY <3>1, <3>6, <4>1, <4>2, PageCapacityAssumption
      <4> QED BY <4>3 DEF n
    <3>9. Cardinality(Active) < PageCount  BY <3>1, <3>2, PageNumbers, QueueNumbers
    <3> QED BY <3>1, <3>8, <3>9, PageCapacityAssumption
  <2>3. ASSUME Active # {} PROVE Len(recycled) < PageCount
    <3>1. PICK p \in Pages : p \in Active  BY <2>3, QueueNumbers
    <3>2. p \notin RangeOf(recycled)  BY <3>1, PageIn
    <3> QED BY <3>2, PageNumbers, QueueNumbers
  <2> QED BY <2>1, <2>2, <2>3 DEF RoomForPages
<1> QED BY <1>1, FeedInvariant, PTL

-----------------------------------------------------------------------------
(* The events that a feeder still has are the next ones, in order.         *)

LEMMA NumberFacts ==
    ASSUME FeedInv
    PROVE  /\ submitted["direct"] \in Nat /\ submitted["compiler"] \in Nat
           /\ submitted \in [Feeders -> Nat] /\ Feeders = {"direct", "compiler"}
           /\ MaxDirect \in Nat /\ MaxRing \in Nat
           /\ stage \in Seq(DirectEvents) /\ Len(stage) \in Nat /\ done \in 0 .. Len(stage)
           /\ ring \in Seq(RingEvents) /\ Len(ring) \in Nat
           /\ timed \in RingEvents \cup {NoEvent} /\ NoEvent \notin RingEvents
           /\ pc \in [Feeders -> Labels]
BY SMTT(30), BoundAssumption, NoEventAssumption
DEF FeedInv, TypeOK, DirectInv, SubmittedInv, Feeders, Events

LEMMA NextSources == FeedInv /\ SourcesInv /\ [Next]_vars => SourcesInv'
<1> SUFFICES ASSUME FeedInv, SourcesInv, [Next]_vars PROVE SourcesInv'  OBVIOUS
<1> USE DEF pool, pages, feeder, direct, compiler, audioVars, history
<1>1. ASSUME \/ FlushNothing \/ DetachOpenPage \/ TakeReady \/ CountTaken
             \/ SchedulePage \/ ImportEnds \/ CallbackEnds \/ Cancel
             \/ StopAudio \/ (\E p \in Pages : Dispatch(p)) \/ UNCHANGED vars
      PROVE  SourcesInv'
  <2>1. UNCHANGED <<submitted, stage, ring, timed, pc>>
    BY <1>1 DEF FlushNothing, DetachOpenPage, TakeReady, CountTaken,
       SchedulePage, ImportEnds, Dispatch, CallbackEnds, Cancel, StopAudio,
       vars
  <2> QED BY <2>1 DEF SourcesInv, RingPopped
<1>2. ASSUME Submit PROVE SourcesInv'
  <2>1. PICK n \in 1 .. PageCapacity :
          /\ stage' = [i \in 1 .. n |-> submitted["direct"] + i]
          /\ submitted' = [submitted EXCEPT !["direct"] = submitted["direct"] + n]
    BY <1>2 DEF Submit
  <2>2. n \in Nat  BY PageCapacityAssumption
  <2>3. Len(stage') = n
    <3>1. stage' \in [1 .. n -> Nat]  BY <2>1, <2>2, NumberFacts
    <3>2. stage' \in Seq(Nat) /\ DOMAIN stage' = 1 .. n  BY <2>2, <3>1, SeqDef
    <3>3. DOMAIN stage' = 1 .. Len(stage') /\ Len(stage') \in Nat  BY <3>2, LenProperties
    <3> QED BY <2>2, <3>2, <3>3
  <2>4. submitted'["direct"] = submitted["direct"] + n
        /\ submitted'["compiler"] = submitted["compiler"]
    BY <2>1, NumberFacts
  <2>5. \A i \in 1 .. Len(stage') : stage'[i] = (submitted'["direct"] - Len(stage')) + i
    BY <2>1, <2>2, <2>3, <2>4, NumberFacts
  <2>6. Len(stage') <= submitted'["direct"]  BY <2>2, <2>3, <2>4, NumberFacts
  <2>7. UNCHANGED <<ring, timed>> /\ pc'["compiler"] = pc["compiler"]
    BY <1>2, NumberFacts DEF Submit, Goto
  <2> QED BY <2>4, <2>5, <2>6, <2>7 DEF SourcesInv, RingPopped
<1>3. ASSUME RingSubmit PROVE SourcesInv'
  <2>1. /\ submitted' = [submitted EXCEPT !["compiler"] = submitted["compiler"] + 1]
        /\ ring' = Append(ring, MaxDirect + submitted'["compiler"])
        /\ UNCHANGED <<stage, timed, pc>>
    BY <1>3 DEF RingSubmit
  <2>2. /\ submitted'["compiler"] = submitted["compiler"] + 1
        /\ submitted'["direct"] = submitted["direct"]
    BY <2>1, NumberFacts
  <2>3. /\ Len(ring') = Len(ring) + 1
        /\ ring'[Len(ring) + 1] = MaxDirect + (submitted["compiler"] + 1)
        /\ \A i \in 1 .. Len(ring) : ring'[i] = ring[i]
    BY <2>1, <2>2, NumberFacts
  <2>4. RingPopped' = RingPopped /\ RingPopped \in Int
        /\ RingPopped + (Len(ring) + 1) = MaxDirect + (submitted["compiler"] + 1)
    BY SMTT(30), <2>2, <2>3, NumberFacts DEF RingPopped
  <2>5. \A i \in 1 .. Len(ring') : ring'[i] = RingPopped' + i
    <3> TAKE i \in 1 .. Len(ring')
    <3>1. i \in 1 .. Len(ring) \/ i = Len(ring) + 1  BY <2>3, NumberFacts
    <3> QED BY <2>3, <2>4, <3>1 DEF SourcesInv
  <2> QED BY <2>1, <2>2, <2>3, <2>4, <2>5, NumberFacts DEF SourcesInv
<1>4. ASSUME NEW f \in Feeders, AcquirePage(f) PROVE SourcesInv'
  <2>1. UNCHANGED <<submitted, stage, ring, timed>> /\ pc' = [pc EXCEPT ![f] = pc'[f]]
        /\ pc'[f] \notin {"pop", "publish", "count"}
    BY <1>4, NumberFacts DEF AcquirePage, Goto
  <2> QED BY <2>1, NumberFacts DEF SourcesInv, RingPopped
<1>5. ASSUME NEW f \in Feeders, AcquireFails(f) PROVE SourcesInv'
  <2>1. UNCHANGED <<submitted, stage, ring, timed>> /\ pc' = [pc EXCEPT ![f] = pc'[f]]
        /\ pc'[f] \notin {"pop", "publish", "count"}
    BY <1>5, NumberFacts DEF AcquireFails, Goto
  <2> QED BY <2>1, NumberFacts DEF SourcesInv, RingPopped
<1>6. ASSUME NEW f \in Feeders, CheckCancelled(f) PROVE SourcesInv'
  <2>1. /\ UNCHANGED <<submitted, ring, timed>> /\ pc[f] = "check"
        /\ stage' = stage \/ stage' = << >>
        /\ pc' = [pc EXCEPT ![f] = pc'[f]] /\ pc'[f] \in {"idle", "stopped", "observe"}
    BY <1>6, NumberFacts DEF CheckCancelled, Return, Goto
  <2> QED BY <2>1, NumberFacts DEF SourcesInv, RingPopped
<1>7. ASSUME NEW f \in Feeders, ObserveEpoch(f) PROVE SourcesInv'
  <2>1. UNCHANGED <<submitted, stage, ring, timed>> /\ pc' = [pc EXCEPT ![f] = pc'[f]]
        /\ pc'[f] \notin {"pop", "publish", "count"}
    BY <1>7, NumberFacts DEF ObserveEpoch, Goto
  <2> QED BY <2>1, NumberFacts DEF SourcesInv, RingPopped
<1>8. ASSUME NEW f \in Feeders, Wake(f) PROVE SourcesInv'
  <2>1. UNCHANGED <<submitted, stage, ring, timed>> /\ pc' = [pc EXCEPT ![f] = pc'[f]]
        /\ pc'[f] \notin {"pop", "publish", "count"}
    BY <1>8, NumberFacts DEF Wake, Resume, Goto
  <2> QED BY <2>1, NumberFacts DEF SourcesInv, RingPopped
<1>9. ASSUME NEW f \in Feeders, TimeOut(f) PROVE SourcesInv'
  <2>1. UNCHANGED <<submitted, stage, ring, timed>> /\ pc' = [pc EXCEPT ![f] = pc'[f]]
        /\ pc'[f] \notin {"pop", "publish", "count"}
    BY <1>9, NumberFacts DEF TimeOut, Resume, Goto
  <2> QED BY <2>1, NumberFacts DEF SourcesInv, RingPopped
<1>10. ASSUME NEW f \in Feeders, PublishPage(f) PROVE SourcesInv'
  <2>1. UNCHANGED <<submitted, stage, ring, timed>> /\ pc' = [pc EXCEPT ![f] = "count"]
        /\ pc[f] = "publish"
    BY <1>10, NumberFacts DEF PublishPage, Goto
  <2> QED BY <2>1, NumberFacts DEF SourcesInv, RingPopped
<1>11. ASSUME NEW f \in Feeders, CountPublished(f) PROVE SourcesInv'
  <2>1. /\ UNCHANGED <<submitted, ring, timed>> /\ stage' \in {stage, << >>}
        /\ pc'["compiler"] = pc["compiler"] \/ pc["compiler"] = "count"
    BY <1>11, NumberFacts DEF CountPublished, Continue, EndChunk, Return, Goto
  <2> QED BY <2>1, NumberFacts DEF SourcesInv, RingPopped
<1>12. ASSUME LoadState PROVE SourcesInv'
  <2>1. UNCHANGED <<submitted, stage, ring, timed>> /\ pc'["compiler"] = pc["compiler"]
    BY <1>12, NumberFacts DEF LoadState, Goto
  <2> QED BY <2>1 DEF SourcesInv, RingPopped
<1>13. ASSUME OpenPage PROVE SourcesInv'
  <2>1. UNCHANGED <<submitted, stage, ring, timed>> /\ pc'["compiler"] = pc["compiler"]
    BY <1>13, NumberFacts DEF OpenPage, Goto
  <2> QED BY <2>1 DEF SourcesInv, RingPopped
<1>14. ASSUME CopyEvents PROVE SourcesInv'
  <2>1. UNCHANGED <<submitted, stage, ring, timed>> /\ pc'["compiler"] = pc["compiler"]
    BY <1>14, NumberFacts DEF CopyEvents, Goto
  <2> QED BY <2>1 DEF SourcesInv, RingPopped
<1>15. ASSUME CommitEvents PROVE SourcesInv'
  <2>1. /\ UNCHANGED <<submitted, ring, timed>> /\ pc'["compiler"] = pc["compiler"]
        /\ stage' = stage \/ stage' = << >>
    BY <1>15, NumberFacts DEF CommitEvents, Continue, Return, Goto
  <2> QED BY <2>1, NumberFacts DEF SourcesInv, RingPopped
<1>16. ASSUME CommitFails PROVE SourcesInv'
  <2>1. /\ UNCHANGED <<submitted, ring, timed>> /\ pc'["compiler"] = pc["compiler"]
        /\ stage' = stage \/ stage' = << >>
    BY <1>16, NumberFacts DEF CommitFails, Continue, Return, Goto
  <2> QED BY <2>1, NumberFacts DEF SourcesInv, RingPopped
<1>17. ASSUME SealPage PROVE SourcesInv'
  <2>1. /\ UNCHANGED <<submitted, ring, timed>> /\ pc'["compiler"] = pc["compiler"]
        /\ stage' = stage \/ stage' = << >>
    BY <1>17, NumberFacts DEF SealPage, Continue, Return, Goto
  <2> QED BY <2>1, NumberFacts DEF SourcesInv, RingPopped
<1>18. ASSUME PopFirst PROVE SourcesInv'
  <2>1. /\ timed' = Head(ring) /\ ring' = Tail(ring) /\ ring # << >>
        /\ UNCHANGED <<submitted, stage>> /\ pc'["compiler"] \in {"acquire", "fill"}
    BY <1>18, NumberFacts DEF PopFirst, Goto
  <2>2. /\ Len(ring) >= 1 /\ timed' = ring[1] /\ Len(ring') = Len(ring) - 1
        /\ \A i \in 1 .. Len(ring') : ring'[i] = ring[i + 1]
    BY <2>1, NumberFacts
  <2>3. RingPopped' = RingPopped + 1 /\ RingPopped \in Int
    BY <2>1, <2>2, NumberFacts DEF RingPopped
  <2>4. timed' = RingPopped'  BY <2>2, <2>3, NumberFacts DEF SourcesInv
  <2>5. \A i \in 1 .. Len(ring') : ring'[i] = RingPopped' + i
    <3> TAKE i \in 1 .. Len(ring')
    <3>1. i + 1 \in 1 .. Len(ring)  BY <2>2, NumberFacts
    <3>2. ring'[i] = RingPopped + (i + 1)  BY <2>2, <3>1 DEF SourcesInv
    <3> QED BY <2>3, <3>2
  <2>6. Len(ring') <= submitted'["compiler"]  BY <2>1, <2>2, NumberFacts DEF SourcesInv
  <2> QED BY <2>1, <2>4, <2>5, <2>6 DEF SourcesInv
<1>19. ASSUME CompilerStops PROVE SourcesInv'
  <2>1. UNCHANGED <<submitted, stage, ring, timed>> /\ timed = NoEvent
    BY <1>19 DEF CompilerStops, Goto, SourcesInv
  <2> QED BY <2>1 DEF SourcesInv, RingPopped
<1>20. ASSUME CompileOne PROVE SourcesInv'
  <2>1. UNCHANGED <<submitted, stage, ring, pc>> /\ timed' = NoEvent
    BY <1>20 DEF CompileOne
  <2> QED BY <2>1 DEF SourcesInv, RingPopped
<1>21. ASSUME PopNext PROVE SourcesInv'
  <2>1. /\ timed' = Head(ring) /\ ring' = Tail(ring) /\ ring # << >>
        /\ UNCHANGED <<submitted, stage>> /\ pc'["compiler"] \in {"acquire", "fill"}
    BY <1>21, NumberFacts DEF PopNext, MoreToCompile
  <2>2. /\ Len(ring) >= 1 /\ timed' = ring[1] /\ Len(ring') = Len(ring) - 1
        /\ \A i \in 1 .. Len(ring') : ring'[i] = ring[i + 1]
    BY <2>1, NumberFacts
  <2>3. RingPopped' = RingPopped + 1 /\ RingPopped \in Int
    BY <2>1, <2>2, NumberFacts DEF RingPopped
  <2>4. timed' = RingPopped'  BY <2>2, <2>3, NumberFacts DEF SourcesInv
  <2>5. \A i \in 1 .. Len(ring') : ring'[i] = RingPopped' + i
    <3> TAKE i \in 1 .. Len(ring')
    <3>1. i + 1 \in 1 .. Len(ring)  BY <2>2, NumberFacts
    <3>2. ring'[i] = RingPopped + (i + 1)  BY <2>2, <3>1 DEF SourcesInv
    <3> QED BY <2>3, <3>2
  <2>6. Len(ring') <= submitted'["compiler"]  BY <2>1, <2>2, NumberFacts DEF SourcesInv
  <2> QED BY <2>1, <2>4, <2>5, <2>6 DEF SourcesInv
<1>22. ASSUME FinishPage PROVE SourcesInv'
  <2>1. UNCHANGED <<submitted, stage, ring, timed>> /\ timed = NoEvent
    BY <1>22 DEF FinishPage, Goto, SourcesInv
  <2> QED BY <2>1 DEF SourcesInv, RingPopped
<1>23. ASSUME ReturnPage PROVE SourcesInv'
  <2>1. UNCHANGED <<submitted, stage, ring, timed>> /\ timed = NoEvent
    BY <1>23 DEF ReturnPage, EndChunk, Goto, SourcesInv
  <2> QED BY <2>1 DEF SourcesInv, RingPopped
<1> QED BY <1>1, <1>2, <1>3, <1>4, <1>5, <1>6, <1>7, <1>8, <1>9, <1>10, <1>11,
      <1>12, <1>13, <1>14, <1>15, <1>16, <1>17, <1>18, <1>19, <1>20, <1>21,
      <1>22, <1>23, Steps

-----------------------------------------------------------------------------
(* The slots still to be played, place by place; most steps keep them.     *)

OpenPart(p) == IF directState.page = p THEN 1 .. directState.count ELSE {}
HandPart(p) == IF hand.page = p THEN 1 .. hand.count ELSE {}
ReadyPart(p) == IF p \in RangeOf(ready) THEN 1 .. count[p] ELSE {}
ActivePart(p) == IF p \in Active THEN cursors[p].offset + 1 .. cursors[p].count ELSE {}
CompilerPart(p) == IF held["compiler"] = p THEN 1 .. compiledCount ELSE {}
DirectPart(p) == IF held["direct"] = p /\ pc["direct"] = "publish" THEN Slots ELSE {}

LEMMA SameLive ==
    ASSUME NEW p,
           OpenPart(p)' \cup HandPart(p)' \cup ReadyPart(p)' \cup ActivePart(p)'
             \cup CompilerPart(p)' \cup DirectPart(p)'
           = OpenPart(p) \cup HandPart(p) \cup ReadyPart(p) \cup ActivePart(p)
               \cup CompilerPart(p) \cup DirectPart(p)
    PROVE  Live(p)' = Live(p)
<1>1. Live(p) = OpenPart(p) \cup HandPart(p) \cup ReadyPart(p) \cup ActivePart(p)
                  \cup CompilerPart(p) \cup DirectPart(p)
  BY DEF Live, OpenPart, HandPart, ReadyPart, ActivePart, CompilerPart, DirectPart
<1>2. Live(p)' = OpenPart(p)' \cup HandPart(p)' \cup ReadyPart(p)' \cup ActivePart(p)'
                   \cup CompilerPart(p)' \cup DirectPart(p)'
  BY DEF Live, OpenPart, HandPart, ReadyPart, ActivePart, CompilerPart, DirectPart
<1> QED BY <1>1, <1>2

\* All six parts, for the steps that change several.
LEMMA LiveParts ==
    ASSUME FeedInv, NEW p \in Pages
    PROVE  /\ Live(p) = OpenPart(p) \cup HandPart(p) \cup ReadyPart(p) \cup ActivePart(p)
                          \cup CompilerPart(p) \cup DirectPart(p)
           /\ Live(p) \subseteq Slots
<1>1. Live(p) = OpenPart(p) \cup HandPart(p) \cup ReadyPart(p) \cup ActivePart(p)
                  \cup CompilerPart(p) \cup DirectPart(p)
  BY DEF Live, OpenPart, HandPart, ReadyPart, ActivePart, CompilerPart, DirectPart
<1>2. /\ PageCapacity \in Nat /\ directState.count \in 0 .. PageCapacity
      /\ hand.count \in 0 .. PageCapacity /\ count[p] \in 0 .. PageCapacity
      /\ compiledCount \in 0 .. PageCapacity
  BY PageCapacityAssumption DEF FeedInv, TypeOK
<1>3. p \in Active => cursors[p].count \in 1 .. PageCapacity /\ cursors[p].offset \in Nat
  <2>1. p \in Active => /\ cursors[p].count \in 1 .. PageCapacity
                        /\ cursors[p].offset \in 0 .. cursors[p].count - 1
    BY DEF FeedInv, TypeOK
  <2> QED BY <1>2, <2>1
<1>4. OpenPart(p) \subseteq Slots  BY <1>2 DEF OpenPart, Slots
<1>5. HandPart(p) \subseteq Slots  BY <1>2 DEF HandPart, Slots
<1>6. ReadyPart(p) \subseteq Slots  BY <1>2 DEF ReadyPart, Slots
<1>7. ActivePart(p) \subseteq Slots  BY <1>2, <1>3 DEF ActivePart, Slots
<1>8. CompilerPart(p) \subseteq Slots  BY <1>2 DEF CompilerPart, Slots
<1>9. DirectPart(p) \subseteq Slots  BY DEF DirectPart
<1> QED BY <1>1, <1>4, <1>5, <1>6, <1>7, <1>8, <1>9

LEMMA NextLive ==
    ASSUME FeedInv, [Next]_vars, ~CommitEvents, ~CompileOne, \A p \in Pages : ~Dispatch(p),
           NEW p \in Pages
    PROVE  Live(p)' = Live(p)
<1> USE DEF pool, pages, feeder, direct, compiler, audioVars, history
<1> DEFINE Same == Live(p)' = Live(p)
<1>0. /\ held \in [Feeders -> Pages \cup {NoPage}] /\ NoPage \notin Pages
      /\ Feeders = {"direct", "compiler"} /\ pc \in [Feeders -> Labels]
      /\ ready \in Seq(Pages) /\ Distinct(ready)
      /\ count \in [Pages -> 0 .. PageCapacity] /\ PageCapacity \in Nat
  BY FeederFacts, PageCapacityAssumption DEF FeedInv, TypeOK, PlacesInv
<1>1. ASSUME \/ Submit \/ RingSubmit \/ LoadState \/ CopyEvents \/ CommitFails
             \/ PopFirst \/ CompilerStops \/ PopNext \/ FinishPage
             \/ FlushNothing \/ CountTaken \/ ImportEnds \/ CallbackEnds
             \/ Cancel \/ StopAudio \/ UNCHANGED vars
      PROVE  Same
  <2>1. /\ UNCHANGED <<directState, hand, ready, count, cursors, held, compiledCount>>
        /\ pc'["direct"] = pc["direct"] \/ {pc["direct"], pc'["direct"]} \cap {"publish"} = {}
    BY <1>0, <1>1 DEF Submit, RingSubmit, LoadState, CopyEvents, CommitFails, PopFirst,
         CompilerStops, PopNext, FinishPage, FlushNothing, CountTaken, ImportEnds,
         CallbackEnds, Cancel, StopAudio, Continue, Return, Goto, vars
  <2> QED BY ZenonT(30), <2>1, SameLive DEF OpenPart, HandPart, ReadyPart, ActivePart, Active,
        CompilerPart, DirectPart, RangeOf
<1>2. ASSUME NEW f \in Feeders,
             \/ AcquireFails(f) \/ CheckCancelled(f) \/ ObserveEpoch(f) \/ Wake(f)
             \/ TimeOut(f)
      PROVE  Same
  <2>1. /\ UNCHANGED <<directState, hand, ready, count, cursors, held, compiledCount>>
        /\ pc'["direct"] = pc["direct"] \/ {pc["direct"], pc'["direct"]} \cap {"publish"} = {}
    BY <1>0, <1>2 DEF AcquireFails, CheckCancelled, ObserveEpoch, Wake, TimeOut, Resume,
         Return, Goto
  <2> QED BY <2>1, SameLive DEF OpenPart, HandPart, ReadyPart, ActivePart, Active,
        CompilerPart, DirectPart, RangeOf
<1>3. ASSUME NEW f \in Feeders, CountPublished(f) PROVE Same
  <2>1. /\ UNCHANGED <<directState, hand, ready, count, cursors, held>>
        /\ pc'["direct"] = pc["direct"] \/ {pc["direct"], pc'["direct"]} \cap {"publish"} = {}
        /\ compiledCount' = compiledCount \/ held["compiler"] = NoPage
    BY <1>0, <1>3 DEF CountPublished, Continue, EndChunk, Return, Goto, FeedInv, CompilerInv
  <2> QED BY ZenonT(30), <1>0, <2>1, SameLive DEF OpenPart, HandPart, ReadyPart, ActivePart, Active,
        CompilerPart, DirectPart, RangeOf
<1>4. ASSUME NEW f \in Feeders, AcquirePage(f) PROVE Same
  <2> PICK q \in Pages : held' = [held EXCEPT ![f] = q]  BY <1>4, AcquireFacts
  <2>1. /\ UNCHANGED <<directState, hand, ready, count, cursors, compiledCount>>
        /\ held[f] = NoPage
        /\ f = "compiler" => compiledCount = 0 /\ pc'["direct"] = pc["direct"]
        /\ f = "direct" => pc["direct"] # "publish" /\ pc'["direct"] # "publish"
    BY <1>0, <1>4 DEF AcquirePage, Goto, FeedInv, DirectInv, CompilerInv, Waiting
  <2>2. OpenPart(p)' = OpenPart(p) /\ HandPart(p)' = HandPart(p)
        /\ ReadyPart(p)' = ReadyPart(p) /\ ActivePart(p)' = ActivePart(p)
    BY <2>1 DEF OpenPart, HandPart, ReadyPart, ActivePart, Active, RangeOf
  <2>3. CompilerPart(p)' = CompilerPart(p) /\ DirectPart(p)' = DirectPart(p)
    BY <1>0, <2>1 DEF CompilerPart, DirectPart
  <2> QED BY <2>2, <2>3, SameLive
<1>5. ASSUME NEW f \in Feeders, PublishPage(f) PROVE Same
  <2> PICK q \in Pages : q = held[f]  BY <1>5, FeederFacts DEF PublishPage
  <2>1. /\ UNCHANGED <<directState, hand, cursors, compiledCount>>
        /\ held' = [held EXCEPT ![f] = NoPage] /\ count' = [count EXCEPT ![q] = Sealed(f)]
        /\ ready' = Append(ready, q)
        /\ pc[f] = "publish" /\ pc' = [pc EXCEPT ![f] = "count"]
    BY <1>5 DEF PublishPage, Goto
  <2>2. RangeOf(ready)' = RangeOf(ready) \cup {q} /\ q \notin RangeOf(ready)
    BY <1>0, <2>1, AppendRange, PageIn
  <2>3. OpenPart(p)' = OpenPart(p) /\ HandPart(p)' = HandPart(p)
        /\ ActivePart(p)' = ActivePart(p)
    BY <2>1 DEF OpenPart, HandPart, ActivePart, Active
  <2>4. CASE p # q
    <3>1. ReadyPart(p)' = ReadyPart(p)  BY <1>0, <2>1, <2>2, <2>4 DEF ReadyPart
    <3>2. CompilerPart(p)' = CompilerPart(p) /\ DirectPart(p)' = DirectPart(p)
      BY <1>0, <2>1, <2>4 DEF CompilerPart, DirectPart
    <3> QED BY <2>3, <3>1, <3>2, SameLive
  <2>5. CASE p = q
    <3>1. ReadyPart(p)' = 1 .. Sealed(f) /\ ReadyPart(p) = {}
      BY <1>0, <2>1, <2>2, <2>5 DEF ReadyPart
    <3>2. CASE f = "compiler"
      <4>1. /\ CompilerPart(p) = 1 .. compiledCount /\ CompilerPart(p)' = {}
            /\ DirectPart(p)' = DirectPart(p) /\ Sealed(f) = compiledCount
        BY <1>0, <2>1, <2>5, <3>2 DEF CompilerPart, DirectPart, Sealed
      <4> QED BY <2>3, <3>1, <4>1, SameLive
    <3>3. CASE f = "direct"
      <4>1. /\ CompilerPart(p) = {} /\ CompilerPart(p)' = {}
            /\ DirectPart(p) = 1 .. PageCapacity /\ DirectPart(p)' = {}
            /\ Sealed(f) = PageCapacity
        BY <1>0, <2>1, <2>5, <3>3, PageIn DEF CompilerPart, DirectPart, Sealed, Slots
      <4> QED BY <2>3, <3>1, <4>1, SameLive
    <3> QED BY <1>0, <3>2, <3>3
  <2> QED BY <2>4, <2>5
<1>6. ASSUME OpenPage PROVE Same
  <2>1. /\ UNCHANGED <<hand, ready, count, cursors, compiledCount>>
        /\ held' = [held EXCEPT !["direct"] = NoPage]
        /\ directState.count = 0 /\ directState'.count = 0
        /\ pc["direct"] = "open" /\ pc'["direct"] = "copy"
    BY <1>0, <1>6 DEF OpenPage, Open, Goto, FeedInv, DirectInv, None
  <2>2. OpenPart(p) = {} /\ OpenPart(p)' = {}  BY <2>1 DEF OpenPart
  <2>3. HandPart(p)' = HandPart(p) /\ ReadyPart(p)' = ReadyPart(p)
        /\ ActivePart(p)' = ActivePart(p)
    BY <2>1 DEF HandPart, ReadyPart, ActivePart, Active, RangeOf
  <2>4. CompilerPart(p)' = CompilerPart(p) /\ DirectPart(p)' = DirectPart(p)
    BY <1>0, <2>1 DEF CompilerPart, DirectPart
  <2> QED BY <2>2, <2>3, <2>4, SameLive
<1>7. ASSUME SealPage PROVE Same
  <2>1. UNCHANGED <<hand, ready, count, cursors, compiledCount>> /\ pc["direct"] = "seal"
    BY <1>7 DEF SealPage
  <2>2. HandPart(p)' = HandPart(p) /\ ReadyPart(p)' = ReadyPart(p)
        /\ ActivePart(p)' = ActivePart(p)
    BY <2>1 DEF HandPart, ReadyPart, ActivePart, Active, RangeOf
  <2>3. CASE directState # snapshot
    <3>1. UNCHANGED <<directState, held>> /\ pc'["direct"] # "publish"
      BY <1>0, <1>7, <2>3 DEF SealPage, Continue, Return, Goto
    <3> QED BY <2>1, <2>2, <3>1, SameLive DEF OpenPart, CompilerPart, DirectPart
  <2>4. CASE directState = snapshot
    <3> PICK q \in Pages : q = directState.page
      BY <1>7, <2>4 DEF SealPage, FeedInv, DirectInv
    <3>1. /\ held' = [held EXCEPT !["direct"] = q] /\ q = directState.page
          /\ pc'["direct"] = "publish" /\ directState'.page = NoPage
          /\ directState.count = PageCapacity /\ held["direct"] = NoPage
      BY <1>0, <1>7, <2>4 DEF SealPage, Goto, None, FeedInv, DirectInv
    <3>2. CompilerPart(p)' = CompilerPart(p)  BY <1>0, <2>1, <3>1 DEF CompilerPart
    <3>3. OpenPart(p)' = {} /\ DirectPart(p) = {} /\ OpenPart(p) = DirectPart(p)'
      BY <1>0, <2>1, <3>1 DEF OpenPart, DirectPart, Slots
    <3> QED BY <2>2, <3>2, <3>3, SameLive
  <2> QED BY <2>3, <2>4
<1>8. ASSUME ReturnPage PROVE Same
  <2> PICK q \in Pages : q = held["compiler"]
    BY <1>0, <1>8 DEF ReturnPage, FeedInv, CompilerInv
  <2>1. /\ UNCHANGED <<directState, hand, ready, cursors>> /\ q = held["compiler"]
        /\ held' = [held EXCEPT !["compiler"] = NoPage]
        /\ count' = [count EXCEPT ![q] = 0] /\ compiledCount = 0 /\ compiledCount' = 0
        /\ pc'["direct"] = pc["direct"]
    BY <1>0, <1>8 DEF ReturnPage, EndChunk, Goto
  <2>2. q \notin RangeOf(ready)  BY <2>1, PageIn
  <2>3. OpenPart(p)' = OpenPart(p) /\ HandPart(p)' = HandPart(p)
        /\ ActivePart(p)' = ActivePart(p)
    BY <2>1 DEF OpenPart, HandPart, ActivePart, Active
  <2>4. RangeOf(ready)' = RangeOf(ready)  BY <2>1 DEF RangeOf
  <2>5. ReadyPart(p)' = ReadyPart(p)  BY <1>0, <2>1, <2>2, <2>4 DEF ReadyPart
  <2>6. CompilerPart(p)' = CompilerPart(p) /\ DirectPart(p)' = DirectPart(p)
    BY <1>0, <2>1 DEF CompilerPart, DirectPart
  <2> QED BY <2>3, <2>5, <2>6, SameLive
<1>9. ASSUME DetachOpenPage PROVE Same
  <2>1. /\ UNCHANGED <<ready, count, cursors, held, pc, compiledCount>>
        /\ hand' = directState /\ hand.page = NoPage /\ directState'.page = NoPage
    BY <1>9 DEF DetachOpenPage, None, FeedInv, AudioInv
  <2>2. HandPart(p)' = OpenPart(p) /\ HandPart(p) = {} /\ OpenPart(p)' = {}
    BY <1>0, <2>1 DEF OpenPart, HandPart
  <2>3. /\ ReadyPart(p)' = ReadyPart(p) /\ ActivePart(p)' = ActivePart(p)
        /\ CompilerPart(p)' = CompilerPart(p) /\ DirectPart(p)' = DirectPart(p)
    BY <2>1 DEF ReadyPart, ActivePart, Active, CompilerPart, DirectPart, RangeOf
  <2> QED BY <2>2, <2>3, SameLive
<1>10. ASSUME TakeReady PROVE Same
  <2> PICK q \in Pages : q = Head(ready)  BY <1>0, <1>10, TailRange DEF TakeReady
  <2>1. /\ UNCHANGED <<count, cursors, held, pc, compiledCount, directState>>
        /\ hand' = [page |-> q, count |-> count[q]] /\ hand.page = NoPage
        /\ ready' = Tail(ready) /\ ready # << >> /\ q = Head(ready)
    BY <1>10 DEF TakeReady, Open, None, FeedInv, AudioInv
  <2>2. q \in RangeOf(ready) /\ RangeOf(ready)' = RangeOf(ready) \ {q}
    BY <1>0, <2>1, TailRange
  <2>3. HandPart(p) = {} /\ HandPart(p)' = IF p = q THEN 1 .. count[q] ELSE {}
    BY <1>0, <2>1 DEF HandPart
  <2>4. ReadyPart(p) \cup {} = ReadyPart(p)' \cup HandPart(p)'
    BY <2>1, <2>2, <2>3 DEF ReadyPart
  <2>5. /\ OpenPart(p)' = OpenPart(p) /\ ActivePart(p)' = ActivePart(p)
        /\ CompilerPart(p)' = CompilerPart(p) /\ DirectPart(p)' = DirectPart(p)
    BY <2>1 DEF OpenPart, ActivePart, Active, CompilerPart, DirectPart
  <2> QED BY <2>3, <2>4, <2>5, SameLive
<1>11. ASSUME SchedulePage PROVE Same
  <2> PICK q \in Pages : q = hand.page
    BY <1>0, <1>11 DEF SchedulePage, None, FeedInv, TypeOK, AudioInv
  <2>1. /\ UNCHANGED <<ready, held, pc, compiledCount, directState>>
        /\ q = hand.page /\ hand'.page = NoPage /\ hand.count \in Nat
        /\ count' = [count EXCEPT ![q] = hand.count]
        /\ cursors' = [r \in Active \cup {q} |->
             IF r = q THEN [offset |-> 0, count |-> hand.count] ELSE cursors[r]]
    BY <1>11, PageCapacityAssumption DEF SchedulePage, None, FeedInv, TypeOK
  <2>2. q \notin RangeOf(ready) /\ q \notin Active  BY <2>1, PageIn
  <2>3. Active' = Active \cup {q}  BY <2>1 DEF Active
  <2>4. HandPart(p)' = {} /\ HandPart(p) = IF p = q THEN 1 .. hand.count ELSE {}
    BY <1>0, <2>1 DEF HandPart
  <2>5. ActivePart(p)' = IF p = q THEN 1 .. hand.count ELSE ActivePart(p)
    <3>1. CASE p = q
      <4>1. cursors'[p] = [offset |-> 0, count |-> hand.count]  BY <2>1, <3>1
      <4> QED BY <2>3, <3>1, <4>1 DEF ActivePart
    <3>2. CASE p # q
      <4>1. p \in Active' <=> p \in Active  BY <2>3, <3>2
      <4>2. p \in Active => cursors'[p] = cursors[p]  BY <2>1, <3>2
      <4> QED BY <3>2, <4>1, <4>2 DEF ActivePart
    <3> QED BY <3>1, <3>2
  <2>6. p = q => ActivePart(p) = {}  BY <2>2 DEF ActivePart
  <2>7. RangeOf(ready)' = RangeOf(ready)  BY <2>1 DEF RangeOf
  <2>8. ReadyPart(p)' = ReadyPart(p)  BY <1>0, <2>1, <2>2, <2>7 DEF ReadyPart
  <2>9. /\ OpenPart(p)' = OpenPart(p) /\ CompilerPart(p)' = CompilerPart(p)
        /\ DirectPart(p)' = DirectPart(p)
    BY <2>1 DEF OpenPart, CompilerPart, DirectPart
  <2> QED BY <2>4, <2>5, <2>6, <2>8, <2>9, SameLive
<1> QED BY <1>1, <1>2, <1>3, <1>4, <1>5, <1>6, <1>7, <1>8, <1>9, <1>10, <1>11, Steps

-----------------------------------------------------------------------------
(* What the feeders have passed on only grows.                             *)

LEMMA DirectGrows ==
    ASSUME FeedInv, [Next]_vars
    PROVE  /\ DirectSent \in Int /\ DirectSent' \in Int /\ DirectSent <= DirectSent'
           /\ CommitEvents => DirectSent' = DirectSent + Taken
<1> USE DEF pool, pages, feeder, direct, compiler, audioVars, history
<1> DEFINE Goal == /\ DirectSent <= DirectSent'
                   /\ CommitEvents => DirectSent' = DirectSent + Taken
<1>0. /\ submitted["direct"] \in Nat /\ Len(stage) \in Nat /\ done \in 0 .. Len(stage)
      /\ submitted'["direct"] \in Nat /\ Len(stage') \in Nat /\ done' \in 0 .. Len(stage')
      /\ submitted \in [Feeders -> Nat] /\ "direct" \in Feeders
  <2>1. FeedInv'  BY NextFeed
  <2>2. /\ submitted'["direct"] \in Nat /\ Len(stage') \in Nat
        /\ done' \in 0 .. Len(stage')
    BY <2>1 DEF FeedInv, TypeOK, SubmittedInv, Feeders
  <2> QED BY <2>2, NumberFacts DEF Feeders
<1>1. CASE Submit
  <2>1. PICK n \in 1 .. PageCapacity :
          /\ stage' = [i \in 1 .. n |-> submitted["direct"] + i]
          /\ submitted' = [submitted EXCEPT !["direct"] = submitted["direct"] + n]
    BY <1>1 DEF Submit
  <2>2. n \in Nat  BY PageCapacityAssumption
  <2>3. Len(stage') = n
    <3>1. stage' \in [1 .. n -> Nat]  BY <1>0, <2>1, <2>2
    <3>2. stage' \in Seq(Nat) /\ DOMAIN stage' = 1 .. n  BY <2>2, <3>1, SeqDef
    <3>3. DOMAIN stage' = 1 .. Len(stage') /\ Len(stage') \in Nat  BY <3>2, LenProperties
    <3> QED BY <2>2, <3>2, <3>3
  <2>4. submitted'["direct"] = submitted["direct"] + n  BY <1>0, <2>1
  <2>5. done' = 0 /\ ~CommitEvents  BY <1>1 DEF Submit, CommitEvents
  <2> QED BY <1>0, <2>2, <2>3, <2>4, <2>5 DEF DirectSent
<1>2. ASSUME submitted'["direct"] = submitted["direct"], ~CommitEvents,
             \/ stage' = stage /\ done' = done
             \/ stage' = << >> /\ done' = 0
      PROVE  Goal
  BY <1>0, <1>2 DEF DirectSent
<1>3. CASE CommitEvents
  <2>1. /\ submitted' = submitted
        /\ \/ stage' = stage /\ done' = done + Taken
           \/ stage' = << >> /\ done' = 0 /\ done + Taken = Len(stage)
    BY <1>3 DEF CommitEvents, Continue, Return
  <2>2. Taken \in Nat  BY <1>3, TakenFacts DEF CommitEvents
  <2>3. submitted'["direct"] = submitted["direct"]  BY <2>1
  <2>4. DirectSent' = DirectSent + Taken
    <3>1. CASE stage' = stage /\ done' = done + Taken
      <4>1. Len(stage') = Len(stage)  BY <3>1
      <4> HIDE DEF Goal
      <4> QED BY <1>0, <2>2, <2>3, <3>1, <4>1 DEF DirectSent
    <3>2. CASE stage' = << >> /\ done' = 0 /\ done + Taken = Len(stage)
      <4>1. Len(stage') = 0  BY <3>2
      <4> QED BY <1>0, <2>2, <2>3, <3>2, <4>1 DEF DirectSent
    <3> QED BY <2>1, <3>1, <3>2
  <2>5. DirectSent \in Int  BY <1>0 DEF DirectSent
  <2> QED BY <2>2, <2>4, <2>5
<1>4. ASSUME \/ RingSubmit \/ LoadState \/ OpenPage \/ CopyEvents \/ CommitFails
             \/ SealPage \/ PopFirst \/ CompilerStops \/ CompileOne \/ PopNext
             \/ FinishPage \/ ReturnPage \/ FlushNothing \/ DetachOpenPage \/ TakeReady
             \/ CountTaken \/ SchedulePage \/ ImportEnds \/ CallbackEnds
             \/ (\E p \in Pages : Dispatch(p)) \/ Cancel \/ StopAudio \/ UNCHANGED vars
      PROVE  Goal
  <2>1. CASE CommitEvents  BY <1>3, <2>1
  <2>2. CASE ~CommitEvents
    <3>1. /\ submitted'["direct"] = submitted["direct"]
          /\ \/ stage' = stage /\ done' = done
             \/ stage' = << >> /\ done' = 0
      BY <1>0, <1>4 DEF RingSubmit, LoadState, OpenPage, CopyEvents, CommitFails, SealPage,
           PopFirst, CompilerStops, CompileOne, PopNext, FinishPage, ReturnPage,
           FlushNothing, DetachOpenPage, TakeReady, CountTaken, SchedulePage, ImportEnds,
           CallbackEnds, Dispatch, Cancel, StopAudio, Continue, Return, vars
    <3> QED BY <1>2, <2>2, <3>1
  <2> QED BY <2>1, <2>2
<1>5. ASSUME NEW f \in Feeders,
             \/ AcquirePage(f) \/ AcquireFails(f) \/ CheckCancelled(f) \/ ObserveEpoch(f)
             \/ Wake(f) \/ TimeOut(f) \/ PublishPage(f) \/ CountPublished(f)
      PROVE  Goal
  <2>1. CASE CommitEvents  BY <1>3, <2>1
  <2>2. CASE ~CommitEvents
    <3>1. /\ submitted'["direct"] = submitted["direct"]
          /\ \/ stage' = stage /\ done' = done
             \/ stage' = << >> /\ done' = 0
      BY <1>5 DEF AcquirePage, AcquireFails, CheckCancelled, ObserveEpoch, Wake, TimeOut,
           Resume, PublishPage, CountPublished, Continue, Return
    <3> QED BY <1>2, <2>2, <3>1
  <2> QED BY <2>1, <2>2
<1>6. DirectSent \in Int /\ DirectSent' \in Int  BY <1>0 DEF DirectSent
<1> QED BY <1>1, <1>3, <1>4, <1>5, <1>6, Steps

LEMMA RingGrows ==
    ASSUME FeedInv, SourcesInv, [Next]_vars
    PROVE  /\ RingSent \in Int /\ RingSent' \in Int /\ RingSent <= RingSent'
           /\ CompileOne => timed = RingSent + 1 /\ RingSent' = RingSent + 1
<1> USE DEF pool, pages, feeder, direct, compiler, audioVars, history
<1> DEFINE Goal == /\ RingSent <= RingSent'
                   /\ CompileOne => timed = RingSent + 1 /\ RingSent' = RingSent + 1
<1>0. /\ submitted["compiler"] \in Nat /\ Len(ring) \in Nat /\ ring \in Seq(RingEvents)
      /\ submitted'["compiler"] \in Nat /\ Len(ring') \in Nat /\ MaxDirect \in Nat
      /\ submitted \in [Feeders -> Nat] /\ "compiler" \in Feeders /\ "direct" \in Feeders
      /\ NoEvent \notin RingEvents
  <2>1. FeedInv'  BY NextFeed
  <2>2. submitted'["compiler"] \in Nat /\ Len(ring') \in Nat
    BY <2>1 DEF FeedInv, TypeOK, SubmittedInv, Feeders
  <2> QED BY <2>2, NumberFacts DEF Feeders
<1>1. RingSent \in Int /\ RingSent' \in Int  BY SMTT(30), <1>0 DEF RingSent, RingPopped
<1>2. ASSUME submitted'["compiler"] = submitted["compiler"], UNCHANGED <<ring, timed>>,
             ~CompileOne
      PROVE  Goal
  BY <1>0, <1>1, <1>2 DEF RingSent, RingPopped
<1>3. CASE CompileOne
  <2>1. UNCHANGED <<submitted, ring>> /\ timed' = NoEvent /\ timed # NoEvent
    BY <1>3 DEF CompileOne
  <2>2. timed = RingPopped /\ RingPopped' = RingPopped /\ RingPopped \in Int
    BY <1>0, <2>1 DEF SourcesInv, RingPopped
  <2> QED BY <2>1, <2>2 DEF RingSent
<1>4. CASE RingSubmit
  <2>1. /\ Len(ring') = Len(ring) + 1 /\ timed' = timed
        /\ submitted'["compiler"] = submitted["compiler"] + 1
    BY <1>0, <1>4 DEF RingSubmit
  <2>2. RingPopped' = RingPopped /\ RingPopped \in Int  BY <1>0, <2>1 DEF RingPopped
  <2>3. ~CompileOne  BY <1>4, <2>1, <1>0 DEF CompileOne
  <2> QED BY <2>1, <2>2, <2>3 DEF RingSent
<1>5. CASE PopFirst \/ PopNext
  <2>1. /\ timed = NoEvent /\ timed' = Head(ring) /\ ring' = Tail(ring) /\ ring # << >>
        /\ UNCHANGED submitted
    BY <1>5 DEF PopFirst, PopNext, MoreToCompile, SourcesInv
  <2>2. Head(ring) \in RingEvents /\ Len(ring') = Len(ring) - 1  BY <1>0, <2>1
  <2>3. timed' # NoEvent  BY <1>0, <2>1, <2>2
  <2>4. RingPopped' = RingPopped + 1 /\ RingPopped \in Int
    BY <1>0, <2>1, <2>2 DEF RingPopped
  <2>5. ~CompileOne  BY <2>1 DEF CompileOne
  <2> QED BY <2>1, <2>3, <2>4, <2>5 DEF RingSent
<1>6. ASSUME \/ Submit \/ LoadState \/ OpenPage \/ CopyEvents \/ CommitEvents
             \/ CommitFails \/ SealPage \/ CompilerStops
             \/ FinishPage \/ ReturnPage \/ FlushNothing \/ DetachOpenPage \/ TakeReady
             \/ CountTaken \/ SchedulePage \/ ImportEnds \/ CallbackEnds
             \/ (\E p \in Pages : Dispatch(p)) \/ Cancel \/ StopAudio \/ UNCHANGED vars
      PROVE  Goal
  <2>1. CASE CompileOne  BY <1>3, <2>1
  <2>2. CASE ~CompileOne
    <3>1. submitted'["compiler"] = submitted["compiler"] /\ UNCHANGED <<ring, timed>>
      BY <1>0, <1>6 DEF Submit, LoadState, OpenPage, CopyEvents, CommitEvents, CommitFails,
           SealPage, CompilerStops, FinishPage, ReturnPage, EndChunk,
           FlushNothing, DetachOpenPage, TakeReady, CountTaken, SchedulePage, ImportEnds,
           CallbackEnds, Dispatch, Cancel, StopAudio, vars
    <3> QED BY <1>2, <2>2, <3>1
  <2> QED BY <2>1, <2>2
<1>7. ASSUME NEW f \in Feeders,
             \/ AcquirePage(f) \/ AcquireFails(f) \/ CheckCancelled(f) \/ ObserveEpoch(f)
             \/ Wake(f) \/ TimeOut(f) \/ PublishPage(f) \/ CountPublished(f)
      PROVE  Goal
  <2>1. CASE CompileOne  BY <1>3, <2>1
  <2>2. CASE ~CompileOne
    <3>1. UNCHANGED <<submitted, ring, timed>>
      BY <1>7 DEF AcquirePage, AcquireFails, CheckCancelled, ObserveEpoch, Wake, TimeOut,
           Resume, PublishPage, CountPublished, EndChunk
    <3> QED BY <1>2, <2>2, <3>1
  <2> QED BY <2>1, <2>2
<1> QED BY <1>1, <1>3, <1>4, <1>5, <1>6, <1>7, Steps

LEMMA NextCopied == FeedInv /\ CopiedInv /\ [Next]_vars => CopiedInv'
<1> SUFFICES ASSUME FeedInv, CopiedInv, [Next]_vars PROVE CopiedInv'  OBVIOUS
<1> USE DEF pool, pages, feeder, direct, compiler, audioVars, history
<1>0. /\ pc \in [Feeders -> Labels] /\ Feeders = {"direct", "compiler"}
      /\ NoPage \notin Pages /\ events \in [Pages -> [Slots -> Events \cup {NoEvent}]]
  BY FeederFacts DEF FeedInv, TypeOK
<1>1. ASSUME \/ RingSubmit \/ PopFirst \/ CompilerStops \/ PopNext \/ FinishPage
             \/ ReturnPage \/ FlushNothing \/ TakeReady \/ CountTaken \/ SchedulePage
             \/ ImportEnds \/ CallbackEnds \/ (\E p \in Pages : Dispatch(p))
             \/ Cancel \/ StopAudio \/ UNCHANGED vars
      PROVE  CopiedInv'
  <2>1. UNCHANGED <<directState, snapshot, events, stage, done>>
        /\ pc'["direct"] = pc["direct"]
    BY <1>0, <1>1 DEF RingSubmit, PopFirst, CompilerStops, PopNext, FinishPage, ReturnPage,
         EndChunk, Goto, FlushNothing, TakeReady, CountTaken, SchedulePage, ImportEnds,
         CallbackEnds, Dispatch, Cancel, StopAudio, vars
  <2> QED BY <2>1 DEF CopiedInv, Taken
<1>2. ASSUME \/ Submit \/ LoadState \/ OpenPage \/ CommitEvents \/ CommitFails \/ SealPage
      PROVE  CopiedInv'
  <2>1. pc'["direct"] # "cas"
    BY <1>0, <1>2 DEF Submit, LoadState, OpenPage, CommitEvents, CommitFails, SealPage,
         Continue, Return, Goto
  <2> QED BY <2>1 DEF CopiedInv
<1>3. ASSUME NEW f \in Feeders,
             \/ AcquirePage(f) \/ AcquireFails(f) \/ CheckCancelled(f) \/ ObserveEpoch(f)
             \/ Wake(f) \/ TimeOut(f) \/ PublishPage(f) \/ CountPublished(f)
      PROVE  CopiedInv'
  <2>1. \/ pc'["direct"] # "cas"
        \/ /\ UNCHANGED <<directState, snapshot, events, stage, done>>
           /\ pc'["direct"] = pc["direct"]
    BY <1>0, <1>3 DEF AcquirePage, AcquireFails, CheckCancelled, ObserveEpoch, Wake,
         TimeOut, Resume, PublishPage, CountPublished, EndChunk, Continue, Return, Goto
  <2> QED BY <2>1 DEF CopiedInv, Taken
<1>4. ASSUME DetachOpenPage PROVE CopiedInv'
  <2>1. directState' = None /\ UNCHANGED <<snapshot, pc>>
    BY <1>4 DEF DetachOpenPage
  <2>2. pc["direct"] = "cas" => snapshot.page \in Pages  BY TakenFacts
  <2> QED BY <1>0, <2>1, <2>2 DEF CopiedInv, None
<1>5. ASSUME CompileOne PROVE CopiedInv'
  <2> PICK q \in Pages : q = held["compiler"]
    BY <1>5, FeederFacts DEF CompileOne, FeedInv, CompilerInv
  <2>1. /\ UNCHANGED <<directState, snapshot, stage, done, pc>>
        /\ \/ events' = [events EXCEPT ![q][compiledCount + 1] = timed]
           \/ events' = events
    BY <1>5 DEF CompileOne
  <2>2. Taken' = Taken  BY <2>1 DEF Taken
  <2>3. ASSUME pc["direct"] = "cas", directState = snapshot
        PROVE  events'[snapshot.page] = events[snapshot.page]
    <3>1. snapshot.page \in Pages  BY <2>3, TakenFacts
    <3>2. snapshot.page # q  BY <2>3, <3>1, PageIn
    <3> QED BY <1>0, <2>1, <3>1, <3>2
  <2> QED BY <2>1, <2>2, <2>3 DEF CopiedInv
<1>6. ASSUME CopyEvents PROVE CopiedInv'
  <2> DEFINE q == snapshot.page  c == snapshot.count  n == Taken
  <2>1. /\ UNCHANGED <<directState, snapshot, stage, done>>
        /\ events' = [events EXCEPT ![q] =
             [i \in Slots |-> IF i \in c + 1 .. c + n THEN stage[done + i - c]
                              ELSE events[q][i]]]
    BY <1>6 DEF CopyEvents, Behind
  <2>2. /\ q \in Pages /\ c \in Nat /\ n \in Nat /\ c + n <= PageCapacity /\ done \in Nat
        /\ PageCapacity \in Nat
    BY <1>6, TakenFacts, PageCapacityAssumption DEF CopyEvents
  <2>3. Taken' = Taken  BY <2>1 DEF Taken
  <2>4. \A i \in Slots : events'[q][i] =
          IF i \in c + 1 .. c + n THEN stage[done + i - c] ELSE events[q][i]
    BY <1>0, <2>1, <2>2
  <2>5. ASSUME NEW i \in 1 .. n PROVE events'[q][c + i] = stage[done + i]
    <3> HIDE DEF q, c, n
    <3> DEFINE j == c + i
    <3>1. j \in Slots /\ j \in c + 1 .. c + n  BY <2>2 DEF Slots
    <3>2. j - c = i  BY <2>2
    <3> HIDE DEF j
    <3>3. events'[q][j] = stage[done + (j - c)]  BY <2>4, <3>1
    <3> QED BY <3>2, <3>3 DEF j
  <2> QED BY <2>1, <2>3, <2>5 DEF CopiedInv
<1> QED BY <1>1, <1>2, <1>3, <1>4, <1>5, <1>6, Steps

-----------------------------------------------------------------------------
(* No event is in the feed twice.                                          *)

\* Slots that become live with events nobody used before: the step of a feeder,
\* or of nobody if there are none.
LEMMA Grown ==
    ASSUME FeedInv, SourcesInv, EventsInv, [Next]_vars, NEW q \in Pages, NEW Fresh,
           \A p \in Pages : p # q => Live(p)' = Live(p),
           Live(q)' = Live(q) \cup Fresh,
           \A p \in Pages : \A i \in Live(p) : events'[p][i] = events[p][i],
           \A j \in Fresh : events'[q][j] \in Events /\ ~Used(events'[q][j]),
           \A j, k \in Fresh : events'[q][j] = events'[q][k] => j = k,
           \A j \in Fresh : /\ events'[q][j] \in DirectEvents => events'[q][j] <= DirectSent'
                            /\ events'[q][j] \in RingEvents => events'[q][j] <= RingSent',
           dispatched' = dispatched,
           \A e \in accepted' : e \in accepted \/ \E j \in Fresh : events'[q][j] = e
    PROVE  EventsInv'
<1>1. \A p \in Pages : \A i : i \in Live(p)' <=> i \in Live(p) \/ (p = q /\ i \in Fresh)
  OBVIOUS
<1>2. \A p \in Pages : \A i \in Live(p) : Used(events[p][i])  BY DEF Used
<1>3. \A e : Used(e)' <=> Used(e) \/ \E j \in Fresh : events'[q][j] = e
  <2> TAKE e
  <2>1. Used(e)' <=> \/ dispatched'[e] > 0
                     \/ \E p \in Pages : \E i \in Live(p)' : events'[p][i] = e
    BY DEF Used
  <2>2. ASSUME Used(e) PROVE Used(e)'
    <3>1. CASE dispatched[e] > 0  BY <2>1, <3>1
    <3>2. CASE \E p \in Pages : \E i \in Live(p) : events[p][i] = e
      BY <1>1, <2>1, <3>2
    <3> QED BY <2>2, <3>1, <3>2 DEF Used
  <2>3. ASSUME NEW j \in Fresh, events'[q][j] = e PROVE Used(e)'
    BY <1>1, <2>1, <2>3
  <2>4. ASSUME Used(e)', \A j \in Fresh : events'[q][j] # e PROVE Used(e)
    <3>1. CASE dispatched'[e] > 0  BY <3>1 DEF Used
    <3>2. CASE \E p \in Pages : \E i \in Live(p)' : events'[p][i] = e
      <4>1. PICK p \in Pages : \E i \in Live(p)' : events'[p][i] = e  BY <3>2
      <4>2. PICK i \in Live(p)' : events'[p][i] = e  BY <4>1
      <4>3. i \in Live(p)  BY <1>1, <2>4, <4>2
      <4> QED BY <4>2, <4>3 DEF Used
    <3> QED BY <2>1, <2>4, <3>1, <3>2
  <2> QED BY <2>2, <2>3, <2>4
<1>4. \A e \in Events : dispatched'[e] <= 1  BY DEF EventsInv
<1>5. ASSUME NEW p \in Pages, NEW i \in Live(p)'
      PROVE  events'[p][i] \in Events /\ dispatched'[events'[p][i]] = 0
  <2>1. CASE i \in Live(p)  BY <2>1 DEF EventsInv
  <2>2. CASE p = q /\ i \in Fresh
    <3>1. events'[p][i] \in Events /\ ~(dispatched[events'[p][i]] > 0)  BY <2>2 DEF Used
    <3>2. dispatched[events'[p][i]] \in Nat  BY <3>1 DEF FeedInv, TypeOK
    <3> QED BY <3>1, <3>2
  <2> QED BY <1>1, <2>1, <2>2
<1>6. ASSUME NEW p \in Pages, NEW r \in Pages, NEW i \in Live(p)', NEW j \in Live(r)',
             events'[p][i] = events'[r][j]
      PROVE  p = r /\ i = j
  <2>1. CASE i \in Live(p) /\ j \in Live(r)  BY <1>6, <2>1 DEF EventsInv
  <2>2. CASE (p = q /\ i \in Fresh) /\ (r = q /\ j \in Fresh)  BY <1>6, <2>2
  <2>3. CASE i \in Live(p) /\ (r = q /\ j \in Fresh)
    <3>1. events'[p][i] = events[p][i] /\ Used(events[p][i])  BY <1>2, <2>3
    <3>2. ~Used(events'[r][j])  BY <2>3
    <3> QED BY <1>6, <3>1, <3>2
  <2>4. CASE (p = q /\ i \in Fresh) /\ j \in Live(r)
    <3>1. events'[r][j] = events[r][j] /\ Used(events[r][j])  BY <1>2, <2>4
    <3>2. ~Used(events'[p][i])  BY <2>4
    <3> QED BY <1>6, <3>1, <3>2
  <2>5. /\ i \in Live(p) \/ (p = q /\ i \in Fresh)
        /\ j \in Live(r) \/ (r = q /\ j \in Fresh)
    BY <1>1
  <2> QED BY <2>1, <2>2, <2>3, <2>4, <2>5
<1>7. \A e \in accepted' : Used(e)'  BY <1>3 DEF EventsInv
<1>8. ASSUME NEW e \in DirectEvents, Used(e)' PROVE e <= DirectSent'
  <2>1. e \in Int  BY BoundAssumption DEF DirectEvents
  <2>2. CASE Used(e)
    <3>1. e <= DirectSent  BY <2>2 DEF EventsInv
    <3> QED BY <2>1, <3>1, DirectGrows
  <2> QED BY <1>3, <1>8, <2>2
<1>9. ASSUME NEW e \in RingEvents, Used(e)' PROVE e <= RingSent'
  <2>1. e \in Int  BY BoundAssumption DEF RingEvents
  <2>2. CASE Used(e)
    <3>1. e <= RingSent  BY <2>2 DEF EventsInv
    <3> QED BY <2>1, <3>1, RingGrows
  <2> QED BY <1>3, <1>9, <2>2
<1> QED BY <1>4, <1>5, <1>6, <1>7, <1>8, <1>9 DEF EventsInv

\* The producer's commit makes the events it copied live.
LEMMA CommitKeepsEvents ==
    ASSUME FeedInv, SourcesInv, CopiedInv, EventsInv, [Next]_vars, CommitEvents
    PROVE  EventsInv'
<1> USE DEF pool, pages, feeder, direct, compiler, audioVars, history
<1> DEFINE c == snapshot.count  n == Taken
<1> PICK q \in Pages : q = snapshot.page  BY TakenFacts DEF CommitEvents
<1>1. /\ pc["direct"] = "cas" /\ directState = snapshot
      /\ directState' = [page |-> q, count |-> c + n]
      /\ accepted' = accepted \cup {stage[done + i] : i \in 1 .. n}
      /\ UNCHANGED <<hand, ready, count, cursors, held, compiledCount, events, dispatched>>
      /\ pc'["direct"] # "publish"
  BY FeederFacts DEF CommitEvents, Open, Continue, Return, Goto
<1>2. /\ c \in Nat /\ n \in Nat /\ c + n <= PageCapacity /\ done \in Nat
      /\ Len(stage) \in Nat /\ done + n <= Len(stage) /\ PageCapacity \in Nat
  BY <1>1, TakenFacts, PageCapacityAssumption
<1>3. \A i \in 1 .. n : events[q][c + i] = stage[done + i]
  BY <1>1 DEF CopiedInv
<1>4. DirectSent \in Int /\ DirectSent' = DirectSent + n  BY DirectGrows
<1>5. ASSUME NEW i \in 1 .. n
      PROVE  stage[done + i] = DirectSent + i /\ stage[done + i] \in DirectEvents
  <2> HIDE DEF n
  <2>1. done + i \in 1 .. Len(stage)  BY <1>2
  <2>2. stage[done + i] = (submitted["direct"] - Len(stage)) + (done + i)
    BY <2>1 DEF SourcesInv
  <2>3. (submitted["direct"] - Len(stage)) + (done + i) = DirectSent + i
    BY <1>2, NumberFacts DEF DirectSent
  <2>4. stage[done + i] \in DirectEvents  BY <2>1, NumberFacts
  <2> QED BY <2>2, <2>3, <2>4
<1> DEFINE Fresh == c + 1 .. c + n
<1>6. ASSUME NEW j \in Fresh
      PROVE  /\ events'[q][j] = DirectSent + (j - c) /\ events'[q][j] \in DirectEvents
             /\ j - c \in 1 .. n
  <2> HIDE DEF c, n
  <2>1. j - c \in 1 .. n /\ c + (j - c) = j  BY <1>2
  <2>2. events[q][c + (j - c)] = DirectSent + (j - c)
        /\ events[q][c + (j - c)] \in DirectEvents
    BY <1>3, <1>5, <2>1
  <2> QED BY <1>1, <2>1, <2>2
<1>7. OpenPart(q) = 1 .. c /\ OpenPart(q)' = OpenPart(q) \cup Fresh
  BY <1>1, <1>2 DEF OpenPart
<1>8. \A p \in Pages : /\ HandPart(p)' = HandPart(p) /\ ReadyPart(p)' = ReadyPart(p)
                       /\ ActivePart(p)' = ActivePart(p)
                       /\ CompilerPart(p)' = CompilerPart(p)
                       /\ DirectPart(p)' = DirectPart(p)
  BY <1>1 DEF HandPart, ReadyPart, ActivePart, Active, CompilerPart, DirectPart, RangeOf
<1>9. \A p \in Pages : p # q => OpenPart(p)' = OpenPart(p)  BY <1>1 DEF OpenPart
<1>10. \A p \in Pages : p # q => Live(p)' = Live(p)  BY <1>8, <1>9, SameLive
<1>11. Live(q)' = Live(q) \cup Fresh
  <2>1. Live(q) = OpenPart(q) \cup HandPart(q) \cup ReadyPart(q) \cup ActivePart(q)
                    \cup CompilerPart(q) \cup DirectPart(q)
    BY LiveParts
  <2>2. Live(q)' = OpenPart(q)' \cup HandPart(q)' \cup ReadyPart(q)' \cup ActivePart(q)'
                     \cup CompilerPart(q)' \cup DirectPart(q)'
    BY NextFeed DEF Live, OpenPart, HandPart, ReadyPart, ActivePart, CompilerPart, DirectPart
  <2> HIDE DEF Fresh
  <2> QED BY <1>7, <1>8, <2>1, <2>2
<1>12. \A j \in Fresh : events'[q][j] \in Events /\ ~Used(events'[q][j])
  <2> TAKE j \in Fresh
  <2>1. events'[q][j] > DirectSent
    <3> HIDE DEF c, n
    <3> QED BY <1>2, <1>4, <1>6
  <2>2. Used(events'[q][j]) => events'[q][j] <= DirectSent  BY <1>6 DEF EventsInv
  <2>3. events'[q][j] \in Int  BY <1>6, BoundAssumption DEF DirectEvents
  <2> QED BY <1>4, <1>6, <2>1, <2>2, <2>3 DEF Events
<1>13. \A j, k \in Fresh : events'[q][j] = events'[q][k] => j = k
  <2> TAKE j, k \in Fresh
  <2> HIDE DEF c, n
  <2>1. j \in Int /\ k \in Int /\ c \in Int  BY <1>2
  <2> QED BY <1>4, <1>6, <2>1
<1>14. \A j \in Fresh : /\ events'[q][j] \in DirectEvents => events'[q][j] <= DirectSent'
                        /\ events'[q][j] \in RingEvents => events'[q][j] <= RingSent'
  <2> TAKE j \in Fresh
  <2>1. events'[q][j] <= DirectSent'
    <3> HIDE DEF c, n
    <3> QED BY <1>2, <1>4, <1>6
  <2>2. events'[q][j] \notin RingEvents
    BY <1>6, BoundAssumption DEF DirectEvents, RingEvents
  <2> QED BY <2>1, <2>2
<1>15. \A e \in accepted' : e \in accepted \/ \E j \in Fresh : events'[q][j] = e
  <2> TAKE e \in accepted'
  <2>1. CASE \E i \in 1 .. n : e = stage[done + i]
    <3>1. PICK i \in 1 .. n : e = stage[done + i]  BY <2>1
    <3>2. c + i \in Fresh
      <4> HIDE DEF c, n
      <4> QED BY <1>2
    <3>3. events'[q][c + i] = e  BY <1>1, <1>3, <3>1
    <3> QED BY <3>2, <3>3
  <2> QED BY <1>1, <2>1
<1>16. \A p \in Pages : \A i \in Live(p) : events'[p][i] = events[p][i]  BY <1>1
<1>17. dispatched' = dispatched  BY <1>1
<1> HIDE DEF Fresh, c, n
<1> QED BY SMTT(30), <1>10, <1>11, <1>12, <1>13, <1>14, <1>15, <1>16, <1>17, Grown

\* compileOne makes the event it appends live, or drops it.
LEMMA CompileKeepsEvents ==
    ASSUME FeedInv, SourcesInv, EventsInv, [Next]_vars, CompileOne
    PROVE  EventsInv'
<1> USE DEF pool, pages, feeder, direct, compiler, audioVars, history
<1> DEFINE c == compiledCount
<1> PICK q \in Pages : q = held["compiler"]
  BY FeederFacts DEF CompileOne, FeedInv, CompilerInv
<1>1. /\ timed # NoEvent
      /\ \/ events' = [events EXCEPT ![q][c + 1] = timed] /\ compiledCount' = c + 1
         \/ UNCHANGED <<events, compiledCount>>
      /\ UNCHANGED <<hand, directState, ready, count, cursors, held, pc, dispatched, accepted>>
  BY DEF CompileOne
<1>2. /\ timed = RingSent + 1 /\ RingSent' = RingSent + 1 /\ RingSent \in Int
      /\ timed \in RingEvents /\ timed \in Int
  <2>1. timed \in RingEvents  BY <1>1, NumberFacts
  <2> QED BY <2>1, RingGrows, BoundAssumption DEF RingEvents
<1>3. c \in Nat /\ c + 1 \in Slots
  <2>1. c \in 0 .. drained /\ drained \in 0 .. PageCapacity /\ drained < PageCapacity
    BY DEF CompileOne, FeedInv, TypeOK, CompilerInv
  <2> QED BY <2>1, PageCapacityAssumption DEF Slots
<1>4. \A p \in Pages : /\ HandPart(p)' = HandPart(p) /\ ReadyPart(p)' = ReadyPart(p)
                       /\ ActivePart(p)' = ActivePart(p)
                       /\ OpenPart(p)' = OpenPart(p)
                       /\ DirectPart(p)' = DirectPart(p)
  BY <1>1 DEF HandPart, ReadyPart, ActivePart, Active, OpenPart, DirectPart, RangeOf
<1>5. \A p \in Pages : p # q => CompilerPart(p)' = CompilerPart(p)
  BY <1>1 DEF CompilerPart
<1>6. \A p \in Pages : p # q => Live(p)' = Live(p)  BY <1>4, <1>5, SameLive
<1>7. Live(q) = 1 .. c
  <2>1. Live(q) = OpenPart(q) \cup HandPart(q) \cup ReadyPart(q) \cup ActivePart(q)
                    \cup CompilerPart(q) \cup DirectPart(q)
    BY LiveParts
  <2>2. /\ OpenPart(q) = {} /\ HandPart(q) = {} /\ ReadyPart(q) = {} /\ ActivePart(q) = {}
        /\ CompilerPart(q) = 1 .. c /\ DirectPart(q) = {}
    BY PageIn DEF OpenPart, HandPart, ReadyPart, ActivePart, CompilerPart, DirectPart
  <2> QED BY <2>1, <2>2
<1>8. Live(q)' = Live(q) \cup CompilerPart(q)'
  <2>1. Live(q) = OpenPart(q) \cup HandPart(q) \cup ReadyPart(q) \cup ActivePart(q)
                    \cup CompilerPart(q) \cup DirectPart(q)
    BY LiveParts
  <2>2. Live(q)' = OpenPart(q)' \cup HandPart(q)' \cup ReadyPart(q)' \cup ActivePart(q)'
                     \cup CompilerPart(q)' \cup DirectPart(q)'
    BY DEF Live, OpenPart, HandPart, ReadyPart, ActivePart, CompilerPart, DirectPart
  <2>3. CompilerPart(q) \subseteq CompilerPart(q)'
    <3> HIDE DEF c
    <3>1. CompilerPart(q) = 1 .. c  BY DEF CompilerPart, c
    <3>2. CompilerPart(q)' = 1 .. compiledCount'  BY <1>1 DEF CompilerPart
    <3>3. compiledCount' = c \/ compiledCount' = c + 1  BY <1>1 DEF c
    <3> QED BY <1>3, <3>1, <3>2, <3>3
  <2> QED BY <1>4, <2>1, <2>2, <2>3
<1>9. CASE UNCHANGED <<events, compiledCount>>
  <2>1. CompilerPart(q)' = CompilerPart(q)  BY <1>1, <1>9 DEF CompilerPart
  <2> DEFINE Fresh == {}
  <2>2. Live(q)' = Live(q) \cup Fresh  BY <1>4, <2>1, SameLive
  <2>3. \A p \in Pages : \A i \in Live(p) : events'[p][i] = events[p][i]  BY <1>9
  <2>4. dispatched' = dispatched /\ accepted' = accepted /\ \A j \in Fresh : FALSE
    BY <1>1
  <2> HIDE DEF Fresh
  <2> QED BY <1>6, <2>2, <2>3, <2>4, Grown
<1>10. CASE events' = [events EXCEPT ![q][c + 1] = timed] /\ compiledCount' = c + 1
  <2>0. events \in [Pages -> [Slots -> Events \cup {NoEvent}]]  BY DEF FeedInv, TypeOK
  <2>1. Live(q)' = Live(q) \cup {c + 1}
    <3>1. CompilerPart(q)' = 1 .. c + 1  BY <1>1, <1>10 DEF CompilerPart
    <3>2. 1 .. c + 1 = (1 .. c) \cup {c + 1}
      <4> HIDE DEF c
      <4> QED BY <1>3
    <3> QED BY <1>7, <1>8, <3>1, <3>2
  <2>2. /\ \A p \in Pages : p # q => events'[p] = events[p]
        /\ \A i \in Slots : events'[q][i] = IF i = c + 1 THEN timed ELSE events[q][i]
    BY <1>3, <1>10, <2>0
  <2>3. \A p \in Pages : \A i \in Live(p) : events'[p][i] = events[p][i]
    <3> TAKE p \in Pages
    <3> TAKE i \in Live(p)
    <3>1. i \in Slots  BY LiveParts
    <3>2. p = q => i # c + 1
      <4> HIDE DEF c
      <4> QED BY <1>3, <1>7
    <3> QED BY <2>2, <3>1, <3>2
  <2>4. events'[q][c + 1] = timed  BY <1>3, <2>2
  <2>5. timed \in Events /\ ~Used(timed)
    <3>1. Used(timed) => timed <= RingSent  BY <1>2 DEF EventsInv
    <3> QED BY <1>2, <3>1 DEF Events
  <2>6. timed \notin DirectEvents  BY <1>2, BoundAssumption DEF DirectEvents, RingEvents
  <2> DEFINE Fresh == {c + 1}
  <2>7. \A j \in Fresh : events'[q][j] = timed /\ j = c + 1  BY <2>4
  <2>8. Live(q)' = Live(q) \cup Fresh  BY <2>1
  <2> HIDE DEF Fresh, c
  <2>9. \A j \in Fresh : events'[q][j] \in Events /\ ~Used(events'[q][j])  BY <2>5, <2>7
  <2>10. \A j, k \in Fresh : events'[q][j] = events'[q][k] => j = k  BY <2>7
  <2>11. \A j \in Fresh : /\ events'[q][j] \in DirectEvents => events'[q][j] <= DirectSent'
                          /\ events'[q][j] \in RingEvents => events'[q][j] <= RingSent'
    BY <1>2, <2>6, <2>7
  <2>12. \A e \in accepted' : e \in accepted \/ \E j \in Fresh : events'[q][j] = e  BY <1>1
  <2>13. dispatched' = dispatched  BY <1>1
  <2> QED BY SMTT(30), <1>6, <2>3, <2>8, <2>9, <2>10, <2>11, <2>12, <2>13, Grown
<1> QED BY <1>1, <1>9, <1>10

\* A run of slots is played: its events were not, and are not live elsewhere.
LEMMA DispatchKeepsEvents ==
    ASSUME FeedInv, SourcesInv, EventsInv, [Next]_vars, NEW q \in Pages, Dispatch(q)
    PROVE  EventsInv'
<1> USE DEF pool, pages, feeder, direct, compiler, audioVars, history
<1> PICK o \in Nat, k \in Nat : o = cursors[q].offset /\ k = cursors[q].count
  BY DispatchFacts
<1> PICK u \in o + 1 .. k :
      /\ dispatched' = [e \in Events |-> dispatched[e] + Cardinality(Played(q, u, e))]
      /\ \/ /\ u = k /\ Active' = Active \ {q}
            /\ cursors' = [p \in Active \ {q} |-> cursors[p]]
            /\ count' = [count EXCEPT ![q] = 0]
         \/ /\ u < k /\ Active' = Active
            /\ cursors'[q] = [offset |-> u, count |-> k]
            /\ \A p \in Active : p # q => cursors'[p] = cursors[p]
            /\ UNCHANGED count
  BY DispatchFacts
<1>1. /\ UNCHANGED <<ready, directState, hand, held, compiledCount, pc, events, accepted>>
      /\ q \in Active /\ count \in [Pages -> 0 .. PageCapacity]
  BY DEF Dispatch, FeedInv, TypeOK
<1>2. \A e : Played(q, u, e) = {i \in o + 1 .. u : events[q][i] = e}  BY DEF Played
<1>3. \A p \in Pages : /\ OpenPart(p)' = OpenPart(p) /\ HandPart(p)' = HandPart(p)
                       /\ CompilerPart(p)' = CompilerPart(p)
                       /\ DirectPart(p)' = DirectPart(p)
  BY <1>1 DEF OpenPart, HandPart, CompilerPart, DirectPart
<1>4. \A p \in Pages : ReadyPart(p)' = ReadyPart(p)
  <2> TAKE p \in Pages
  <2>1. q \notin RangeOf(ready)  BY <1>1, PageIn
  <2>2. RangeOf(ready)' = RangeOf(ready)  BY <1>1 DEF RangeOf
  <2>3. p # q => count'[p] = count[p]  BY <1>1
  <2> QED BY <2>1, <2>2, <2>3 DEF ReadyPart
<1>5. \A p \in Pages : p # q => ActivePart(p)' = ActivePart(p)
  <2> TAKE p \in Pages
  <2> HAVE p # q
  <2>1. p \in Active' <=> p \in Active  OBVIOUS
  <2>2. p \in Active => cursors'[p] = cursors[p]  OBVIOUS
  <2> QED BY <2>1, <2>2 DEF ActivePart
<1>6. \A p \in Pages : p # q => Live(p)' = Live(p)  BY <1>3, <1>4, <1>5, SameLive
<1>7. ActivePart(q) = o + 1 .. k /\ ActivePart(q)' = u + 1 .. k
  <2>1. ActivePart(q) = o + 1 .. k  BY <1>1 DEF ActivePart
  <2>2. CASE u = k /\ Active' = Active \ {q}
    <3>1. ActivePart(q)' = {}  BY <2>2 DEF ActivePart
    <3>2. u + 1 .. k = {}  BY <2>2
    <3> QED BY <2>1, <3>1, <3>2
  <2>3. CASE Active' = Active /\ cursors'[q] = [offset |-> u, count |-> k]
    BY <1>1, <2>1, <2>3 DEF ActivePart
  <2> QED BY <2>2, <2>3
<1>8. Live(q) = o + 1 .. k /\ Live(q)' = u + 1 .. k
  <2>1. Live(q) = OpenPart(q) \cup HandPart(q) \cup ReadyPart(q) \cup ActivePart(q)
                    \cup CompilerPart(q) \cup DirectPart(q)
    BY LiveParts
  <2>2. Live(q)' = OpenPart(q)' \cup HandPart(q)' \cup ReadyPart(q)' \cup ActivePart(q)'
                     \cup CompilerPart(q)' \cup DirectPart(q)'
    BY DEF Live, OpenPart, HandPart, ReadyPart, ActivePart, CompilerPart, DirectPart
  <2>3. /\ OpenPart(q) = {} /\ HandPart(q) = {} /\ ReadyPart(q) = {}
        /\ CompilerPart(q) = {} /\ DirectPart(q) = {}
    BY <1>1, PageIn DEF OpenPart, HandPart, ReadyPart, CompilerPart, DirectPart
  <2> QED BY <1>3, <1>4, <1>7, <2>1, <2>2, <2>3
<1>9. u \in Nat /\ u >= o + 1 /\ u <= k  OBVIOUS
\* The slots that stay live, and those that are played.
<1>10. \A p \in Pages : \A i \in Live(p)' :
         /\ i \in Live(p)
         /\ p = q => \A j \in o + 1 .. u : j \in Live(q) /\ i # j
  <2> TAKE p \in Pages
  <2> TAKE i \in Live(p)'
  <2>1. CASE p = q
    <3>1. i \in u + 1 .. k  BY <1>8, <2>1
    <3>2. i \in o + 1 .. k /\ \A j \in o + 1 .. u : j \in o + 1 .. k /\ i # j
      BY <1>9, <3>1
    <3> QED BY <1>8, <2>1, <3>2
  <2>2. CASE p # q  BY <1>6, <2>2
  <2> QED BY <2>1, <2>2
<1>11. \A j \in o + 1 .. u : j \in Live(q)  BY <1>8, <1>9
<1>12. \A p \in Pages : \A i \in Live(p) :
         i \in Live(p)' \/ (p = q /\ i \in o + 1 .. u)
  <2> TAKE p \in Pages
  <2> TAKE i \in Live(p)
  <2>1. CASE p = q
    <3>1. i \in o + 1 .. k  BY <1>8, <2>1
    <3>2. i \in o + 1 .. u \/ i \in u + 1 .. k  BY <1>9, <3>1
    <3> QED BY <1>8, <2>1, <3>2
  <2>2. CASE p # q  BY <1>6, <2>2
  <2> QED BY <2>1, <2>2
\* What a played event's count becomes.
<1>13. ASSUME NEW j \in o + 1 .. u
       PROVE  /\ events[q][j] \in Events /\ dispatched[events[q][j]] = 0
              /\ dispatched'[events[q][j]] = 1
  <2>1. events[q][j] \in Events /\ dispatched[events[q][j]] = 0
    BY <1>11 DEF EventsInv
  <2>2. Played(q, u, events[q][j]) = {j}  BY <1>2, <1>11 DEF EventsInv
  <2>3. Cardinality({j}) = 1  BY FS_Singleton
  <2>4. dispatched'[events[q][j]] = dispatched[events[q][j]] + 1  BY <2>1, <2>2, <2>3
  <2> QED BY <2>1, <2>4
<1>14. ASSUME NEW e \in Events, \A j \in o + 1 .. u : events[q][j] # e
       PROVE  dispatched'[e] = dispatched[e]
  <2>1. Played(q, u, e) = {}  BY <1>2, <1>14
  <2>2. Cardinality({}) = 0  BY FS_EmptySet
  <2>3. dispatched[e] \in Nat  BY DEF FeedInv, TypeOK
  <2> QED BY <2>1, <2>2, <2>3
<1>15. \A e \in Events : Used(e)' <=> Used(e)
  <2> TAKE e \in Events
  <2>0. dispatched[e] \in Nat  BY DEF FeedInv, TypeOK
  <2>1. Used(e)' <=> \/ dispatched'[e] > 0
                     \/ \E p \in Pages : \E i \in Live(p)' : events[p][i] = e
    BY <1>1 DEF Used
  <2>2. CASE \E j \in o + 1 .. u : events[q][j] = e
    <3>1. PICK j \in o + 1 .. u : events[q][j] = e  BY <2>2
    <3>2. dispatched'[e] = 1  BY <1>13, <3>1
    <3>3. Used(e)  BY <1>11, <3>1 DEF Used
    <3> QED BY <2>1, <3>2, <3>3
  <2>3. CASE \A j \in o + 1 .. u : events[q][j] # e
    <3>1. dispatched'[e] = dispatched[e]  BY <1>14, <2>3
    <3>2. (\E p \in Pages : \E i \in Live(p)' : events[p][i] = e)
          <=> (\E p \in Pages : \E i \in Live(p) : events[p][i] = e)
      BY <1>10, <1>12, <2>3
    <3> QED BY <2>1, <3>1, <3>2 DEF Used
  <2> QED BY <2>2, <2>3
<1>16. \A e \in Events : dispatched'[e] <= 1
  <2> TAKE e \in Events
  <2>1. CASE \E j \in o + 1 .. u : events[q][j] = e
    <3>1. dispatched'[e] = 1  BY <1>13, <2>1
    <3> QED BY <3>1
  <2>2. CASE \A j \in o + 1 .. u : events[q][j] # e
    <3>1. dispatched'[e] = dispatched[e]  BY <1>14, <2>2
    <3> QED BY <3>1 DEF EventsInv
  <2> QED BY <2>1, <2>2
<1>17. ASSUME NEW p \in Pages, NEW i \in Live(p)'
       PROVE  events'[p][i] \in Events /\ dispatched'[events'[p][i]] = 0
  <2>1. i \in Live(p)  BY <1>10
  <2>2. events[p][i] \in Events /\ dispatched[events[p][i]] = 0  BY <2>1 DEF EventsInv
  <2>3. ASSUME NEW j \in o + 1 .. u PROVE events[q][j] # events[p][i]
    <3>1. j \in Live(q)  BY <1>11
    <3>2. events[q][j] = events[p][i] => q = p /\ j = i
      BY <2>1, <3>1 DEF EventsInv
    <3> QED BY <1>10, <3>2
  <2>4. dispatched'[events[p][i]] = dispatched[events[p][i]]  BY <1>14, <2>2, <2>3
  <2> QED BY <1>1, <2>2, <2>4
<1>18. ASSUME NEW p \in Pages, NEW r \in Pages, NEW i \in Live(p)', NEW j \in Live(r)',
              events'[p][i] = events'[r][j]
       PROVE  p = r /\ i = j
  <2>1. i \in Live(p) /\ j \in Live(r)  BY <1>10
  <2> QED BY <1>1, <1>18, <2>1 DEF EventsInv
<1>19. \A e \in accepted' : Used(e)'
  <2>1. accepted \subseteq Events  BY DEF FeedInv, TypeOK, Events
  <2> QED BY <1>1, <1>15, <2>1 DEF EventsInv
<1>20. ASSUME NEW e \in DirectEvents, Used(e)' PROVE e <= DirectSent'
  <2>1. e \in Int  BY BoundAssumption DEF DirectEvents
  <2>2. e <= DirectSent  BY <1>15, <1>20 DEF EventsInv, Events
  <2> QED BY <2>1, <2>2, DirectGrows
<1>21. ASSUME NEW e \in RingEvents, Used(e)' PROVE e <= RingSent'
  <2>1. e \in Int  BY BoundAssumption DEF RingEvents
  <2>2. e <= RingSent  BY <1>15, <1>21 DEF EventsInv, Events
  <2> QED BY <2>1, <2>2, RingGrows
<1> QED BY <1>16, <1>17, <1>18, <1>19, <1>20, <1>21 DEF EventsInv

\* No step adds, plays or overwrites a live slot except these.
LEMMA OtherSteps ==
    ASSUME FeedInv, [Next]_vars, ~CommitEvents, ~CompileOne, \A p \in Pages : ~Dispatch(p)
    PROVE  /\ UNCHANGED <<dispatched, accepted>>
           /\ ~overrun' => \A p \in Pages : \A i \in Live(p) : events'[p][i] = events[p][i]
<1> USE DEF pool, pages, feeder, direct, compiler, audioVars, history
<1> DEFINE Goal ==
      /\ UNCHANGED <<dispatched, accepted>>
      /\ ~overrun' => \A p \in Pages : \A i \in Live(p) : events'[p][i] = events[p][i]
<1>1. ASSUME \/ Submit \/ RingSubmit \/ LoadState \/ OpenPage \/ CommitFails
             \/ SealPage \/ PopFirst \/ CompilerStops \/ PopNext
             \/ FinishPage \/ ReturnPage \/ FlushNothing \/ DetachOpenPage \/ TakeReady
             \/ CountTaken \/ SchedulePage \/ ImportEnds \/ CallbackEnds
             \/ Cancel \/ StopAudio \/ UNCHANGED vars
      PROVE  Goal
  <2>1. UNCHANGED <<dispatched, accepted, events>>
    BY <1>1 DEF Submit, RingSubmit, LoadState, OpenPage, CommitFails,
         SealPage, PopFirst, CompilerStops, PopNext, FinishPage, ReturnPage, FlushNothing,
         DetachOpenPage, TakeReady, CountTaken, SchedulePage, ImportEnds, CallbackEnds,
         Cancel, StopAudio, vars
  <2> QED BY <2>1
<1>2. ASSUME NEW f \in Feeders,
             \/ AcquirePage(f) \/ AcquireFails(f) \/ CheckCancelled(f) \/ ObserveEpoch(f)
             \/ Wake(f) \/ TimeOut(f) \/ PublishPage(f) \/ CountPublished(f)
      PROVE  Goal
  <2>1. UNCHANGED <<dispatched, accepted, events>>
    BY <1>2 DEF AcquirePage, AcquireFails, CheckCancelled, ObserveEpoch, Wake, TimeOut,
         Resume, PublishPage, CountPublished
  <2> QED BY <2>1
<1>3. ASSUME CopyEvents PROVE Goal
  <2> PICK q \in Pages : q = snapshot.page  BY <1>3, TakenFacts DEF CopyEvents
  <2>1. /\ UNCHANGED <<dispatched, accepted>>
        /\ events' = [events EXCEPT ![q] =
             [i \in Slots |-> IF i \in Behind THEN stage[done + i - snapshot.count]
                              ELSE events[q][i]]]
        /\ overrun' = (overrun \/ Live(q) \cap Behind # {})
    BY <1>3 DEF CopyEvents
  <2>2. events \in [Pages -> [Slots -> Events \cup {NoEvent}]]  BY DEF FeedInv, TypeOK
  <2>3. ASSUME ~overrun', NEW p \in Pages, NEW i \in Live(p)
        PROVE  events'[p][i] = events[p][i]
    <3>1. i \in Slots  BY LiveParts
    <3>2. CASE p = q
      <4>1. i \notin Behind  BY <2>1, <2>3, <3>2
      <4> QED BY <2>1, <2>2, <3>1, <3>2, <4>1
    <3>3. CASE p # q  BY <2>1, <2>2, <3>3
    <3> QED BY <3>2, <3>3
  <2> QED BY <2>1, <2>3
<1> QED BY <1>1, <1>2, <1>3, Steps

LEMMA NextEvents ==
    ASSUME IInv, [Next]_vars, ~overrun'
    PROVE  EventsInv'
<1> USE DEF pool, pages, feeder, direct, compiler, audioVars, history
<1>0. FeedInv /\ SourcesInv /\ CopiedInv  BY DEF IInv
<1>1. ~overrun
  <2>1. overrun => overrun'
    <3> SUFFICES ASSUME overrun PROVE overrun'  OBVIOUS
    <3>1. CASE \/ Submit \/ RingSubmit \/ LoadState \/ OpenPage \/ CommitFails
               \/ SealPage \/ PopFirst \/ CompilerStops \/ PopNext \/ CommitEvents
               \/ FinishPage \/ ReturnPage \/ FlushNothing \/ DetachOpenPage \/ TakeReady
               \/ CountTaken \/ SchedulePage \/ ImportEnds \/ CallbackEnds \/ CompileOne
               \/ (\E p \in Pages : Dispatch(p))
               \/ Cancel \/ StopAudio \/ UNCHANGED vars
      BY <3>1 DEF Submit, RingSubmit, LoadState, OpenPage, CommitFails,
           SealPage, PopFirst, CompilerStops, PopNext, FinishPage, ReturnPage, FlushNothing,
           DetachOpenPage, TakeReady, CountTaken, SchedulePage, ImportEnds, CallbackEnds,
           Cancel, StopAudio, CompileOne, CommitEvents, Dispatch, vars
    <3>2. ASSUME NEW f \in Feeders,
                 \/ AcquirePage(f) \/ AcquireFails(f) \/ CheckCancelled(f)
                 \/ ObserveEpoch(f) \/ Wake(f) \/ TimeOut(f) \/ PublishPage(f)
                 \/ CountPublished(f)
          PROVE  overrun'
      BY <3>2 DEF AcquirePage, AcquireFails, CheckCancelled, ObserveEpoch, Wake, TimeOut,
           Resume, PublishPage, CountPublished
    <3>3. CASE CopyEvents  BY <3>3 DEF CopyEvents
    <3> QED BY <3>1, <3>2, <3>3, Steps
  <2> QED BY <2>1
<1>2. EventsInv  BY <1>1 DEF IInv
<1>3. CASE CommitEvents  BY <1>0, <1>2, <1>3, CommitKeepsEvents
<1>4. CASE CompileOne  BY <1>0, <1>2, <1>4, CompileKeepsEvents
<1>5. CASE \E p \in Pages : Dispatch(p)  BY <1>0, <1>2, <1>5, DispatchKeepsEvents
<1>6. CASE ~CommitEvents /\ ~CompileOne /\ ~ \E p \in Pages : Dispatch(p)
  <2> PICK q \in Pages : TRUE  BY PageAssumption DEF Pages
  <2> DEFINE Fresh == {}
  <2>1. \A p \in Pages : Live(p)' = Live(p)  BY <1>0, <1>6, NextLive
  <2>2. /\ dispatched' = dispatched /\ accepted' = accepted
        /\ \A p \in Pages : \A i \in Live(p) : events'[p][i] = events[p][i]
    BY <1>0, <1>6, OtherSteps
  <2>3. Live(q)' = Live(q) \cup Fresh /\ \A j \in Fresh : FALSE  BY <2>1
  <2> HIDE DEF Fresh
  <2> QED BY <1>0, <1>2, <2>1, <2>2, <2>3, Grown
<1> QED BY <1>3, <1>4, <1>5, <1>6

\* The inductive invariant: places, types and the feeders' events; and, until a
\* copy of the producer ran over a page, no event twice.
THEOREM Invariant == Spec => []IInv
<1>1. Init => IInv
  <2> SUFFICES ASSUME Init PROVE IInv  OBVIOUS
  <2>1. FeedInv  BY InitFeed
  <2>2. Len(<< >>) = 0  OBVIOUS
  <2>3. SourcesInv
    BY <2>2, BoundAssumption DEF Init, SourcesInv, Feeders
  <2>4. CopiedInv  BY DEF Init, CopiedInv
  <2>5. \A p \in Pages : Live(p) = {}
    <3> TAKE p \in Pages
    <3>1. Active = {} /\ RangeOf(ready) = {}
      <4>1. ready = << >> /\ cursors = << >>  BY DEF Init
      <4>2. << >> \in Seq({})  BY EmptySeq
      <4>3. DOMAIN << >> = 1 .. 0  BY <2>2, <4>2, LenProperties
      <4> QED BY <2>2, <4>1, <4>3 DEF Active, RangeOf
    <3>2. /\ OpenPart(p) = {} /\ HandPart(p) = {} /\ ReadyPart(p) = {}
          /\ ActivePart(p) = {} /\ CompilerPart(p) = {} /\ DirectPart(p) = {}
      BY <3>1, NoPageAssumption
      DEF Init, None, Feeders, OpenPart, HandPart, ReadyPart, ActivePart, CompilerPart,
          DirectPart
    <3> QED BY <2>1, <3>2, LiveParts
  <2>6. \A e \in Events : dispatched[e] = 0  BY DEF Init
  <2>7. \A e \in Events : ~Used(e)  BY <2>5, <2>6 DEF Used
  <2>8. accepted = {}  BY DEF Init
  <2>9. EventsInv  BY <2>5, <2>6, <2>7, <2>8 DEF EventsInv, Events
  <2> QED BY <2>1, <2>3, <2>4, <2>9 DEF IInv
<1>2. IInv /\ [Next]_vars => IInv'
  <2> SUFFICES ASSUME IInv, [Next]_vars PROVE IInv'  OBVIOUS
  <2>1. FeedInv' /\ SourcesInv' /\ CopiedInv'
    BY NextFeed, NextSources, NextCopied DEF IInv
  <2>2. ~overrun' => EventsInv'  BY NextEvents
  <2> QED BY <2>1, <2>2 DEF IInv
<1> QED BY <1>1, <1>2, PTL DEF Spec

\* An event the direct producer committed is in the feed or was dispatched, once,
\* and no event of either feeder is anywhere twice, unless a copy of the producer
\* ran over a page that was taken from it meanwhile.
THEOREM NothingLostNorDoubled == Spec => []Conserved
<1>1. IInv => Conserved
  <2> SUFFICES ASSUME IInv, ~overrun, NEW e \in Events
               PROVE  Copies(e) <= 1 /\ (e \in accepted => Copies(e) = 1)
    BY DEF Conserved
  <2>1. FeedInv /\ EventsInv  BY DEF IInv
  <2>2. dispatched[e] \in Nat /\ dispatched[e] <= 1
    BY <2>1 DEF FeedInv, TypeOK, EventsInv
  <2> DEFINE H == Holding(e)
  <2>3. \A s \in H : /\ s \in Pages \X Slots /\ s[2] \in Live(s[1])
                     /\ events[s[1]][s[2]] = e
    BY DEF Holding
  <2>4. \A p \in Pages : \A i \in Live(p) : events[p][i] = e => <<p, i>> \in H
    <3> TAKE p \in Pages
    <3> TAKE i \in Live(p)
    <3> HAVE events[p][i] = e
    <3>1. i \in Slots  BY <2>1, LiveParts
    <3>2. <<p, i>> \in Pages \X Slots  BY <3>1
    <3> QED BY <3>2 DEF Holding
  <2>5. \A s, t \in H : s = t
    <3> TAKE s, t \in H
    <3>1. /\ s[1] \in Pages /\ t[1] \in Pages
          /\ s = <<s[1], s[2]>> /\ t = <<t[1], t[2]>>
      BY <2>3
    <3>2. s[1] = t[1] /\ s[2] = t[2]  BY <2>1, <2>3, <3>1 DEF EventsInv
    <3> QED BY <3>1, <3>2
  <2>6. H # {} => dispatched[e] = 0
    <3> SUFFICES ASSUME NEW s \in H PROVE dispatched[e] = 0  OBVIOUS
    <3>1. s[1] \in Pages  BY <2>3
    <3> QED BY <2>1, <2>3, <3>1 DEF EventsInv
  <2>7. e \in accepted /\ dispatched[e] = 0 => H # {}
    <3> SUFFICES ASSUME e \in accepted, dispatched[e] = 0 PROVE H # {}  OBVIOUS
    <3>1. Used(e)  BY <2>1 DEF EventsInv
    <3>2. PICK p \in Pages : \E i \in Live(p) : events[p][i] = e  BY <3>1 DEF Used
    <3> QED BY <2>4, <3>2
  <2>8. Copies(e) = dispatched[e] + Cardinality(H)  BY DEF Copies
  <2> HIDE DEF H
  <2>9. CASE H = {}
    <3>1. Cardinality(H) = 0  BY <2>9, FS_EmptySet
    <3> QED BY <2>2, <2>7, <2>8, <2>9, <3>1
  <2>10. CASE H # {}
    <3>1. PICK s \in H : H = {s}  BY <2>5, <2>10
    <3>2. Cardinality({s}) = 1  BY FS_Singleton
    <3> QED BY <2>6, <2>8, <2>10, <3>1, <3>2
  <2> QED BY <2>9, <2>10
<1> QED BY <1>1, Invariant, PTL
=============================================================================
