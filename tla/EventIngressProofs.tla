------------------------- MODULE EventIngressProofs -------------------------
(***************************************************************************)
(* Proofs about EventIngress, for any threads, any calls, any capacities   *)
(* and any number of events.  What is said of the termination fences holds *)
(* until half of the sequences have been given out: after that the fence   *)
(* of a panic stands for later events too.                                 *)
(*                                                                         *)
(* The argument: an event is open while its thread has it in hand, pushed  *)
(* while it is in one of the places the compiler and the audio thread keep,*)
(* and each step moves events from one place to the next.  Sequences from  *)
(* one source grow with the events they number, and the fence is past the  *)
(* sequence of every panic that was pushed.                                *)
(***************************************************************************)
EXTENDS EventIngress, FiniteSetTheorems, SequenceTheorems, TLAPS

EventRecords ==
    [kind : Kinds, sequence : Nat, leased : BOOLEAN, before : SUBSET (Nat \ {0})]

\* The type invariant, by the component that writes the variables.
NumberTypes ==
    /\ nextSequence \in Nat /\ leaseNext \in Nat /\ leaseEnd \in Nat
    /\ leased \in Nat /\ fastSubmitted \in Nat
    /\ notAccepted \in Nat /\ fence \in Nat /\ asked \in Nat
    /\ owner \in Threads \cup {NoThread, Disabled}
LaneTypes ==
    /\ lanes \in [Sources -> Seq(Ids)]
    /\ \A s \in Sources : Len(lanes[s]) <= Capacity(s)
ThreadLabels == {"idle", "check", "number", "prepare", "push", "one", "full", "wait"}
ThreadTypes ==
    /\ pc \in [Threads -> ThreadLabels]
    /\ path \in [Threads -> {"single", "mixed", "block"}]
    /\ todo \in [Threads -> Seq(Kinds)] /\ prepared \in [Threads -> Seq(Ids)]
CompilerTypes ==
    /\ compiler \in {"pop", "poll", "take", "publish", "ended"}
    /\ heads \in [Sources -> Ids \cup {NoEvent}] /\ unpolled \subseteq Sources
    /\ poll \in 0 .. PollEvery - 1 /\ page \subseteq Ids
AudioTypes ==
    /\ ready \subseteq Ids /\ due \subseteq Ids /\ runFence \in Nat \cup {NoRun}
    /\ clock \in BOOLEAN /\ cancelProducers \in BOOLEAN /\ sessionCancelled \in BOOLEAN
HistoryTypes ==
    events \in Seq(EventRecords) /\ fate \in Seq(Fates) /\ Len(fate) = Len(events)
Types == /\ NumberTypes /\ LaneTypes /\ ThreadTypes /\ CompilerTypes /\ AudioTypes
         /\ HistoryTypes

\* What a submitting thread has where it is.
ThreadInv(t) ==
    /\ pc[t] = "idle" => todo[t] = <<>> /\ prepared[t] = <<>>
    /\ pc[t] = "check" => todo[t] # <<>> /\ prepared[t] = <<>> /\ path[t] # "single"
    /\ pc[t] = "number" => todo[t] # <<>> /\ Len(prepared[t]) < Chunk
    /\ pc[t] = "number" /\ path[t] # "mixed" => prepared[t] = <<>>
    /\ pc[t] \in {"prepare", "push", "full", "wait"} => prepared[t] # <<>>
    /\ pc[t] = "prepare" => path[t] # "block"
    /\ pc[t] = "one" => path[t] = "mixed"
    /\ Len(prepared[t]) <= Chunk
    /\ path[t] = "single" => Len(prepared[t]) <= 1
    /\ path[t] = "mixed" => t = owner
    /\ path[t] = "block" => /\ ToSet(todo[t]) \subseteq {"loud"}
                            /\ \A e \in ToSet(prepared[t]) : events[e].kind = "loud"
ThreadsInv == \A t \in Threads : ThreadInv(t)

\* The merge looks at sources whose head it has taken, and a page has room
\* while it is being filled.
MergeInv ==
    /\ unpolled \subseteq EmptyHeads
    /\ IsFiniteSet(page) /\ Cardinality(page) <= PageCapacity
    /\ compiler \in {"pop", "poll", "take"} => Cardinality(page) < PageCapacity

\* No event is twice in the threads' hands, in the queues or among the heads.
HandsInv ==
    /\ \A t \in Threads : IsInjective(prepared[t])
    /\ \A t, u \in Threads : t # u => ToSet(prepared[t]) \cap ToSet(prepared[u]) = {}
QueuesInv ==
    /\ \A s \in Sources : IsInjective(lanes[s])
    /\ \A s, r \in Sources : s # r => ToSet(lanes[s]) \cap ToSet(lanes[r]) = {}
HeadsInv == \A s, r \in Sources : heads[s] # NoEvent /\ heads[s] = heads[r] => s = r
DistinctInv == HandsInv /\ QueuesInv /\ HeadsInv

\* The place of an event.
Places == {"hand", "lane", "head", "page", "ready", "due"}
In(e, k) ==
    \/ k = "hand" /\ \E t \in Threads : e \in ToSet(prepared[t])
    \/ k = "lane" /\ \E s \in Sources : e \in ToSet(lanes[s])
    \/ k = "head" /\ \E s \in Sources : heads[s] = e
    \/ k = "page" /\ e \in page
    \/ k = "ready" /\ e \in ready
    \/ k = "due" /\ e \in due
PlacesInv ==
    /\ \A e \in Ids : fate[e] = "open" <=> In(e, "hand")
    /\ \A e \in Ids : fate[e] = "pushed" <=> \E k \in Places \ {"hand"} : In(e, k)
    /\ \A e \in Ids : \A k, l \in Places : In(e, k) /\ In(e, l) => k = l

WhereInv == DistinctInv /\ PlacesInv
EventsInv == Types /\ ThreadsInv /\ MergeInv /\ WhereInv

\* The counters tell what was numbered, and what was then refused.
Shed == {e \in Ids : fate[e] = "shed"}
AccountsInv ==
    /\ Submitted = Len(events)
    /\ ~Cancelled => notAccepted = Cardinality(Shed) /\ \A e \in Ids : fate[e] # "cancelled"

\* The sequences of one source grow.
SequencesInv ==
    /\ leaseNext <= leaseEnd /\ leaseEnd <= nextSequence
    /\ owner \notin Threads => leaseEnd = 0 /\ \A e \in Ids : ~events[e].leased
    /\ \A e \in Ids : events[e].sequence < IF events[e].leased THEN leaseNext ELSE nextSequence
    /\ \A d, e \in Ids : d < e /\ events[d].leased = events[e].leased =>
         events[d].sequence < events[e].sequence
    /\ \A e \in Ids : \A d \in events[e].before : d < e

\* A fence is that of a panic; it is past those that were pushed, also while
\* their thread has them in hand, and the fence of a run of notes past those
\* that were played.
Panic(p) == events[p].kind = "panic"
FenceInv ==
    \A f \in {fence, runFence} \ {0, NoRun} :
        \E p \in Ids : Panic(p) /\ f = events[p].sequence + 1
HeldInv ==
    \A t \in Threads : \A p \in ToSet(prepared[t]) :
        Panic(p) /\ (pc[t] = "prepare" => p # prepared[t][Len(prepared[t])]) =>
            events[p].sequence < fence
PushedInv ==
    \A p \in Ids : Panic(p) /\ fate[p] \in {"pushed", "played"} => events[p].sequence < fence
PlayedInv ==
    \A p \in Ids : Panic(p) /\ fate[p] = "played" /\ runFence # NoRun =>
        events[p].sequence < runFence
FencesInv == FenceInv /\ HeldInv /\ PushedInv /\ PlayedInv

\* Fewer than half of the sequences have been given out.
Unwrapped == nextSequence < SequenceWidth \div 2
FencedInv ==
    EventsInv /\ (Unwrapped => SequencesInv /\ FencesInv /\ NewerNotesSurvive)

-----------------------------------------------------------------------------
(* Lemmas about sequences.                                                 *)

LEMMA EmptyFacts ==
    /\ ToSet(<<>>) = {} /\ IsInjective(<<>>) /\ Len(<<>>) = 0 /\ \A S : <<>> \in Seq(S)
    /\ \A S : \A s \in Seq(S) : s = <<>> <=> Len(s) = 0
<1>1. <<>> \in Seq({}) /\ Len(<<>>) = 0 /\ \A S : <<>> \in Seq(S)  BY EmptySeq
<1>2. DOMAIN <<>> = {}  BY <1>1, LenProperties
<1>3. ToSet(<<>>) = {} /\ IsInjective(<<>>)  BY <1>2 DEF ToSet, IsInjective
<1>4. ASSUME NEW S, NEW s \in Seq(S) PROVE s = <<>> <=> Len(s) = 0  BY EmptySeq
<1> QED BY <1>1, <1>3, <1>4

LEMMA SeqElements ==
    ASSUME NEW S, NEW s \in Seq(S)
    PROVE  /\ DOMAIN s = 1 .. Len(s) /\ Len(s) \in Nat /\ ToSet(s) \subseteq S
           /\ \A i \in 1 .. Len(s) : s[i] \in S /\ s[i] \in ToSet(s)
           /\ \A e \in ToSet(s) : \E i \in 1 .. Len(s) : e = s[i]
<1>1. DOMAIN s = 1 .. Len(s) /\ Len(s) \in Nat  BY LenProperties
<1>2. \A i \in 1 .. Len(s) : s[i] \in S  BY <1>1, ElementOfSeq
<1> QED BY <1>1, <1>2 DEF ToSet

LEMMA FunctionIsSeq ==
    ASSUME NEW S, NEW n \in Nat, NEW f \in [1 .. n -> S]
    PROVE  f \in Seq(S) /\ Len(f) = n
<1>1. f \in Seq(S)  BY SeqDef
<1>2. DOMAIN f = 1 .. n /\ DOMAIN f = 1 .. Len(f) /\ Len(f) \in Nat
  BY <1>1, LenProperties
<1> QED BY <1>1, <1>2

\* One sequence after another.
LEMMA JoinFacts ==
    ASSUME NEW S, NEW s \in Seq(S), NEW u \in Seq(S)
    PROVE  /\ s \o u \in Seq(S) /\ Len(s \o u) = Len(s) + Len(u)
           /\ \A i \in 1 .. Len(s) + Len(u) :
                (s \o u)[i] = IF i <= Len(s) THEN s[i] ELSE u[i - Len(s)]
           /\ ToSet(s \o u) = ToSet(s) \cup ToSet(u)
           /\ IsInjective(s) /\ IsInjective(u) /\ ToSet(s) \cap ToSet(u) = {}
                => IsInjective(s \o u)
<1> DEFINE v == s \o u
<1>1. /\ v \in Seq(S) /\ Len(v) = Len(s) + Len(u)
      /\ \A i \in 1 .. Len(s) + Len(u) :
           v[i] = IF i <= Len(s) THEN s[i] ELSE u[i - Len(s)]
  BY ConcatProperties
<1>2. /\ DOMAIN s = 1 .. Len(s) /\ DOMAIN u = 1 .. Len(u) /\ DOMAIN v = 1 .. Len(v)
      /\ Len(s) \in Nat /\ Len(u) \in Nat
  BY <1>1, SeqElements
<1> HIDE DEF v
<1>3. ASSUME NEW i \in 1 .. Len(v), ~(i <= Len(s))
      PROVE  i - Len(s) \in 1 .. Len(u) /\ v[i] = u[i - Len(s)]
  BY <1>1, <1>2, <1>3
<1>4. ASSUME NEW i \in 1 .. Len(v), i <= Len(s)
      PROVE  i \in 1 .. Len(s) /\ v[i] = s[i]
  BY <1>1, <1>2, <1>4
<1>5. ASSUME NEW i \in 1 .. Len(u)
      PROVE  Len(s) + i \in 1 .. Len(v) /\ v[Len(s) + i] = u[i]
  <2>1. Len(s) + i \in 1 .. Len(v) /\ ~(Len(s) + i <= Len(s)) /\ (Len(s) + i) - Len(s) = i
    BY <1>1, <1>2
  <2> QED BY <2>1, <1>3
<1>6. \A i \in 1 .. Len(s) : i \in 1 .. Len(v) /\ v[i] = s[i]  BY <1>1, <1>2
<1>7. ToSet(v) = ToSet(s) \cup ToSet(u)
  <2>1. ToSet(v) \subseteq ToSet(s) \cup ToSet(u)  BY <1>2, <1>3, <1>4 DEF ToSet
  <2>2. ToSet(s) \subseteq ToSet(v)  BY <1>2, <1>6 DEF ToSet
  <2>3. ToSet(u) \subseteq ToSet(v)  BY <1>2, <1>5 DEF ToSet
  <2> QED BY <2>1, <2>2, <2>3
<1>8. ASSUME IsInjective(s), IsInjective(u), ToSet(s) \cap ToSet(u) = {},
             NEW i \in 1 .. Len(v), NEW j \in 1 .. Len(v), v[i] = v[j]
      PROVE  i = j
  <2>1. CASE i <= Len(s) /\ j <= Len(s)  BY <2>1, <1>2, <1>4, <1>8 DEF IsInjective
  <2>2. CASE ~(i <= Len(s)) /\ ~(j <= Len(s))
    <3>1. i - Len(s) = j - Len(s)  BY <2>2, <1>2, <1>3, <1>8 DEF IsInjective
    <3> QED BY <3>1, <1>2
  <2>3. CASE i <= Len(s) /\ ~(j <= Len(s))
    <3>1. v[i] \in ToSet(s) /\ v[j] \in ToSet(u)  BY <2>3, <1>2, <1>3, <1>4 DEF ToSet
    <3> QED BY <3>1, <1>8
  <2>4. CASE ~(i <= Len(s)) /\ j <= Len(s)
    <3>1. v[j] \in ToSet(s) /\ v[i] \in ToSet(u)  BY <2>4, <1>2, <1>3, <1>4 DEF ToSet
    <3> QED BY <3>1, <1>8
  <2> QED BY <2>1, <2>2, <2>3, <2>4
<1>9. IsInjective(s) /\ IsInjective(u) /\ ToSet(s) \cap ToSet(u) = {} => IsInjective(v)
  BY <1>2, <1>8 DEF IsInjective
<1> QED BY <1>1, <1>7, <1>9 DEF v

\* A part of a sequence.
LEMMA PartFacts ==
    ASSUME NEW S, NEW s \in Seq(S), NEW m \in Nat, NEW n \in Nat, m >= 1, n <= Len(s)
    PROVE  /\ SubSeq(s, m, n) \in Seq(S)
           /\ Len(SubSeq(s, m, n)) = IF m <= n THEN n - m + 1 ELSE 0
           /\ \A i \in 1 .. n - m + 1 : SubSeq(s, m, n)[i] = s[m + i - 1]
           /\ ToSet(SubSeq(s, m, n)) = {s[i] : i \in m .. n}
           /\ IsInjective(s) => IsInjective(SubSeq(s, m, n))
<1> DEFINE v == SubSeq(s, m, n)
<1>1. /\ DOMAIN s = 1 .. Len(s) /\ Len(s) \in Nat
      /\ \A i \in 1 .. Len(s) : s[i] \in S
  BY SeqElements
<1>2. /\ v \in Seq(S) /\ Len(v) = IF m <= n THEN n - m + 1 ELSE 0
      /\ \A i \in 1 .. n - m + 1 : v[i] = s[m + i - 1]
  BY <1>1, SubSeqProperties
<1>3. DOMAIN v = 1 .. Len(v)  BY <1>2, SeqElements
<1> HIDE DEF v
<1>4. \A i \in 1 .. Len(v) : m + i - 1 \in m .. n /\ v[i] = s[m + i - 1]
  <2> TAKE i \in 1 .. Len(v)
  <2>1. m <= n /\ Len(v) = n - m + 1  BY <1>1, <1>2
  <2>2. i \in 1 .. n - m + 1 /\ m + i - 1 \in m .. n  BY <2>1
  <2> QED BY <2>2, <1>2
<1>5. \A j \in m .. n : j - m + 1 \in 1 .. Len(v) /\ v[j - m + 1] = s[j]
  <2> TAKE j \in m .. n
  <2>1. j - m + 1 \in 1 .. Len(v) /\ m + (j - m + 1) - 1 = j  BY <1>2
  <2> QED BY <2>1, <1>4
<1>6. ToSet(v) = {s[i] : i \in m .. n}
  <2>1. ToSet(v) \subseteq {s[i] : i \in m .. n}
    <3> SUFFICES ASSUME NEW i \in 1 .. Len(v) PROVE v[i] \in {s[j] : j \in m .. n}
      BY <1>3 DEF ToSet
    <3>1. m + i - 1 \in m .. n /\ v[i] = s[m + i - 1]  BY <1>4
    <3> QED BY <3>1
  <2>2. {s[i] : i \in m .. n} \subseteq ToSet(v)
    <3> SUFFICES ASSUME NEW j \in m .. n PROVE s[j] \in ToSet(v)  OBVIOUS
    <3>1. j - m + 1 \in 1 .. Len(v) /\ v[j - m + 1] = s[j]  BY <1>5
    <3> QED BY <3>1, <1>3 DEF ToSet
  <2> QED BY <2>1, <2>2
<1>7. IsInjective(s) => IsInjective(v)
  <2> SUFFICES ASSUME IsInjective(s), NEW i \in 1 .. Len(v), NEW j \in 1 .. Len(v),
                      v[i] = v[j]
               PROVE  i = j
    BY <1>3 DEF IsInjective
  <2>1. m + i - 1 = m + j - 1
    <3>1. m + i - 1 \in 1 .. Len(s) /\ m + j - 1 \in 1 .. Len(s)  BY <1>1, <1>2
    <3> QED BY <3>1, <1>1, <1>4 DEF IsInjective
  <2> QED BY <2>1
<1> QED BY <1>2, <1>6, <1>7 DEF v

\* A sequence without its first, or its last, element.
LEMMA TailFacts ==
    ASSUME NEW S, NEW s \in Seq(S), s # <<>>
    PROVE  /\ Head(s) \in S /\ Head(s) \in ToSet(s) /\ Head(s) = s[1]
           /\ Tail(s) \in Seq(S) /\ Len(Tail(s)) = Len(s) - 1 /\ Len(s) >= 1
           /\ ToSet(Tail(s)) \subseteq ToSet(s)
           /\ IsInjective(s) => /\ IsInjective(Tail(s))
                                /\ ToSet(Tail(s)) = ToSet(s) \ {Head(s)}
<1>1. /\ Head(s) \in S /\ Tail(s) \in Seq(S) /\ Head(s) = s[1] /\ Len(s) >= 1
      /\ Len(Tail(s)) = Len(s) - 1 /\ Len(s) \in Nat
      /\ \A i \in 1 .. Len(Tail(s)) : Tail(s)[i] = s[i + 1]
  BY HeadTailProperties, SeqElements, EmptyFacts
<1>2. DOMAIN s = 1 .. Len(s) /\ DOMAIN Tail(s) = 1 .. Len(Tail(s))
  BY <1>1, SeqElements
<1>3. Head(s) \in ToSet(s)  BY <1>1, <1>2 DEF ToSet
<1>4. \A i \in 1 .. Len(Tail(s)) : i + 1 \in 1 .. Len(s) /\ i + 1 # 1  BY <1>1
<1>5. ToSet(Tail(s)) \subseteq ToSet(s)  BY <1>1, <1>2, <1>4 DEF ToSet
<1>6. ASSUME IsInjective(s) PROVE IsInjective(Tail(s))
  BY <1>1, <1>2, <1>4, <1>6 DEF IsInjective
<1>7. ASSUME IsInjective(s) PROVE Head(s) \notin ToSet(Tail(s))
  BY <1>1, <1>2, <1>4, <1>7 DEF IsInjective, ToSet
<1>8. ToSet(s) \subseteq {Head(s)} \cup ToSet(Tail(s))
  <2>1. ASSUME NEW i \in 1 .. Len(s), i # 1 PROVE s[i] \in ToSet(Tail(s))
    <3>1. i - 1 \in 1 .. Len(Tail(s)) /\ (i - 1) + 1 = i  BY <1>1, <2>1
    <3>2. Tail(s)[i - 1] = s[i]  BY <3>1, <1>1
    <3> QED BY <3>1, <3>2, <1>2 DEF ToSet
  <2> QED BY <2>1, <1>1, <1>2 DEF ToSet
<1> QED BY <1>1, <1>3, <1>5, <1>6, <1>7, <1>8

LEMMA FrontFacts ==
    ASSUME NEW S, NEW s \in Seq(S), s # <<>>
    PROVE  /\ s[Len(s)] \in S /\ s[Len(s)] \in ToSet(s) /\ Len(s) >= 1
           /\ Front(s) \in Seq(S) /\ Len(Front(s)) = Len(s) - 1
           /\ ToSet(Front(s)) \subseteq ToSet(s)
           /\ IsInjective(s) => /\ IsInjective(Front(s))
                                /\ ToSet(Front(s)) = ToSet(s) \ {s[Len(s)]}
<1>1. /\ DOMAIN s = 1 .. Len(s) /\ Len(s) \in Nat /\ Len(s) >= 1
      /\ \A i \in 1 .. Len(s) : s[i] \in S /\ s[i] \in ToSet(s)
      /\ \A e \in ToSet(s) : \E i \in 1 .. Len(s) : e = s[i]
  BY SeqElements, EmptyFacts
<1>2. Len(s) - 1 \in Nat /\ Len(s) - 1 <= Len(s) /\ Len(s) \in 1 .. Len(s)  BY <1>1
<1>3. /\ Front(s) \in Seq(S) /\ ToSet(Front(s)) = {s[i] : i \in 1 .. Len(s) - 1}
      /\ Len(Front(s)) = Len(s) - 1
      /\ IsInjective(s) => IsInjective(Front(s))
  BY <1>1, <1>2, PartFacts DEF Front
<1> DEFINE n == Len(s)
<1>0. n \in Nat  BY <1>1
<1> HIDE DEF n
<1>a. \A i \in 1 .. n : i = n \/ i \in 1 .. n - 1  BY <1>0
<1>b. \A i \in 1 .. n - 1 : i \in 1 .. n /\ i # n  BY <1>0
<1>4. \A i \in 1 .. Len(s) : i = Len(s) \/ i \in 1 .. Len(s) - 1  BY <1>a DEF n
<1>5. \A i \in 1 .. Len(s) - 1 : i \in 1 .. Len(s) /\ i # Len(s)  BY <1>b DEF n
<1>6. ToSet(Front(s)) \subseteq ToSet(s)  BY <1>1, <1>3, <1>5
<1>7. IsInjective(s) => s[Len(s)] \notin ToSet(Front(s))
  BY <1>1, <1>2, <1>3, <1>5 DEF IsInjective
<1>8. ToSet(s) \subseteq ToSet(Front(s)) \cup {s[Len(s)]}  BY <1>1, <1>3, <1>4
<1> QED BY <1>1, <1>2, <1>3, <1>6, <1>7, <1>8

\* A sequence over a set is one over a larger set.
LEMMA SeqGrows ==
    ASSUME NEW S, NEW T, S \subseteq T
    PROVE  Seq(S) \subseteq Seq(T)
<1> SUFFICES ASSUME NEW s \in Seq(S) PROVE s \in Seq(T)  OBVIOUS
<1>1. s \in [1 .. Len(s) -> S] /\ Len(s) \in Nat  BY LenProperties
<1>2. s \in [1 .. Len(s) -> T]  BY <1>1
<1> QED BY <1>1, <1>2, FunctionIsSeq

-----------------------------------------------------------------------------
(* Lemmas about the steps.                                                 *)

LEMMA Steps ==
    ASSUME [Next]_vars
    PROVE  \/ \E t \in Threads :
                \/ Submit(t) \/ CheckCancelled(t) \/ Number(t) \/ PrepareCancelled(t)
                \/ Prepare(t) \/ Push(t) \/ PushOne(t) \/ Full(t) \/ Resume(t)
           \/ Pop \/ PollLane \/ Take \/ PublishPage
           \/ Import \/ (\E e \in Ids : DispatchPanic(e) \/ DispatchNote(e)) \/ EndRun
           \/ CancelProducers \/ CancelSession \/ UNCHANGED vars
BY DEF Next, Step, Compiler, Dispatch

LEMMA KindFacts ==
    /\ Sources = {"State", "Loud", "Quiet", "Fast"}
    /\ \A s \in Sources : Capacity(s) \in Nat /\ Capacity(s) >= 1
    /\ \A k \in Kinds : LaneOf(k) \in Sources
    /\ LaneOf("loud") = "Loud" /\ "open" \in Fates /\ "pushed" \in Fates
    /\ "shed" \in Fates /\ "cancelled" \in Fates /\ "played" \in Fates
    /\ "sounded" \in Fates /\ "suppressed" \in Fates
    /\ Chunk \in Nat /\ Chunk >= 1 /\ NoThread \notin Threads /\ Disabled \notin Threads
<1>1. Sources = {"State", "Loud", "Quiet", "Fast"}  BY DEF Sources, Lanes
<1>2. \A s \in Sources : Capacity(s) \in Nat /\ Capacity(s) >= 1
  BY CapacityAssumption DEF Capacity
<1>3. LaneOf("loud") = "Loud" /\ LaneOf("quiet") = "Quiet" /\ LaneOf("panic") = "State"
  BY DEF LaneOf
<1>4. \A k \in Kinds : LaneOf(k) \in Sources  BY <1>1, <1>3 DEF Kinds
<1> QED BY <1>1, <1>2, <1>3, <1>4, LeaseAssumption, NoThreadAssumption DEF Fates

\* What is known of an event.
LEMMA EventFacts ==
    ASSUME HistoryTypes
    PROVE  /\ Len(events) \in Nat /\ Len(fate) = Len(events) /\ NoEvent \notin Ids
           /\ DOMAIN fate = Ids /\ DOMAIN events = Ids
           /\ \A e \in Ids : e \in Nat /\ e >= 1
           /\ \A e \in Ids : events[e] \in EventRecords /\ fate[e] \in Fates
           /\ \A e \in Ids : /\ events[e].kind \in Kinds /\ events[e].sequence \in Nat
                             /\ events[e].leased \in BOOLEAN
<1>1. /\ Len(events) \in Nat /\ DOMAIN events = Ids /\ DOMAIN fate = 1 .. Len(fate)
      /\ \A e \in Ids : events[e] \in EventRecords /\ e \in Nat /\ e >= 1
  BY SeqElements DEF HistoryTypes, Ids
<1>2. DOMAIN fate = Ids /\ Len(fate) = Len(events)  BY <1>1 DEF HistoryTypes, Ids
<1>3. \A e \in Ids : fate[e] \in Fates
  BY <1>2, SeqElements DEF HistoryTypes, Ids
<1>4. NoEvent \notin Ids  BY <1>1 DEF NoEvent
<1> QED BY <1>1, <1>2, <1>3, <1>4 DEF EventRecords

LEMMA FateStep ==
    ASSUME HistoryTypes, NEW ids, NEW what \in Fates, SetFate(ids, what),
           UNCHANGED events
    PROVE  /\ HistoryTypes' /\ Ids' = Ids
           /\ \A e \in Ids : fate'[e] = IF e \in ids THEN what ELSE fate[e]
<1>1. /\ DOMAIN fate = 1 .. Len(events) /\ Len(events) \in Nat
      /\ \A e \in Ids : fate[e] \in Fates
  BY EventFacts DEF Ids
<1>2. \A e \in Ids : fate'[e] = IF e \in ids THEN what ELSE fate[e]
  BY <1>1 DEF SetFate, Ids
<1>3. fate' \in [1 .. Len(events) -> Fates]  BY <1>1 DEF SetFate, Ids
<1>4. fate' \in Seq(Fates) /\ Len(fate') = Len(events)  BY <1>1, <1>3, FunctionIsSeq
<1> QED BY <1>2, <1>4 DEF HistoryTypes, Ids

LEMMA SmallestOfThree ==
    ASSUME NEW a \in Nat, NEW b \in Nat, NEW c \in Nat
    PROVE  /\ Min({a, b, c}) \in {a, b, c}
           /\ \A x \in {a, b, c} : Min({a, b, c}) <= x
<1>1. \E x \in {a, b, c} : \A y \in {a, b, c} : x <= y
  <2>1. CASE a <= b /\ a <= c  BY <2>1
  <2>2. CASE b <= a /\ b <= c  BY <2>2
  <2>3. CASE c <= a /\ c <= b  BY <2>3
  <2> QED BY <2>1, <2>2, <2>3
<1> QED BY <1>1 DEF Min

LEMMA RoundFacts ==
    ASSUME Types, ThreadsInv, NEW t \in Threads, pc[t] = "number"
    PROVE  /\ RoundSize(t) \in Nat /\ RoundSize(t) >= 1 /\ RoundSize(t) <= Len(todo[t])
           /\ Len(prepared[t]) + RoundSize(t) <= Chunk
           /\ path[t] # "block" => RoundSize(t) = 1
<1>1. /\ todo[t] \in Seq(Kinds) /\ Len(todo[t]) \in Nat /\ todo[t] # <<>>
      /\ Len(prepared[t]) \in Nat /\ Len(prepared[t]) < Chunk
      /\ path[t] # "mixed" => Len(prepared[t]) = 0
  BY SeqElements, EmptyFacts DEF Types, ThreadTypes, ThreadsInv, ThreadInv
<1>2. Len(todo[t]) >= 1  BY <1>1, EmptyFacts
<1>3. CASE path[t] # "block"  BY <1>1, <1>2, <1>3, KindFacts DEF RoundSize
<1>4. CASE path[t] = "block"
  <2> DEFINE c == Capacity(IF t = owner THEN "Fast" ELSE "Loud")
  <2>1. c \in Nat /\ c >= 1  BY KindFacts
  <2> HIDE DEF c
  <2>2. RoundSize(t) = Min({Len(todo[t]), Chunk, c})  BY <1>4 DEF RoundSize, c
  <2>3. /\ RoundSize(t) \in {Len(todo[t]), Chunk, c}
        /\ RoundSize(t) <= Len(todo[t]) /\ RoundSize(t) <= Chunk
    <3> DEFINE m == Len(todo[t])
    <3>1. m \in Nat /\ Chunk \in Nat  BY <1>1, KindFacts
    <3> HIDE DEF m
    <3>2. /\ Min({m, Chunk, c}) \in {m, Chunk, c}
          /\ Min({m, Chunk, c}) <= m /\ Min({m, Chunk, c}) <= Chunk
      BY <3>1, <2>1, SmallestOfThree
    <3> QED BY <3>2, <2>2 DEF m
  <2> QED BY <1>1, <1>2, <1>4, <2>1, <2>3, KindFacts
<1> QED BY <1>3, <1>4

\* Thread t numbers n events, from the sequence first on.
New(n) == Len(events) + 1 .. Len(events) + n
Numbered(t, n, first) ==
    /\ n >= 1 /\ n <= Len(todo[t]) /\ n <= Chunk
    /\ first \in {nextSequence, leaseNext} /\ TakeSequences(t, n, first)
    /\ HistoryTypes' /\ Len(events') = Len(events) + n
    /\ Ids' = Ids \cup New(n) /\ Ids \cap New(n) = {} /\ New(n) # {}
    /\ \A e \in Ids : events'[e] = events[e] /\ fate'[e] = fate[e]
    /\ \A e \in New(n) :
         /\ e - Len(events) \in 1 .. n
         /\ fate'[e] = "open" /\ events'[e].kind = todo[t][e - Len(events)]
         /\ events'[e].kind \in ToSet(todo[t])
         /\ events'[e].sequence = (first + (e - Len(events)) - 1) % SequenceWidth
         /\ events'[e].leased = (t = owner)
         /\ events'[e].before = QueuedBefore(events'[e].kind)
    /\ prepared' \in [Threads -> Seq(Ids')]
    /\ \A u \in Threads : u # t => prepared'[u] = prepared[u]
    /\ Len(prepared'[t]) = Len(prepared[t]) + n /\ Len(prepared'[t]) <= Chunk
    /\ prepared'[t][Len(prepared'[t])] = Len(events) + n
    /\ path[t] # "block" => n = 1
    /\ ToSet(prepared'[t]) = ToSet(prepared[t]) \cup New(n)
    /\ IsInjective(prepared[t]) => IsInjective(prepared'[t])
    /\ todo' \in [Threads -> Seq(Kinds)]
    /\ \A u \in Threads : u # t => todo'[u] = todo[u]
    /\ ToSet(todo'[t]) \subseteq ToSet(todo[t])

LEMMA NumberFacts ==
    ASSUME Types, ThreadsInv, NEW t \in Threads, Number(t)
    PROVE  \E n \in Nat, first \in Nat : Numbered(t, n, first)
<1> DEFINE n == RoundSize(t)
           N == Len(events)
<1>1. n \in Nat /\ n >= 1 /\ n <= Len(todo[t]) /\ Len(prepared[t]) + n <= Chunk
      /\ (path[t] # "block" => n = 1)
  BY RoundFacts DEF Number
<1>2. /\ nextSequence \in Nat /\ leaseNext \in Nat /\ SequenceWidth \in Nat /\ SequenceWidth >= 2
      /\ HistoryTypes /\ todo \in [Threads -> Seq(Kinds)] /\ prepared \in [Threads -> Seq(Ids)]
  BY WidthAssumption DEF Types, NumberTypes, ThreadTypes
<1>3. /\ N \in Nat /\ Len(fate) = N /\ DOMAIN fate = Ids
      /\ events \in Seq(EventRecords) /\ fate \in Seq(Fates) /\ Ids = 1 .. N
  BY <1>2, EventFacts DEF HistoryTypes, Ids
<1>4. /\ todo[t] \in Seq(Kinds) /\ Len(todo[t]) \in Nat /\ DOMAIN todo[t] = 1 .. Len(todo[t])
      /\ \A i \in 1 .. n : todo[t][i] \in Kinds /\ todo[t][i] \in ToSet(todo[t])
  BY <1>1, <1>2, SeqElements
<1>5. \A k : QueuedBefore(k) \in SUBSET (Nat \ {0})
  BY <1>3 DEF QueuedBefore
<1>60. PICK first \in {nextSequence, leaseNext} :
      LET record(i) == [kind |-> todo[t][i], sequence |-> (first + i - 1) % SequenceWidth,
                        leased |-> t = owner, before |-> QueuedBefore(todo[t][i])]
      IN  /\ TakeSequences(t, n, first)
          /\ events' = events \o [i \in 1 .. n |-> record(i)]
          /\ fate' = fate \o [i \in 1 .. n |-> "open"]
          /\ prepared' = [prepared EXCEPT ![t] = prepared[t] \o [i \in 1 .. n |-> N + i]]
          /\ todo' = [todo EXCEPT ![t] = SubSeq(todo[t], n + 1, Len(todo[t]))]
  BY DEF Number
<1> DEFINE own == t = owner
           record(i) == [kind |-> todo[t][i], sequence |-> (first + i - 1) % SequenceWidth,
                         leased |-> own, before |-> QueuedBefore(todo[t][i])]
           R == [i \in 1 .. n |-> record(i)]
           F == [i \in 1 .. n |-> "open"]
           Q == [i \in 1 .. n |-> N + i]
<1>6. /\ TakeSequences(t, n, first) /\ events' = events \o R /\ fate' = fate \o F
      /\ prepared' = [prepared EXCEPT ![t] = prepared[t] \o Q]
      /\ todo' = [todo EXCEPT ![t] = SubSeq(todo[t], n + 1, Len(todo[t]))]
  BY <1>60
<1>7. first \in Nat /\ first \in {nextSequence, leaseNext}  BY <1>2, <1>60
<1>70. own \in BOOLEAN  OBVIOUS
<1> HIDE DEF n, N, own
<1>8. ASSUME NEW i \in 1 .. n PROVE record(i) \in EventRecords
  <2>1. (first + i - 1) \in Int  BY <1>1, <1>7
  <2>2. (first + i - 1) % SequenceWidth \in Nat  BY <2>1, <1>2
  <2> QED BY <2>2, <1>4, <1>5, <1>70 DEF EventRecords
<1>9. R \in Seq(EventRecords) /\ Len(R) = n
  <2>1. R \in [1 .. n -> EventRecords]  BY <1>8
  <2> QED BY <2>1, <1>1, FunctionIsSeq
<1>10. F \in Seq(Fates) /\ Len(F) = n
  <2>1. F \in [1 .. n -> Fates]  BY KindFacts
  <2> QED BY <2>1, <1>1, FunctionIsSeq
<1>11. /\ events' \in Seq(EventRecords) /\ Len(events') = N + n
       /\ \A e \in 1 .. N + n : events'[e] = IF e <= N THEN events[e] ELSE R[e - N]
  <2> HIDE DEF R
  <2>1. /\ events \in Seq(EventRecords) /\ Len(events) = N
        /\ events' = events \o R /\ R \in Seq(EventRecords) /\ Len(R) = n
    BY <1>3, <1>6, <1>9 DEF N
  <2>2. /\ events \o R \in Seq(EventRecords) /\ Len(events \o R) = Len(events) + Len(R)
        /\ \A e \in 1 .. Len(events) + Len(R) :
             (events \o R)[e] = IF e <= Len(events) THEN events[e] ELSE R[e - Len(events)]
    BY <2>1, JoinFacts
  <2> QED BY <2>1, <2>2
<1>12. /\ fate' \in Seq(Fates) /\ Len(fate') = N + n
       /\ \A e \in 1 .. N + n : fate'[e] = IF e <= N THEN fate[e] ELSE F[e - N]
  <2> HIDE DEF F
  <2> QED BY <1>3, <1>6, <1>10, JoinFacts
<1>13. HistoryTypes'  BY <1>11, <1>12 DEF HistoryTypes
<1>14. /\ Ids' = 1 .. N + n /\ New(n) = N + 1 .. N + n  BY <1>11 DEF Ids, New, N
<1>15. Ids' = Ids \cup New(n) /\ Ids \cap New(n) = {} /\ New(n) # {}
  <2>1. \A e : e \in 1 .. N + n <=> e \in 1 .. N \/ e \in N + 1 .. N + n  BY <1>1, <1>3
  <2>2. \A e : ~(e \in 1 .. N /\ e \in N + 1 .. N + n)  BY <1>3
  <2>3. N + 1 \in N + 1 .. N + n  BY <1>1, <1>3
  <2> QED BY <2>1, <2>2, <2>3, <1>3, <1>14
<1>16. \A e \in Ids : events'[e] = events[e] /\ fate'[e] = fate[e]
  <2>1. \A e \in Ids : e \in 1 .. N + n /\ e <= N  BY <1>1, <1>3
  <2> QED BY <2>1, <1>11, <1>12
<1>17. ASSUME NEW e \in New(n)
       PROVE  e - N \in 1 .. n /\ fate'[e] = "open" /\ events'[e] = record(e - N)
  <2>1. e \in 1 .. N + n /\ ~(e <= N) /\ e - N \in 1 .. n  BY <1>1, <1>3, <1>14
  <2> QED BY <2>1, <1>11, <1>12
<1>18. /\ Q \in Seq(Ids') /\ Len(Q) = n /\ IsInjective(Q) /\ ToSet(Q) = New(n)
  <2>1. Q \in [1 .. n -> Ids'] /\ DOMAIN Q = 1 .. n  BY <1>1, <1>3, <1>14
  <2>2. IsInjective(Q)  BY <2>1, <1>1, <1>3 DEF IsInjective
  <2>3. \A e \in New(n) : e - N \in 1 .. n /\ e = N + (e - N)  BY <1>1, <1>3, <1>14
  <2>4. \A i \in 1 .. n : N + i \in New(n)  BY <1>1, <1>3, <1>14
  <2>5. ToSet(Q) = {Q[i] : i \in 1 .. n}  BY <2>1 DEF ToSet
  <2>6. ToSet(Q) = New(n)  BY <2>3, <2>4, <2>5
  <2> QED BY <2>1, <2>2, <2>6, <1>1, FunctionIsSeq
<1>19. Seq(Ids) \subseteq Seq(Ids')  BY <1>15, SeqGrows
<1>20. /\ prepared[t] \in Seq(Ids') /\ prepared'[t] = prepared[t] \o Q
       /\ \A u \in Threads : u # t => prepared'[u] = prepared[u]
       /\ ToSet(prepared[t]) \subseteq Ids
  BY <1>2, <1>6, <1>19, SeqElements
<1>21. /\ prepared'[t] \in Seq(Ids') /\ Len(prepared'[t]) = Len(prepared[t]) + n
       /\ ToSet(prepared'[t]) = ToSet(prepared[t]) \cup New(n)
       /\ IsInjective(prepared[t]) => IsInjective(prepared'[t])
  <2>1. ToSet(prepared[t]) \cap ToSet(Q) = {}  BY <1>15, <1>18, <1>20
  <2> DEFINE p == prepared[t]
  <2> HIDE DEF Q
  <2>2. p \in Seq(Ids') /\ Q \in Seq(Ids') /\ prepared'[t] = p \o Q /\ Len(Q) = n
    BY <1>18, <1>20
  <2> HIDE DEF p
  <2>3. /\ p \o Q \in Seq(Ids') /\ Len(p \o Q) = Len(p) + n
        /\ ToSet(p \o Q) = ToSet(p) \cup ToSet(Q)
        /\ IsInjective(p) /\ IsInjective(Q) /\ ToSet(p) \cap ToSet(Q) = {}
             => IsInjective(p \o Q)
    BY <2>2, JoinFacts
  <2> QED BY <2>1, <2>2, <2>3, <1>18 DEF p
<1>28. prepared'[t][Len(prepared'[t])] = N + n
  <2> DEFINE p == prepared[t]
             m == Len(p) + n
  <2>1. Q[n] = N + n  BY <1>1
  <2> HIDE DEF Q
  <2>2. p \in Seq(Ids') /\ Len(p) \in Nat /\ prepared'[t] = p \o Q  BY <1>20, SeqElements
  <2> HIDE DEF p
  <2>3. m \in 1 .. Len(p) + Len(Q) /\ ~(m <= Len(p)) /\ m - Len(p) = n
    BY <2>2, <1>1, <1>18
  <2>4. (p \o Q)[m] = Q[n]  BY <2>2, <2>3, <1>18, JoinFacts
  <2>5. Len(prepared'[t]) = m  BY <1>21 DEF p
  <2> QED BY <2>1, <2>2, <2>4, <2>5
<1>22. prepared' \in [Threads -> Seq(Ids')]
  BY <1>2, <1>6, <1>19, <1>20, <1>21
<1>23. /\ SubSeq(todo[t], n + 1, Len(todo[t])) \in Seq(Kinds)
       /\ ToSet(SubSeq(todo[t], n + 1, Len(todo[t]))) \subseteq ToSet(todo[t])
  <2>1. n + 1 \in Nat /\ n + 1 >= 1 /\ Len(todo[t]) <= Len(todo[t])  BY <1>1, <1>4
  <2>2. \A i \in n + 1 .. Len(todo[t]) : i \in 1 .. Len(todo[t])  BY <1>1, <1>4
  <2>3. \A i \in 1 .. Len(todo[t]) : todo[t][i] \in ToSet(todo[t])  BY <1>4, SeqElements
  <2> DEFINE m == n + 1
             k == Len(todo[t])
  <2>4. m \in Nat /\ m >= 1 /\ k \in Nat /\ k <= Len(todo[t])  BY <2>1, <1>4
  <2>5. \A i \in m .. k : todo[t][i] \in ToSet(todo[t])  BY <2>2, <2>3
  <2> HIDE DEF m, k
  <2>6. SubSeq(todo[t], m, k) \in Seq(Kinds)  BY <2>4, <1>4, PartFacts
  <2>7. ToSet(SubSeq(todo[t], m, k)) = {todo[t][i] : i \in m .. k}
    BY <2>4, <1>4, PartFacts
  <2>8. ToSet(SubSeq(todo[t], m, k)) \subseteq ToSet(todo[t])  BY <2>5, <2>7
  <2> QED BY <2>6, <2>8 DEF m, k
<1>24. /\ todo' \in [Threads -> Seq(Kinds)] /\ \A u \in Threads : u # t => todo'[u] = todo[u]
       /\ ToSet(todo'[t]) \subseteq ToSet(todo[t])
  BY <1>2, <1>6, <1>23
<1>25. ASSUME NEW e \in New(n)
       PROVE  /\ e - Len(events) \in 1 .. n
              /\ fate'[e] = "open" /\ events'[e].kind = todo[t][e - Len(events)]
              /\ events'[e].kind \in ToSet(todo[t])
              /\ events'[e].sequence = (first + (e - Len(events)) - 1) % SequenceWidth
              /\ events'[e].leased = (t = owner)
              /\ events'[e].before = QueuedBefore(events'[e].kind)
  <2> PICK i \in 1 .. n : i = e - N  BY <1>17
  <2>1. /\ events'[e] = record(i) /\ fate'[e] = "open"
        /\ todo[t][i] \in ToSet(todo[t])
    BY <1>4, <1>17
  <2>2. /\ events'[e].kind = todo[t][i]
        /\ events'[e].sequence = (first + i - 1) % SequenceWidth
        /\ events'[e].before = QueuedBefore(todo[t][i])
    BY <2>1
  <2>3. events'[e].leased = own  BY <2>1
  <2>4. events'[e].leased = (t = owner)  BY <2>3 DEF own
  <2> QED BY <2>1, <2>2, <2>4 DEF N
<1>26. Len(prepared[t]) \in Nat /\ n <= Chunk
  BY <1>1, <1>2, KindFacts, SeqElements
<1>27. Numbered(t, n, first)
  BY <1>1, <1>6, <1>7, <1>11, <1>13, <1>15, <1>16, <1>21, <1>22, <1>24, <1>20, <1>25,
     <1>26, <1>28 DEF Numbered, N
<1> QED BY <1>1, <1>7, <1>27

-----------------------------------------------------------------------------
(* Types.                                                                  *)

LEMMA HandFacts ==
    ASSUME Types, NEW t \in Threads
    PROVE  /\ prepared[t] \in Seq(Ids) /\ ToSet(prepared[t]) \subseteq Ids
           /\ todo[t] \in Seq(Kinds) /\ Len(prepared[t]) \in Nat /\ Len(todo[t]) \in Nat
           /\ prepared[t] # <<>> =>
                /\ Head(prepared[t]) \in Ids /\ prepared[t][Len(prepared[t])] \in Ids
                /\ Tail(prepared[t]) \in Seq(Ids) /\ Front(prepared[t]) \in Seq(Ids)
                /\ Len(Tail(prepared[t])) = Len(prepared[t]) - 1
                /\ Len(Front(prepared[t])) = Len(prepared[t]) - 1
                /\ Len(prepared[t]) >= 1
                /\ ToSet(Tail(prepared[t])) \subseteq ToSet(prepared[t])
                /\ ToSet(Front(prepared[t])) \subseteq ToSet(prepared[t])
<1> DEFINE p == prepared[t]
<1>1. p \in Seq(Ids) /\ todo[t] \in Seq(Kinds)  BY DEF Types, ThreadTypes
<1> HIDE DEF p
<1>2. ToSet(p) \subseteq Ids /\ Len(p) \in Nat /\ Len(todo[t]) \in Nat
  BY <1>1, SeqElements
<1>3. p # <<>> => /\ Head(p) \in Ids /\ p[Len(p)] \in Ids /\ Len(p) >= 1
                  /\ Tail(p) \in Seq(Ids) /\ Front(p) \in Seq(Ids)
                  /\ Len(Tail(p)) = Len(p) - 1 /\ Len(Front(p)) = Len(p) - 1
                  /\ ToSet(Tail(p)) \subseteq ToSet(p) /\ ToSet(Front(p)) \subseteq ToSet(p)
  BY <1>1, TailFacts, FrontFacts
<1> QED BY <1>1, <1>2, <1>3 DEF p

\* The label after a round is one of these.
LEMMA RoundLabels ==
    ASSUME NEW t
    PROVE  NextRound(t) \in {"idle", "number", "check"}
BY DEF NextRound

LEMMA NextNumberTypes == Types /\ ThreadsInv /\ [Next]_vars => NumberTypes'
<1> SUFFICES ASSUME Types /\ ThreadsInv, [Next]_vars PROVE NumberTypes'  OBVIOUS
<1> USE DEF numbers, threads, compilerVars, audioVars, flags, history, outsideCompiler,
           outsideAudio
<1>0. NumberTypes /\ HistoryTypes  BY DEF Types
<1>1. ASSUME NEW t \in Threads, Submit(t) PROVE NumberTypes'
  <2>1. /\ UNCHANGED <<nextSequence, leaseNext, leaseEnd, leased, fastSubmitted,
                       notAccepted, fence>>
        /\ owner' = IF owner = NoThread THEN t ELSE owner
        /\ \E batch \in Batches : asked' = asked + Len(batch)
    BY <1>1 DEF Submit
  <2>2. \A batch \in Batches : Len(batch) \in Nat  BY BatchesAssumption, SeqElements
  <2> QED BY <2>1, <2>2, <1>0 DEF NumberTypes
<1>2. ASSUME NEW t \in Threads, CheckCancelled(t) PROVE NumberTypes'
  <2>1. /\ UNCHANGED <<nextSequence, leaseNext, leaseEnd, leased, fastSubmitted, fence,
                       asked, owner>>
        /\ notAccepted' \in {notAccepted, notAccepted + Len(todo[t])}
    BY <1>2 DEF CheckCancelled
  <2> QED BY <2>1, <1>0, HandFacts DEF NumberTypes
<1>3. ASSUME NEW t \in Threads, Number(t) PROVE NumberTypes'
  <2>1. PICK n \in Nat, first \in Nat : Numbered(t, n, first)  BY <1>3, NumberFacts
  <2>2. /\ TakeSequences(t, n, first) /\ Lease \in Nat
        /\ UNCHANGED <<notAccepted, fence, asked, owner>>
    BY <2>1, <1>3, LeaseAssumption DEF Number, Numbered
  <2> QED BY <2>2, <1>0 DEF NumberTypes, TakeSequences
<1>4. ASSUME NEW t \in Threads, PrepareCancelled(t) PROVE NumberTypes'
  BY <1>4, <1>0 DEF PrepareCancelled, Goto, Return, NumberTypes
<1>5. ASSUME NEW t \in Threads, Prepare(t) PROVE NumberTypes'
  <2>1. /\ UNCHANGED <<nextSequence, leaseNext, leaseEnd, leased, fastSubmitted, asked,
                       owner>>
        /\ notAccepted' \in {notAccepted, notAccepted + 1}
    BY <1>5 DEF Prepare
  <2>2. prepared[t][Len(prepared[t])] \in Ids
    BY <1>5, HandFacts DEF Prepare, ThreadsInv, ThreadInv
  <2>3. \E e \in Ids : fence' \in {fence, events[e].sequence + 1}
    BY <1>5, <2>2 DEF Prepare, Fenced
  <2>4. fence' \in Nat
    <3> PICK e \in Ids : fence' \in {fence, events[e].sequence + 1}  BY <2>3
    <3>1. events[e].sequence \in Nat  BY <1>0, EventFacts
    <3> QED BY <3>1, <1>0, <2>3 DEF NumberTypes
  <2> QED BY <2>1, <2>4, <1>0 DEF NumberTypes
<1>6. ASSUME NEW t \in Threads, Full(t) PROVE NumberTypes'
  <2>1. /\ UNCHANGED <<nextSequence, leaseNext, leaseEnd, leased, fastSubmitted, fence,
                       asked, owner>>
        /\ notAccepted' \in {notAccepted, notAccepted + 1, notAccepted + Len(prepared[t])}
    BY <1>6 DEF Full
  <2> QED BY <2>1, <1>0, HandFacts DEF NumberTypes
<1>7. ASSUME \/ Pop \/ PollLane \/ Take \/ PublishPage \/ Import \/ EndRun
             \/ CancelProducers \/ CancelSession \/ UNCHANGED vars
      PROVE  NumberTypes'
  <2>1. UNCHANGED <<nextSequence, leaseNext, leaseEnd, leased, fastSubmitted,
                    notAccepted, fence, asked, owner>>
    BY <1>7 DEF Pop, PollLane, Take, PublishPage, Import, EndRun, CancelProducers,
       CancelSession, vars
  <2> QED BY <2>1, <1>0 DEF NumberTypes
<1>8. ASSUME NEW t \in Threads,
             \/ Push(t) \/ PushOne(t) \/ Resume(t)
      PROVE  NumberTypes'
  <2>1. UNCHANGED <<nextSequence, leaseNext, leaseEnd, leased, fastSubmitted,
                    notAccepted, fence, asked, owner>>
    BY <1>8 DEF Push, PushOne, Resume, Goto
  <2> QED BY <2>1, <1>0 DEF NumberTypes
<1>9. ASSUME NEW e \in Ids,
             \/ DispatchPanic(e) \/ DispatchNote(e)
      PROVE  NumberTypes'
  <2>1. UNCHANGED <<nextSequence, leaseNext, leaseEnd, leased, fastSubmitted,
                    notAccepted, fence, asked, owner>>
    BY <1>9 DEF DispatchPanic, DispatchNote
  <2> QED BY <2>1, <1>0 DEF NumberTypes
<1> QED BY <1>1, <1>2, <1>3, <1>4, <1>5, <1>6, <1>7, <1>8, <1>9, Steps

LEMMA RoomFacts ==
    ASSUME Types, NEW s \in Sources
    PROVE  /\ lanes[s] \in Seq(Ids) /\ Len(lanes[s]) \in Nat /\ Len(lanes[s]) <= Capacity(s)
           /\ Room(s) \in Nat /\ Capacity(s) \in Nat /\ ToSet(lanes[s]) \subseteq Ids
           /\ lanes[s] # <<>> =>
                /\ Head(lanes[s]) \in Ids /\ Tail(lanes[s]) \in Seq(Ids)
                /\ Len(Tail(lanes[s])) = Len(lanes[s]) - 1
<1>1. /\ lanes[s] \in Seq(Ids) /\ Len(lanes[s]) <= Capacity(s) /\ Capacity(s) \in Nat
  BY KindFacts DEF Types, LaneTypes
<1> DEFINE q == lanes[s]
<1>2. q \in Seq(Ids)  BY <1>1
<1> HIDE DEF q
<1>3. /\ Len(q) \in Nat /\ ToSet(q) \subseteq Ids
      /\ q # <<>> => /\ Head(q) \in Ids /\ Tail(q) \in Seq(Ids)
                     /\ Len(Tail(q)) = Len(q) - 1
  BY <1>2, SeqElements, TailFacts
<1>4. Room(s) = Capacity(s) - Len(lanes[s])  BY DEF Room
<1> QED BY <1>1, <1>3, <1>4 DEF q

LEMMA PushedTypes ==
    ASSUME Types, NEW s \in Sources, NEW p \in Seq(Ids), Len(p) <= Room(s), UNCHANGED events,
           lanes' = [lanes EXCEPT ![s] = lanes[s] \o p]
    PROVE  LaneTypes'
<1>1. lanes[s] \o p \in Seq(Ids) /\ Len(lanes[s] \o p) = Len(lanes[s]) + Len(p)
  BY RoomFacts, JoinFacts
<1>2. Len(p) \in Nat /\ Len(lanes[s] \o p) <= Capacity(s)
  BY <1>1, RoomFacts, SeqElements DEF Room
<1>3. lanes \in [Sources -> Seq(Ids)] /\ \A r \in Sources : Len(lanes[r]) <= Capacity(r)
  BY DEF Types, LaneTypes
<1>4. Ids' = Ids /\ \A r \in Sources : Capacity(r)' = Capacity(r)  BY DEF Ids
<1> QED BY <1>1, <1>2, <1>3, <1>4 DEF LaneTypes

\* What PopSource does to the types: a source's next event becomes its head.
LEMMA PoppedTypes ==
    ASSUME Types, NEW s \in Sources, PopSource(s), UNCHANGED events
    PROVE  LaneTypes' /\ heads' \in [Sources -> Ids' \cup {NoEvent}]
<1>1. /\ lanes \in [Sources -> Seq(Ids)] /\ \A r \in Sources : Len(lanes[r]) <= Capacity(r)
      /\ heads \in [Sources -> Ids \cup {NoEvent}]
      /\ \A r \in Sources : Capacity(r) \in Nat /\ Len(lanes[r]) \in Nat
  BY RoomFacts DEF Types, LaneTypes, CompilerTypes
<1>2. Ids' = Ids /\ \A r \in Sources : Capacity(r)' = Capacity(r)  BY DEF Ids
<1>3. CASE lanes[s] = <<>>
  BY <1>1, <1>2, <1>3 DEF PopSource, LaneTypes
<1>4. CASE lanes[s] # <<>>
  <2>1. /\ Head(lanes[s]) \in Ids /\ Tail(lanes[s]) \in Seq(Ids)
        /\ Len(Tail(lanes[s])) = Len(lanes[s]) - 1
    BY <1>4, RoomFacts
  <2>2. /\ heads' = [heads EXCEPT ![s] = Head(lanes[s])]
        /\ lanes' = [lanes EXCEPT ![s] = Tail(lanes[s])]
    BY <1>4 DEF PopSource
  <2>3. \A r \in Sources : Len(lanes'[r]) <= Capacity(r)
    BY <1>1, <2>1, <2>2
  <2>4. lanes' \in [Sources -> Seq(Ids)] /\ heads' \in [Sources -> Ids \cup {NoEvent}]
    BY <1>1, <2>1, <2>2
  <2> QED BY <1>2, <2>3, <2>4 DEF LaneTypes
<1> QED BY <1>3, <1>4

\* An event is pushed into a source.
LEMMA TargetFacts ==
    ASSUME Types, NEW t \in Threads, NEW e \in Ids
    PROVE  Target(t, e) \in Sources
<1>1. events[e].kind \in Kinds  BY EventFacts DEF Types
<1> QED BY <1>1, KindFacts DEF Target

LEMMA NextLaneTypes == Types /\ ThreadsInv /\ [Next]_vars => LaneTypes'
<1> SUFFICES ASSUME Types /\ ThreadsInv, [Next]_vars PROVE LaneTypes'  OBVIOUS
<1> USE DEF numbers, threads, compilerVars, audioVars, flags, history, outsideCompiler,
           outsideAudio
<1>0. LaneTypes  BY DEF Types
<1>1. ASSUME NEW t \in Threads, Number(t) PROVE LaneTypes'
  <2>1. PICK n \in Nat, first \in Nat : Numbered(t, n, first)  BY <1>1, NumberFacts
  <2>2. Seq(Ids) \subseteq Seq(Ids')  BY <2>1, SeqGrows DEF Numbered
  <2>3. lanes' = lanes /\ \A r \in Sources : Capacity(r)' = Capacity(r)  BY <1>1 DEF Number
  <2> QED BY <2>2, <2>3, <1>0 DEF LaneTypes
<1>2. ASSUME NEW t \in Threads, Push(t) PROVE LaneTypes'
  <2> DEFINE s == Target(t, Head(prepared[t]))
  <2>1. prepared[t] # <<>>  BY <1>2 DEF Push, ThreadsInv, ThreadInv
  <2>2. s \in Sources /\ prepared[t] \in Seq(Ids)  BY <2>1, HandFacts, TargetFacts
  <2>3. /\ events' = events
        /\ \/ /\ Len(prepared[t]) <= Room(s)
              /\ lanes' = [lanes EXCEPT ![s] = lanes[s] \o prepared[t]]
           \/ lanes' = lanes
    BY <1>2 DEF Push, PushInto
  <2> HIDE DEF s
  <2>4. CASE lanes' = lanes  BY <2>3, <2>4, <1>0 DEF LaneTypes, Ids
  <2> QED BY <2>2, <2>3, <2>4, PushedTypes
<1>3. ASSUME NEW t \in Threads, PushOne(t) PROVE LaneTypes'
  <2>1. /\ events' = events
        /\ \/ /\ prepared[t] # <<>> /\ Room("Fast") > 0
              /\ lanes' = [lanes EXCEPT !["Fast"] = lanes["Fast"] \o <<Head(prepared[t])>>]
           \/ lanes' = lanes
    BY <1>3 DEF PushOne, PushInto
  <2>2. CASE lanes' = lanes  BY <2>1, <2>2, <1>0 DEF LaneTypes, Ids
  <2>3. CASE /\ prepared[t] # <<>> /\ Room("Fast") > 0
             /\ lanes' = [lanes EXCEPT !["Fast"] = lanes["Fast"] \o <<Head(prepared[t])>>]
    <3>1. Head(prepared[t]) \in Ids /\ "Fast" \in Sources  BY <2>3, HandFacts, KindFacts
    <3>2. <<Head(prepared[t])>> \in Seq(Ids) /\ Len(<<Head(prepared[t])>>) = 1  BY <3>1
    <3>3. Room("Fast") \in Nat /\ 1 <= Room("Fast")  BY <2>3, <3>1, RoomFacts
    <3> QED BY <2>1, <2>3, <3>1, <3>2, <3>3, PushedTypes
  <2> QED BY <2>1, <2>2, <2>3
<1>4. ASSUME PollLane PROVE LaneTypes'
  <2>1. events' = events /\ (lanes' = lanes \/ \E i \in DOMAIN Order : PopSource(Order[i]))
    BY <1>4 DEF PollLane
  <2>2. \A i \in DOMAIN Order : Order[i] \in Sources  BY KindFacts DEF Order
  <2>3. CASE lanes' = lanes  BY <2>1, <2>3, <1>0 DEF LaneTypes, Ids
  <2> QED BY <2>1, <2>2, <2>3, PoppedTypes
<1>5. ASSUME Take PROVE LaneTypes'
  <2>1. events' = events /\ (lanes' = lanes \/ \E s \in Sources : PopSource(s))
    BY <1>5 DEF Take
  <2>2. CASE lanes' = lanes  BY <2>1, <2>2, <1>0 DEF LaneTypes, Ids
  <2> QED BY <2>1, <2>2, PoppedTypes
<1>6. ASSUME \/ Pop \/ PublishPage \/ Import \/ EndRun \/ CancelProducers
             \/ CancelSession \/ UNCHANGED vars
      PROVE  LaneTypes'
  <2>1. UNCHANGED <<lanes, events>>
    BY <1>6 DEF Pop, PublishPage, Import, EndRun, CancelProducers, CancelSession, vars
  <2> QED BY <2>1, <1>0 DEF LaneTypes, Ids
<1>7. ASSUME NEW t \in Threads,
             \/ Submit(t) \/ CheckCancelled(t) \/ PrepareCancelled(t) \/ Prepare(t)
             \/ Full(t) \/ Resume(t)
      PROVE  LaneTypes'
  <2>1. UNCHANGED <<lanes, events>>
    BY <1>7 DEF Submit, CheckCancelled, PrepareCancelled, Prepare, Full, Resume, Goto
  <2> QED BY <2>1, <1>0 DEF LaneTypes, Ids
<1>8. ASSUME NEW e \in Ids,
             \/ DispatchPanic(e) \/ DispatchNote(e)
      PROVE  LaneTypes'
  <2>1. UNCHANGED <<lanes, events>>
    BY <1>8 DEF DispatchPanic, DispatchNote
  <2> QED BY <2>1, <1>0 DEF LaneTypes, Ids
<1> QED BY <1>1, <1>2, <1>3, <1>4, <1>5, <1>6, <1>7, <1>8, Steps

LEMMA NextThreadTypes == Types /\ ThreadsInv /\ [Next]_vars => ThreadTypes'
<1> SUFFICES ASSUME Types /\ ThreadsInv, [Next]_vars PROVE ThreadTypes'  OBVIOUS
<1> USE DEF numbers, threads, compilerVars, audioVars, flags, history, outsideCompiler,
           outsideAudio
<1>0. /\ ThreadTypes /\ pc \in [Threads -> ThreadLabels]
      /\ path \in [Threads -> {"single", "mixed", "block"}]
      /\ todo \in [Threads -> Seq(Kinds)] /\ prepared \in [Threads -> Seq(Ids)]
      /\ \A S : <<>> \in Seq(S)
  BY EmptyFacts DEF Types, ThreadTypes
<1>a. \A l \in {"idle", "check", "number", "prepare", "push", "one", "full", "wait"} :
         l \in ThreadLabels
  BY DEF ThreadLabels
<1>b. ASSUME NEW t \in Threads, UNCHANGED <<events, path>>, NEW l \in ThreadLabels,
               pc' = [pc EXCEPT ![t] = l],
               \/ todo' = todo
               \/ todo' = [todo EXCEPT ![t] = <<>>],
               \/ prepared' = prepared
               \/ \E p \in Seq(Ids) : prepared' = [prepared EXCEPT ![t] = p]
        PROVE  ThreadTypes'
  <2>1. Ids' = Ids  BY <1>b DEF Ids
  <2>2. pc' \in [Threads -> ThreadLabels]  BY <1>0, <1>b
  <2>3. todo' \in [Threads -> Seq(Kinds)]  BY <1>0, <1>b
  <2>4. prepared' \in [Threads -> Seq(Ids)]  BY <1>0, <1>b
  <2> QED BY <2>1, <2>2, <2>3, <2>4, <1>0, <1>b DEF ThreadTypes
<1>1. ASSUME NEW t \in Threads, Submit(t) PROVE ThreadTypes'
  <2>1. PICK batch \in Batches :
          /\ todo' = [todo EXCEPT ![t] = batch]
          /\ path' = [path EXCEPT ![t] = PathOf(t, batch)]
          /\ pc' = [pc EXCEPT ![t] = IF path'[t] = "single" THEN "number" ELSE "check"]
    BY <1>1 DEF Submit, Goto
  <2>2. prepared' = prepared /\ Ids' = Ids  BY <1>1 DEF Submit, Ids
  <2>3. batch \in Seq(Kinds)  BY BatchesAssumption
  <2>4. PathOf(t, batch) \in {"single", "mixed", "block"}  BY DEF PathOf
  <2>5. pc' \in [Threads -> ThreadLabels]  BY <2>1, <1>0, <1>a
  <2>6. path' \in [Threads -> {"single", "mixed", "block"}]  BY <2>1, <2>4, <1>0
  <2>7. todo' \in [Threads -> Seq(Kinds)]  BY <2>1, <2>3, <1>0
  <2> QED BY <2>2, <2>5, <2>6, <2>7, <1>0 DEF ThreadTypes
<1>2. ASSUME NEW t \in Threads, CheckCancelled(t) PROVE ThreadTypes'
  <2>1. /\ UNCHANGED <<events, path>>
        /\ \/ /\ pc' = [pc EXCEPT ![t] = "idle"] /\ todo' = [todo EXCEPT ![t] = <<>>]
              /\ prepared' = [prepared EXCEPT ![t] = <<>>]
           \/ pc' = [pc EXCEPT ![t] = "number"] /\ todo' = todo /\ prepared' = prepared
    BY <1>2 DEF CheckCancelled, Goto, Return
  <2> QED BY <2>1, <1>0, <1>a, <1>b
<1>3. ASSUME NEW t \in Threads, Number(t) PROVE ThreadTypes'
  <2>1. PICK n \in Nat, first \in Nat : Numbered(t, n, first)  BY <1>3, NumberFacts
  <2>2. /\ path' = path
        /\ pc' = [pc EXCEPT ![t] = IF path[t] = "block" THEN "push" ELSE "prepare"]
    BY <1>3 DEF Number, Goto
  <2>3. pc' \in [Threads -> ThreadLabels]  BY <2>2, <1>0, <1>a
  <2> QED BY <2>1, <2>2, <2>3, <1>0 DEF ThreadTypes, Numbered
<1>4. ASSUME NEW t \in Threads, PrepareCancelled(t) PROVE ThreadTypes'
  <2>1. /\ UNCHANGED <<events, path>>
        /\ pc' = [pc EXCEPT ![t] = "idle"] /\ todo' = [todo EXCEPT ![t] = <<>>]
        /\ prepared' = [prepared EXCEPT ![t] = <<>>]
    BY <1>4 DEF PrepareCancelled, Goto, Return
  <2> QED BY <2>1, <1>0, <1>a, <1>b
<1>5. ASSUME NEW t \in Threads, Prepare(t) PROVE ThreadTypes'
  <2>1. prepared[t] # <<>>  BY <1>5 DEF Prepare, ThreadsInv, ThreadInv
  <2>2. Front(prepared[t]) \in Seq(Ids)  BY <2>1, HandFacts
  <2>3. UNCHANGED <<events, path, todo>>  BY <1>5 DEF Prepare
  <2>4. prepared' = prepared \/ prepared' = [prepared EXCEPT ![t] = Front(prepared[t])]
    BY <1>5 DEF Prepare
  <2>5. \E l \in {"number", "push", NextRound(t)} : pc' = [pc EXCEPT ![t] = l]
    BY <1>5 DEF Prepare, Goto
  <2>6. {"number", "push", NextRound(t)} \subseteq ThreadLabels  BY RoundLabels, <1>a
  <2> QED BY <2>2, <2>3, <2>4, <2>5, <2>6, <1>b
<1>6. ASSUME NEW t \in Threads, Push(t) PROVE ThreadTypes'
  <2>1. UNCHANGED <<events, path, todo>>  BY <1>6 DEF Push
  <2>2. prepared' = prepared \/ prepared' = [prepared EXCEPT ![t] = <<>>]
    BY <1>6 DEF Push
  <2>3. \E l \in {"one", "full", NextRound(t)} : pc' = [pc EXCEPT ![t] = l]
    BY <1>6 DEF Push, Goto
  <2>4. {"one", "full", NextRound(t)} \subseteq ThreadLabels  BY RoundLabels, <1>a
  <2> QED BY <2>1, <2>2, <2>3, <2>4, <1>0, <1>b
<1>7. ASSUME NEW t \in Threads, PushOne(t) PROVE ThreadTypes'
  <2>1. UNCHANGED <<events, path, todo>>  BY <1>7 DEF PushOne
  <2>2. \/ prepared' = prepared
        \/ prepared[t] # <<>> /\ prepared' = [prepared EXCEPT ![t] = Tail(prepared[t])]
    BY <1>7 DEF PushOne
  <2>3. \E l \in {pc[t], "full", NextRound(t)} : pc' = [pc EXCEPT ![t] = l]
    BY <1>7, <1>0 DEF PushOne, Goto
  <2>4. {pc[t], "full", NextRound(t)} \subseteq ThreadLabels  BY RoundLabels, <1>0, <1>a
  <2> QED BY <2>1, <2>2, <2>3, <2>4, <1>b, HandFacts
<1>8. ASSUME NEW t \in Threads, Full(t) PROVE ThreadTypes'
  <2>1. prepared[t] # <<>>  BY <1>8 DEF Full, ThreadsInv, ThreadInv
  <2>2. UNCHANGED <<events, path>> /\ (todo' = todo \/ todo' = [todo EXCEPT ![t] = <<>>])
    BY <1>8 DEF Full, Return
  <2>3. \/ prepared' = prepared \/ prepared' = [prepared EXCEPT ![t] = Tail(prepared[t])]
        \/ prepared' = [prepared EXCEPT ![t] = <<>>]
    BY <1>8 DEF Full, Return
  <2>4. \E l \in {"idle", "one", "wait", NextRound(t)} : pc' = [pc EXCEPT ![t] = l]
    BY <1>8 DEF Full, Goto, Return
  <2>5. {"idle", "one", "wait", NextRound(t)} \subseteq ThreadLabels  BY RoundLabels, <1>a
  <2> QED BY <2>1, <2>2, <2>3, <2>4, <2>5, <1>0, <1>b, HandFacts
<1>9. ASSUME NEW t \in Threads, Resume(t) PROVE ThreadTypes'
  <2>1. UNCHANGED <<events, path, todo, prepared>>  BY <1>9 DEF Resume
  <2>2. \E l \in {"one", "push"} : pc' = [pc EXCEPT ![t] = l]  BY <1>9 DEF Resume, Goto
  <2> QED BY <2>1, <2>2, <1>a, <1>b
<1>10. ASSUME \/ Pop \/ PollLane \/ Take \/ PublishPage \/ Import \/ EndRun
              \/ CancelProducers \/ CancelSession \/ UNCHANGED vars
       PROVE  ThreadTypes'
  <2>1. UNCHANGED <<pc, path, todo, prepared, events>>
    BY <1>10 DEF Pop, PollLane, Take, PublishPage, Import, EndRun, CancelProducers,
       CancelSession, vars
  <2> QED BY <2>1, <1>0 DEF ThreadTypes, Ids
<1>11. ASSUME NEW e \in Ids,
              \/ DispatchPanic(e) \/ DispatchNote(e)
       PROVE  ThreadTypes'
  <2>1. UNCHANGED <<pc, path, todo, prepared, events>>
    BY <1>11 DEF DispatchPanic, DispatchNote
  <2> QED BY <2>1, <1>0 DEF ThreadTypes, Ids
<1> QED BY <1>1, <1>2, <1>3, <1>4, <1>5, <1>6, <1>7, <1>8, <1>9, <1>10, <1>11, Steps

LEMMA NextCompilerTypes == Types /\ ThreadsInv /\ [Next]_vars => CompilerTypes'
<1> SUFFICES ASSUME Types /\ ThreadsInv, [Next]_vars PROVE CompilerTypes'  OBVIOUS
<1> USE DEF numbers, threads, compilerVars, audioVars, flags, history, outsideCompiler,
           outsideAudio
<1>0. /\ CompilerTypes /\ heads \in [Sources -> Ids \cup {NoEvent}] /\ page \subseteq Ids
      /\ unpolled \subseteq Sources /\ poll \in 0 .. PollEvery - 1
      /\ compiler \in {"pop", "poll", "take", "publish", "ended"}
      /\ PollEvery \in Nat /\ PollEvery >= 1
  BY CapacityAssumption DEF Types, CompilerTypes
<1>a. EmptyHeads \subseteq Sources  BY DEF EmptyHeads
<1>1. ASSUME NEW t \in Threads, Number(t) PROVE CompilerTypes'
  <2>1. PICK n \in Nat, first \in Nat : Numbered(t, n, first)  BY <1>1, NumberFacts
  <2>2. Ids \subseteq Ids'  BY <2>1 DEF Numbered
  <2>3. UNCHANGED <<compiler, heads, unpolled, poll, page>>  BY <1>1 DEF Number
  <2> QED BY <2>2, <2>3, <1>0 DEF CompilerTypes
<1>2. ASSUME Pop PROVE CompilerTypes'
  <2>1. Ids' = Ids /\ UNCHANGED <<heads, page>>  BY <1>2 DEF Pop, Ids
  <2>2. poll' \in 0 .. PollEvery - 1
    BY <1>2, <1>0 DEF Pop
  <2>3. unpolled' \in {unpolled, EmptyHeads}  BY <1>2 DEF Pop
  <2>4. compiler' \in {"poll", "take", "ended"}  BY <1>2 DEF Pop
  <2> QED BY <2>1, <2>2, <2>3, <2>4, <1>0, <1>a DEF CompilerTypes
<1>3. ASSUME PollLane PROVE CompilerTypes'
  <2>1. /\ UNCHANGED <<events, page, poll>> /\ unpolled' \subseteq unpolled
        /\ compiler' \in {"take", compiler}
        /\ heads' = heads \/ \E i \in DOMAIN Order : PopSource(Order[i])
    BY <1>3 DEF PollLane
  <2>2. \A i \in DOMAIN Order : Order[i] \in Sources  BY KindFacts DEF Order
  <2>3. Ids' = Ids  BY <2>1 DEF Ids
  <2>4. heads' \in [Sources -> Ids' \cup {NoEvent}]
    BY <2>1, <2>2, <2>3, <1>0, PoppedTypes
  <2> QED BY <2>1, <2>3, <2>4, <1>0 DEF CompilerTypes
<1>4. ASSUME Take PROVE CompilerTypes'
  <2>1. /\ UNCHANGED <<events, poll, unpolled>> /\ compiler' \in {"pop", "publish"}
        /\ \/ UNCHANGED <<heads, page>>
           \/ \E s \in Sources \ EmptyHeads : page' = page \cup {heads[s]} /\ PopSource(s)
    BY <1>4 DEF Take
  <2>2. Ids' = Ids  BY <2>1 DEF Ids
  <2>3. CASE UNCHANGED <<heads, page>>  BY <2>1, <2>2, <2>3, <1>0 DEF CompilerTypes
  <2>4. ASSUME NEW s \in Sources \ EmptyHeads, page' = page \cup {heads[s]}, PopSource(s)
        PROVE  CompilerTypes'
    <3>1. heads[s] \in Ids  BY <1>0 DEF EmptyHeads
    <3>2. heads' \in [Sources -> Ids' \cup {NoEvent}]  BY <2>1, <2>4, PoppedTypes
    <3> QED BY <2>1, <2>2, <2>4, <3>1, <3>2, <1>0 DEF CompilerTypes
  <2> QED BY <2>1, <2>3, <2>4
<1>5. ASSUME PublishPage PROVE CompilerTypes'
  BY <1>5, <1>0 DEF PublishPage, CompilerTypes, Ids
<1>6. ASSUME \/ Import \/ EndRun \/ CancelProducers \/ CancelSession \/ UNCHANGED vars
      PROVE  CompilerTypes'
  <2>1. UNCHANGED <<compiler, heads, unpolled, poll, page, events>>
    BY <1>6 DEF Import, EndRun, CancelProducers, CancelSession, vars
  <2> QED BY <2>1, <1>0 DEF CompilerTypes, Ids
<1>7. ASSUME NEW t \in Threads,
             \/ Submit(t) \/ CheckCancelled(t) \/ PrepareCancelled(t) \/ Prepare(t)
             \/ Push(t) \/ PushOne(t) \/ Full(t) \/ Resume(t)
      PROVE  CompilerTypes'
  <2>1. UNCHANGED <<compiler, heads, unpolled, poll, page, events>>
    BY <1>7 DEF Submit, CheckCancelled, PrepareCancelled, Prepare, Push, PushOne, Full,
       Resume, Goto
  <2> QED BY <2>1, <1>0 DEF CompilerTypes, Ids
<1>8. ASSUME NEW e \in Ids,
             \/ DispatchPanic(e) \/ DispatchNote(e)
      PROVE  CompilerTypes'
  <2>1. UNCHANGED <<compiler, heads, unpolled, poll, page, events>>
    BY <1>8 DEF DispatchPanic, DispatchNote
  <2> QED BY <2>1, <1>0 DEF CompilerTypes, Ids
<1> QED BY <1>1, <1>2, <1>3, <1>4, <1>5, <1>6, <1>7, <1>8, Steps

LEMMA NextAudioTypes == Types /\ ThreadsInv /\ [Next]_vars => AudioTypes'
<1> SUFFICES ASSUME Types /\ ThreadsInv, [Next]_vars PROVE AudioTypes'  OBVIOUS
<1> USE DEF numbers, threads, compilerVars, audioVars, flags, history, outsideCompiler,
           outsideAudio
<1>0. AudioTypes /\ page \subseteq Ids /\ fence \in Nat
  BY DEF Types, CompilerTypes, NumberTypes
<1>1. ASSUME NEW t \in Threads, Number(t) PROVE AudioTypes'
  <2>1. PICK n \in Nat, first \in Nat : Numbered(t, n, first)  BY <1>1, NumberFacts
  <2>2. Ids \subseteq Ids'  BY <2>1 DEF Numbered
  <2>3. UNCHANGED <<ready, due, runFence, clock, cancelProducers, sessionCancelled>>
    BY <1>1 DEF Number
  <2> QED BY <2>2, <2>3, <1>0 DEF AudioTypes
<1>2. ASSUME PublishPage PROVE AudioTypes'
  BY <1>2, <1>0 DEF PublishPage, AudioTypes, Ids
<1>3. ASSUME Import PROVE AudioTypes'
  BY <1>3, <1>0 DEF Import, AudioTypes, Ids
<1>4. ASSUME NEW e \in Ids, DispatchPanic(e) PROVE AudioTypes'
  BY <1>4, <1>0 DEF DispatchPanic, AudioTypes, Ids
<1>5. ASSUME NEW e \in Ids, DispatchNote(e) PROVE AudioTypes'
  BY <1>5, <1>0 DEF DispatchNote, AudioTypes, Ids
<1>6. ASSUME EndRun PROVE AudioTypes'
  BY <1>6, <1>0 DEF EndRun, AudioTypes, Ids
<1>7. ASSUME CancelProducers PROVE AudioTypes'
  BY <1>7, <1>0 DEF CancelProducers, AudioTypes, Ids
<1>8. ASSUME CancelSession PROVE AudioTypes'
  BY <1>8, <1>0 DEF CancelSession, AudioTypes, Ids
<1>9. ASSUME \/ Pop \/ PollLane \/ Take \/ UNCHANGED vars
      PROVE  AudioTypes'
  <2>1. UNCHANGED <<ready, due, runFence, clock, cancelProducers, sessionCancelled,
                    events>>
    BY <1>9 DEF Pop, PollLane, Take, vars
  <2> QED BY <2>1, <1>0 DEF AudioTypes, Ids
<1>10. ASSUME NEW t \in Threads,
              \/ Submit(t) \/ CheckCancelled(t) \/ PrepareCancelled(t) \/ Prepare(t)
              \/ Push(t) \/ PushOne(t) \/ Full(t) \/ Resume(t)
       PROVE  AudioTypes'
  <2>1. UNCHANGED <<ready, due, runFence, clock, cancelProducers, sessionCancelled,
                    events>>
    BY <1>10 DEF Submit, CheckCancelled, PrepareCancelled, Prepare, Push, PushOne, Full,
       Resume, Goto
  <2> QED BY <2>1, <1>0 DEF AudioTypes, Ids
<1> QED BY <1>1, <1>2, <1>3, <1>4, <1>5, <1>6, <1>7, <1>8, <1>9, <1>10, Steps

LEMMA NextHistoryTypes == Types /\ ThreadsInv /\ [Next]_vars => HistoryTypes'
<1> SUFFICES ASSUME Types /\ ThreadsInv, [Next]_vars PROVE HistoryTypes'  OBVIOUS
<1> USE DEF numbers, threads, compilerVars, audioVars, flags, history, outsideCompiler,
           outsideAudio
<1>0. HistoryTypes  BY DEF Types
<1>1. ASSUME NEW t \in Threads, Number(t) PROVE HistoryTypes'
  <2>1. PICK n \in Nat, first \in Nat : Numbered(t, n, first)  BY <1>1, NumberFacts
  <2> QED BY <2>1 DEF Numbered
<1>2. ASSUME NEW t \in Threads, PrepareCancelled(t) PROVE HistoryTypes'
  <2>1. UNCHANGED events /\ SetFate(ToSet(prepared[t]), "cancelled")
    BY <1>2 DEF PrepareCancelled
  <2> QED BY <2>1, <1>0, KindFacts, FateStep
<1>3. ASSUME NEW t \in Threads, Prepare(t) PROVE HistoryTypes'
  <2>1. /\ UNCHANGED events
        /\ fate' = fate \/ SetFate({prepared[t][Len(prepared[t])]}, "shed")
    BY <1>3 DEF Prepare
  <2>2. CASE fate' = fate  BY <2>1, <2>2, <1>0 DEF HistoryTypes
  <2> QED BY <2>1, <2>2, <1>0, KindFacts, FateStep
<1>4. ASSUME NEW t \in Threads, Push(t) PROVE HistoryTypes'
  <2>1. UNCHANGED events /\ (fate' = fate \/ SetFate(ToSet(prepared[t]), "pushed"))
    BY <1>4 DEF Push, PushInto
  <2>2. CASE fate' = fate  BY <2>1, <2>2, <1>0 DEF HistoryTypes
  <2> QED BY <2>1, <2>2, <1>0, KindFacts, FateStep
<1>5. ASSUME NEW t \in Threads, PushOne(t) PROVE HistoryTypes'
  <2>1. /\ UNCHANGED events
        /\ fate' = fate \/ SetFate(ToSet(<<Head(prepared[t])>>), "pushed")
    BY <1>5 DEF PushOne, PushInto
  <2>2. CASE fate' = fate  BY <2>1, <2>2, <1>0 DEF HistoryTypes
  <2> QED BY <2>1, <2>2, <1>0, KindFacts, FateStep
<1>6. ASSUME NEW t \in Threads, Full(t) PROVE HistoryTypes'
  <2>1. /\ UNCHANGED events
        /\ \/ fate' = fate
           \/ SetFate({Head(prepared[t])}, "shed")
           \/ SetFate(ToSet(prepared[t]), "cancelled")
    BY <1>6 DEF Full
  <2>2. CASE fate' = fate  BY <2>1, <2>2, <1>0 DEF HistoryTypes
  <2> QED BY <2>1, <2>2, <1>0, KindFacts, FateStep
<1>7. ASSUME NEW e \in Ids, DispatchPanic(e) PROVE HistoryTypes'
  <2>1. UNCHANGED events /\ SetFate({e}, "played")
    BY <1>7 DEF DispatchPanic
  <2> QED BY <2>1, <1>0, KindFacts, FateStep
<1>8. ASSUME NEW e \in Ids, DispatchNote(e) PROVE HistoryTypes'
  <2>1. UNCHANGED events /\ (SetFate({e}, "suppressed") \/ SetFate({e}, "sounded"))
    BY <1>8 DEF DispatchNote
  <2> QED BY <2>1, <1>0, KindFacts, FateStep
<1>9. ASSUME \/ Pop \/ PollLane \/ Take \/ PublishPage \/ Import \/ EndRun
             \/ CancelProducers \/ CancelSession \/ UNCHANGED vars
      PROVE  HistoryTypes'
  <2>1. UNCHANGED <<events, fate>>
    BY <1>9 DEF Pop, PollLane, Take, PublishPage, Import, EndRun, CancelProducers,
       CancelSession, vars
  <2> QED BY <2>1, <1>0 DEF HistoryTypes
<1>10. ASSUME NEW t \in Threads,
              \/ Submit(t) \/ CheckCancelled(t) \/ Resume(t)
       PROVE  HistoryTypes'
  <2>1. UNCHANGED <<events, fate>>
    BY <1>10 DEF Submit, CheckCancelled, Resume, Goto
  <2> QED BY <2>1, <1>0 DEF HistoryTypes
<1> QED BY <1>1, <1>2, <1>3, <1>4, <1>5, <1>6, <1>7, <1>8, <1>9, <1>10, Steps

LEMMA NextTypes == Types /\ ThreadsInv /\ [Next]_vars => Types'
BY NextNumberTypes, NextLaneTypes, NextThreadTypes, NextCompilerTypes, NextAudioTypes,
   NextHistoryTypes DEF Types

-----------------------------------------------------------------------------
(* The threads and the merge.                                              *)

\* Nothing is left to do after a round: where t goes on fits what it has.
LEMMA RoundEnds ==
    ASSUME Types, ThreadsInv, NEW t \in Threads, UNCHANGED <<todo, path, owner, events>>,
           pc'[t] = NextRound(t), prepared'[t] = <<>>
    PROVE  ThreadInv(t)'
<1>1. /\ Len(prepared'[t]) = 0 /\ ToSet(prepared'[t]) = {} /\ Chunk >= 1 /\ Chunk \in Nat
  BY EmptyFacts, KindFacts
<1>2. /\ path[t] = "mixed" => t = owner
      /\ path[t] = "block" => ToSet(todo[t]) \subseteq {"loud"}
  BY DEF ThreadsInv, ThreadInv
<1>3. CASE todo[t] = <<>>
  <2>1. pc'[t] = "idle"  BY <1>3 DEF NextRound
  <2> QED BY <2>1, <1>1, <1>2, <1>3 DEF ThreadInv
<1>4. CASE todo[t] # <<>> /\ path[t] = "single"
  <2>1. pc'[t] = "number"  BY <1>4 DEF NextRound
  <2> QED BY <2>1, <1>1, <1>2, <1>4 DEF ThreadInv
<1>5. CASE todo[t] # <<>> /\ path[t] # "single"
  <2>1. pc'[t] = "check"  BY <1>5 DEF NextRound
  <2> QED BY <2>1, <1>1, <1>2, <1>5 DEF ThreadInv
<1> QED BY <1>3, <1>4, <1>5

LEMMA NextThreads == Types /\ ThreadsInv /\ [Next]_vars => ThreadsInv'
<1> SUFFICES ASSUME Types /\ ThreadsInv, [Next]_vars PROVE ThreadsInv'  OBVIOUS
<1> USE DEF numbers, threads, compilerVars, audioVars, flags, history, outsideCompiler,
           outsideAudio
<1>0. /\ pc \in [Threads -> ThreadLabels] /\ path \in [Threads -> {"single", "mixed", "block"}]
      /\ todo \in [Threads -> Seq(Kinds)] /\ prepared \in [Threads -> Seq(Ids)]
      /\ \A t \in Threads : Len(prepared[t]) \in Nat
      /\ \A S : \A s \in Seq(S) : s = <<>> <=> Len(s) = 0
      /\ ToSet(<<>>) = {} /\ Len(<<>>) = 0 /\ Chunk \in Nat /\ Chunk >= 1
  BY EmptyFacts, SeqElements, KindFacts DEF Types, ThreadTypes
<1>a. ASSUME NEW u \in Threads, pc'[u] = pc[u], path'[u] = path[u], todo'[u] = todo[u],
              prepared'[u] = prepared[u], owner' = owner \/ owner \notin Threads,
              \A e \in Ids : events'[e].kind = events[e].kind
       PROVE  ThreadInv(u)'
  <2>1. ThreadInv(u)  BY DEF ThreadsInv
  <2>2. ToSet(prepared[u]) \subseteq Ids  BY HandFacts
  <2>3. \A e \in ToSet(prepared[u]) : events'[e].kind = events[e].kind  BY <2>2, <1>a
  <2> QED BY <2>1, <2>3, <1>a DEF ThreadInv
<1>1. ASSUME NEW t \in Threads, Submit(t) PROVE ThreadsInv'
  <2>1. ThreadInv(t) /\ pc[t] = "idle" /\ prepared' = prepared /\ events' = events
    BY <1>1 DEF Submit, ThreadsInv
  <2>2. prepared'[t] = <<>>  BY <2>1 DEF ThreadInv
  <2>3. /\ owner' = owner \/ owner \notin Threads
        /\ owner' = IF owner = NoThread THEN t ELSE owner
    BY <1>1, KindFacts DEF Submit
  <2>4. PICK batch \in Batches :
          /\ todo' = [todo EXCEPT ![t] = batch]
          /\ path' = [path EXCEPT ![t] = PathOf(t, batch)]
          /\ pc' = [pc EXCEPT ![t] = IF path'[t] = "single" THEN "number" ELSE "check"]
    BY <1>1 DEF Submit, Goto
  <2>5. batch # <<>>  BY BoundAssumption
  <2>6. /\ PathOf(t, batch) \in {"single", "mixed", "block"}
        /\ PathOf(t, batch) = "mixed" => owner' = t
        /\ PathOf(t, batch) = "block" => ToSet(batch) = {"loud"}
    BY DEF PathOf
  <2>7. /\ todo'[t] = batch /\ path'[t] = PathOf(t, batch)
        /\ pc'[t] = IF path'[t] = "single" THEN "number" ELSE "check"
    BY <2>4, <1>0
  <2>8. ThreadInv(t)'
    <3>1. pc'[t] = "check" => path'[t] # "single"  BY <2>7
    <3>2. pc'[t] \in {"number", "check"}  BY <2>7
    <3> HIDE DEF PathOf
    <3> QED BY <3>1, <3>2, <2>2, <2>5, <2>6, <2>7, <1>0 DEF ThreadInv
  <2>9. ASSUME NEW u \in Threads, u # t PROVE ThreadInv(u)'
    <3>1. pc'[u] = pc[u] /\ path'[u] = path[u] /\ todo'[u] = todo[u]
      BY <2>4, <2>9, <1>0
    <3> QED BY <3>1, <2>1, <2>3, <1>a
  <2> QED BY <2>8, <2>9 DEF ThreadsInv
<1>2. ASSUME NEW t \in Threads, CheckCancelled(t) PROVE ThreadsInv'
  <2>1. ThreadInv(t) /\ pc[t] = "check"  BY <1>2 DEF CheckCancelled, ThreadsInv
  <2>2. UNCHANGED <<events, path, owner>>  BY <1>2 DEF CheckCancelled
  <2>3. \/ pc'[t] = "idle" /\ todo'[t] = <<>> /\ prepared'[t] = <<>>
        \/ pc'[t] = "number" /\ todo'[t] = todo[t] /\ prepared'[t] = prepared[t]
    BY <1>2, <1>0 DEF CheckCancelled, Goto, Return
  <2>8. ThreadInv(t)'  BY <2>1, <2>2, <2>3, <1>0 DEF ThreadInv
  <2>9. ASSUME NEW u \in Threads, u # t PROVE ThreadInv(u)'
    <3>1. /\ pc'[u] = pc[u] /\ path'[u] = path[u] /\ todo'[u] = todo[u]
          /\ prepared'[u] = prepared[u] /\ owner' = owner /\ events' = events
      BY <1>2, <2>9, <1>0 DEF CheckCancelled, Goto, Return
    <3> QED BY <3>1, <1>a
  <2> QED BY <2>8, <2>9 DEF ThreadsInv
<1>3. ASSUME NEW t \in Threads, Number(t) PROVE ThreadsInv'
  <2>1. PICK n \in Nat, first \in Nat : Numbered(t, n, first)  BY <1>3, NumberFacts
  <2>2. /\ UNCHANGED <<path, owner>> /\ pc[t] = "number"
        /\ pc' = [pc EXCEPT ![t] = IF path[t] = "block" THEN "push" ELSE "prepare"]
    BY <1>3 DEF Number, Goto
  <2>3. ThreadInv(t) /\ pc'[t] = IF path[t] = "block" THEN "push" ELSE "prepare"
    BY <2>2, <1>0 DEF ThreadsInv
  <2>4. /\ ToSet(prepared'[t]) = ToSet(prepared[t]) \cup New(n) /\ New(n) # {}
        /\ Len(prepared'[t]) = Len(prepared[t]) + n /\ Len(prepared'[t]) <= Chunk
        /\ path[t] # "block" => n = 1
        /\ ToSet(todo'[t]) \subseteq ToSet(todo[t])
        /\ \A e \in Ids : events'[e] = events[e]
        /\ \A e \in New(n) : events'[e].kind \in ToSet(todo[t])
    BY <2>1 DEF Numbered
  <2>5. prepared'[t] # <<>>  BY <2>4, <1>0
  <2>6. path[t] = "single" => Len(prepared'[t]) <= 1
    BY <2>2, <2>3, <2>4, <1>0 DEF ThreadInv
  <2>7. path[t] = "block" => \A e \in ToSet(prepared'[t]) : events'[e].kind = "loud"
    BY <2>3, <2>4, HandFacts DEF ThreadInv
  <2>8. ThreadInv(t)'  BY <2>2, <2>3, <2>4, <2>5, <2>6, <2>7 DEF ThreadInv
  <2>9. ASSUME NEW u \in Threads, u # t PROVE ThreadInv(u)'
    <3>1. /\ pc'[u] = pc[u] /\ todo'[u] = todo[u] /\ prepared'[u] = prepared[u]
      BY <2>1, <2>2, <2>9, <1>0 DEF Numbered
    <3> QED BY <3>1, <2>2, <2>4, <1>a
  <2> QED BY <2>8, <2>9 DEF ThreadsInv
<1>4. ASSUME NEW t \in Threads, PrepareCancelled(t) PROVE ThreadsInv'
  <2>1. ThreadInv(t)  BY DEF ThreadsInv
  <2>2. UNCHANGED <<events, path, owner>>  BY <1>4 DEF PrepareCancelled
  <2>3. pc'[t] = "idle" /\ todo'[t] = <<>> /\ prepared'[t] = <<>>
    BY <1>4, <1>0 DEF PrepareCancelled, Goto, Return
  <2>8. ThreadInv(t)'  BY <2>1, <2>2, <2>3, <1>0 DEF ThreadInv
  <2>9. ASSUME NEW u \in Threads, u # t PROVE ThreadInv(u)'
    <3>1. /\ pc'[u] = pc[u] /\ path'[u] = path[u] /\ todo'[u] = todo[u]
          /\ prepared'[u] = prepared[u] /\ owner' = owner /\ events' = events
      BY <1>4, <2>9, <1>0 DEF PrepareCancelled, Goto, Return
    <3> QED BY <3>1, <1>a
  <2> QED BY <2>8, <2>9 DEF ThreadsInv
<1>5. ASSUME NEW t \in Threads, Prepare(t) PROVE ThreadsInv'
  <2>1. ThreadInv(t) /\ pc[t] = "prepare" /\ prepared[t] # <<>>
    BY <1>5 DEF Prepare, ThreadsInv, ThreadInv
  <2>2. UNCHANGED <<events, path, owner, todo>>  BY <1>5 DEF Prepare
  <2>3. ASSUME /\ prepared' = prepared
               /\ Goto(t, IF /\ path[t] = "mixed" /\ todo[t] # <<>>
                             /\ Len(prepared[t]) < Chunk
                          THEN "number" ELSE "push")
        PROVE  ThreadInv(t)'
    <3>1. /\ prepared'[t] = prepared[t]
          /\ pc'[t] = IF /\ path[t] = "mixed" /\ todo[t] # <<>>
                         /\ Len(prepared[t]) < Chunk
                      THEN "number" ELSE "push"
      BY <2>3, <1>0 DEF Goto
    <3> QED BY <3>1, <2>1, <2>2 DEF ThreadInv
  <2>4. ASSUME /\ prepared' = [prepared EXCEPT ![t] = Front(prepared[t])]
               /\ Goto(t, IF path[t] = "mixed" /\ todo[t] # <<>> THEN "number"
                          ELSE IF Len(prepared[t]) > 1 THEN "push"
                          ELSE NextRound(t))
        PROVE  ThreadInv(t)'
    <3>1. /\ prepared'[t] = Front(prepared[t])
          /\ pc'[t] = IF path[t] = "mixed" /\ todo[t] # <<>> THEN "number"
                      ELSE IF Len(prepared[t]) > 1 THEN "push"
                      ELSE NextRound(t)
      BY <2>4, <1>0 DEF Goto
    <3>2. /\ Len(prepared'[t]) = Len(prepared[t]) - 1 /\ prepared'[t] \in Seq(Ids)
          /\ ToSet(prepared'[t]) \subseteq ToSet(prepared[t]) /\ Len(prepared[t]) \in Nat
      BY <3>1, <2>1, HandFacts
    <3>3. CASE path[t] = "mixed" /\ todo[t] # <<>>
      BY <3>1, <3>2, <3>3, <2>1, <2>2, <1>0 DEF ThreadInv
    <3>4. CASE ~(path[t] = "mixed" /\ todo[t] # <<>>) /\ Len(prepared[t]) > 1
      <4>1. pc'[t] = "push" /\ prepared'[t] # <<>>  BY <3>1, <3>2, <3>4, <1>0
      <4> QED BY <4>1, <3>2, <2>1, <2>2, <1>0 DEF ThreadInv
    <3>5. CASE ~(path[t] = "mixed" /\ todo[t] # <<>>) /\ ~(Len(prepared[t]) > 1)
      <4>1. pc'[t] = NextRound(t) /\ prepared'[t] = <<>>  BY <3>1, <3>2, <3>5, <1>0
      <4> QED BY <4>1, <2>2, RoundEnds
    <3> QED BY <3>3, <3>4, <3>5
  <2>8. ThreadInv(t)'  BY <1>5, <2>3, <2>4 DEF Prepare
  <2>9. ASSUME NEW u \in Threads, u # t PROVE ThreadInv(u)'
    <3>1. /\ pc'[u] = pc[u] /\ path'[u] = path[u] /\ todo'[u] = todo[u]
          /\ prepared'[u] = prepared[u] /\ owner' = owner /\ events' = events
      BY <1>5, <2>9, <1>0 DEF Prepare, Goto
    <3> QED BY <3>1, <1>a
  <2> QED BY <2>8, <2>9 DEF ThreadsInv
<1>6. ASSUME NEW t \in Threads, Push(t) PROVE ThreadsInv'
  <2>1. ThreadInv(t) /\ pc[t] = "push" /\ prepared[t] # <<>>
    BY <1>6 DEF Push, ThreadsInv, ThreadInv
  <2>2. UNCHANGED <<events, path, owner, todo>>  BY <1>6 DEF Push
  <2>3. \/ pc'[t] = NextRound(t) /\ prepared'[t] = <<>>
        \/ /\ pc'[t] = IF path[t] = "mixed" THEN "one" ELSE "full"
           /\ prepared'[t] = prepared[t]
    BY <1>6, <1>0 DEF Push, Goto
  <2>4. ASSUME pc'[t] = NextRound(t) /\ prepared'[t] = <<>>
        PROVE  ThreadInv(t)'
    BY <2>2, <2>4, RoundEnds
  <2>5. ASSUME /\ pc'[t] = IF path[t] = "mixed" THEN "one" ELSE "full"
               /\ prepared'[t] = prepared[t]
        PROVE  ThreadInv(t)'
    BY <2>1, <2>2, <2>5 DEF ThreadInv
  <2>8. ThreadInv(t)'  BY <2>3, <2>4, <2>5
  <2>9. ASSUME NEW u \in Threads, u # t PROVE ThreadInv(u)'
    <3>1. /\ pc'[u] = pc[u] /\ path'[u] = path[u] /\ todo'[u] = todo[u]
          /\ prepared'[u] = prepared[u] /\ owner' = owner /\ events' = events
      BY <1>6, <2>9, <1>0 DEF Push, Goto
    <3> QED BY <3>1, <1>a
  <2> QED BY <2>8, <2>9 DEF ThreadsInv
<1>7. ASSUME NEW t \in Threads, PushOne(t) PROVE ThreadsInv'
  <2>1. ThreadInv(t) /\ pc[t] = "one" /\ path[t] = "mixed"
    BY <1>7 DEF PushOne, ThreadsInv, ThreadInv
  <2>2. UNCHANGED <<events, path, owner, todo>>  BY <1>7 DEF PushOne
  <2>3. \/ pc'[t] = NextRound(t) /\ prepared'[t] = <<>>
        \/ pc'[t] = "one" /\ prepared[t] # <<>> /\ prepared'[t] = Tail(prepared[t])
        \/ pc'[t] = "full" /\ prepared[t] # <<>> /\ prepared'[t] = prepared[t]
    BY <1>7, <1>0 DEF PushOne, Goto
  <2>4. ASSUME pc'[t] = NextRound(t) /\ prepared'[t] = <<>>
        PROVE  ThreadInv(t)'
    BY <2>2, <2>4, RoundEnds
  <2>5. ASSUME pc'[t] = "one" /\ prepared[t] # <<>> /\ prepared'[t] = Tail(prepared[t])
        PROVE  ThreadInv(t)'
    <3>1. /\ Len(prepared'[t]) = Len(prepared[t]) - 1 /\ Len(prepared[t]) \in Nat
          /\ ToSet(prepared'[t]) \subseteq ToSet(prepared[t])
      BY <2>5, HandFacts
    <3> QED BY <3>1, <2>1, <2>2, <2>5, <1>0 DEF ThreadInv
  <2>6. ASSUME pc'[t] = "full" /\ prepared[t] # <<>> /\ prepared'[t] = prepared[t]
        PROVE  ThreadInv(t)'
    BY <2>1, <2>2, <2>6 DEF ThreadInv
  <2>8. ThreadInv(t)'  BY <2>3, <2>4, <2>5, <2>6
  <2>9. ASSUME NEW u \in Threads, u # t PROVE ThreadInv(u)'
    <3>1. /\ pc'[u] = pc[u] /\ path'[u] = path[u] /\ todo'[u] = todo[u]
          /\ prepared'[u] = prepared[u] /\ owner' = owner /\ events' = events
      BY <1>7, <2>9, <1>0 DEF PushOne, Goto
    <3> QED BY <3>1, <1>a
  <2> QED BY <2>8, <2>9 DEF ThreadsInv
<1>8. ASSUME NEW t \in Threads, Full(t) PROVE ThreadsInv'
  <2>1. ThreadInv(t) /\ pc[t] = "full" /\ prepared[t] # <<>>
    BY <1>8 DEF Full, ThreadsInv, ThreadInv
  <2>2. UNCHANGED <<events, path, owner>>  BY <1>8 DEF Full
  <2>3. \/ /\ events[Head(prepared[t])].kind = "quiet" /\ todo' = todo
           /\ prepared'[t] = Tail(prepared[t])
           /\ pc'[t] = IF path[t] = "mixed" THEN "one" ELSE NextRound(t)
        \/ pc'[t] = "idle" /\ todo'[t] = <<>> /\ prepared'[t] = <<>>
        \/ pc'[t] = "wait" /\ todo'[t] = todo[t] /\ prepared'[t] = prepared[t]
    BY <1>8, <1>0 DEF Full, Goto, Return
  <2>4. ASSUME pc'[t] = "idle" /\ todo'[t] = <<>> /\ prepared'[t] = <<>>
        PROVE  ThreadInv(t)'
    BY <2>1, <2>2, <2>4, <1>0 DEF ThreadInv
  <2>5. ASSUME pc'[t] = "wait" /\ todo'[t] = todo[t] /\ prepared'[t] = prepared[t]
        PROVE  ThreadInv(t)'
    BY <2>1, <2>2, <2>5 DEF ThreadInv
  <2>6. ASSUME /\ events[Head(prepared[t])].kind = "quiet" /\ todo' = todo
               /\ prepared'[t] = Tail(prepared[t])
               /\ pc'[t] = IF path[t] = "mixed" THEN "one" ELSE NextRound(t)
        PROVE  ThreadInv(t)'
    <3>1. /\ Len(prepared'[t]) = Len(prepared[t]) - 1 /\ Len(prepared[t]) \in Nat
          /\ ToSet(prepared'[t]) \subseteq ToSet(prepared[t])
          /\ prepared'[t] \in Seq(Ids)
      BY <2>1, <2>6, HandFacts
    <3>2. CASE path[t] = "mixed"  BY <3>1, <3>2, <2>1, <2>2, <2>6, <1>0 DEF ThreadInv
    <3>3. CASE path[t] # "mixed"
      <4>1. Head(prepared[t]) \in ToSet(prepared[t])  BY <2>1, <1>0, TailFacts
      <4>2. path[t] # "block"  BY <4>1, <2>1, <2>6 DEF ThreadInv
      <4>3. path[t] = "single"  BY <4>2, <3>3, <1>0
      <4>4. prepared'[t] = <<>>  BY <4>3, <3>1, <2>1, <1>0 DEF ThreadInv
      <4> QED BY <4>4, <3>3, <2>2, <2>6, RoundEnds
    <3> QED BY <3>2, <3>3
  <2>8. ThreadInv(t)'  BY <2>3, <2>4, <2>5, <2>6
  <2>9. ASSUME NEW u \in Threads, u # t PROVE ThreadInv(u)'
    <3>1. /\ pc'[u] = pc[u] /\ path'[u] = path[u] /\ todo'[u] = todo[u]
          /\ prepared'[u] = prepared[u] /\ owner' = owner /\ events' = events
      BY <1>8, <2>9, <1>0 DEF Full, Goto, Return
    <3> QED BY <3>1, <1>a
  <2> QED BY <2>8, <2>9 DEF ThreadsInv
<1>9. ASSUME NEW t \in Threads, Resume(t) PROVE ThreadsInv'
  <2>1. ThreadInv(t) /\ pc[t] = "wait" /\ prepared[t] # <<>>
    BY <1>9 DEF Resume, ThreadsInv, ThreadInv
  <2>2. UNCHANGED <<events, path, owner, todo, prepared>>  BY <1>9 DEF Resume
  <2>3. pc'[t] = IF path[t] = "mixed" THEN "one" ELSE "push"  BY <1>9, <1>0 DEF Resume, Goto
  <2>8. ThreadInv(t)'  BY <2>1, <2>2, <2>3 DEF ThreadInv
  <2>9. ASSUME NEW u \in Threads, u # t PROVE ThreadInv(u)'
    <3>1. /\ pc'[u] = pc[u] /\ path'[u] = path[u] /\ todo'[u] = todo[u]
          /\ prepared'[u] = prepared[u] /\ owner' = owner /\ events' = events
      BY <1>9, <2>9, <1>0 DEF Resume, Goto
    <3> QED BY <3>1, <1>a
  <2> QED BY <2>8, <2>9 DEF ThreadsInv
<1>10. ASSUME \/ Pop \/ PollLane \/ Take \/ PublishPage \/ Import \/ EndRun
              \/ CancelProducers \/ CancelSession \/ UNCHANGED vars
       PROVE  ThreadsInv'
  <2>1. UNCHANGED <<pc, path, todo, prepared, owner, events>>
    BY <1>10 DEF Pop, PollLane, Take, PublishPage, Import, EndRun, CancelProducers,
       CancelSession, vars
  <2> QED BY <2>1 DEF ThreadsInv, ThreadInv
<1>11. ASSUME NEW e \in Ids,
              \/ DispatchPanic(e) \/ DispatchNote(e)
       PROVE  ThreadsInv'
  <2>1. UNCHANGED <<pc, path, todo, prepared, owner, events>>
    BY <1>11 DEF DispatchPanic, DispatchNote
  <2> QED BY <2>1 DEF ThreadsInv, ThreadInv
<1> QED BY <1>1, <1>2, <1>3, <1>4, <1>5, <1>6, <1>7, <1>8, <1>9, <1>10, <1>11, Steps

LEMMA NextMerge == Types /\ MergeInv /\ [Next]_vars => MergeInv'
<1> SUFFICES ASSUME Types /\ MergeInv, [Next]_vars PROVE MergeInv'  OBVIOUS
<1> USE DEF numbers, threads, compilerVars, audioVars, flags, history, outsideCompiler,
           outsideAudio
<1>0. /\ compiler \in {"pop", "poll", "take", "publish", "ended"}
      /\ heads \in [Sources -> Ids \cup {NoEvent}] /\ MergeInv
      /\ PageCapacity \in Nat /\ PageCapacity >= 1
  BY CapacityAssumption DEF Types, CompilerTypes
<1>1. ASSUME Pop PROVE MergeInv'
  BY <1>1, <1>0 DEF Pop, MergeInv, EmptyHeads
<1>2. ASSUME PollLane PROVE MergeInv'
  <2>1. UNCHANGED page /\ compiler = "poll" /\ compiler' \in {"take", "poll"}
    BY <1>2 DEF PollLane
  <2>2. unpolled' \subseteq EmptyHeads'
    <3>1. CASE UNCHANGED <<heads, unpolled>>  BY <3>1, <1>0 DEF MergeInv, EmptyHeads
    <3>2. CASE \E i \in DOMAIN Order : PopSource(Order[i]) /\ unpolled' = unpolled \ {Order[i]}
      <4> PICK i \in DOMAIN Order : PopSource(Order[i]) /\ unpolled' = unpolled \ {Order[i]}
        BY <3>2
      <4>1. \A r \in Sources : r # Order[i] => heads'[r] = heads[r]
        BY <1>0 DEF PopSource
      <4> QED BY <4>1, <1>0 DEF MergeInv, EmptyHeads
    <3> QED BY <1>2, <3>1, <3>2 DEF PollLane
  <2> QED BY <2>1, <2>2, <1>0 DEF MergeInv
<1>3. ASSUME Take PROVE MergeInv'
  <2>1. compiler = "take" /\ UNCHANGED unpolled  BY <1>3 DEF Take
  <2>2. CASE UNCHANGED <<heads, page>> /\ compiler' \in {"pop", "publish"}
    BY <2>1, <2>2, <1>0 DEF MergeInv, EmptyHeads
  <2>3. ASSUME NEW s \in Sources \ EmptyHeads, page' = page \cup {heads[s]}, PopSource(s),
               compiler' = IF Cardinality(page') = PageCapacity THEN "publish" ELSE "pop"
        PROVE  MergeInv'
    <3>1. /\ IsFiniteSet(page') /\ Cardinality(page) \in Nat
          /\ Cardinality(page') \in {Cardinality(page), Cardinality(page) + 1}
      BY <2>3, <1>0, FS_AddElement, FS_CardinalityType DEF MergeInv
    <3>2. Cardinality(page) < PageCapacity  BY <2>1, <1>0 DEF MergeInv
    <3>3. Cardinality(page') <= PageCapacity  BY <3>1, <3>2, <1>0
    <3>4. Cardinality(page') # PageCapacity => Cardinality(page') < PageCapacity
      BY <3>1, <3>3, <1>0
    <3>5. unpolled' \subseteq EmptyHeads'
      <4>1. s \notin unpolled  BY <1>0 DEF MergeInv
      <4>2. \A r \in Sources : r # s => heads'[r] = heads[r]  BY <2>3, <1>0 DEF PopSource
      <4> QED BY <4>1, <4>2, <2>1, <1>0 DEF MergeInv, EmptyHeads
    <3> QED BY <3>1, <3>3, <3>4, <3>5, <2>3 DEF MergeInv
  <2> QED BY <1>3, <2>2, <2>3 DEF Take
<1>4. ASSUME PublishPage PROVE MergeInv'
  <2>1. page' = {} /\ UNCHANGED <<unpolled, heads>> /\ compiler' = "pop"
    BY <1>4 DEF PublishPage
  <2>2. Cardinality({}) = 0 /\ IsFiniteSet({})  BY FS_EmptySet
  <2> QED BY <2>1, <2>2, <1>0 DEF MergeInv, EmptyHeads
<1>5. ASSUME \/ Import \/ EndRun \/ CancelProducers \/ CancelSession \/ UNCHANGED vars
      PROVE  MergeInv'
  <2>1. UNCHANGED <<compiler, unpolled, heads, page>>
    BY <1>5 DEF Import, EndRun, CancelProducers, CancelSession, vars
  <2> QED BY <2>1, <1>0 DEF MergeInv, EmptyHeads
<1>6. ASSUME NEW t \in Threads,
             \/ Submit(t) \/ CheckCancelled(t) \/ Number(t) \/ PrepareCancelled(t)
             \/ Prepare(t) \/ Push(t) \/ PushOne(t) \/ Full(t) \/ Resume(t)
      PROVE  MergeInv'
  <2>1. UNCHANGED <<compiler, unpolled, heads, page>>
    BY <1>6 DEF Submit, CheckCancelled, Number, PrepareCancelled, Prepare, Push,
       PushOne, Full, Resume, Goto
  <2> QED BY <2>1, <1>0 DEF MergeInv, EmptyHeads
<1>7. ASSUME NEW e \in Ids,
             \/ DispatchPanic(e) \/ DispatchNote(e)
      PROVE  MergeInv'
  <2>1. UNCHANGED <<compiler, unpolled, heads, page>>
    BY <1>7 DEF DispatchPanic, DispatchNote
  <2> QED BY <2>1, <1>0 DEF MergeInv, EmptyHeads
<1> QED BY <1>1, <1>2, <1>3, <1>4, <1>5, <1>6, <1>7, Steps

-----------------------------------------------------------------------------
(* The places of the events.                                               *)

\* Thread t lets the events of M go.
LEMMA HandLoses ==
    ASSUME Types, HandsInv, NEW t \in Threads, NEW M, NEW p,
           prepared' = [prepared EXCEPT ![t] = p],
           IsInjective(p), ToSet(p) = ToSet(prepared[t]) \ M, M \subseteq ToSet(prepared[t])
    PROVE  /\ HandsInv'
           /\ \A e \in Ids : In(e, "hand")' <=> In(e, "hand") /\ e \notin M
           /\ \A e \in M : In(e, "hand") /\ e \in Ids
<1>1. prepared'[t] = p /\ \A u \in Threads : u # t => prepared'[u] = prepared[u]
  BY DEF Types, ThreadTypes
<1>2. \A u \in Threads : ToSet(prepared'[u]) \subseteq ToSet(prepared[u])  BY <1>1
<1>3. HandsInv'
  <2>1. \A u \in Threads : IsInjective(prepared'[u])  BY <1>1 DEF HandsInv
  <2>2. \A u, v \in Threads : u # v => ToSet(prepared'[u]) \cap ToSet(prepared'[v]) = {}
    BY <1>2 DEF HandsInv
  <2> QED BY <2>1, <2>2 DEF HandsInv
<1>4. \A u \in Threads : u # t => ToSet(prepared[u]) \cap M = {}  BY DEF HandsInv
<1>5. \A e \in Ids : In(e, "hand")' <=> In(e, "hand") /\ e \notin M
  BY <1>1, <1>4 DEF In
<1>6. \A e \in M : In(e, "hand") /\ e \in Ids  BY HandFacts DEF In
<1> QED BY <1>3, <1>5, <1>6

\* A queue takes the events of p.
LEMMA QueueTakes ==
    ASSUME Types, QueuesInv, NEW s \in Sources, NEW p \in Seq(Ids), IsInjective(p),
           lanes' = [lanes EXCEPT ![s] = lanes[s] \o p],
           \A e \in ToSet(p) : ~In(e, "lane")
    PROVE  /\ QueuesInv'
           /\ \A e \in Ids : In(e, "lane")' <=> In(e, "lane") \/ e \in ToSet(p)
<1>1. /\ lanes'[s] = lanes[s] \o p /\ \A r \in Sources : r # s => lanes'[r] = lanes[r]
      /\ lanes[s] \in Seq(Ids)
  BY DEF Types, LaneTypes
<1>2. \A r \in Sources : ToSet(lanes[r]) \cap ToSet(p) = {}  BY DEF In
<1>3. /\ ToSet(lanes'[s]) = ToSet(lanes[s]) \cup ToSet(p) /\ IsInjective(lanes'[s])
  <2> DEFINE q == lanes[s]
  <2>1. q \in Seq(Ids) /\ IsInjective(q) /\ ToSet(q) \cap ToSet(p) = {} /\ lanes'[s] = q \o p
    BY <1>1, <1>2 DEF QueuesInv
  <2> HIDE DEF q
  <2>2. ToSet(q \o p) = ToSet(q) \cup ToSet(p) /\ IsInjective(q \o p)
    BY <2>1, JoinFacts
  <2> QED BY <2>1, <2>2 DEF q
<1>4. QueuesInv'
  <2>1. \A r \in Sources : IsInjective(lanes'[r])  BY <1>1, <1>3 DEF QueuesInv
  <2>2. ASSUME NEW q \in Sources, NEW r \in Sources, q # r
        PROVE  ToSet(lanes'[q]) \cap ToSet(lanes'[r]) = {}
    <3>1. ToSet(lanes[q]) \cap ToSet(lanes[r]) = {}  BY <2>2 DEF QueuesInv
    <3> QED BY <3>1, <1>1, <1>2, <1>3, <2>2
  <2> QED BY <2>1, <2>2 DEF QueuesInv
<1>5. \A e \in Ids : In(e, "lane")' <=> In(e, "lane") \/ e \in ToSet(p)
  BY <1>1, <1>3 DEF In
<1> QED BY <1>4, <1>5

\* The head of a source, if it had one, is taken; its next event is its head.
LEMMA Popped ==
    ASSUME Types, DistinctInv, PlacesInv, NEW s \in Sources, PopSource(s)
    PROVE  /\ QueuesInv' /\ HeadsInv'
           /\ \E h \in Ids \cup {NoEvent} :
                /\ h # NoEvent => In(h, "lane")
                /\ \A e \in Ids : In(e, "lane")' <=> In(e, "lane") /\ e # h
                /\ \A e \in Ids : In(e, "head")' <=> (In(e, "head") /\ e # heads[s]) \/ e = h
<1>1. /\ lanes \in [Sources -> Seq(Ids)] /\ heads \in [Sources -> Ids \cup {NoEvent}]
      /\ NoEvent \notin Ids
  BY EventFacts DEF Types, LaneTypes, CompilerTypes
<1>2. CASE lanes[s] = <<>>
  <2>1. lanes' = lanes /\ heads' = [heads EXCEPT ![s] = NoEvent]  BY <1>2 DEF PopSource
  <2>2. QueuesInv' /\ HeadsInv'  BY <2>1, <1>1 DEF DistinctInv, QueuesInv, HeadsInv
  <2>3. \A e \in Ids : In(e, "lane")' <=> In(e, "lane") /\ e # NoEvent  BY <2>1, <1>1 DEF In
  <2>4. \A e \in Ids :
          In(e, "head")' <=> (In(e, "head") /\ e # heads[s]) \/ e = NoEvent
    BY <2>1, <1>1 DEF In, DistinctInv, HeadsInv
  <2> QED BY <2>2, <2>3, <2>4
<1>3. CASE lanes[s] # <<>>
  <2> DEFINE q == lanes[s]
             h == Head(q)
  <2>1. lanes' = [lanes EXCEPT ![s] = Tail(q)] /\ heads' = [heads EXCEPT ![s] = h]
    BY <1>3 DEF PopSource
  <2>2. q \in Seq(Ids) /\ q # <<>> /\ IsInjective(q)
    BY <1>1, <1>3 DEF DistinctInv, QueuesInv
  <2>3. /\ lanes'[s] = Tail(q) /\ \A r \in Sources : r # s => lanes'[r] = lanes[r]
        /\ heads'[s] = h /\ \A r \in Sources : r # s => heads'[r] = heads[r]
    BY <2>1, <1>1
  <2>4. \A r \in Sources : r # s => ToSet(lanes[r]) \cap ToSet(q) = {}
    BY DEF DistinctInv, QueuesInv
  <2> HIDE DEF q
  <2>5. /\ h \in Ids /\ h \in ToSet(q) /\ IsInjective(Tail(q))
        /\ ToSet(Tail(q)) = ToSet(q) \ {h}
    BY <2>2, TailFacts
  <2> HIDE DEF h
  <2>6. In(h, "lane")  BY <2>5 DEF In, q
  <2>7. ~In(h, "head")  BY <2>5, <2>6 DEF PlacesInv, Places
  <2>8. \A r \in Sources : heads[r] # h  BY <2>7 DEF In
  <2>9. QueuesInv'
    <3>1. \A r \in Sources : IsInjective(lanes'[r])
      BY <2>3, <2>5 DEF DistinctInv, QueuesInv
    <3>2. \A r \in Sources : ToSet(lanes'[r]) \subseteq ToSet(lanes[r])
      BY <2>3, <2>5 DEF q
    <3>3. \A r, u \in Sources : r # u => ToSet(lanes'[r]) \cap ToSet(lanes'[u]) = {}
      BY <3>2 DEF DistinctInv, QueuesInv
    <3> QED BY <3>1, <3>3 DEF QueuesInv
  <2>10. HeadsInv'  BY <2>3, <2>8 DEF DistinctInv, HeadsInv
  <2>11. \A e \in Ids : In(e, "lane")' <=> In(e, "lane") /\ e # h
    <3>1. \A r \in Sources : ToSet(lanes'[r]) = ToSet(lanes[r]) \ {h}
      BY <2>3, <2>4, <2>5 DEF q
    <3> QED BY <3>1 DEF In
  <2>12. \A e \in Ids : In(e, "head")' <=> (In(e, "head") /\ e # heads[s]) \/ e = h
    BY <2>3, <2>8, <1>1 DEF In, DistinctInv, HeadsInv
  <2> QED BY <2>5, <2>6, <2>9, <2>10, <2>11, <2>12
<1> QED BY <1>2, <1>3

\* The events of M move from place k to place l, or are through.
LEMMA Moved ==
    ASSUME PlacesInv, UNCHANGED events,
           NEW M, NEW k \in Places, NEW l \in Places \cup {"gone"},
           \A e \in M : In(e, k),
           \A e \in Ids : \A j \in Places : In(e, j)' <=> IF e \in M THEN j = l ELSE In(e, j),
           \A e \in Ids : e \notin M => fate'[e] = fate[e],
           \A e \in M : /\ fate'[e] = "open" <=> l = "hand"
                        /\ fate'[e] = "pushed" <=> l \in Places \ {"hand"}
    PROVE  PlacesInv'
<1>1. Ids' = Ids /\ "hand" \in Places  BY DEF Ids, Places
<1>2. ASSUME NEW e \in Ids
      PROVE  /\ fate'[e] = "open" <=> In(e, "hand")'
             /\ fate'[e] = "pushed" <=> \E j \in Places \ {"hand"} : In(e, j)'
             /\ \A i, j \in Places : In(e, i)' /\ In(e, j)' => i = j
  <2>1. CASE e \in M  BY <1>1, <2>1
  <2>2. CASE e \notin M
    <3>1. fate'[e] = fate[e] /\ \A j \in Places : In(e, j)' <=> In(e, j)  BY <2>2
    <3>2. /\ fate[e] = "open" <=> In(e, "hand")
          /\ fate[e] = "pushed" <=> \E j \in Places \ {"hand"} : In(e, j)
          /\ \A i, j \in Places : In(e, i) /\ In(e, j) => i = j
      BY DEF PlacesInv
    <3> QED BY <3>1, <3>2, <1>1
  <2> QED BY <2>1, <2>2
<1> QED BY <1>1, <1>2 DEF PlacesInv

\* Events that are in hand are in no other place.
LEMMA HandOnly ==
    ASSUME PlacesInv, NEW e \in Ids, In(e, "hand"), NEW k \in Places \ {"hand"}
    PROVE  ~In(e, k)
BY DEF PlacesInv, Places

LEMMA NextWhere == EventsInv /\ [Next]_vars => WhereInv'
<1> SUFFICES ASSUME EventsInv, [Next]_vars PROVE WhereInv'  OBVIOUS
<1> USE DEF numbers, threads, compilerVars, audioVars, flags, history, outsideCompiler,
           outsideAudio
<1>0. /\ Types /\ DistinctInv /\ HandsInv /\ QueuesInv /\ HeadsInv /\ PlacesInv /\ HistoryTypes
      /\ pc \in [Threads -> ThreadLabels] /\ prepared \in [Threads -> Seq(Ids)]
      /\ NoEvent \notin Ids /\ "hand" \in Places /\ "gone" \notin Places
  BY EventFacts DEF EventsInv, WhereInv, DistinctInv, Types, ThreadTypes, Places
<1>a. ASSUME UNCHANGED <<events, fate, prepared, lanes, heads, page, ready, due>>
       PROVE  WhereInv'
  <2>1. HandsInv' /\ QueuesInv' /\ HeadsInv'
    BY <1>a, <1>0 DEF HandsInv, QueuesInv, HeadsInv
  <2>2. Ids' = Ids /\ \A e, k : In(e, k)' <=> In(e, k)  BY <1>a DEF In, Ids
  <2>3. PlacesInv'  BY <2>2, <1>0, <1>a DEF PlacesInv
  <2> QED BY <2>1, <2>3 DEF WhereInv, DistinctInv
<1>b. ASSUME NEW e \in Ids, e \in due, due' = due \ {e},
               UNCHANGED <<events, prepared, lanes, heads, page, ready>>,
               NEW what \in Fates \ {"open", "pushed"}, SetFate({e}, what)
        PROVE  WhereInv'
  <2>1. \A d \in Ids : fate'[d] = IF d = e THEN what ELSE fate[d]
    BY <1>b, <1>0, FateStep
  <2>2. \A d \in Ids : \A j \in Places :
          In(d, j)' <=> IF d \in {e} THEN j = "gone" ELSE In(d, j)
    <3> TAKE d \in Ids
    <3>1. \A j \in Places \ {"due"} : In(d, j)' <=> In(d, j)  BY <1>b DEF In, Places
    <3>2. d = e => \A j \in Places \ {"due"} : ~In(d, j)
      BY <1>b, <1>0 DEF PlacesInv, Places, In
    <3>3. In(d, "due")' <=> In(d, "due") /\ d # e  BY <1>b DEF In
    <3> QED BY <3>1, <3>2, <3>3, <1>0 DEF Places
  <2>3. In(e, "due") /\ "due" \in Places  BY <1>b DEF In, Places
  <2> DEFINE M == {e}
  <2>4. /\ \A d \in M : In(d, "due") /\ d \in Ids
        /\ \A d \in Ids : \A j \in Places :
             In(d, j)' <=> IF d \in M THEN j = "gone" ELSE In(d, j)
        /\ \A d \in Ids : d \notin M => fate'[d] = fate[d]
        /\ \A d \in M : /\ fate'[d] = "open" <=> "gone" = "hand"
                        /\ fate'[d] = "pushed" <=> "gone" \in Places \ {"hand"}
    BY <2>1, <2>2, <2>3, <1>0, <1>b
  <2> HIDE DEF M
  <2>6. PlacesInv'  BY <2>3, <2>4, <1>b, <1>0, Moved
  <2>5. HandsInv' /\ QueuesInv' /\ HeadsInv'
    BY <1>b, <1>0 DEF HandsInv, QueuesInv, HeadsInv
  <2> QED BY <2>5, <2>6 DEF WhereInv, DistinctInv
<1>1. ASSUME NEW t \in Threads, CheckCancelled(t) PROVE WhereInv'
  <2>1. UNCHANGED <<events, fate, lanes, heads, page, ready, due>>  BY <1>1 DEF CheckCancelled
  <2>2. prepared[t] = <<>>  BY <1>1 DEF CheckCancelled, EventsInv, ThreadsInv, ThreadInv
  <2>3. prepared' = prepared \/ prepared' = [prepared EXCEPT ![t] = <<>>]
    BY <1>1 DEF CheckCancelled, Return
  <2>4. prepared' = prepared  BY <2>2, <2>3, <1>0
  <2> QED BY <2>1, <2>4, <1>a
<1>2. ASSUME NEW t \in Threads, Number(t) PROVE WhereInv'
  <2>1. PICK n \in Nat, first \in Nat : Numbered(t, n, first)
    BY <1>2, NumberFacts DEF EventsInv
  <2>2. UNCHANGED <<lanes, heads, page, ready, due>>  BY <1>2 DEF Number
  <2>3. /\ Ids' = Ids \cup New(n) /\ Ids \cap New(n) = {}
        /\ \A e \in Ids : fate'[e] = fate[e]
        /\ \A e \in New(n) : fate'[e] = "open"
        /\ \A u \in Threads : u # t => prepared'[u] = prepared[u]
        /\ ToSet(prepared'[t]) = ToSet(prepared[t]) \cup New(n)
        /\ IsInjective(prepared[t]) => IsInjective(prepared'[t])
    BY <2>1 DEF Numbered
  <2> DEFINE N == New(n)
  <2> HIDE DEF N
  <2>4. HandsInv'
    <3>1. \A u \in Threads : ToSet(prepared[u]) \subseteq Ids  BY <1>0, HandFacts
    <3>2. \A u \in Threads : ToSet(prepared[u]) \cap N = {}  BY <3>1, <2>3 DEF N
    <3>3. ASSUME NEW u \in Threads, NEW v \in Threads, u # v
          PROVE  ToSet(prepared'[u]) \cap ToSet(prepared'[v]) = {}
      <4>1. ToSet(prepared[u]) \cap ToSet(prepared[v]) = {}  BY <3>3, <1>0 DEF HandsInv
      <4> QED BY <4>1, <3>2, <3>3, <2>3 DEF N
    <3>4. \A u \in Threads : IsInjective(prepared'[u])  BY <2>3, <1>0 DEF HandsInv
    <3> QED BY <3>3, <3>4 DEF HandsInv
  <2>5. \A e \in Ids \cup N : In(e, "hand")' <=> In(e, "hand") \/ e \in N
    BY <2>3 DEF In, N
  <2>6. \A e : \A j \in Places \ {"hand"} : In(e, j)' <=> In(e, j)
    BY <2>2 DEF In, Places
  <2>7. \A e \in N : \A j \in Places \ {"hand"} : ~In(e, j)
    <3>1. /\ \A s \in Sources : ToSet(lanes[s]) \subseteq Ids
          /\ heads \in [Sources -> Ids \cup {NoEvent}] /\ page \subseteq Ids
          /\ ready \subseteq Ids /\ due \subseteq Ids
      BY <1>0, RoomFacts DEF Types, CompilerTypes, AudioTypes
    <3>2. \A e \in N : e \notin Ids  BY <2>3 DEF N
    <3>3. NoEvent \notin N  BY EventFacts, <1>0 DEF N, New, NoEvent
    <3> QED BY <3>1, <3>2, <3>3 DEF In, Places
  <2>8. PlacesInv'
    <3>1. ASSUME NEW e \in Ids \cup N
          PROVE  /\ fate'[e] = "open" <=> In(e, "hand")'
                 /\ fate'[e] = "pushed" <=> \E j \in Places \ {"hand"} : In(e, j)'
                 /\ \A i, j \in Places : In(e, i)' /\ In(e, j)' => i = j
      <4>1. CASE e \in N  BY <4>1, <2>3, <2>5, <2>6, <2>7, <1>0 DEF N
      <4>2. CASE e \in Ids /\ e \notin N
        <5>1. fate'[e] = fate[e] /\ \A j \in Places : In(e, j)' <=> In(e, j)
          BY <4>2, <2>3, <2>5, <2>6
        <5>2. /\ fate[e] = "open" <=> In(e, "hand")
              /\ fate[e] = "pushed" <=> \E j \in Places \ {"hand"} : In(e, j)
              /\ \A i, j \in Places : In(e, i) /\ In(e, j) => i = j
          BY <4>2, <1>0 DEF PlacesInv
        <5> QED BY <5>1, <5>2, <1>0
      <4> QED BY <4>1, <4>2
    <3> QED BY <3>1, <2>3 DEF PlacesInv, N
  <2>9. QueuesInv' /\ HeadsInv'  BY <2>2, <1>0 DEF QueuesInv, HeadsInv
  <2> QED BY <2>4, <2>8, <2>9 DEF WhereInv, DistinctInv
<1>3. ASSUME NEW t \in Threads, PrepareCancelled(t) PROVE WhereInv'
  <2>1. /\ UNCHANGED <<events, lanes, heads, page, ready, due>>
        /\ prepared' = [prepared EXCEPT ![t] = <<>>]
        /\ SetFate(ToSet(prepared[t]), "cancelled")
    BY <1>3 DEF PrepareCancelled, Return
  <2> DEFINE M == ToSet(prepared[t])
  <2>2. /\ IsInjective(<<>>) /\ ToSet(<<>>) = M \ M /\ M = ToSet(prepared[t])
        /\ SetFate(M, "cancelled")
    BY <2>1, EmptyFacts
  <2> HIDE DEF M
  <2>3. WhereInv'
    <3>4. /\ HandsInv' /\ \A e \in M : In(e, "hand") /\ e \in Ids
          /\ \A e \in Ids : In(e, "hand")' <=> In(e, "hand") /\ e \notin M
      BY <2>1, <2>2, <1>0, HandLoses
    <3>5. /\ Ids' = Ids
          /\ \A e \in Ids : fate'[e] = IF e \in M THEN "cancelled" ELSE fate[e]
      BY <2>1, <2>2, <1>0, KindFacts, FateStep
    <3>6. \A e \in Ids : \A j \in Places :
            In(e, j)' <=> IF e \in M THEN j = "gone" ELSE In(e, j)
      <4> TAKE e \in Ids
      <4>1. \A j \in Places \ {"hand"} : In(e, j)' <=> In(e, j)  BY <2>1 DEF In, Places
      <4>2. e \in M => \A j \in Places \ {"hand"} : ~In(e, j)
        BY <3>4, <1>0, HandOnly
      <4> QED BY <4>1, <4>2, <3>4, <1>0
    <3>7. PlacesInv'  BY <3>4, <3>5, <3>6, <2>1, <1>0, Moved
    <3>8. QueuesInv' /\ HeadsInv'  BY <2>1, <1>0 DEF QueuesInv, HeadsInv
    <3> QED BY <3>4, <3>7, <3>8 DEF WhereInv, DistinctInv
  <2> QED BY <2>3
<1>4. ASSUME NEW t \in Threads, Prepare(t) PROVE WhereInv'
  <2>1. UNCHANGED <<events, lanes, heads, page, ready, due>>  BY <1>4 DEF Prepare
  <2> DEFINE last == prepared[t][Len(prepared[t])]
             M == {last}
  <2>2. \/ UNCHANGED <<prepared, fate>>
        \/ SetFate(M, "shed") /\ prepared' = [prepared EXCEPT ![t] = Front(prepared[t])]
    BY <1>4 DEF Prepare
  <2>3. /\ IsInjective(Front(prepared[t])) /\ ToSet(Front(prepared[t])) = ToSet(prepared[t]) \ M
        /\ M \subseteq ToSet(prepared[t])
    <3>1. prepared[t] # <<>>  BY <1>4 DEF Prepare, EventsInv, ThreadsInv, ThreadInv
    <3>2. prepared[t] \in Seq(Ids) /\ IsInjective(prepared[t])  BY <1>0 DEF HandsInv
    <3> DEFINE p == prepared[t]
    <3> HIDE DEF p
    <3>3. /\ IsInjective(Front(p)) /\ ToSet(Front(p)) = ToSet(p) \ {p[Len(p)]}
          /\ p[Len(p)] \in ToSet(p)
      BY <3>1, <3>2, FrontFacts DEF p
    <3> QED BY <3>3 DEF p
  <2> HIDE DEF M
  <2>4. ASSUME SetFate(M, "shed"), prepared' = [prepared EXCEPT ![t] = Front(prepared[t])]
        PROVE  WhereInv'
    <3>4. /\ HandsInv' /\ \A e \in M : In(e, "hand") /\ e \in Ids
          /\ \A e \in Ids : In(e, "hand")' <=> In(e, "hand") /\ e \notin M
      BY <2>3, <2>4, <1>0, HandLoses
    <3>5. /\ Ids' = Ids
          /\ \A e \in Ids : fate'[e] = IF e \in M THEN "shed" ELSE fate[e]
      BY <2>1, <2>4, <1>0, KindFacts, FateStep
    <3>6. \A e \in Ids : \A j \in Places :
            In(e, j)' <=> IF e \in M THEN j = "gone" ELSE In(e, j)
      <4> TAKE e \in Ids
      <4>1. \A j \in Places \ {"hand"} : In(e, j)' <=> In(e, j)  BY <2>1 DEF In, Places
      <4>2. e \in M => \A j \in Places \ {"hand"} : ~In(e, j)
        BY <3>4, <1>0, HandOnly
      <4> QED BY <4>1, <4>2, <3>4, <1>0
    <3>7. PlacesInv'  BY <3>4, <3>5, <3>6, <2>1, <1>0, Moved
    <3>8. QueuesInv' /\ HeadsInv'  BY <2>1, <1>0 DEF QueuesInv, HeadsInv
    <3> QED BY <3>4, <3>7, <3>8 DEF WhereInv, DistinctInv
  <2> QED BY <2>1, <2>2, <2>4, <1>a
<1>5. ASSUME NEW t \in Threads, Push(t) PROVE WhereInv'
  <2>1. UNCHANGED <<events, heads, page, ready, due>>  BY <1>5 DEF Push
  <2> DEFINE M == ToSet(prepared[t])
             s == Target(t, Head(prepared[t]))
  <2>2. \/ UNCHANGED <<prepared, fate, lanes>>
        \/ /\ SetFate(M, "pushed") /\ prepared' = [prepared EXCEPT ![t] = <<>>]
           /\ lanes' = [lanes EXCEPT ![s] = lanes[s] \o prepared[t]]
    BY <1>5 DEF Push, PushInto
  <2>3. /\ IsInjective(<<>>) /\ ToSet(<<>>) = M \ M /\ M = ToSet(prepared[t])
        /\ prepared[t] \in Seq(Ids) /\ IsInjective(prepared[t])
    BY <1>0, EmptyFacts DEF HandsInv
  <2>4. s \in Sources
    <3>1. prepared[t] # <<>>  BY <1>5 DEF Push, EventsInv, ThreadsInv, ThreadInv
    <3> QED BY <3>1, <1>0, HandFacts, TargetFacts
  <2> HIDE DEF M, s
  <2>5. ASSUME SetFate(M, "pushed"), prepared' = [prepared EXCEPT ![t] = <<>>],
               lanes' = [lanes EXCEPT ![s] = lanes[s] \o prepared[t]]
        PROVE  WhereInv'
    <3>4. /\ HandsInv' /\ \A e \in M : In(e, "hand") /\ e \in Ids
          /\ \A e \in Ids : In(e, "hand")' <=> In(e, "hand") /\ e \notin M
      BY <2>3, <2>5, <1>0, HandLoses
    <3>5. /\ Ids' = Ids
          /\ \A e \in Ids : fate'[e] = IF e \in M THEN "pushed" ELSE fate[e]
      BY <2>1, <2>4, <2>5, <1>0, KindFacts, FateStep
    <3>6. \A e \in M : \A j \in Places \ {"hand"} : ~In(e, j)
      BY <3>4, <1>0, HandOnly
    <3>7. /\ QueuesInv'
          /\ \A e \in Ids : In(e, "lane")' <=> In(e, "lane") \/ e \in M
      <4>1. \A e \in M : ~In(e, "lane")  BY <3>6 DEF Places
      <4> QED BY <4>1, <2>3, <2>5, <2>1, <2>4, <2>5, <1>0, QueueTakes
    <3>8. \A e \in Ids : \A j \in Places :
            In(e, j)' <=> IF e \in M THEN j = "lane" ELSE In(e, j)
      <4> TAKE e \in Ids
      <4>1. \A j \in Places \ {"hand", "lane"} : In(e, j)' <=> In(e, j)
        BY <2>1 DEF In, Places
      <4>2. \A j \in Places : j # "lane" /\ e \in M => ~In(e, j)'
        BY <4>1, <3>4, <3>6
      <4> QED BY <4>1, <4>2, <3>4, <3>7, <1>0
    <3>9. PlacesInv'
      <4>1. "lane" \in Places \ {"hand"}  BY DEF Places
      <4> QED BY <4>1, <3>4, <3>5, <3>8, <2>1, <1>0, Moved
    <3>10. HeadsInv'  BY <2>1, <1>0 DEF HeadsInv
    <3> QED BY <3>4, <3>7, <3>9, <3>10 DEF WhereInv, DistinctInv
  <2> QED BY <2>1, <2>2, <2>5, <1>a
<1>6. ASSUME NEW t \in Threads, PushOne(t) PROVE WhereInv'
  <2>1. UNCHANGED <<events, heads, page, ready, due>>  BY <1>6 DEF PushOne
  <2> DEFINE q == <<Head(prepared[t])>>
             M == ToSet(q)
  <2>2. \/ UNCHANGED <<prepared, fate, lanes>>
        \/ /\ prepared[t] # <<>>
           /\ SetFate(M, "pushed") /\ prepared' = [prepared EXCEPT ![t] = Tail(prepared[t])]
           /\ lanes' = [lanes EXCEPT !["Fast"] = lanes["Fast"] \o q]
    BY <1>6 DEF PushOne, PushInto
  <2>3. prepared[t] # <<>> =>
          /\ IsInjective(Tail(prepared[t])) /\ ToSet(Tail(prepared[t])) = ToSet(prepared[t]) \ M
          /\ M \subseteq ToSet(prepared[t]) /\ q \in Seq(Ids) /\ IsInjective(q) /\ M = ToSet(q)
    <3> SUFFICES ASSUME prepared[t] # <<>>
                 PROVE  /\ IsInjective(Tail(prepared[t]))
                        /\ ToSet(Tail(prepared[t])) = ToSet(prepared[t]) \ M
                        /\ M \subseteq ToSet(prepared[t]) /\ q \in Seq(Ids)
                        /\ IsInjective(q) /\ M = ToSet(q)
      OBVIOUS
    <3>1. prepared[t] \in Seq(Ids) /\ IsInjective(prepared[t])  BY <1>0 DEF HandsInv
    <3> DEFINE p == prepared[t]
    <3>2. M = {Head(p)} /\ IsInjective(q)  BY DEF ToSet, IsInjective
    <3> HIDE DEF p
    <3>3. /\ IsInjective(Tail(p)) /\ ToSet(Tail(p)) = ToSet(p) \ {Head(p)}
          /\ Head(p) \in ToSet(p) /\ Head(p) \in Ids
      BY <3>1, TailFacts DEF p
    <3>4. q \in Seq(Ids)  BY <3>3 DEF p
    <3> QED BY <3>2, <3>3, <3>4 DEF p
  <2>4. "Fast" \in Sources  BY KindFacts
  <2> HIDE DEF M, q
  <2>5. ASSUME prepared[t] # <<>>, SetFate(M, "pushed"),
               prepared' = [prepared EXCEPT ![t] = Tail(prepared[t])],
               lanes' = [lanes EXCEPT !["Fast"] = lanes["Fast"] \o q]
        PROVE  WhereInv'
    <3>4. /\ HandsInv' /\ \A e \in M : In(e, "hand") /\ e \in Ids
          /\ \A e \in Ids : In(e, "hand")' <=> In(e, "hand") /\ e \notin M
      BY <2>3, <2>5, <1>0, HandLoses
    <3>5. /\ Ids' = Ids
          /\ \A e \in Ids : fate'[e] = IF e \in M THEN "pushed" ELSE fate[e]
      BY <2>1, <2>4, <2>5, <1>0, KindFacts, FateStep
    <3>6. \A e \in M : \A j \in Places \ {"hand"} : ~In(e, j)
      BY <3>4, <1>0, HandOnly
    <3>7. /\ QueuesInv'
          /\ \A e \in Ids : In(e, "lane")' <=> In(e, "lane") \/ e \in M
      <4>1. \A e \in M : ~In(e, "lane")  BY <3>6 DEF Places
      <4> QED BY <4>1, <2>3, <2>5, <2>1, <2>4, <2>5, <1>0, QueueTakes
    <3>8. \A e \in Ids : \A j \in Places :
            In(e, j)' <=> IF e \in M THEN j = "lane" ELSE In(e, j)
      <4> TAKE e \in Ids
      <4>1. \A j \in Places \ {"hand", "lane"} : In(e, j)' <=> In(e, j)
        BY <2>1 DEF In, Places
      <4>2. \A j \in Places : j # "lane" /\ e \in M => ~In(e, j)'
        BY <4>1, <3>4, <3>6
      <4> QED BY <4>1, <4>2, <3>4, <3>7, <1>0
    <3>9. PlacesInv'
      <4>1. "lane" \in Places \ {"hand"}  BY DEF Places
      <4> QED BY <4>1, <3>4, <3>5, <3>8, <2>1, <1>0, Moved
    <3>10. HeadsInv'  BY <2>1, <1>0 DEF HeadsInv
    <3> QED BY <3>4, <3>7, <3>9, <3>10 DEF WhereInv, DistinctInv
  <2> QED BY <2>1, <2>2, <2>5, <1>a
<1>7. ASSUME NEW t \in Threads, Full(t) PROVE WhereInv'
  <2>1. UNCHANGED <<events, lanes, heads, page, ready, due>>  BY <1>7 DEF Full
  <2> DEFINE H == {Head(prepared[t])}
             M == ToSet(prepared[t])
  <2>2. \/ UNCHANGED <<prepared, fate>>
        \/ SetFate(H, "shed") /\ prepared' = [prepared EXCEPT ![t] = Tail(prepared[t])]
        \/ SetFate(M, "cancelled") /\ prepared' = [prepared EXCEPT ![t] = <<>>]
    BY <1>7 DEF Full, Return
  <2>3. IsInjective(<<>>) /\ ToSet(<<>>) = M \ M /\ M = ToSet(prepared[t])  BY EmptyFacts
  <2>4. /\ IsInjective(Tail(prepared[t])) /\ ToSet(Tail(prepared[t])) = ToSet(prepared[t]) \ H
        /\ H \subseteq ToSet(prepared[t])
    <3>1. prepared[t] # <<>>  BY <1>7 DEF Full, EventsInv, ThreadsInv, ThreadInv
    <3>2. prepared[t] \in Seq(Ids) /\ IsInjective(prepared[t])  BY <1>0 DEF HandsInv
    <3> DEFINE p == prepared[t]
    <3> HIDE DEF p
    <3>3. /\ IsInjective(Tail(p)) /\ ToSet(Tail(p)) = ToSet(p) \ {Head(p)}
          /\ Head(p) \in ToSet(p)
      BY <3>1, <3>2, TailFacts DEF p
    <3> QED BY <3>3 DEF p
  <2> HIDE DEF M, H
  <2>5. ASSUME SetFate(H, "shed"), prepared' = [prepared EXCEPT ![t] = Tail(prepared[t])]
        PROVE  WhereInv'
    <3>4. /\ HandsInv' /\ \A e \in H : In(e, "hand") /\ e \in Ids
          /\ \A e \in Ids : In(e, "hand")' <=> In(e, "hand") /\ e \notin H
      BY <2>4, <2>5, <1>0, HandLoses
    <3>5. /\ Ids' = Ids
          /\ \A e \in Ids : fate'[e] = IF e \in H THEN "shed" ELSE fate[e]
      BY <2>1, <2>5, <1>0, KindFacts, FateStep
    <3>6. \A e \in Ids : \A j \in Places :
            In(e, j)' <=> IF e \in H THEN j = "gone" ELSE In(e, j)
      <4> TAKE e \in Ids
      <4>1. \A j \in Places \ {"hand"} : In(e, j)' <=> In(e, j)  BY <2>1 DEF In, Places
      <4>2. e \in H => \A j \in Places \ {"hand"} : ~In(e, j)
        BY <3>4, <1>0, HandOnly
      <4> QED BY <4>1, <4>2, <3>4, <1>0
    <3>7. PlacesInv'  BY <3>4, <3>5, <3>6, <2>1, <1>0, Moved
    <3>8. QueuesInv' /\ HeadsInv'  BY <2>1, <1>0 DEF QueuesInv, HeadsInv
    <3> QED BY <3>4, <3>7, <3>8 DEF WhereInv, DistinctInv
  <2>6. ASSUME SetFate(M, "cancelled"), prepared' = [prepared EXCEPT ![t] = <<>>]
        PROVE  WhereInv'
    <3>4. /\ HandsInv' /\ \A e \in M : In(e, "hand") /\ e \in Ids
          /\ \A e \in Ids : In(e, "hand")' <=> In(e, "hand") /\ e \notin M
      BY <2>3, <2>6, <1>0, HandLoses
    <3>5. /\ Ids' = Ids
          /\ \A e \in Ids : fate'[e] = IF e \in M THEN "cancelled" ELSE fate[e]
      BY <2>1, <2>6, <1>0, KindFacts, FateStep
    <3>6. \A e \in Ids : \A j \in Places :
            In(e, j)' <=> IF e \in M THEN j = "gone" ELSE In(e, j)
      <4> TAKE e \in Ids
      <4>1. \A j \in Places \ {"hand"} : In(e, j)' <=> In(e, j)  BY <2>1 DEF In, Places
      <4>2. e \in M => \A j \in Places \ {"hand"} : ~In(e, j)
        BY <3>4, <1>0, HandOnly
      <4> QED BY <4>1, <4>2, <3>4, <1>0
    <3>7. PlacesInv'  BY <3>4, <3>5, <3>6, <2>1, <1>0, Moved
    <3>8. QueuesInv' /\ HeadsInv'  BY <2>1, <1>0 DEF QueuesInv, HeadsInv
    <3> QED BY <3>4, <3>7, <3>8 DEF WhereInv, DistinctInv
  <2> QED BY <2>1, <2>2, <2>5, <2>6, <1>a
<1>8. ASSUME PollLane PROVE WhereInv'
  <2>1. UNCHANGED <<events, fate, prepared, page, ready, due>>  BY <1>8 DEF PollLane
  <2>2. ASSUME NEW s \in Sources, s \in unpolled, PopSource(s) PROVE WhereInv'
    <3>1. /\ QueuesInv' /\ HeadsInv'
          /\ \E h \in Ids \cup {NoEvent} :
               /\ h # NoEvent => In(h, "lane")
               /\ \A e \in Ids : In(e, "lane")' <=> In(e, "lane") /\ e # h
               /\ \A e \in Ids : In(e, "head")' <=> (In(e, "head") /\ e # heads[s]) \/ e = h
      BY <2>2, <1>0, Popped
    <3>2. PICK h \in Ids \cup {NoEvent} :
            /\ h # NoEvent => In(h, "lane")
            /\ \A e \in Ids : In(e, "lane")' <=> In(e, "lane") /\ e # h
            /\ \A e \in Ids : In(e, "head")' <=> (In(e, "head") /\ e # heads[s]) \/ e = h
      BY <3>1
    <3>3. heads[s] = NoEvent  BY <2>2 DEF EventsInv, MergeInv, EmptyHeads
    <3>4. HandsInv'  BY <2>1, <1>0 DEF HandsInv
    <3> DEFINE M == {h} \cap Ids
    <3>5. \A e \in M : In(e, "lane") /\ e \in Ids  BY <3>2, <1>0
    <3>6. \A e \in Ids : \A j \in Places :
            In(e, j)' <=> IF e \in M THEN j = "head" ELSE In(e, j)
      <4> TAKE e \in Ids
      <4>1. \A j \in Places \ {"lane", "head"} : In(e, j)' <=> In(e, j)
        BY <2>1 DEF In, Places
      <4>2. e \in M => \A j \in Places \ {"lane"} : ~In(e, j)
        BY <3>5, <1>0 DEF PlacesInv, Places
      <4>3. /\ In(e, "lane")' <=> In(e, "lane") /\ e # h
            /\ In(e, "head")' <=> In(e, "head") \/ e = h
        BY <3>2, <3>3, <1>0
      <4> QED BY <4>1, <4>2, <4>3 DEF Places
    <3>7. \A e \in M : fate[e] = "pushed"
      BY <3>5, <1>0 DEF PlacesInv, Places
    <3>8. "lane" \in Places /\ "head" \in Places \ {"hand"}  BY DEF Places
    <3> HIDE DEF M
    <3>9. PlacesInv'
      <4>1. \A e \in M : /\ fate'[e] = "open" <=> "head" = "hand"
                         /\ fate'[e] = "pushed" <=> "head" \in Places \ {"hand"}
        BY <3>7, <3>8, <2>1
      <4> QED BY <4>1, <3>5, <3>6, <3>8, <2>1, <1>0, Moved
    <3> QED BY <3>1, <3>4, <3>9 DEF WhereInv, DistinctInv
  <2>3. \A i \in DOMAIN Order : Order[i] \in Sources  BY KindFacts DEF Order
  <2>4. \/ UNCHANGED <<heads, lanes>>
        \/ \E i \in DOMAIN Order : Order[i] \in unpolled /\ PopSource(Order[i])
    BY <1>8 DEF PollLane
  <2> QED BY <2>1, <2>2, <2>3, <2>4, <1>a
<1>9. ASSUME Take PROVE WhereInv'
  <2>1. UNCHANGED <<events, fate, prepared, ready, due>>  BY <1>9 DEF Take
  <2>2. ASSUME NEW s \in Sources \ EmptyHeads, page' = page \cup {heads[s]}, PopSource(s)
        PROVE  WhereInv'
    <3>1. /\ QueuesInv' /\ HeadsInv'
          /\ \E h \in Ids \cup {NoEvent} :
               /\ h # NoEvent => In(h, "lane")
               /\ \A e \in Ids : In(e, "lane")' <=> In(e, "lane") /\ e # h
               /\ \A e \in Ids : In(e, "head")' <=> (In(e, "head") /\ e # heads[s]) \/ e = h
      BY <2>2, <1>0, Popped
    <3>2. PICK h \in Ids \cup {NoEvent} :
            /\ h # NoEvent => In(h, "lane")
            /\ \A e \in Ids : In(e, "lane")' <=> In(e, "lane") /\ e # h
            /\ \A e \in Ids : In(e, "head")' <=> (In(e, "head") /\ e # heads[s]) \/ e = h
      BY <3>1
    <3> DEFINE g == heads[s]
    <3>3. g \in Ids /\ In(g, "head")
      BY <2>2, <1>0 DEF EmptyHeads, Types, CompilerTypes, In
    <3>4. HandsInv'  BY <2>1, <1>0 DEF HandsInv
    <3>5. \A e \in Ids : /\ In(e, "lane")' <=> In(e, "lane") /\ e # h
                         /\ In(e, "head")' <=> (In(e, "head") /\ e # g) \/ e = h
                         /\ In(e, "page")' <=> In(e, "page") \/ e = g
                         /\ In(e, "hand")' <=> In(e, "hand")
                         /\ In(e, "ready")' <=> In(e, "ready")
                         /\ In(e, "due")' <=> In(e, "due")
      BY <3>2, <2>1, <2>2 DEF In
    <3> HIDE DEF g
    <3>6. \A j \in Places : In(g, j) => j = "head"  BY <3>3, <1>0 DEF PlacesInv, Places
    <3>7. h \in Ids => \A j \in Places : In(h, j) <=> j = "lane"
      BY <3>2, <1>0 DEF PlacesInv, Places
    <3>8. ASSUME NEW e \in Ids
          PROVE  /\ fate'[e] = "open" <=> In(e, "hand")'
                 /\ fate'[e] = "pushed" <=> \E j \in Places \ {"hand"} : In(e, j)'
                 /\ \A i, j \in Places : In(e, i)' /\ In(e, j)' => i = j
      <4>0. /\ fate'[e] = fate[e] /\ (fate[e] = "open" <=> In(e, "hand"))
            /\ fate[e] = "pushed" <=> \E j \in Places \ {"hand"} : In(e, j)
            /\ \A i, j \in Places : In(e, i) /\ In(e, j) => i = j
        BY <2>1, <1>0 DEF PlacesInv
      <4>1. CASE e = g
        <5>1. \A j \in Places : In(e, j)' <=> j = "page"
          <6>1. e # h  BY <4>1, <3>3, <3>7 DEF Places
          <6> QED BY <4>1, <6>1, <3>5, <3>6 DEF Places
        <5>2. "head" \in Places \ {"hand"} /\ "page" \in Places \ {"hand"}  BY DEF Places
        <5> QED BY <4>0, <4>1, <5>1, <5>2, <3>3, <3>6, <1>0
      <4>2. CASE e # g /\ e = h
        <5>1. \A j \in Places : In(e, j)' <=> j = "head"
          BY <4>2, <3>5, <3>7 DEF Places
        <5>2. "head" \in Places \ {"hand"} /\ "lane" \in Places \ {"hand"}  BY DEF Places
        <5> QED BY <4>0, <4>2, <5>1, <5>2, <3>7, <1>0
      <4>3. CASE e # g /\ e # h
        <5>1. \A j \in Places : In(e, j)' <=> In(e, j)  BY <4>3, <3>5 DEF Places
        <5> QED BY <4>0, <5>1, <1>0
      <4> QED BY <4>1, <4>2, <4>3
    <3>9. PlacesInv'  BY <3>8, <2>1 DEF PlacesInv, Ids
    <3> QED BY <3>1, <3>4, <3>9 DEF WhereInv, DistinctInv
  <2> QED BY <1>9, <2>1, <2>2, <1>a DEF Take
<1>10. ASSUME PublishPage PROVE WhereInv'
  <2>1. /\ UNCHANGED <<events, fate, prepared, lanes, heads, due>>
        /\ ready' = ready \cup page /\ page' = {}
    BY <1>10 DEF PublishPage
  <2>2. \A e \in Ids : \A j \in Places :
          In(e, j)' <=> IF e \in page THEN j = "ready" ELSE In(e, j)
    <3> TAKE e \in Ids
    <3>1. \A j \in Places \ {"page", "ready"} : In(e, j)' <=> In(e, j)
      BY <2>1 DEF In, Places
    <3>2. e \in page => \A j \in Places \ {"page"} : ~In(e, j)
      BY <1>0 DEF PlacesInv, Places, In
    <3>3. /\ ~In(e, "page")' /\ (In(e, "page") <=> e \in page)
          /\ In(e, "ready")' <=> In(e, "ready") \/ e \in page
      BY <2>1 DEF In
    <3> QED BY <3>1, <3>2, <3>3 DEF Places
  <2>3. page \subseteq Ids /\ \A e \in page : In(e, "page")
    BY <1>0 DEF In, Types, CompilerTypes
  <2>4. \A e \in page : fate[e] = "pushed"  BY <2>3, <1>0 DEF PlacesInv, Places
  <2>5. "page" \in Places /\ "ready" \in Places \ {"hand"}  BY DEF Places
  <2>6. PlacesInv'
    <3>1. \A e \in page : /\ fate'[e] = "open" <=> "ready" = "hand"
                          /\ fate'[e] = "pushed" <=> "ready" \in Places \ {"hand"}
      BY <2>1, <2>4, <2>5
    <3> QED BY <3>1, <2>1, <2>2, <2>3, <2>5, <1>0, Moved
  <2>7. HandsInv' /\ QueuesInv' /\ HeadsInv'
    BY <2>1, <1>0 DEF HandsInv, QueuesInv, HeadsInv
  <2> QED BY <2>6, <2>7 DEF WhereInv, DistinctInv
<1>11. ASSUME Import PROVE WhereInv'
  <2>1. /\ UNCHANGED <<events, fate, prepared, lanes, heads, page>>
        /\ due' = due \cup ready /\ ready' = {}
    BY <1>11 DEF Import
  <2>2. \A e \in Ids : \A j \in Places :
          In(e, j)' <=> IF e \in ready THEN j = "due" ELSE In(e, j)
    <3> TAKE e \in Ids
    <3>1. \A j \in Places \ {"ready", "due"} : In(e, j)' <=> In(e, j)
      BY <2>1 DEF In, Places
    <3>2. e \in ready => \A j \in Places \ {"ready"} : ~In(e, j)
      BY <1>0 DEF PlacesInv, Places, In
    <3>3. /\ ~In(e, "ready")' /\ (In(e, "ready") <=> e \in ready)
          /\ In(e, "due")' <=> In(e, "due") \/ e \in ready
      BY <2>1 DEF In
    <3> QED BY <3>1, <3>2, <3>3 DEF Places
  <2>3. ready \subseteq Ids /\ \A e \in ready : In(e, "ready")
    BY <1>0 DEF In, Types, AudioTypes
  <2>4. \A e \in ready : fate[e] = "pushed"  BY <2>3, <1>0 DEF PlacesInv, Places
  <2>5. "ready" \in Places /\ "due" \in Places \ {"hand"}  BY DEF Places
  <2>6. PlacesInv'
    <3>1. \A e \in ready : /\ fate'[e] = "open" <=> "due" = "hand"
                           /\ fate'[e] = "pushed" <=> "due" \in Places \ {"hand"}
      BY <2>1, <2>4, <2>5
    <3> QED BY <3>1, <2>1, <2>2, <2>3, <2>5, <1>0, Moved
  <2>7. HandsInv' /\ QueuesInv' /\ HeadsInv'
    BY <2>1, <1>0 DEF HandsInv, QueuesInv, HeadsInv
  <2> QED BY <2>6, <2>7 DEF WhereInv, DistinctInv
<1>12. ASSUME NEW e \in Ids, DispatchPanic(e) PROVE WhereInv'
  <2>1. /\ UNCHANGED <<events, prepared, lanes, heads, page, ready>> /\ e \in due
        /\ due' = due \ {e} /\ SetFate({e}, "played")
    BY <1>12 DEF DispatchPanic
  <2> QED BY <2>1, KindFacts, <1>b
<1>13. ASSUME NEW e \in Ids, DispatchNote(e) PROVE WhereInv'
  <2>1. /\ UNCHANGED <<events, prepared, lanes, heads, page, ready>> /\ e \in due
        /\ due' = due \ {e} /\ (SetFate({e}, "sounded") \/ SetFate({e}, "suppressed"))
    BY <1>13 DEF DispatchNote
  <2> QED BY <2>1, KindFacts, <1>b
<1>14. ASSUME \/ Pop \/ EndRun \/ CancelProducers \/ CancelSession \/ UNCHANGED vars
       PROVE  WhereInv'
  <2>1. UNCHANGED <<events, fate, prepared, lanes, heads, page, ready, due>>
    BY <1>14 DEF Pop, EndRun, CancelProducers, CancelSession, vars
  <2> QED BY <2>1, <1>a DEF WhereInv, DistinctInv, HandsInv, QueuesInv, HeadsInv, PlacesInv, In,
    Ids
<1>15. ASSUME NEW t \in Threads,
              \/ Submit(t) \/ Resume(t)
       PROVE  WhereInv'
  <2>1. UNCHANGED <<events, fate, prepared, lanes, heads, page, ready, due>>
    BY <1>15 DEF Submit, Resume, Goto
  <2> QED BY <2>1, <1>a DEF WhereInv, DistinctInv, HandsInv, QueuesInv, HeadsInv, PlacesInv, In,
    Ids
<1> QED BY <1>1, <1>2, <1>3, <1>4, <1>5, <1>6, <1>7, <1>8, <1>9, <1>10, <1>11, <1>12,
      <1>13, <1>14, <1>15, Steps

LEMMA InitEvents == Init => EventsInv
<1> SUFFICES ASSUME Init PROVE EventsInv  OBVIOUS
<1>1. /\ Ids = {} /\ Len(events) = 0 /\ events = <<>> /\ fate = <<>>
  <2>1. Len(events) = 0 /\ events = <<>> /\ fate = <<>>  BY EmptyFacts DEF Init
  <2> QED BY <2>1 DEF Ids
<1>2. /\ \A S : <<>> \in Seq(S) /\ ToSet(<<>>) = {} /\ IsInjective(<<>>) /\ Len(<<>>) = 0
      /\ PollEvery \in Nat /\ PollEvery >= 1 /\ PageCapacity \in Nat /\ PageCapacity >= 1
      /\ Chunk \in Nat /\ Chunk >= 1 /\ \A s \in Sources : Capacity(s) \in Nat
  BY EmptyFacts, CapacityAssumption, KindFacts
<1>3. /\ NumberTypes /\ HistoryTypes
  BY <1>1, <1>2 DEF Init, NumberTypes, HistoryTypes
<1>4. LaneTypes  BY <1>1, <1>2 DEF Init, LaneTypes
<1>5. ThreadTypes  BY <1>1, <1>2 DEF Init, ThreadTypes, ThreadLabels
<1>6. CompilerTypes /\ AudioTypes
  <2>1. 0 \in 0 .. PollEvery - 1  BY <1>2
  <2>2. CompilerTypes  BY <1>1, <2>1 DEF Init, CompilerTypes
  <2>3. AudioTypes  BY DEF Init, AudioTypes
  <2> QED BY <2>2, <2>3
<1>7. ThreadsInv  BY <1>2 DEF Init, ThreadsInv, ThreadInv
<1>8. MergeInv  BY <1>2, FS_EmptySet DEF Init, MergeInv, EmptyHeads
<1>9. HandsInv /\ QueuesInv /\ HeadsInv
  BY <1>2 DEF Init, HandsInv, QueuesInv, HeadsInv
<1>10. PlacesInv  BY <1>1 DEF PlacesInv
<1> QED BY <1>3, <1>4, <1>5, <1>6, <1>7, <1>8, <1>9, <1>10
        DEF EventsInv, Types, WhereInv, DistinctInv

\* Types, labels and places, for any threads, calls and capacities.
THEOREM Invariant == Spec => []EventsInv
<1>1. EventsInv /\ [Next]_vars => EventsInv'
  BY NextTypes, NextThreads, NextMerge, NextWhere DEF EventsInv
<1> QED BY <1>1, InitEvents, PTL DEF Spec

\* Every variable has its type; in particular no lane ever holds more than its
\* capacity, whichever mixture of batches and single messages is pushed, and no
\* page more than the compiler's chunk.
THEOREM TypeCorrect == Spec => []TypeOK
<1>1. EventsInv => TypeOK
  <2> SUFFICES ASSUME EventsInv PROVE TypeOK  OBVIOUS
  <2>1. /\ {nextSequence, leaseNext, leaseEnd, leased, fastSubmitted, notAccepted,
            fence, asked} \subseteq Nat
        /\ owner \in Threads \cup {NoThread, Disabled}
    BY DEF EventsInv, Types, NumberTypes
  <2>2. \A s \in Sources : lanes[s] \in Seq(Ids) /\ Len(lanes[s]) <= Capacity(s)
    BY DEF EventsInv, Types, LaneTypes
  <2>3. /\ pc \in [Threads -> {"idle", "check", "number", "prepare", "push", "one",
                               "full", "wait"}]
        /\ path \in [Threads -> {"single", "mixed", "block"}]
        /\ \A t \in Threads : todo[t] \in Seq(Kinds) /\ prepared[t] \in Seq(Ids)
    BY DEF EventsInv, Types, ThreadTypes, ThreadLabels
  <2>4. /\ compiler \in {"pop", "poll", "take", "publish", "ended"}
        /\ heads \in [Sources -> Ids \cup {NoEvent}] /\ unpolled \subseteq Sources
        /\ poll \in 0 .. PollEvery - 1 /\ page \subseteq Ids
        /\ Cardinality(page) <= PageCapacity
    BY DEF EventsInv, Types, CompilerTypes, MergeInv
  <2>5. /\ ready \subseteq Ids /\ due \subseteq Ids /\ runFence \in Nat \cup {NoRun}
        /\ {clock, cancelProducers, sessionCancelled} \subseteq BOOLEAN
    BY DEF EventsInv, Types, AudioTypes
  <2>6. Len(fate) = Len(events) /\ ToSet(fate) \subseteq Fates
    BY SeqElements DEF EventsInv, Types, HistoryTypes
  <2> QED BY <2>1, <2>2, <2>3, <2>4, <2>5, <2>6 DEF TypeOK
<1> QED BY <1>1, Invariant, PTL

LEMMA AtMostOne ==
    ASSUME NEW S, \A x, y \in S : x = y
    PROVE  Cardinality(S) = IF S = {} THEN 0 ELSE 1
<1>1. CASE S = {}  BY <1>1, FS_EmptySet
<1>2. CASE S # {}
  <2> PICK x : x \in S  BY <1>2
  <2>1. S = {x}  OBVIOUS
  <2> QED BY <2>1, <1>2, FS_Singleton
<1> QED BY <1>1, <1>2

\* An event that was pushed and not yet played is in exactly one lane, head,
\* page or list of the audio thread: the merge neither loses nor doubles it.
THEOREM EventsInOnePlace == Spec => []InOnePlace
<1> SUFFICES ASSUME EventsInv PROVE InOnePlace  BY Invariant, PTL
<1> SUFFICES ASSUME NEW e \in Ids
    PROVE  Cardinality({s \in Sources : e \in ToSet(lanes[s])}) +
           Cardinality({s \in Sources : heads[s] = e}) +
           Cardinality({S \in {<<1, page>>, <<2, ready>>, <<3, due>>} : e \in S[2]})
           = IF fate[e] = "pushed" THEN 1 ELSE 0
  BY DEF InOnePlace
<1> DEFINE L == {s \in Sources : e \in ToSet(lanes[s])}
           H == {s \in Sources : heads[s] = e}
           Q == {S \in {<<1, page>>, <<2, ready>>, <<3, due>>} : e \in S[2]}
<1>0. /\ QueuesInv /\ HeadsInv /\ NoEvent \notin Ids
      /\ fate[e] = "pushed" <=> \E k \in Places \ {"hand"} : In(e, k)
      /\ \A k, l \in Places : In(e, k) /\ In(e, l) => k = l
  BY EventFacts DEF EventsInv, Types, WhereInv, DistinctInv, PlacesInv
<1>1. Cardinality(L) = IF In(e, "lane") THEN 1 ELSE 0
  <2>1. \A x, y \in L : x = y  BY <1>0 DEF QueuesInv
  <2>2. In(e, "lane") <=> L # {}  BY DEF In
  <2> HIDE DEF L
  <2> QED BY <2>1, <2>2, AtMostOne
<1>2. Cardinality(H) = IF In(e, "head") THEN 1 ELSE 0
  <2>1. \A x, y \in H : x = y  BY <1>0 DEF HeadsInv
  <2>2. In(e, "head") <=> H # {}  BY DEF In
  <2> HIDE DEF H
  <2> QED BY <2>1, <2>2, AtMostOne
<1>3. Cardinality(Q) = IF In(e, "page") \/ In(e, "ready") \/ In(e, "due") THEN 1 ELSE 0
  <2>1. Q = {S \in {<<1, page>>} : e \in page} \cup {S \in {<<2, ready>>} : e \in ready}
              \cup {S \in {<<3, due>>} : e \in due}
    OBVIOUS
  <2>2. ~(e \in page /\ e \in ready) /\ ~(e \in page /\ e \in due) /\ ~(e \in ready /\ e \in due)
    BY <1>0 DEF In, Places
  <2>3. \A x, y \in Q : x = y  BY <2>1, <2>2
  <2>4. In(e, "page") \/ In(e, "ready") \/ In(e, "due") <=> Q # {}  BY <2>1 DEF In
  <2> HIDE DEF Q
  <2> QED BY <2>3, <2>4, AtMostOne
<1> HIDE DEF L, H, Q
<1>4. Cardinality(L) + Cardinality(H) + Cardinality(Q) = IF fate[e] = "pushed" THEN 1 ELSE 0
  <2>1. fate[e] = "pushed" <=> \/ In(e, "lane") \/ In(e, "head") \/ In(e, "page")
                               \/ In(e, "ready") \/ In(e, "due")
    BY <1>0 DEF Places
  <2>2. \A k, l \in {"lane", "head", "page", "ready", "due"} :
          In(e, k) /\ In(e, l) => k = l
    BY <1>0 DEF Places
  <2> QED BY <1>1, <1>2, <1>3, <2>1, <2>2
<1> QED BY <1>4 DEF L, H, Q

-----------------------------------------------------------------------------
(* The counters.                                                           *)

LEMMA IdsFinite ==
    ASSUME HistoryTypes
    PROVE  /\ IsFiniteSet(Ids) /\ Cardinality(Ids) = Len(events)
           /\ \A S : S \subseteq Ids => IsFiniteSet(S) /\ Cardinality(S) \in Nat
<1>1. Len(events) \in Nat  BY EventFacts
<1> DEFINE n == Len(events)
<1>2. IsFiniteSet(1 .. n) /\ Cardinality(1 .. n) = n
  <2> HIDE DEF n
  <2>1. n \in Nat  BY <1>1 DEF n
  <2> QED BY <2>1, FS_Interval
<1> QED BY <1>2, FS_Subset, FS_CardinalityType DEF Ids

LEMMA NextAccounts == EventsInv /\ AccountsInv /\ [Next]_vars => AccountsInv'
<1> SUFFICES ASSUME EventsInv /\ AccountsInv, [Next]_vars PROVE AccountsInv'  OBVIOUS
<1> USE DEF numbers, threads, compilerVars, audioVars, flags, history, outsideCompiler,
           outsideAudio
<1>0. /\ AccountsInv /\ HistoryTypes /\ NumberTypes /\ PlacesInv /\ DistinctInv /\ Types
      /\ prepared \in [Threads -> Seq(Ids)] /\ "hand" \in Places
      /\ cancelProducers \in BOOLEAN /\ sessionCancelled \in BOOLEAN
  BY DEF EventsInv, Types, WhereInv, ThreadTypes, AudioTypes, Places
<1>a. ASSUME UNCHANGED <<nextSequence, leased, fastSubmitted, events>>,
              Cancelled => Cancelled',
              ~Cancelled' => /\ notAccepted' = notAccepted
                             /\ \A e \in Ids : /\ fate'[e] = "shed" <=> fate[e] = "shed"
                                               /\ fate'[e] # "cancelled" \/ fate'[e] = fate[e]
       PROVE  AccountsInv'
  <2>1. Submitted' = Len(events')  BY <1>a, <1>0 DEF AccountsInv, Submitted
  <2>2. ASSUME ~Cancelled'
        PROVE  notAccepted' = Cardinality(Shed') /\ \A e \in Ids' : fate'[e] # "cancelled"
    <3>1. Ids' = Ids  BY <1>a DEF Ids
    <3>2. Shed' = Shed  BY <3>1, <2>2, <1>a DEF Shed
    <3> QED BY <3>1, <3>2, <2>2, <1>a, <1>0 DEF AccountsInv
  <2> QED BY <2>1, <2>2 DEF AccountsInv
<1>b. ASSUME UNCHANGED <<nextSequence, leased, fastSubmitted, events,
                           cancelProducers, sessionCancelled>>,
               NEW e \in Ids, fate[e] = "open", SetFate({e}, "shed"),
               notAccepted' = notAccepted + 1
        PROVE  AccountsInv'
  <2>1. Submitted' = Len(events')  BY <1>b, <1>0 DEF AccountsInv, Submitted
  <2>2. Ids' = Ids /\ \A d \in Ids : fate'[d] = IF d = e THEN "shed" ELSE fate[d]
    BY <1>b, <1>0, KindFacts, FateStep
  <2>3. Shed' = Shed \cup {e} /\ e \notin Shed  BY <2>2, <1>b DEF Shed
  <2>4. IsFiniteSet(Shed)
    <3>1. Shed \subseteq Ids  BY DEF Shed
    <3> QED BY <3>1, <1>0, IdsFinite
  <2>5. Cardinality(Shed') = Cardinality(Shed) + 1  BY <2>3, <2>4, FS_AddElement
  <2>6. Cancelled' <=> Cancelled  BY <1>b DEF Cancelled
  <2> QED BY <2>1, <2>2, <2>5, <2>6, <1>b, <1>0 DEF AccountsInv
<1>c. ASSUME NEW t \in Threads
         PROVE  \A e \in ToSet(prepared[t]) : e \in Ids /\ fate[e] = "open"
  BY <1>0, HandFacts DEF PlacesInv, In
<1>d. ASSUME UNCHANGED <<nextSequence, leased, fastSubmitted, notAccepted, events,
                             cancelProducers, sessionCancelled>>,
                 NEW e \in Ids, e \in due,
                 NEW what \in {"sounded", "suppressed", "played"}, SetFate({e}, what)
          PROVE  AccountsInv'
  <2>1. Cancelled' <=> Cancelled  BY <1>d DEF Cancelled
  <2>2. fate[e] = "pushed"  BY <1>d, <1>0 DEF PlacesInv, In, Places
  <2>3. \A d \in Ids : fate'[d] = IF d = e THEN what ELSE fate[d]
    <3>1. what \in Fates  BY KindFacts
    <3> QED BY <3>1, <1>d, <1>0, FateStep
  <2> QED BY <2>1, <2>2, <2>3, <1>d, <1>a
<1>1. ASSUME NEW t \in Threads, CheckCancelled(t) PROVE AccountsInv'
  <2>1. /\ UNCHANGED <<nextSequence, leased, fastSubmitted, events, fate,
                       cancelProducers, sessionCancelled>>
        /\ Cancelled \/ notAccepted' = notAccepted
    BY <1>1 DEF CheckCancelled
  <2>2. Cancelled' <=> Cancelled  BY <2>1 DEF Cancelled
  <2> QED BY <2>1, <2>2, <1>a
<1>2. ASSUME NEW t \in Threads, Number(t) PROVE AccountsInv'
  <2>1. PICK n \in Nat, first \in Nat : Numbered(t, n, first)
    BY <1>2, NumberFacts DEF EventsInv
  <2>2. UNCHANGED <<notAccepted, cancelProducers, sessionCancelled>>  BY <1>2 DEF Number
  <2>3. TakeSequences(t, n, first) /\ Len(events') = Len(events) + n  BY <2>1 DEF Numbered
  <2>4. Submitted' = Submitted + n
    BY <2>3, <1>0, LeaseAssumption DEF TakeSequences, Submitted, NumberTypes
  <2>5. Ids' = Ids \cup New(n) /\ (\A e \in Ids : fate'[e] = fate[e])
        /\ \A e \in New(n) : fate'[e] = "open"
    BY <2>1 DEF Numbered
  <2>6. Shed' = Shed  BY <2>5 DEF Shed
  <2>7. Cancelled' <=> Cancelled  BY <2>2 DEF Cancelled
  <2> QED BY <2>2, <2>3, <2>4, <2>5, <2>6, <2>7, <1>0 DEF AccountsInv
<1>3. ASSUME NEW t \in Threads, PrepareCancelled(t) PROVE AccountsInv'
  <2>1. /\ UNCHANGED <<nextSequence, leased, fastSubmitted, events, cancelProducers,
                       sessionCancelled>>
        /\ sessionCancelled
    BY <1>3 DEF PrepareCancelled
  <2>2. Cancelled /\ Cancelled'  BY <2>1 DEF Cancelled
  <2> QED BY <2>1, <2>2, <1>a
<1>4. ASSUME NEW t \in Threads, Prepare(t) PROVE AccountsInv'
  <2> DEFINE last == prepared[t][Len(prepared[t])]
  <2>1. /\ UNCHANGED <<nextSequence, leased, fastSubmitted, events, cancelProducers,
                       sessionCancelled>>
        /\ \/ UNCHANGED <<notAccepted, fate>>
           \/ SetFate({last}, "shed") /\ notAccepted' = notAccepted + 1
    BY <1>4 DEF Prepare
  <2>2. prepared[t] # <<>>  BY <1>4 DEF Prepare, EventsInv, ThreadsInv, ThreadInv
  <2>3. last \in ToSet(prepared[t])
    <3> DEFINE p == prepared[t]
    <3>1. p \in Seq(Ids) /\ p # <<>>  BY <2>2, <1>0
    <3> HIDE DEF p
    <3>2. p[Len(p)] \in ToSet(p)  BY <3>1, FrontFacts
    <3> QED BY <3>2 DEF p
  <2>4. last \in Ids /\ fate[last] = "open"  BY <2>3, <1>c
  <2> HIDE DEF last
  <2>5. Cancelled' <=> Cancelled  BY <2>1 DEF Cancelled
  <2> QED BY <2>1, <2>4, <2>5, <1>a, <1>b
<1>5. ASSUME NEW t \in Threads, Push(t) PROVE AccountsInv'
  <2>1. /\ UNCHANGED <<nextSequence, leased, fastSubmitted, notAccepted, events,
                       cancelProducers, sessionCancelled>>
        /\ fate' = fate \/ SetFate(ToSet(prepared[t]), "pushed")
    BY <1>5 DEF Push, PushInto
  <2>2. Cancelled' <=> Cancelled  BY <2>1 DEF Cancelled
  <2>3. CASE fate' = fate  BY <2>1, <2>2, <2>3, <1>a
  <2>4. CASE SetFate(ToSet(prepared[t]), "pushed")
    <3>1. \A e \in Ids : fate'[e] = IF e \in ToSet(prepared[t]) THEN "pushed" ELSE fate[e]
      BY <2>1, <2>4, <1>0, KindFacts, FateStep
    <3> QED BY <3>1, <2>1, <2>2, <1>a, <1>c
  <2> QED BY <2>1, <2>3, <2>4
<1>6. ASSUME NEW t \in Threads, PushOne(t) PROVE AccountsInv'
  <2> DEFINE M == ToSet(<<Head(prepared[t])>>)
  <2>1. /\ UNCHANGED <<nextSequence, leased, fastSubmitted, notAccepted, events,
                       cancelProducers, sessionCancelled>>
        /\ \/ fate' = fate
           \/ prepared[t] # <<>> /\ SetFate(M, "pushed")
    BY <1>6 DEF PushOne, PushInto
  <2>2. Cancelled' <=> Cancelled  BY <2>1 DEF Cancelled
  <2>3. CASE fate' = fate  BY <2>1, <2>2, <2>3, <1>a
  <2>4. CASE prepared[t] # <<>> /\ SetFate(M, "pushed")
    <3>1. M = {Head(prepared[t])}  BY DEF ToSet
    <3>2. Head(prepared[t]) \in ToSet(prepared[t])  BY <2>4, <1>0, TailFacts
    <3> HIDE DEF M
    <3>3. \A e \in M : fate[e] = "open"  BY <3>1, <3>2, <1>c
    <3>4. \A e \in Ids : fate'[e] = IF e \in M THEN "pushed" ELSE fate[e]
      BY <2>1, <2>4, <1>0, KindFacts, FateStep
    <3> QED BY <3>3, <3>4, <2>1, <2>2, <1>a
  <2> QED BY <2>1, <2>3, <2>4
<1>7. ASSUME NEW t \in Threads, Full(t) PROVE AccountsInv'
  <2>1. /\ UNCHANGED <<nextSequence, leased, fastSubmitted, events,
                       cancelProducers, sessionCancelled>>
        /\ \/ UNCHANGED <<notAccepted, fate>>
           \/ SetFate({Head(prepared[t])}, "shed") /\ notAccepted' = notAccepted + 1
           \/ Cancelled
    BY <1>7 DEF Full
  <2>2. prepared[t] # <<>>  BY <1>7 DEF Full, EventsInv, ThreadsInv, ThreadInv
  <2>3. Head(prepared[t]) \in ToSet(prepared[t])  BY <2>2, <1>0, TailFacts
  <2>4. Head(prepared[t]) \in Ids /\ fate[Head(prepared[t])] = "open"  BY <2>3, <1>c
  <2>5. Cancelled' <=> Cancelled  BY <2>1 DEF Cancelled
  <2>6. CASE UNCHANGED <<notAccepted, fate>>  BY <2>1, <2>5, <2>6, <1>a
  <2>7. CASE Cancelled  BY <2>1, <2>5, <2>7, <1>a
  <2>8. CASE SetFate({Head(prepared[t])}, "shed") /\ notAccepted' = notAccepted + 1
    BY <2>1, <2>4, <2>8, <1>b
  <2> QED BY <2>1, <2>6, <2>7, <2>8
<1>8. ASSUME NEW e \in Ids, DispatchPanic(e) PROVE AccountsInv'
  <2>1. /\ UNCHANGED <<nextSequence, leased, fastSubmitted, notAccepted, events,
                       cancelProducers, sessionCancelled>>
        /\ SetFate({e}, "played") /\ e \in due
    BY <1>8 DEF DispatchPanic
  <2> QED BY <2>1, KindFacts, <1>d
<1>9. ASSUME NEW e \in Ids, DispatchNote(e) PROVE AccountsInv'
  <2>1. /\ UNCHANGED <<nextSequence, leased, fastSubmitted, notAccepted, events,
                       cancelProducers, sessionCancelled>>
        /\ e \in due /\ (SetFate({e}, "sounded") \/ SetFate({e}, "suppressed"))
    BY <1>9 DEF DispatchNote
  <2> QED BY <2>1, KindFacts, <1>d
<1>10. ASSUME CancelProducers PROVE AccountsInv'
  <2>1. /\ UNCHANGED <<nextSequence, leased, fastSubmitted, notAccepted, events, fate>>
        /\ cancelProducers'
    BY <1>10 DEF CancelProducers
  <2>2. Cancelled'  BY <2>1 DEF Cancelled
  <2> QED BY <2>1, <2>2, <1>a
<1>11. ASSUME CancelSession PROVE AccountsInv'
  <2>1. /\ UNCHANGED <<nextSequence, leased, fastSubmitted, notAccepted, events, fate>>
        /\ sessionCancelled'
    BY <1>11 DEF CancelSession
  <2>2. Cancelled'  BY <2>1 DEF Cancelled
  <2> QED BY <2>1, <2>2, <1>a
<1>12. ASSUME \/ Pop \/ PollLane \/ Take \/ PublishPage \/ Import \/ EndRun
              \/ UNCHANGED vars
       PROVE  AccountsInv'
  <2>1. UNCHANGED <<nextSequence, leaseNext, leaseEnd, leased, fastSubmitted,
                    notAccepted, events, fate, cancelProducers, sessionCancelled>>
    BY <1>12 DEF Pop, PollLane, Take, PublishPage, Import, EndRun, vars
  <2> QED BY <2>1, <1>a DEF AccountsInv, Submitted, Shed, Cancelled, Ids
<1>13. ASSUME NEW t \in Threads,
              \/ Submit(t) \/ Resume(t)
       PROVE  AccountsInv'
  <2>1. UNCHANGED <<nextSequence, leaseNext, leaseEnd, leased, fastSubmitted,
                    notAccepted, events, fate, cancelProducers, sessionCancelled>>
    BY <1>13 DEF Submit, Resume, Goto
  <2> QED BY <2>1, <1>a DEF AccountsInv, Submitted, Shed, Cancelled, Ids
<1> QED BY <1>1, <1>2, <1>3, <1>4, <1>5, <1>6, <1>7, <1>8, <1>9, <1>10, <1>11, <1>12,
      <1>13, Steps

LEMMA InitAccounts == Init => AccountsInv
<1> SUFFICES ASSUME Init PROVE AccountsInv  OBVIOUS
<1>1. Len(events) = 0 /\ Ids = {} /\ Submitted = 0
  BY EmptyFacts DEF Init, Ids, Submitted
<1>2. Shed = {} /\ Cardinality(Shed) = 0  BY <1>1, FS_EmptySet DEF Shed
<1> QED BY <1>1, <1>2 DEF AccountsInv, Init

\* As long as no call was cancelled, the accepted count the driver reports is
\* exactly what entered the queues and what is about to.
THEOREM CountsAddUp == Spec => []Accounted
<1>1. EventsInv /\ AccountsInv => Accounted
  <2> SUFFICES ASSUME EventsInv, AccountsInv, ~Cancelled
               PROVE  Submitted - notAccepted = Cardinality(Pushed \cup InHand)
    BY DEF Accounted
  <2> DEFINE P == Pushed \cup InHand
  <2>1. HistoryTypes /\ PlacesInv /\ Types  BY DEF EventsInv, WhereInv, Types
  <2>2. InHand \subseteq Ids  BY <2>1, HandFacts DEF InHand
  <2>3. \A e \in Ids : e \in InHand <=> fate[e] = "open"
    <3>1. \A e \in Ids : e \in InHand <=> In(e, "hand")  BY DEF InHand, In
    <3> QED BY <3>1, <2>1 DEF PlacesInv
  <2>4. \A e \in Ids : fate[e] \in Fates /\ fate[e] # "cancelled"
    BY <2>1, EventFacts DEF AccountsInv
  <2>5. Ids = P \cup Shed /\ P \cap Shed = {} /\ P \subseteq Ids /\ Shed \subseteq Ids
    BY <2>2, <2>3, <2>4 DEF Pushed, Shed, Fates
  <2> HIDE DEF P
  <2>6. /\ IsFiniteSet(P) /\ Cardinality(P) \in Nat
        /\ IsFiniteSet(Shed) /\ Cardinality(Shed) \in Nat /\ Cardinality(Ids) = Len(events)
    BY <2>1, <2>5, IdsFinite
  <2>7. Cardinality(P \cup Shed) = Cardinality(P) + Cardinality(Shed) - Cardinality(P \cap Shed)
    BY <2>6, FS_Union
  <2>8. Cardinality(P \cap Shed) = 0  BY <2>5, FS_EmptySet
  <2>9. Submitted - notAccepted = Cardinality(P)
    BY <2>5, <2>6, <2>7, <2>8 DEF AccountsInv
  <2> QED BY <2>9 DEF P
<1>2. EventsInv /\ AccountsInv /\ [Next]_vars => AccountsInv'  BY NextAccounts
<1> QED BY <1>1, <1>2, InitAccounts, Invariant, PTL DEF Spec

-----------------------------------------------------------------------------
(* Sequences, until half of them are given out.                            *)

LEMMA SmallRemainder ==
    ASSUME NEW W \in Nat, W >= 1, NEW a \in Nat, a < W
    PROVE  a % W = a
BY Z3

LEMMA NegativeRemainder ==
    ASSUME NEW W \in Nat, W >= 1, NEW a \in Nat, a < W, a >= 1
    PROVE  (0 - a) % W = W - a
BY Z3

LEMMA HalfFacts ==
    /\ SequenceWidth \in Nat /\ SequenceWidth >= 2
    /\ SequenceWidth \div 2 \in Nat /\ SequenceWidth \div 2 >= 1
    /\ SequenceWidth = 2 * (SequenceWidth \div 2)
BY WidthAssumption, Z3

\* SequenceAtOrBefore is the order of the sequences while less than half of
\* them apart.
LEMMA OrderedInHalf ==
    ASSUME NEW a \in Nat, NEW b \in Nat,
           a < SequenceWidth \div 2, b < SequenceWidth \div 2
    PROVE  AtOrBefore(a, b) <=> a <= b
<1> DEFINE W == SequenceWidth
           H == SequenceWidth \div 2
           d == (a - b) % W
<1>1. W \in Nat /\ H \in Nat /\ H >= 1 /\ W = 2 * H  BY HalfFacts
<1>2. a < H /\ b < H  OBVIOUS
<1>3. AtOrBefore(a, b) <=> d = 0 \/ d >= H  BY DEF AtOrBefore
<1> HIDE DEF W, H
<1>4. CASE b <= a
  <2>1. a - b \in Nat /\ a - b < W /\ a - b < H  BY <1>1, <1>2, <1>4
  <2>2. d = a - b  BY <2>1, <1>1, SmallRemainder
  <2> HIDE DEF d
  <2> QED BY <2>1, <2>2, <1>1, <1>3, <1>4
<1>5. CASE a < b
  <2>1. b - a \in Nat /\ b - a >= 1 /\ b - a < W /\ a - b = 0 - (b - a) /\ b - a < H
    BY <1>1, <1>2, <1>5
  <2> DEFINE c == b - a
  <2>3. d = (0 - c) % W  BY <2>1
  <2>5. c \in Nat /\ c >= 1 /\ c < W /\ W \in Nat /\ W >= 1  BY <2>1, <1>1
  <2> HIDE DEF d, c
  <2>4. (0 - c) % W = W - c  BY <2>5, NegativeRemainder
  <2>2. d = W - (b - a)  BY <2>3, <2>4 DEF c
  <2> QED BY <2>1, <2>2, <1>1, <1>3, <1>5
<1> QED BY <1>4, <1>5

LEMMA InitSequences == Init => SequencesInv /\ FencesInv /\ NewerNotesSurvive
<1> SUFFICES ASSUME Init PROVE SequencesInv /\ FencesInv /\ NewerNotesSurvive  OBVIOUS
<1>1. Ids = {} /\ ToSet(<<>>) = {}
  BY EmptyFacts DEF Init, Ids
<1>2. SequencesInv  BY <1>1 DEF Init, SequencesInv
<1>3. FencesInv
  BY <1>1 DEF Init, FencesInv, FenceInv, HeldInv, PushedInv, PlayedInv
<1> QED BY <1>1, <1>2, <1>3 DEF NewerNotesSurvive

LEMMA Remains == \A a \in Nat : a < SequenceWidth => a % SequenceWidth = a
<1> TAKE a \in Nat
<1> HAVE a < SequenceWidth
<1> DEFINE W == SequenceWidth
<1>1. W \in Nat /\ W >= 1 /\ a < W  BY HalfFacts
<1> HIDE DEF W
<1>2. a % W = a  BY <1>1, SmallRemainder
<1> QED BY <1>2 DEF W

\* The sequences thread t takes for n events are past all of their source, and
\* while less than half of them are given out they do not wrap.
LEMMA TakenFacts ==
    ASSUME EventsInv, SequencesInv, NEW t \in Threads, NEW n \in Nat, NEW first \in Nat,
           n >= 1, n <= Chunk, TakeSequences(t, n, first), owner' = owner, Unwrapped'
    PROVE  /\ Unwrapped /\ nextSequence <= nextSequence' /\ leaseNext <= leaseNext'
           /\ leaseNext' <= leaseEnd' /\ leaseEnd' <= nextSequence'
           /\ \A i \in 1 .. n :
                /\ (first + i - 1) % SequenceWidth = first + i - 1
                /\ first + i - 1 < IF t = owner THEN leaseNext' ELSE nextSequence'
           /\ first >= IF t = owner THEN leaseNext ELSE nextSequence
<1>1. /\ nextSequence \in Nat /\ leaseNext \in Nat /\ leaseEnd \in Nat
      /\ leaseNext <= leaseEnd /\ leaseEnd <= nextSequence
      /\ Lease \in Nat /\ Lease >= Chunk /\ Chunk \in Nat
  BY LeaseAssumption DEF EventsInv, Types, NumberTypes, SequencesInv
<1> DEFINE H == SequenceWidth \div 2
<1>2. H \in Nat /\ SequenceWidth = 2 * H /\ nextSequence' < H
  BY HalfFacts DEF Unwrapped
<1> HIDE DEF H
<1>3. CASE t # owner
  <2>1. /\ first = nextSequence /\ nextSequence' = nextSequence + n
        /\ leaseNext' = leaseNext /\ leaseEnd' = leaseEnd
    BY <1>3 DEF TakeSequences
  <2>2. \A i \in 1 .. n : /\ first + i - 1 \in Nat /\ first + i - 1 < nextSequence'
                          /\ first + i - 1 < SequenceWidth
    BY <2>1, <1>1, <1>2
  <2>4. nextSequence < H /\ nextSequence <= nextSequence'  BY <2>1, <1>1, <1>2
  <2>3. \A i \in 1 .. n : (first + i - 1) % SequenceWidth = first + i - 1
    BY <2>2, Remains
  <2>5. Unwrapped  BY <2>4 DEF Unwrapped, H
  <2>6. first >= IF t = owner THEN leaseNext ELSE nextSequence  BY <2>1, <1>1, <1>3
  <2>7. leaseNext <= leaseNext' /\ leaseNext' <= leaseEnd' /\ leaseEnd' <= nextSequence'
    BY <2>1, <1>1
  <2> QED BY <2>2, <2>3, <2>4, <2>5, <2>6, <2>7, <1>3
<1>4. CASE t = owner
  <2>1. /\ leaseNext' = first + n
        /\ \/ /\ first = nextSequence /\ nextSequence' = nextSequence + Lease
              /\ leaseEnd' = nextSequence + Lease
           \/ /\ ~(leaseEnd - leaseNext < n) /\ first = leaseNext
              /\ nextSequence' = nextSequence /\ leaseEnd' = leaseEnd
    BY <1>4 DEF TakeSequences
  <2>2. /\ nextSequence <= nextSequence' /\ leaseNext <= leaseNext' /\ first >= leaseNext
        /\ leaseNext' <= leaseEnd' /\ leaseEnd' <= nextSequence'
    BY <2>1, <1>1
  <2>3. \A i \in 1 .. n : /\ first + i - 1 \in Nat /\ first + i - 1 < leaseNext'
                          /\ first + i - 1 < SequenceWidth
    BY <2>1, <2>2, <1>1, <1>2
  <2>4. \A i \in 1 .. n : (first + i - 1) % SequenceWidth = first + i - 1
    BY <2>3, Remains
  <2>6. nextSequence' \in Nat  BY <2>1, <1>1
  <2>5. nextSequence < H  BY <2>2, <2>6, <1>1, <1>2
  <2> QED BY <2>2, <2>3, <2>4, <2>5, <1>4 DEF Unwrapped, H
<1> QED BY <1>3, <1>4

LEMMA NextSequences == EventsInv /\ SequencesInv /\ Unwrapped' /\ [Next]_vars => SequencesInv'
<1> SUFFICES ASSUME EventsInv /\ SequencesInv /\ Unwrapped', [Next]_vars
             PROVE  SequencesInv'
  OBVIOUS
<1> USE DEF numbers, threads, compilerVars, audioVars, flags, history, outsideCompiler,
           outsideAudio
<1>0. SequencesInv /\ HistoryTypes  BY DEF EventsInv, Types
<1>1. ASSUME NEW t \in Threads, Submit(t) PROVE SequencesInv'
  <2>1. /\ UNCHANGED <<nextSequence, leaseNext, leaseEnd, events>>
        /\ owner' = owner \/ owner' \in Threads
    BY <1>1 DEF Submit
  <2> QED BY <2>1, <1>0 DEF SequencesInv, Ids
<1>2. ASSUME NEW t \in Threads, Number(t) PROVE SequencesInv'
  <2>1. PICK n \in Nat, first \in Nat : Numbered(t, n, first)
    BY <1>2, NumberFacts DEF EventsInv
  <2>2. owner' = owner  BY <1>2 DEF Number
  <2> DEFINE N == New(n)
             s(e) == events'[e].sequence
  <2>3. /\ Unwrapped /\ nextSequence <= nextSequence' /\ leaseNext <= leaseNext'
        /\ leaseNext' <= leaseEnd' /\ leaseEnd' <= nextSequence'
        /\ \A i \in 1 .. n :
             /\ (first + i - 1) % SequenceWidth = first + i - 1
             /\ first + i - 1 < IF t = owner THEN leaseNext' ELSE nextSequence'
        /\ first >= IF t = owner THEN leaseNext ELSE nextSequence
    BY <2>1, <2>2, TakenFacts DEF Numbered
  <2>4. /\ Ids' = Ids \cup N /\ Ids \cap N = {} /\ Len(events) \in Nat
        /\ \A e \in Ids : events'[e] = events[e] /\ e <= Len(events) /\ e \in Nat
        /\ \A e \in N : e - Len(events) \in 1 .. n /\ e \in Nat /\ e > Len(events)
    <3>1. /\ Ids' = Ids \cup N /\ Ids \cap N = {} /\ Len(events) \in Nat
          /\ \A e \in Ids : events'[e] = events[e]
          /\ \A e \in N : e - Len(events) \in 1 .. n
      BY <2>1, <1>0, EventFacts DEF Numbered
    <3>2. \A e \in Ids : e <= Len(events) /\ e \in Nat  BY <3>1 DEF Ids
    <3>3. \A e \in N : e \in Nat /\ e > Len(events)  BY <3>1 DEF New
    <3> HIDE DEF N
    <3> QED BY <3>1, <3>2, <3>3
  <2>12. \A e \in N : /\ events'[e].leased <=> (t = owner)
                      /\ events'[e].before = QueuedBefore(events'[e].kind)
    BY <2>1 DEF Numbered
  <2>5. /\ nextSequence \in Nat /\ leaseNext \in Nat /\ nextSequence' \in Nat
        /\ leaseNext' \in Nat /\ owner \in Threads \cup {NoThread, Disabled}
        /\ \A e \in Ids : events[e].sequence \in Nat
    BY <1>0, EventFacts, NextTypes DEF EventsInv, Types, NumberTypes
  <2>6. ASSUME NEW e \in N
        PROVE  /\ s(e) = first + (e - Len(events)) - 1
               /\ s(e) < IF t = owner THEN leaseNext' ELSE nextSequence'
               /\ s(e) >= first /\ s(e) \in Nat
    <3>0. PICK i \in 1 .. n : i = e - Len(events)  BY <2>4
    <3>1. s(e) = (first + i - 1) % SequenceWidth  BY <3>0, <2>1 DEF Numbered
    <3>2. s(e) = first + i - 1  BY <3>1, <2>3
    <3>3. s(e) < IF t = owner THEN leaseNext' ELSE nextSequence'  BY <3>2, <2>3
    <3> HIDE DEF s
    <3>4. s(e) >= first /\ s(e) \in Nat  BY <3>2
    <3> QED BY <3>0, <3>2, <3>3, <3>4
  <2>7. ASSUME NEW e \in Ids
        PROVE  /\ s(e) = events[e].sequence /\ events'[e].leased = events[e].leased
               /\ s(e) < IF events[e].leased THEN leaseNext ELSE nextSequence
    BY <2>4, <1>0 DEF SequencesInv
  <2> HIDE DEF N, s
  <2>8. owner' \notin Threads => leaseEnd' = 0 /\ \A e \in Ids' : ~events'[e].leased
    <3> HAVE owner' \notin Threads
    <3>1. t # owner  BY <2>2
    <3>2. leaseEnd' = leaseEnd  BY <3>1, <2>1 DEF Numbered, TakeSequences
    <3>3. \A e \in N : ~events'[e].leased  BY <3>1, <2>12
    <3> QED BY <3>2, <3>3, <2>2, <2>4, <1>0 DEF SequencesInv
  <2>9. \A e \in Ids' : s(e) < IF events'[e].leased THEN leaseNext' ELSE nextSequence'
    <3>1. \A e \in N : s(e) < IF events'[e].leased THEN leaseNext' ELSE nextSequence'
      BY <2>12, <2>6
    <3>2. \A e \in Ids : s(e) < IF events'[e].leased THEN leaseNext' ELSE nextSequence'
      BY <2>3, <2>5, <2>7
    <3> QED BY <3>1, <3>2, <2>4
  <2>10. ASSUME NEW d \in Ids', NEW e \in Ids', d < e,
                events'[d].leased = events'[e].leased
         PROVE  s(d) < s(e)
    <3>1. CASE d \in Ids /\ e \in Ids
      BY <3>1, <2>7, <2>10, <1>0 DEF SequencesInv
    <3>2. CASE d \in Ids /\ e \in N
      <4>1. events[d].leased <=> (t = owner)  BY <3>2, <2>12, <2>7, <2>10
      <4>3. s(d) \in Nat /\ s(d) < IF events[d].leased THEN leaseNext ELSE nextSequence
        BY <3>2, <2>5, <2>7
      <4>2. s(d) < first
        <5>1. CASE t = owner  BY <5>1, <4>1, <4>3, <2>3, <2>5
        <5>2. CASE t # owner  BY <5>2, <4>1, <4>3, <2>3, <2>5
        <5> QED BY <5>1, <5>2
      <4> QED BY <4>2, <3>2, <2>5, <2>6, <2>7
    <3>3. CASE d \in N /\ e \in N
      <4>1. s(d) = first + (d - Len(events)) - 1 /\ s(e) = first + (e - Len(events)) - 1
        BY <3>3, <2>6
      <4>2. d \in Nat /\ e \in Nat /\ Len(events) \in Nat  BY <3>3, <2>4
      <4> QED BY <4>1, <4>2, <2>10
    <3>4. CASE d \in N /\ e \in Ids  BY <3>4, <2>4, <2>10
    <3> QED BY <3>1, <3>2, <3>3, <3>4, <2>4
  <2>11. \A e \in Ids' : \A d \in events'[e].before : d < e
    <3>1. \A e \in N : \A d \in events'[e].before : d \in Ids  BY <2>12 DEF QueuedBefore
    <3>2. \A e \in N : \A d \in Ids : d < e  BY <2>4
    <3>3. \A e \in Ids : \A d \in events'[e].before : d < e
      BY <2>4, <1>0 DEF SequencesInv
    <3> QED BY <3>1, <3>2, <3>3, <2>4
  <2> QED BY <2>3, <2>8, <2>9, <2>10, <2>11 DEF SequencesInv, s
<1>3. ASSUME \/ Pop \/ PollLane \/ Take \/ PublishPage \/ Import \/ EndRun
             \/ CancelProducers \/ CancelSession \/ UNCHANGED vars
      PROVE  SequencesInv'
  <2>1. UNCHANGED <<nextSequence, leaseNext, leaseEnd, owner, events>>
    BY <1>3 DEF Pop, PollLane, Take, PublishPage, Import, EndRun, CancelProducers,
       CancelSession, vars
  <2> QED BY <2>1, <1>0 DEF SequencesInv, Ids
<1>4. ASSUME NEW t \in Threads,
             \/ CheckCancelled(t) \/ PrepareCancelled(t) \/ Prepare(t) \/ Push(t)
             \/ PushOne(t) \/ Full(t) \/ Resume(t)
      PROVE  SequencesInv'
  <2>1. UNCHANGED <<nextSequence, leaseNext, leaseEnd, owner, events>>
    BY <1>4 DEF CheckCancelled, PrepareCancelled, Prepare, Push, PushOne, Full, Resume,
       Goto
  <2> QED BY <2>1, <1>0 DEF SequencesInv, Ids
<1>5. ASSUME NEW e \in Ids,
             \/ DispatchPanic(e) \/ DispatchNote(e)
      PROVE  SequencesInv'
  <2>1. UNCHANGED <<nextSequence, leaseNext, leaseEnd, owner, events>>
    BY <1>5 DEF DispatchPanic, DispatchNote
  <2> QED BY <2>1, <1>0 DEF SequencesInv, Ids
<1> QED BY <1>1, <1>2, <1>3, <1>4, <1>5, Steps

-----------------------------------------------------------------------------
(* The fences.                                                             *)

LEMMA UnwrappedBefore == EventsInv /\ [Next]_vars /\ Unwrapped' => Unwrapped
<1> SUFFICES ASSUME EventsInv, [Next]_vars, Unwrapped' PROVE Unwrapped  OBVIOUS
<1> USE DEF numbers, threads, compilerVars, audioVars, flags, history, outsideCompiler,
           outsideAudio
<1>1. nextSequence \in Nat /\ Lease \in Nat /\ SequenceWidth \div 2 \in Nat
  BY HalfFacts, LeaseAssumption DEF EventsInv, Types, NumberTypes
<1>2. ASSUME nextSequence' = nextSequence PROVE Unwrapped  BY <1>2 DEF Unwrapped
<1>3. ASSUME NEW t \in Threads, Number(t) PROVE Unwrapped
  <2>1. PICK n \in Nat, first \in Nat : Numbered(t, n, first)
    BY <1>3, NumberFacts DEF EventsInv
  <2>2. nextSequence' \in {nextSequence, nextSequence + n, nextSequence + Lease}
    BY <2>1 DEF Numbered, TakeSequences
  <2>3. nextSequence' \in Nat /\ nextSequence <= nextSequence'  BY <2>2, <1>1
  <2> DEFINE H == SequenceWidth \div 2
  <2>4. H \in Nat /\ nextSequence' < H  BY <1>1 DEF Unwrapped
  <2> HIDE DEF H
  <2>5. nextSequence < H  BY <2>3, <2>4, <1>1
  <2> QED BY <2>5 DEF Unwrapped, H
<1>4. ASSUME NEW t \in Threads,
             \/ Submit(t) \/ CheckCancelled(t) \/ PrepareCancelled(t) \/ Prepare(t)
             \/ Push(t) \/ PushOne(t) \/ Full(t) \/ Resume(t)
      PROVE  nextSequence' = nextSequence
  BY <1>4 DEF Submit, CheckCancelled, PrepareCancelled, Prepare, Push, PushOne, Full, Resume
<1>5. ASSUME \/ Pop \/ PollLane \/ Take \/ PublishPage \/ Import \/ EndRun
             \/ CancelProducers \/ CancelSession \/ UNCHANGED vars
      PROVE  nextSequence' = nextSequence
  BY <1>5 DEF Pop, PollLane, Take, PublishPage, Import, EndRun, CancelProducers,
              CancelSession, vars
<1>6. ASSUME NEW e \in Ids, DispatchPanic(e) \/ DispatchNote(e)
      PROVE  nextSequence' = nextSequence
  BY <1>6 DEF DispatchPanic, DispatchNote
<1> QED BY <1>2, <1>3, <1>4, <1>5, <1>6, Steps

\* Any sequence given out is below half of them.
LEMMA LowSequence ==
    ASSUME EventsInv, SequencesInv, Unwrapped, NEW e \in Ids
    PROVE  events[e].sequence \in Nat /\ events[e].sequence < SequenceWidth \div 2
<1> DEFINE s == events[e].sequence
           H == SequenceWidth \div 2
<1>1. /\ s \in Nat /\ leaseNext \in Nat /\ leaseEnd \in Nat /\ nextSequence \in Nat
      /\ s < IF events[e].leased THEN leaseNext ELSE nextSequence
      /\ leaseNext <= leaseEnd /\ leaseEnd <= nextSequence
  BY EventFacts DEF EventsInv, Types, NumberTypes, SequencesInv
<1>2. H \in Nat /\ nextSequence < H  BY HalfFacts DEF Unwrapped
<1> HIDE DEF s, H
<1>3. s < H  BY <1>1, <1>2
<1> QED BY <1>1, <1>3 DEF s, H

\* A fence moves to a panic's sequence, and never back.
LEMMA FencedFacts ==
    ASSUME EventsInv, SequencesInv, FenceInv, Unwrapped, NEW p \in Ids
    PROVE  LET s == events[p].sequence
           IN  /\ Fenced(fence, s) \in {fence, s + 1}
               /\ fence <= Fenced(fence, s) /\ s < Fenced(fence, s)
<1> DEFINE s == events[p].sequence
           f == Fenced(fence, s)
<1>1. s \in Nat /\ s < SequenceWidth \div 2  BY LowSequence
<1>2. fence \in Nat  BY DEF EventsInv, Types, NumberTypes
<1>3. f = IF fence # 0 /\ ~AtOrBefore(fence - 1, s) THEN fence ELSE s + 1  BY DEF Fenced
<1> HIDE DEF s, f
<1>4. fence # 0 => (AtOrBefore(fence - 1, s) <=> fence - 1 <= s)
  <2> HAVE fence # 0
  <2>1. fence # NoRun  BY <1>2, NoRunAssumption
  <2>2. PICK q \in Ids : fence = events[q].sequence + 1  BY <2>1 DEF FenceInv
  <2>3. events[q].sequence \in Nat /\ events[q].sequence < SequenceWidth \div 2
    BY LowSequence
  <2>4. fence - 1 = events[q].sequence  BY <2>2, <2>3
  <2>5. AtOrBefore(events[q].sequence, s) <=> events[q].sequence <= s
    BY <1>1, <2>3, OrderedInHalf
  <2> QED BY <2>4, <2>5
<1>5. f \in {fence, s + 1} /\ fence <= f /\ s < f  BY <1>1, <1>2, <1>3, <1>4
<1> QED BY <1>5 DEF f, s

\* What a numbering leaves as it is.
LEMMA NumberKeeps ==
    ASSUME EventsInv, NEW t \in Threads, Number(t)
    PROVE  /\ Ids \subseteq Ids' /\ UNCHANGED <<fence, runFence>>
           /\ \A e \in Ids : events'[e] = events[e] /\ fate'[e] = fate[e]
           /\ \A e \in Ids' \ Ids : fate'[e] = "open"
<1>1. PICK n \in Nat, first \in Nat : Numbered(t, n, first)
  BY NumberFacts DEF EventsInv
<1>2. UNCHANGED <<fence, runFence>>  BY DEF Number, audioVars
<1> QED BY <1>1, <1>2 DEF Numbered

\* What becomes of an event in any other step.
FateMove(p) ==
    \/ fate'[p] = fate[p] \/ fate'[p] \in {"shed", "cancelled"}
    \/ fate'[p] = "pushed" /\ \E t \in Threads : p \in ToSet(prepared[t]) /\ pc[t] # "prepare"
    \/ fate'[p] = "played" /\ DispatchPanic(p)
    \/ fate'[p] \in {"sounded", "suppressed"} /\ DispatchNote(p)

LEMMA FateMoves ==
    ASSUME EventsInv, [Next]_vars, \A t \in Threads : ~Number(t)
    PROVE  UNCHANGED events /\ Ids' = Ids /\ \A p \in Ids : FateMove(p)
<1> USE DEF numbers, threads, compilerVars, audioVars, flags, history, outsideCompiler,
           outsideAudio
<1> DEFINE Goal == UNCHANGED events /\ Ids' = Ids /\ \A p \in Ids : FateMove(p)
<1>0. HistoryTypes /\ Types /\ ThreadsInv /\ prepared \in [Threads -> Seq(Ids)]
  BY DEF EventsInv, Types, ThreadTypes
<1>1. ASSUME UNCHANGED <<events, fate>> PROVE Goal  BY <1>1 DEF FateMove, Ids
<1>2. ASSUME UNCHANGED events, NEW ids, NEW what \in {"shed", "cancelled"}, SetFate(ids, what)
      PROVE  Goal
  <2>1. /\ Ids' = Ids
        /\ \A p \in Ids : fate'[p] = IF p \in ids THEN what ELSE fate[p]
    BY <1>2, <1>0, KindFacts, FateStep
  <2> QED BY <2>1, <1>2 DEF FateMove
<1>3. ASSUME UNCHANGED events, NEW t \in Threads, pc[t] # "prepare",
             NEW ids \in SUBSET ToSet(prepared[t]), SetFate(ids, "pushed")
      PROVE  Goal
  <2>1. /\ Ids' = Ids
        /\ \A p \in Ids : fate'[p] = IF p \in ids THEN "pushed" ELSE fate[p]
    BY <1>3, <1>0, KindFacts, FateStep
  <2> QED BY <2>1, <1>3 DEF FateMove
<1>4. ASSUME NEW t \in Threads,
             \/ Submit(t) \/ CheckCancelled(t) \/ Resume(t)
      PROVE  Goal
  <2>1. UNCHANGED <<events, fate>>  BY <1>4 DEF Submit, CheckCancelled, Resume
  <2> QED BY <2>1, <1>1
<1>5. ASSUME NEW t \in Threads, PrepareCancelled(t) \/ Prepare(t) \/ Full(t) PROVE Goal
  <2>1. /\ UNCHANGED events
        /\ fate' = fate \/ \E ids : SetFate(ids, "shed") \/ SetFate(ids, "cancelled")
    <3>1. CASE PrepareCancelled(t)  BY <3>1 DEF PrepareCancelled
    <3>2. CASE Prepare(t)  BY <3>2 DEF Prepare
    <3>3. CASE Full(t)  BY <3>3 DEF Full
    <3> QED BY <3>1, <3>2, <3>3, <1>5
  <2> HIDE DEF Goal
  <2> QED BY <2>1, <1>1, <1>2
<1>6. ASSUME NEW t \in Threads, Push(t) PROVE Goal
  <2>1. /\ UNCHANGED events /\ pc[t] # "prepare"
        /\ fate' = fate \/ SetFate(ToSet(prepared[t]), "pushed")
    BY <1>6 DEF Push, PushInto
  <2> HIDE DEF Goal
  <2> QED BY <2>1, <1>1, <1>3
<1>7. ASSUME NEW t \in Threads, PushOne(t) PROVE Goal
  <2> DEFINE M == ToSet(<<Head(prepared[t])>>)
  <2>1. /\ UNCHANGED events /\ pc[t] # "prepare"
        /\ fate' = fate \/ (prepared[t] # <<>> /\ SetFate(M, "pushed"))
    BY <1>7 DEF PushOne, PushInto
  <2>2. prepared[t] # <<>> => M \subseteq ToSet(prepared[t])
    <3>1. M = {Head(prepared[t])}  BY DEF ToSet
    <3>2. prepared[t] # <<>> => Head(prepared[t]) \in ToSet(prepared[t])
      BY <1>0, TailFacts
    <3> HIDE DEF M
    <3> QED BY <3>1, <3>2
  <2> HIDE DEF M, Goal
  <2> QED BY <2>1, <2>2, <1>1, <1>3
<1>8. ASSUME \/ Pop \/ PollLane \/ Take \/ PublishPage \/ Import \/ EndRun
             \/ CancelProducers \/ CancelSession \/ UNCHANGED vars
      PROVE  Goal
  <2>1. UNCHANGED <<events, fate>>
    BY <1>8 DEF Pop, PollLane, Take, PublishPage, Import, EndRun, CancelProducers,
                CancelSession, vars
  <2> QED BY <2>1, <1>1
<1>9. ASSUME NEW e \in Ids, DispatchPanic(e) PROVE Goal
  <2>1. UNCHANGED events /\ SetFate({e}, "played")  BY <1>9 DEF DispatchPanic
  <2>2. Ids' = Ids /\ \A p \in Ids : fate'[p] = IF p \in {e} THEN "played" ELSE fate[p]
    BY <2>1, <1>0, KindFacts, FateStep
  <2> QED BY <2>1, <2>2, <1>9 DEF FateMove
<1>10. ASSUME NEW e \in Ids, DispatchNote(e) PROVE Goal
  <2>1. UNCHANGED events /\ \E what \in {"sounded", "suppressed"} : SetFate({e}, what)
    BY <1>10 DEF DispatchNote
  <2>2. PICK what \in {"sounded", "suppressed"} : SetFate({e}, what)  BY <2>1
  <2>3. Ids' = Ids /\ \A p \in Ids : fate'[p] = IF p \in {e} THEN what ELSE fate[p]
    BY <2>1, <2>2, <1>0, KindFacts, FateStep
  <2> QED BY <2>1, <2>3, <1>10 DEF FateMove
<1> HIDE DEF Goal
<1>11. Goal
  BY <1>4, <1>5, <1>6, <1>7, <1>8, <1>9, <1>10, Steps
<1> QED BY <1>11 DEF Goal

\* The event a thread prepared last.
LEMMA LastInHand ==
    ASSUME EventsInv, NEW t \in Threads, prepared[t] # <<>>
    PROVE  /\ prepared[t][Len(prepared[t])] \in Ids
           /\ prepared[t][Len(prepared[t])] \in ToSet(prepared[t])
<1> DEFINE p == prepared[t]
<1>1. p \in Seq(Ids) /\ p # <<>>  BY DEF EventsInv, Types, ThreadTypes
<1> HIDE DEF p
<1>2. p[Len(p)] \in Ids /\ p[Len(p)] \in ToSet(p)  BY <1>1, FrontFacts
<1> QED BY <1>2 DEF p

\* The step moves the fence: a Prepare of a panic does.
LEMMA FenceMoves ==
    ASSUME EventsInv, SequencesInv, FenceInv, Unwrapped, [Next]_vars
    PROVE  /\ fence \in Nat /\ fence' \in Nat /\ fence <= fence'
           /\ \/ fence' = fence
              \/ \E p \in Ids : Panic(p) /\ fence' = events[p].sequence + 1
<1> USE DEF numbers, threads, compilerVars, audioVars, flags, history, outsideCompiler,
           outsideAudio
<1>0. fence \in Nat  BY DEF EventsInv, Types, NumberTypes
<1>1. ASSUME NEW t \in Threads, Prepare(t)
      PROVE  /\ fence' \in Nat /\ fence <= fence'
             /\ \/ fence' = fence
                \/ \E p \in Ids : Panic(p) /\ fence' = events[p].sequence + 1
  <2> DEFINE p == prepared[t][Len(prepared[t])]
  <2>1. p \in Ids
    <3>1. prepared[t] # <<>>  BY <1>1 DEF Prepare, EventsInv, ThreadsInv, ThreadInv
    <3> QED BY <3>1, LastInHand
  <2>2. fence' = IF events[p].kind = "panic" THEN Fenced(fence, events[p].sequence) ELSE fence
    BY <1>1 DEF Prepare
  <2> HIDE DEF p
  <2>3. LET s == events[p].sequence
        IN  Fenced(fence, s) \in {fence, s + 1} /\ fence <= Fenced(fence, s)
    BY <2>1, FencedFacts
  <2>4. events[p].sequence \in Nat  BY <2>1, LowSequence
  <2> QED BY <2>1, <2>2, <2>3, <2>4, <1>0 DEF Panic
<1>2. ASSUME NEW t \in Threads,
             \/ Submit(t) \/ CheckCancelled(t) \/ Number(t) \/ PrepareCancelled(t)
             \/ Push(t) \/ PushOne(t) \/ Full(t) \/ Resume(t)
      PROVE  fence' = fence
  BY <1>2 DEF Submit, CheckCancelled, Number, PrepareCancelled, Push, PushOne, Full, Resume
<1>3. ASSUME \/ Pop \/ PollLane \/ Take \/ PublishPage \/ Import \/ EndRun
             \/ CancelProducers \/ CancelSession \/ UNCHANGED vars
      PROVE  fence' = fence
  BY <1>3 DEF Pop, PollLane, Take, PublishPage, Import, EndRun, CancelProducers,
              CancelSession, vars
<1>4. ASSUME NEW e \in Ids, DispatchPanic(e) \/ DispatchNote(e) PROVE fence' = fence
  BY <1>4 DEF DispatchPanic, DispatchNote
<1>5. fence' = fence \/ \E t \in Threads : Prepare(t)  BY <1>2, <1>3, <1>4, Steps
<1>6. fence <= fence  BY <1>0
<1> QED BY <1>0, <1>1, <1>5, <1>6

\* The step moves the fence of the run: a note that opens one loads the fence.
LEMMA RunMoves ==
    ASSUME [Next]_vars
    PROVE  runFence' \in {runFence, NoRun} \/ (runFence = NoRun /\ runFence' = fence)
<1> USE DEF numbers, threads, compilerVars, audioVars, flags, history, outsideCompiler,
           outsideAudio
<1>1. ASSUME NEW t \in Threads,
             \/ Submit(t) \/ CheckCancelled(t) \/ Number(t) \/ PrepareCancelled(t)
             \/ Prepare(t) \/ Push(t) \/ PushOne(t) \/ Full(t) \/ Resume(t)
      PROVE  runFence' = runFence
  BY <1>1 DEF Submit, CheckCancelled, Number, PrepareCancelled, Prepare, Push, PushOne,
              Full, Resume
<1>2. ASSUME \/ Pop \/ PollLane \/ Take \/ PublishPage \/ Import \/ EndRun
             \/ CancelProducers \/ CancelSession \/ UNCHANGED vars
      PROVE  runFence' \in {runFence, NoRun}
  BY <1>2 DEF Pop, PollLane, Take, PublishPage, Import, EndRun, CancelProducers,
              CancelSession, vars
<1>3. ASSUME NEW e \in Ids, DispatchPanic(e) \/ DispatchNote(e)
      PROVE  runFence' \in {runFence, NoRun} \/ (runFence = NoRun /\ runFence' = fence)
  BY <1>3 DEF DispatchPanic, DispatchNote
<1> QED BY <1>1, <1>2, <1>3, Steps

LEMMA NextFence ==
    ASSUME EventsInv, SequencesInv, FencesInv, Unwrapped, [Next]_vars
    PROVE  FenceInv'
<1>1. FenceInv  BY DEF FencesInv
<1>2. \A p \in Ids : p \in Ids' /\ events'[p] = events[p]
  <2>1. CASE \E t \in Threads : Number(t)  BY <2>1, NumberKeeps
  <2>2. CASE \A t \in Threads : ~Number(t)  BY <2>2, FateMoves
  <2> QED BY <2>1, <2>2
<1>3. \/ fence' = fence
      \/ \E p \in Ids : Panic(p) /\ fence' = events[p].sequence + 1
  BY <1>1, FenceMoves
<1>4. runFence' \in {runFence, NoRun, fence}  BY RunMoves
<1> SUFFICES ASSUME NEW f \in {fence', runFence'} \ {0, NoRun}
             PROVE  \E p \in Ids' : Panic(p)' /\ f = events'[p].sequence + 1
  BY DEF FenceInv
<1>5. CASE f \in {fence, runFence}
  <2>1. PICK p \in Ids : Panic(p) /\ f = events[p].sequence + 1
    BY <1>1, <1>5 DEF FenceInv
  <2> QED BY <2>1, <1>2 DEF Panic
<1>6. CASE \E p \in Ids : Panic(p) /\ f = events[p].sequence + 1
  BY <1>6, <1>2 DEF Panic
<1> QED BY <1>3, <1>4, <1>5, <1>6

\* Panics in hand: the fence moves past a panic when its thread prepares it.
LEMMA NextHeld ==
    ASSUME EventsInv, SequencesInv, FencesInv, Unwrapped, [Next]_vars
    PROVE  HeldInv'
<1> USE DEF numbers, threads, compilerVars, audioVars, flags, history, outsideCompiler,
           outsideAudio
<1>0. /\ HeldInv /\ Types /\ ThreadsInv
      /\ pc \in [Threads -> ThreadLabels] /\ prepared \in [Threads -> Seq(Ids)]
      /\ fence \in Nat /\ fence' \in Nat /\ fence <= fence'
  BY FenceMoves DEF FencesInv, EventsInv, Types, ThreadTypes
<1>1. \A t \in Threads : \A p \in ToSet(prepared[t]) : p \in Ids /\ events[p].sequence \in Nat
  BY <1>0, HandFacts, EventFacts DEF Types
<1>2. ASSUME NEW t \in Threads, UNCHANGED events,
             \A u \in Threads : u # t => pc'[u] = pc[u] /\ prepared'[u] = prepared[u],
             \A p \in ToSet(prepared'[t]) :
               Panic(p) /\ (pc'[t] = "prepare" => p # prepared'[t][Len(prepared'[t])]) =>
                 p \in ToSet(prepared[t]) /\ events[p].sequence < fence'
      PROVE  HeldInv'
  <2> SUFFICES ASSUME NEW u \in Threads, NEW p \in ToSet(prepared'[u]), Panic(p),
                      pc'[u] = "prepare" => p # prepared'[u][Len(prepared'[u])]
               PROVE  events[p].sequence < fence'
    BY <1>2 DEF HeldInv, Panic
  <2>1. CASE u = t  BY <2>1, <1>2
  <2>2. CASE u # t
    <3>1. /\ p \in ToSet(prepared[u])
          /\ pc[u] = "prepare" => p # prepared[u][Len(prepared[u])]
      BY <2>2, <1>2
    <3>2. events[p].sequence < fence  BY <3>1, <1>0 DEF HeldInv
    <3> QED BY <3>1, <3>2, <1>0, <1>1
  <2> QED BY <2>1, <2>2
\* A thread that neither comes to a Prepare nor leaves one.
<1>3. ASSUME NEW t \in Threads, UNCHANGED events, pc[t] # "prepare", pc'[t] # "prepare",
             \A u \in Threads : u # t => pc'[u] = pc[u] /\ prepared'[u] = prepared[u],
             ToSet(prepared'[t]) \subseteq ToSet(prepared[t])
      PROVE  HeldInv'
  <2>1. \A p \in ToSet(prepared'[t]) : Panic(p) =>
          p \in ToSet(prepared[t]) /\ events[p].sequence < fence
    BY <1>3, <1>0 DEF HeldInv
  <2>2. \A p \in ToSet(prepared'[t]) : Panic(p) =>
          p \in ToSet(prepared[t]) /\ events[p].sequence < fence'
    BY <2>1, <1>0, <1>1
  <2> QED BY <2>2, <1>2, <1>3
<1>4. ASSUME NEW t \in Threads, Number(t) PROVE HeldInv'
  <2>1. PICK n \in Nat, first \in Nat : Numbered(t, n, first)
    BY <1>4, NumberFacts DEF EventsInv
  <2>2. /\ pc[t] = "number"
        /\ pc' = [pc EXCEPT ![t] = IF path[t] = "block" THEN "push" ELSE "prepare"]
        /\ fence' = fence
    BY <1>4 DEF Number, Goto
  <2>3. /\ pc'[t] = IF path[t] = "block" THEN "push" ELSE "prepare"
        /\ \A u \in Threads : u # t => pc'[u] = pc[u] /\ prepared'[u] = prepared[u]
        /\ ToSet(prepared'[t]) = ToSet(prepared[t]) \cup New(n)
        /\ prepared'[t][Len(prepared'[t])] = Len(events) + n
        /\ path[t] # "block" => n = 1
        /\ \A e \in Ids : events'[e] = events[e]
        /\ \A e \in New(n) : events'[e].kind \in ToSet(todo[t])
    BY <2>1, <2>2, <1>0 DEF Numbered
  <2> SUFFICES ASSUME NEW u \in Threads, NEW p \in ToSet(prepared'[u]), Panic(p)',
                      pc'[u] = "prepare" => p # prepared'[u][Len(prepared'[u])]
               PROVE  events'[p].sequence < fence'
    BY DEF HeldInv
  <2>4. CASE u # t
    <3>1. p \in ToSet(prepared[u]) /\ p \in Ids  BY <2>3, <2>4, <1>1
    <3>2. events'[p] = events[p]  BY <3>1, <2>3
    <3>3. Panic(p) /\ (pc[u] = "prepare" => p # prepared[u][Len(prepared[u])])
      BY <2>3, <2>4, <3>2 DEF Panic
    <3> QED BY <3>1, <3>2, <3>3, <2>2, <1>0 DEF HeldInv
  <2>5. CASE u = t /\ p \in ToSet(prepared[t])
    <3>1. p \in Ids /\ events'[p] = events[p]  BY <2>3, <2>5, <1>1
    <3>2. Panic(p)  BY <3>1 DEF Panic
    <3> QED BY <3>1, <3>2, <2>2, <2>5, <1>0 DEF HeldInv
  <2>6. CASE u = t /\ p \in New(n)
    <3>1. CASE path[t] = "block"
      <4>1. ToSet(todo[t]) \subseteq {"loud"}  BY <3>1, <1>0 DEF ThreadsInv, ThreadInv
      <4>2. events'[p].kind = "loud"  BY <4>1, <2>3, <2>6
      <4> QED BY <4>2 DEF Panic
    <3>2. CASE path[t] # "block"
      <4>1. Len(events) \in Nat  BY <1>0, EventFacts DEF Types
      <4>2. n = 1 /\ p \in Len(events) + 1 .. Len(events) + 1
        BY <3>2, <2>3, <2>6 DEF New
      <4>3. p = Len(events) + 1  BY <4>1, <4>2
      <4>4. pc'[u] = "prepare" /\ p = prepared'[u][Len(prepared'[u])]
        BY <4>2, <4>3, <3>2, <2>3, <2>6
      <4> QED BY <4>4
    <3> QED BY <3>1, <3>2
  <2> QED BY <2>3, <2>4, <2>5, <2>6
<1>5. ASSUME NEW t \in Threads, PrepareCancelled(t) PROVE HeldInv'
  <2>1. /\ UNCHANGED events /\ prepared' = [prepared EXCEPT ![t] = <<>>]
        /\ pc' = [pc EXCEPT ![t] = "idle"]
    BY <1>5 DEF PrepareCancelled, Return, Goto
  <2>2. ToSet(prepared'[t]) = {}  BY <2>1, <1>0, EmptyFacts
  <2> QED BY <2>1, <2>2, <1>0, <1>2
<1>6. ASSUME NEW t \in Threads, Prepare(t) PROVE HeldInv'
  <2> DEFINE last == prepared[t][Len(prepared[t])]
  <2>1. /\ UNCHANGED events /\ pc[t] = "prepare"
        /\ fence' = IF Panic(last) THEN Fenced(fence, events[last].sequence) ELSE fence
        /\ \E l : pc' = [pc EXCEPT ![t] = l]
        /\ \/ prepared' = prepared
           \/ prepared' = [prepared EXCEPT ![t] = Front(prepared[t])]
    BY <1>6 DEF Prepare, Goto, Panic
  <2>2. prepared[t] # <<>>  BY <1>6 DEF Prepare, EventsInv, ThreadsInv, ThreadInv
  <2>3. last \in Ids  BY <2>2, LastInHand
  <2>4. /\ ToSet(prepared'[t]) \subseteq ToSet(prepared[t])
        /\ \A u \in Threads : u # t => pc'[u] = pc[u] /\ prepared'[u] = prepared[u]
    BY <2>1, <2>2, <1>0, HandFacts
  <2> HIDE DEF last
  <2>5. ASSUME NEW p \in ToSet(prepared'[t]), Panic(p)
        PROVE  p \in ToSet(prepared[t]) /\ events[p].sequence < fence'
    <3>1. p \in ToSet(prepared[t])  BY <2>4
    <3>2. CASE p = last
      <4>1. LET s == events[last].sequence IN s < Fenced(fence, s)
        BY <2>3, FencedFacts DEF FencesInv
      <4> QED BY <4>1, <3>1, <3>2, <2>1, <2>5
    <3>3. CASE p # last
      <4>1. events[p].sequence < fence  BY <3>1, <3>3, <2>5, <1>0 DEF HeldInv, last
      <4> QED BY <4>1, <3>1, <1>0, <1>1
    <3> QED BY <3>2, <3>3
  <2> QED BY <2>1, <2>4, <2>5, <1>2
<1>7. ASSUME NEW t \in Threads, Submit(t) PROVE HeldInv'
  <2>1. /\ UNCHANGED <<events, prepared>> /\ pc[t] = "idle"
        /\ \E l \in {"number", "check"} : pc' = [pc EXCEPT ![t] = l]
    BY <1>7 DEF Submit, Goto
  <2> QED BY <2>1, <1>0, <1>3
<1>8. ASSUME NEW t \in Threads, CheckCancelled(t) PROVE HeldInv'
  <2>1. /\ UNCHANGED events /\ pc[t] = "check"
        /\ \E l \in {"number", "idle"} : pc' = [pc EXCEPT ![t] = l]
        /\ prepared' = prepared \/ prepared' = [prepared EXCEPT ![t] = <<>>]
    BY <1>8 DEF CheckCancelled, Return, Goto
  <2>2. ToSet(prepared'[t]) \subseteq ToSet(prepared[t])  BY <2>1, <1>0, EmptyFacts
  <2> QED BY <2>1, <2>2, <1>0, <1>3
<1>9. ASSUME NEW t \in Threads, Push(t) PROVE HeldInv'
  <2>1. /\ UNCHANGED events /\ pc[t] = "push"
        /\ \E l \in {"one", "full", NextRound(t)} : pc' = [pc EXCEPT ![t] = l]
        /\ prepared' = prepared \/ prepared' = [prepared EXCEPT ![t] = <<>>]
    BY <1>9 DEF Push, Goto
  <2>2. ToSet(prepared'[t]) \subseteq ToSet(prepared[t])  BY <2>1, <1>0, EmptyFacts
  <2> QED BY <2>1, <2>2, <1>0, <1>3, RoundLabels
<1>10. ASSUME NEW t \in Threads, PushOne(t) PROVE HeldInv'
  <2>1. /\ UNCHANGED events /\ pc[t] = "one"
        /\ pc' = pc \/ \E l \in {"full", NextRound(t)} : pc' = [pc EXCEPT ![t] = l]
        /\ \/ prepared' = prepared
           \/ /\ prepared[t] # <<>>
              /\ prepared' = [prepared EXCEPT ![t] = Tail(prepared[t])]
    BY <1>10 DEF PushOne, Goto
  <2>2. ToSet(prepared'[t]) \subseteq ToSet(prepared[t])  BY <2>1, <1>0, HandFacts
  <2>3. /\ pc'[t] # "prepare"
        /\ \A u \in Threads : u # t => pc'[u] = pc[u] /\ prepared'[u] = prepared[u]
    BY <2>1, <1>0, RoundLabels
  <2> QED BY <2>1, <2>2, <2>3, <1>3
<1>11. ASSUME NEW t \in Threads, Full(t) PROVE HeldInv'
  <2>1. /\ UNCHANGED events /\ pc[t] = "full"
        /\ \E l \in {"one", "idle", "wait", NextRound(t)} : pc' = [pc EXCEPT ![t] = l]
        /\ \/ prepared' = prepared \/ prepared' = [prepared EXCEPT ![t] = <<>>]
           \/ prepared' = [prepared EXCEPT ![t] = Tail(prepared[t])]
    BY <1>11 DEF Full, Return, Goto
  <2>2. prepared[t] # <<>>  BY <1>11 DEF Full, EventsInv, ThreadsInv, ThreadInv
  <2>3. ToSet(prepared'[t]) \subseteq ToSet(prepared[t])
    BY <2>1, <2>2, <1>0, HandFacts, EmptyFacts
  <2> QED BY <2>1, <2>3, <1>0, <1>3, RoundLabels
<1>12. ASSUME NEW t \in Threads, Resume(t) PROVE HeldInv'
  <2>1. /\ UNCHANGED <<events, prepared>> /\ pc[t] = "wait"
        /\ \E l \in {"one", "push"} : pc' = [pc EXCEPT ![t] = l]
    BY <1>12 DEF Resume, Goto
  <2> QED BY <2>1, <1>0, <1>3
<1>13. ASSUME UNCHANGED <<events, prepared, pc>> PROVE HeldInv'
  <2>1. \A t \in Threads : \A p \in ToSet(prepared[t]) :
          events[p].sequence < fence => events[p].sequence < fence'
    BY <1>0, <1>1
  <2> QED BY <2>1, <1>13, <1>0 DEF HeldInv, Panic
<1>14. ASSUME \/ Pop \/ PollLane \/ Take \/ PublishPage \/ Import \/ EndRun
              \/ CancelProducers \/ CancelSession \/ UNCHANGED vars
       PROVE  UNCHANGED <<events, prepared, pc>>
  BY <1>14 DEF Pop, PollLane, Take, PublishPage, Import, EndRun, CancelProducers,
               CancelSession, vars
<1>15. ASSUME NEW e \in Ids, DispatchPanic(e) \/ DispatchNote(e)
       PROVE  UNCHANGED <<events, prepared, pc>>
  BY <1>15 DEF DispatchPanic, DispatchNote
<1> QED BY <1>4, <1>5, <1>6, <1>7, <1>8, <1>9, <1>10, <1>11, <1>12, <1>13, <1>14, <1>15, Steps

LEMMA NextPushed ==
    ASSUME EventsInv, SequencesInv, FencesInv, Unwrapped, [Next]_vars
    PROVE  PushedInv'
<1>0. /\ PushedInv /\ HeldInv /\ fence \in Nat /\ fence' \in Nat /\ fence <= fence'
      /\ \A e \in Ids : events[e].sequence \in Nat
  BY FenceMoves, LowSequence DEF FencesInv
<1>1. CASE \E t \in Threads : Number(t)
  <2>1. /\ fence' = fence /\ \A e \in Ids : events'[e] = events[e] /\ fate'[e] = fate[e]
        /\ \A e \in Ids' \ Ids : fate'[e] = "open"
    BY <1>1, NumberKeeps
  <2> SUFFICES ASSUME NEW p \in Ids', Panic(p)', fate'[p] \in {"pushed", "played"}
               PROVE  events'[p].sequence < fence'
    BY DEF PushedInv
  <2>2. p \in Ids  BY <2>1
  <2> QED BY <2>1, <2>2, <1>0 DEF PushedInv, Panic
<1>2. CASE \A t \in Threads : ~Number(t)
  <2>1. UNCHANGED events /\ Ids' = Ids /\ \A p \in Ids : FateMove(p)
    BY <1>2, FateMoves
  <2> SUFFICES ASSUME NEW p \in Ids, Panic(p), fate'[p] \in {"pushed", "played"}
               PROVE  events[p].sequence < fence'
    BY <2>1 DEF PushedInv, Panic
  <2>2. \/ fate[p] \in {"pushed", "played"}
        \/ \E t \in Threads : p \in ToSet(prepared[t]) /\ pc[t] # "prepare"
        \/ DispatchPanic(p)
    BY <2>1 DEF FateMove
  <2>3. events[p].sequence < fence
    <3>1. CASE fate[p] \in {"pushed", "played"}  BY <3>1, <1>0 DEF PushedInv
    <3>2. CASE \E t \in Threads : p \in ToSet(prepared[t]) /\ pc[t] # "prepare"
      BY <3>2, <1>0 DEF HeldInv
    <3>3. CASE DispatchPanic(p)
      <4>1. In(p, "due")  BY <3>3 DEF DispatchPanic, In
      <4>2. fate[p] = "pushed"  BY <4>1 DEF EventsInv, WhereInv, PlacesInv, Places
      <4> QED BY <4>2, <1>0 DEF PushedInv
    <3> QED BY <2>2, <3>1, <3>2, <3>3
  <2> QED BY <2>3, <1>0
<1> QED BY <1>1, <1>2

LEMMA NextPlayed ==
    ASSUME EventsInv, FencesInv, [Next]_vars
    PROVE  PlayedInv'
<1>0. PlayedInv /\ PushedInv  BY DEF FencesInv
<1>1. CASE \E t \in Threads : Number(t)
  <2>1. /\ runFence' = runFence /\ \A e \in Ids : events'[e] = events[e] /\ fate'[e] = fate[e]
        /\ \A e \in Ids' \ Ids : fate'[e] = "open"
    BY <1>1, NumberKeeps
  <2> SUFFICES ASSUME NEW p \in Ids', Panic(p)', fate'[p] = "played", runFence' # NoRun
               PROVE  events'[p].sequence < runFence'
    BY DEF PlayedInv
  <2>2. p \in Ids  BY <2>1
  <2> QED BY <2>1, <2>2, <1>0 DEF PlayedInv, Panic
<1>2. CASE \A t \in Threads : ~Number(t)
  <2>1. UNCHANGED events /\ Ids' = Ids /\ \A p \in Ids : FateMove(p)
    BY <1>2, FateMoves
  <2> SUFFICES ASSUME NEW p \in Ids, Panic(p), fate'[p] = "played", runFence' # NoRun
               PROVE  events[p].sequence < runFence'
    BY <2>1 DEF PlayedInv, Panic
  <2>2. fate[p] = "played" \/ DispatchPanic(p)  BY <2>1 DEF FateMove
  <2>3. ~DispatchPanic(p)  BY DEF DispatchPanic
  <2>4. runFence' = runFence \/ runFence' = fence  BY RunMoves
  <2> QED BY <2>2, <2>3, <2>4, <1>0 DEF PlayedInv, PushedInv
<1> QED BY <1>1, <1>2

\* What FenceSuppresses says of a note, while sequences do not wrap.
LEMMA SuppressesFacts ==
    ASSUME EventsInv, SequencesInv, FencesInv, Unwrapped, NEW e \in Ids,
           NEW f \in {fence, runFence}, f # NoRun
    PROVE  /\ f \in Nat
           /\ Suppresses(f, events[e].sequence) <=> events[e].sequence < f
<1> DEFINE s == events[e].sequence
<1>1. f \in Nat  BY DEF EventsInv, Types, NumberTypes, AudioTypes
<1>2. s \in Nat /\ s < SequenceWidth \div 2  BY LowSequence
<1>3. CASE f = 0
  <2>1. ~(s < f)  BY <1>2, <1>3
  <2> QED BY <2>1, <1>1, <1>3 DEF Suppresses
<1>4. CASE f # 0
  <2>1. PICK p \in Ids : f = events[p].sequence + 1  BY <1>4 DEF FencesInv, FenceInv
  <2>2. events[p].sequence \in Nat /\ events[p].sequence < SequenceWidth \div 2
    BY LowSequence
  <2>3. f - 1 = events[p].sequence  BY <2>1, <2>2
  <2> HIDE DEF s
  <2>4. AtOrBefore(s, events[p].sequence) <=> s <= events[p].sequence
    BY <1>2, <2>2, OrderedInHalf
  <2>5. Suppresses(f, s) <=> AtOrBefore(s, events[p].sequence)
    BY <1>4, <2>3 DEF Suppresses
  <2>6. s <= events[p].sequence <=> s < f  BY <2>1, <2>2, <1>2
  <2> QED BY <2>4, <2>5, <2>6, <1>1 DEF s
<1> QED BY <1>3, <1>4

\* The fence a note is played under, and what it does to the note.
LEMMA PlayedUnder ==
    ASSUME EventsInv, SequencesInv, FencesInv, Unwrapped, NEW e \in Ids, DispatchNote(e)
    PROVE  \E f \in {fence, runFence} :
             /\ f # NoRun /\ (f = runFence \/ runFence = NoRun)
             /\ fate'[e] = IF events[e].sequence < f THEN "suppressed" ELSE "sounded"
<1> DEFINE f == IF runFence = NoRun THEN fence ELSE runFence
           what == IF Suppresses(f, events[e].sequence) THEN "suppressed" ELSE "sounded"
<1>1. f \in {fence, runFence} /\ f # NoRun /\ (f = runFence \/ runFence = NoRun)
  BY NoRunAssumption DEF EventsInv, Types, NumberTypes
<1>2. UNCHANGED events /\ runFence' = f /\ SetFate({e}, what)
  BY DEF DispatchNote, outsideAudio
<1>3. HistoryTypes /\ what \in Fates  BY KindFacts DEF EventsInv, Types
<1> HIDE DEF f
<1>4. what = IF events[e].sequence < f THEN "suppressed" ELSE "sounded"
  BY <1>1, SuppressesFacts
<1> HIDE DEF what
<1>5. fate'[e] = what  BY <1>2, <1>3, FateStep
<1> QED BY <1>1, <1>4, <1>5

LEMMA Silenced ==
    ASSUME EventsInv, SequencesInv, FencesInv, Unwrapped, NEW e \in Ids, DispatchNote(e),
           fate'[e] = "suppressed"
    PROVE  \E p \in Ids : Panic(p) /\ events[e].sequence <= events[p].sequence
<1>1. PICK f \in {fence, runFence} :
        /\ f # NoRun
        /\ fate'[e] = IF events[e].sequence < f THEN "suppressed" ELSE "sounded"
  BY PlayedUnder
<1>2. f \in Nat  BY <1>1, SuppressesFacts
<1>3. events[e].sequence < f /\ events[e].sequence \in Nat  BY <1>1, LowSequence
<1>4. f # 0  BY <1>2, <1>3
<1>5. PICK p \in Ids : Panic(p) /\ f = events[p].sequence + 1
  BY <1>1, <1>4 DEF FencesInv, FenceInv
<1>6. events[p].sequence \in Nat  BY LowSequence
<1> QED BY <1>3, <1>5, <1>6

\* A note is suppressed by a fence that is a panic's, and not by that of a
\* panic it is later than.
LEMMA NextNewer ==
    ASSUME EventsInv, SequencesInv, FencesInv, NewerNotesSurvive, Unwrapped, [Next]_vars
    PROVE  NewerNotesSurvive'
<1>1. CASE \E t \in Threads : Number(t)
  <2>1. /\ Ids \subseteq Ids' /\ \A e \in Ids : events'[e] = events[e] /\ fate'[e] = fate[e]
        /\ \A e \in Ids' \ Ids : fate'[e] = "open"
    BY <1>1, NumberKeeps
  <2> SUFFICES ASSUME NEW e \in Ids', fate'[e] = "suppressed"
               PROVE  \E p \in Ids' : /\ events'[p].kind = "panic"
                                      /\ \/ p \notin events'[e].before
                                         \/ events'[p].leased # events'[e].leased
    BY DEF NewerNotesSurvive
  <2>2. e \in Ids /\ fate[e] = "suppressed"  BY <2>1
  <2>3. PICK p \in Ids : /\ events[p].kind = "panic"
                         /\ p \notin events[e].before \/ events[p].leased # events[e].leased
    BY <2>2 DEF NewerNotesSurvive
  <2> QED BY <2>1, <2>2, <2>3
<1>2. CASE \A t \in Threads : ~Number(t)
  <2>1. UNCHANGED events /\ Ids' = Ids /\ \A p \in Ids : FateMove(p)
    BY <1>2, FateMoves
  <2> SUFFICES ASSUME NEW e \in Ids, fate'[e] = "suppressed"
               PROVE  \E p \in Ids : /\ events[p].kind = "panic"
                                     /\ \/ p \notin events[e].before
                                        \/ events[p].leased # events[e].leased
    BY <2>1 DEF NewerNotesSurvive
  <2>2. CASE fate[e] = "suppressed"  BY <2>2 DEF NewerNotesSurvive
  <2>3. CASE DispatchNote(e)
    <3>1. PICK p \in Ids : Panic(p) /\ events[e].sequence <= events[p].sequence
      BY <2>3, Silenced DEF Panic
    <3>2. ~(p \in events[e].before /\ events[p].leased = events[e].leased)
      <4> SUFFICES ASSUME p \in events[e].before, events[p].leased = events[e].leased
                   PROVE  FALSE
        OBVIOUS
      <4>1. events[p].sequence < events[e].sequence  BY DEF SequencesInv
      <4> QED BY <3>1, <4>1, LowSequence
    <3> QED BY <3>1, <3>2 DEF Panic
  <2> QED BY <2>1, <2>2, <2>3 DEF FateMove
<1> QED BY <1>1, <1>2

\* The fences and the sequences, together: while less than half of the
\* sequences have been given out, a fence is past every panic that was pushed.
THEOREM FencesHold == Spec => []FencedInv
<1>1. Init => FencedInv  BY InitEvents, InitSequences DEF FencedInv
<1>2. FencedInv /\ [Next]_vars => FencedInv'
  <2> SUFFICES ASSUME FencedInv, [Next]_vars PROVE FencedInv'  OBVIOUS
  <2>1. EventsInv /\ EventsInv'
    BY NextTypes, NextThreads, NextMerge, NextWhere DEF FencedInv, EventsInv
  <2>2. ASSUME Unwrapped' PROVE SequencesInv' /\ FencesInv' /\ NewerNotesSurvive'
    <3>1. Unwrapped  BY <2>1, <2>2, UnwrappedBefore
    <3>2. SequencesInv /\ FencesInv /\ NewerNotesSurvive  BY <3>1 DEF FencedInv
    <3>3. SequencesInv'  BY <2>1, <2>2, <3>2, NextSequences
    <3>4. FencesInv'
      BY <2>1, <3>1, <3>2, NextFence, NextHeld, NextPushed, NextPlayed DEF FencesInv
    <3>5. NewerNotesSurvive'  BY <2>1, <3>1, <3>2, NextNewer
    <3> QED BY <3>3, <3>4, <3>5
  <2> QED BY <2>1, <2>2 DEF FencedInv
<1> QED BY <1>1, <1>2, PTL DEF Spec

\* A note numbered after every panic was in the queues is never silenced, until
\* half of the sequences have been given out.
THEOREM NewerNotesAreHeard == Spec => [](Unwrapped => NewerNotesSurvive)
<1>1. FencedInv => (Unwrapped => NewerNotesSurvive)  BY DEF FencedInv
<1> QED BY <1>1, FencesHold, PTL

\* A panic that has been played silences for good what its own source numbered
\* before it, until half of the sequences have been given out.
THEOREM DeadNotesStayDead == Spec /\ []Unwrapped => KilledStaysKilled
<1> DEFINE A == \A e, p \in Ids :
                  /\ fate[e] = "pushed" /\ fate'[e] = "sounded"
                  /\ events[p].kind = "panic" /\ fate[p] = "played"
                  /\ events[p].leased = events[e].leased
                  => e \notin events[p].before
<1>1. FencedInv /\ Unwrapped /\ [Next]_vars => [A]_vars
  <2> SUFFICES ASSUME FencedInv, Unwrapped, [Next]_vars,
                      NEW e \in Ids, NEW p \in Ids,
                      fate[e] = "pushed", fate'[e] = "sounded",
                      events[p].kind = "panic", fate[p] = "played",
                      events[p].leased = events[e].leased, e \in events[p].before
               PROVE  FALSE
    OBVIOUS
  <2>1. EventsInv /\ SequencesInv /\ FencesInv  BY DEF FencedInv
  <2>2. DispatchNote(e)
    <3>1. \A t \in Threads : ~Number(t)  BY <2>1, NumberKeeps
    <3>2. FateMove(e)  BY <3>1, <2>1, FateMoves
    <3> QED BY <3>2 DEF FateMove
  <2>3. PICK f \in {fence, runFence} :
          /\ f # NoRun /\ (f = runFence \/ runFence = NoRun)
          /\ fate'[e] = IF events[e].sequence < f THEN "suppressed" ELSE "sounded"
    BY <2>1, <2>2, PlayedUnder
  <2>4. events[p].sequence < f
    BY <2>1, <2>3 DEF FencesInv, PushedInv, PlayedInv, Panic
  <2>5. events[e].sequence < events[p].sequence  BY <2>1 DEF SequencesInv
  <2>6. f \in Nat /\ events[e].sequence \in Nat /\ events[p].sequence \in Nat
    BY <2>1, <2>3, SuppressesFacts, LowSequence
  <2> QED BY <2>3, <2>4, <2>5, <2>6
<1>2. KilledStaysKilled <=> [][A]_vars  BY DEF KilledStaysKilled
<1> HIDE DEF A
<1> QED BY <1>1, <1>2, FencesHold, PTL DEF Spec
=============================================================================
