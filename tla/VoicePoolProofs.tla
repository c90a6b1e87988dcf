-------------------------- MODULE VoicePoolProofs --------------------------
(***************************************************************************)
(* Proofs about VoicePool, for any pool, any channels and notes, any       *)
(* launches and limits, and with the batch of victims on or off: the types *)
(* and the agreement of the lists, the steal index, that no note hangs,    *)
(* and that no event grows the pool past its limit.                        *)
(*                                                                         *)
(* The argument: Sound, the inductive invariant, says of the pool between  *)
(* two events that its lists agree (Shape, Chained), that every Active     *)
(* voice waits for its note-off or is held (Kept) by a pedal that is down  *)
(* (Pedals), and that the steal index has every Active voice at its place  *)
(* (Keyed).  Within an event some voices are exempt from a part of it, and *)
(* the lemma about each operation says from which: Body and Keyed name     *)
(* them.  A victim popped for a batch and not used yet, a newborn          *)
(* voice that is not committed and the voice a swap-removal moves are the  *)
(* exemptions, and each is gone when the event ends.                       *)
(*                                                                         *)
(* The room of an event is its limit and the voices it found: an operation *)
(* that takes a slot leaves the pool within it (Within, Grown).            *)
(*                                                                         *)
(* A loop is a function of its rounds; what its step keeps, the loop keeps *)
(* (Rising, LoopExists), by the well-foundedness of the numbers.           *)
(***************************************************************************)
EXTENDS VoicePool, FiniteSetTheorems, WellFoundedInduction, TLAPS

-----------------------------------------------------------------------------
(* Loops: what holds of each round holds of the last.                     *)

\* What holds of 0 and of the successor of each number it holds of holds of
\* every number.
LEMMA SetInduction ==
    ASSUME NEW S, 0 \in S, \A n \in Nat : n \in S => n + 1 \in S
    PROVE  Nat \subseteq S
<1> DEFINE T == Nat \ S
<1>1. SUFFICES ASSUME T # {} PROVE FALSE
  OBVIOUS
<1> DEFINE R == {ss \in Nat \X Nat : ss[1] < ss[2]}
<1>2. IsWellFoundedOn(R, Nat)
  BY NatLessThanWellFounded DEF OpToRel
<1>3. PICK x \in T : \A y \in T : ~ (<<y, x>> \in R)
  <2> HIDE DEF T, R
  <2>1. T \subseteq Nat
    BY DEF T
  <2> QED
    BY <1>1, <1>2, <2>1, WFMin
<1>4. x # 0
  OBVIOUS
<1>5. x - 1 \in Nat /\ x - 1 < x
  BY <1>4
<1>6. x - 1 \notin T
  BY <1>3, <1>5
<1> QED
  BY <1>3, <1>5, <1>6

\* A set of numbers that is not empty has a least member, the one Min chooses.
LEMMA LeastExists ==
    ASSUME NEW S \in SUBSET Nat, S # {}
    PROVE  Min(S) \in S /\ \A n \in S : Min(S) <= n
<1> DEFINE R == {ss \in Nat \X Nat : ss[1] < ss[2]}
<1>1. IsWellFoundedOn(R, Nat)
  BY NatLessThanWellFounded DEF OpToRel
<1>2. PICK x \in S : \A y \in S : ~ (<<y, x>> \in R)
  <2> HIDE DEF R
  <2> QED
    BY <1>1, WFMin
<1>3. \A y \in S : x <= y
  <2> SUFFICES ASSUME NEW y \in S, ~ (x <= y) PROVE FALSE
    OBVIOUS
  <2>1. x \in Nat /\ y \in Nat /\ y < x
    OBVIOUS
  <2>2. <<y, x>> \in R
    BY <2>1
  <2> QED BY <1>2, <2>2
<1> QED
  BY <1>3 DEF Min

\* Values of a function built round by round.
LEMMA Rising ==
    ASSUME NEW n \in Nat, NEW W, NEW a,
           a[0] \in W[0],
           \A i \in 1 .. n : a[i - 1] \in W[i - 1] => a[i] \in W[i]
    PROVE  \A i \in 0 .. n : a[i] \in W[i]
<1> DEFINE S == {i \in Nat : i \in 0 .. n => a[i] \in W[i]}
<1>1. 0 \in S
  OBVIOUS
<1>2. \A m \in Nat : m \in S => m + 1 \in S
  <2> SUFFICES ASSUME NEW m \in Nat, m \in S, m + 1 \in 0 .. n PROVE a[m + 1] \in W[m + 1]
    OBVIOUS
  <2>1. m + 1 \in 1 .. n /\ (m + 1) - 1 = m /\ m \in 0 .. n
    OBVIOUS
  <2> QED
    BY <2>1
<1>3. Nat \subseteq S
  <2> HIDE DEF S
  <2> QED BY <1>1, <1>2, SetInduction
<1> QED
  BY <1>3

\* A function that starts with x and takes step i by G stays in the W's.
Loops(n, W, x, G) ==
    \E f : /\ f = [i \in 0 .. n |-> f[i]]
           /\ f[0] = x
           /\ \A i \in 0 .. n : f[i] \in W[i]
           /\ \A i \in 1 .. n : f[i] = G[<<f[i - 1], i>>]

\* A loop whose steps stay in the W's is a function of its rounds, and stays in
\* them.
LEMMA LoopExists ==
    ASSUME NEW n \in Nat, NEW W, NEW x \in W[0], NEW G,
           \A i \in 1 .. n : \A q \in W[i - 1] : G[<<q, i>>] \in W[i]
    PROVE  Loops(n, W, x, G)
<1> DEFINE Upto(m) == {f \in [0 .. m -> UNION {W[i] : i \in 0 .. n}] :
                          /\ f[0] = x
                          /\ \A i \in 0 .. m : f[i] \in W[i]
                          /\ \A i \in 1 .. m : f[i] = G[<<f[i - 1], i>>]}
<1> DEFINE S == {m \in Nat : m \in 0 .. n => Upto(m) # {}}
<1>1. 0 \in S
  <2>1. [i \in 0 .. 0 |-> x] \in Upto(0)
    OBVIOUS
  <2> QED BY <2>1
<1>2. \A m \in Nat : m \in S => m + 1 \in S
  <2> SUFFICES ASSUME NEW m \in Nat, m \in S, m + 1 \in 0 .. n PROVE Upto(m + 1) # {}
    <3> HIDE DEF Upto
    <3> QED OBVIOUS
  <2>0. m \in 0 .. n
    OBVIOUS
  <2>1. PICK f : f \in Upto(m)
    <3> HIDE DEF Upto
    <3> QED BY <2>0
  <2>2. m + 1 \in 1 .. n /\ (m + 1) - 1 = m /\ m \in 0 .. m
    OBVIOUS
  <2>3. f[m] \in W[m]
    BY <2>1, <2>2
  <2> DEFINE y == G[<<f[m], m + 1>>]
  <2>4. y \in W[m + 1]
    BY <2>2, <2>3
  <2> DEFINE g == [i \in 0 .. (m + 1) |-> IF i = m + 1 THEN y ELSE f[i]]
  <2>5. g \in [0 .. (m + 1) -> UNION {W[i] : i \in 0 .. n}]
    <3> SUFFICES ASSUME NEW i \in 0 .. (m + 1) PROVE g[i] \in UNION {W[j] : j \in 0 .. n}
      OBVIOUS
    <3>1. CASE i = m + 1
      BY <3>1, <2>4
    <3>2. CASE i # m + 1
      BY <3>2, <2>1
    <3> QED BY <3>1, <3>2
  <2>6. g[0] = x
    BY <2>1
  <2>7. \A i \in 0 .. (m + 1) : g[i] \in W[i]
    BY <2>1, <2>4
  <2>8. \A i \in 1 .. (m + 1) : g[i] = G[<<g[i - 1], i>>]
    <3> SUFFICES ASSUME NEW i \in 1 .. (m + 1) PROVE g[i] = G[<<g[i - 1], i>>]
      OBVIOUS
    <3>1. CASE i = m + 1
      BY <3>1
    <3>2. CASE i # m + 1
      <4>1. i \in 1 .. m /\ i - 1 \in 0 .. m /\ i - 1 # m + 1
        BY <3>2
      <4> QED BY <4>1, <2>1
    <3> QED BY <3>1, <3>2
  <2> QED BY <2>5, <2>6, <2>7, <2>8
<1>3. Nat \subseteq S
  <2> HIDE DEF S
  <2> QED BY <1>1, <1>2, SetInduction
<1>4. PICK f : f \in Upto(n)
  <2> HIDE DEF Upto
  <2> QED BY <1>3
<1> QED
  BY <1>4 DEF Loops

\* StartRelease over a list of voices.
LEMMA ReleaseAlong ==
    ASSUME NEW n \in Nat, NEW s, Len(s) = n, NEW W, NEW x \in W[0],
           \A i \in 1 .. n : \A q \in W[i - 1] : Release(q, s[i]) \in W[i]
    PROVE  Along(Release, x, s) \in W[n]
<1> DEFINE after == CHOOSE after : after = [i \in 0 .. Len(s) |->
                       IF i = 0 THEN x ELSE Release(after[i - 1], s[i])]
           U == UNION {W[i] : i \in 0 .. n}
           G == [z \in U \X (1 .. n) |-> Release(z[1], s[z[2]])]
<1>1. Along(Release, x, s) = after[n]
  BY DEF Along
<1>2. \A i \in 1 .. n : i - 1 \in 0 .. n
  OBVIOUS
<1>3. \A i \in 1 .. n : \A q \in W[i - 1] : q \in U
  BY <1>2
<1> HIDE DEF U
<1>4. \A i \in 1 .. n : \A q \in W[i - 1] : G[<<q, i>>] = Release(q, s[i])
  BY <1>3
<1> HIDE DEF G
<1>5. \A i \in 1 .. n : \A q \in W[i - 1] : G[<<q, i>>] \in W[i]
  BY <1>4
<1>6. PICK f : /\ f = [i \in 0 .. n |-> f[i]]
               /\ f[0] = x
               /\ \A i \in 0 .. n : f[i] \in W[i]
               /\ \A i \in 1 .. n : f[i] = G[<<f[i - 1], i>>]
  <2>1. Loops(n, W, x, G)
    BY <1>5, LoopExists
  <2> QED BY <2>1 DEF Loops
<1>7. f = [i \in 0 .. n |-> IF i = 0 THEN x ELSE Release(f[i - 1], s[i])]
  <2>1. \A i \in 0 .. n : i # 0 => i \in 1 .. n /\ f[i - 1] \in W[i - 1]
    BY <1>2, <1>6
  <2>2. \A i \in 0 .. n : f[i] = IF i = 0 THEN x ELSE Release(f[i - 1], s[i])
    BY <1>4, <1>6, <2>1
  <2> QED BY <1>6, <2>2
<1>8. after = [i \in 0 .. n |-> IF i = 0 THEN x ELSE Release(after[i - 1], s[i])]
  BY <1>7
<1> HIDE DEF after
<1>9. after[0] = x /\ \A i \in 1 .. n : after[i] = Release(after[i - 1], s[i])
  BY <1>8
<1>10. \A i \in 0 .. n : after[i] \in W[i]
  BY <1>9, Rising
<1> QED BY <1>1, <1>10

-----------------------------------------------------------------------------
(* Sequences.                                                             *)

\* No element twice.
Distinct(s) == \A i, j \in 1 .. Len(s) : s[i] = s[j] => i = j

\* The elements of a sequence.
LEMMA InToSet ==
    ASSUME NEW S, NEW s \in Seq(S)
    PROVE  /\ ToSet(s) \subseteq S
           /\ \A e : e \in ToSet(s) <=> \E i \in 1 .. Len(s) : s[i] = e
BY DEF ToSet

\* An element of a sequence without repetitions has one place.
LEMMA PlaceOf ==
    ASSUME NEW S, NEW s \in Seq(S), Distinct(s), NEW i \in 1 .. Len(s), NEW e, e = s[i]
    PROVE  /\ {j \in 1 .. Len(s) : s[j] = e} # {}
           /\ Min({j \in 1 .. Len(s) : s[j] = e}) = i
<1>1. {j \in 1 .. Len(s) : s[j] = e} = {i}
  BY DEF Distinct
<1>2. Min({i}) = i
  BY DEF Min
<1> QED BY <1>1, <1>2

\* The concatenation of two sequences, element by element.
LEMMA ConcatFacts ==
    ASSUME NEW S, NEW u \in Seq(S), NEW w \in Seq(S)
    PROVE  /\ u \o w \in Seq(S) /\ Len(u \o w) = Len(u) + Len(w)
           /\ \A i \in 1 .. Len(u) : (u \o w)[i] = u[i]
           /\ \A i \in 1 .. Len(w) : (u \o w)[Len(u) + i] = w[i]
<1>1. u \o w \in Seq(S) /\ Len(u \o w) = Len(u) + Len(w)
  OBVIOUS
<1>2. \A i \in 1 .. Len(u) : (u \o w)[i] = u[i]
  OBVIOUS
<1>3. \A i \in 1 .. Len(w) : (u \o w)[Len(u) + i] = w[i]
  OBVIOUS
<1> QED BY <1>1, <1>2, <1>3

\* A sequence without the element at a place.
LEMMA RemoveAtFacts ==
    ASSUME NEW S, NEW s \in Seq(S), Distinct(s), NEW at \in 1 .. Len(s)
    PROVE  /\ RemoveAt(s, at) \in Seq(S)
           /\ Distinct(RemoveAt(s, at))
           /\ ToSet(RemoveAt(s, at)) = ToSet(s) \ {s[at]}
<1> DEFINE t == RemoveAt(s, at)
<1> DEFINE u == SubSeq(s, 1, at - 1)
           w == SubSeq(s, at + 1, Len(s))
<1>0. /\ u \in Seq(S) /\ Len(u) = at - 1 /\ \A i \in 1 .. at - 1 : u[i] = s[i]
      /\ w \in Seq(S) /\ Len(w) = Len(s) - at
      /\ \A i \in 1 .. Len(s) - at : w[i] = s[at + i]
  <2>1. u \in Seq(S) /\ Len(u) = at - 1 /\ \A i \in 1 .. at - 1 : u[i] = s[i]
    OBVIOUS
  <2>2. w \in Seq(S) /\ Len(w) = Len(s) - at
    OBVIOUS
  <2>3. \A i \in 1 .. Len(s) - at : w[i] = s[at + i]
    OBVIOUS
  <2> QED BY <2>1, <2>2, <2>3
<1>1a. t = u \o w
  BY DEF RemoveAt
<1> HIDE DEF u, w, t
<1>1b. /\ t \in Seq(S) /\ Len(t) = Len(u) + Len(w)
       /\ \A i \in 1 .. Len(u) : t[i] = u[i]
       /\ \A i \in 1 .. Len(w) : t[Len(u) + i] = w[i]
  <2>1. u \in Seq(S) /\ w \in Seq(S)
    BY <1>0
  <2>2. /\ u \o w \in Seq(S) /\ Len(u \o w) = Len(u) + Len(w)
        /\ \A i \in 1 .. Len(u) : (u \o w)[i] = u[i]
        /\ \A i \in 1 .. Len(w) : (u \o w)[Len(u) + i] = w[i]
    BY <2>1, ConcatFacts, SMTT(20)
  <2> QED BY <1>1a, <2>2, Zenon
<1>1. t \in Seq(S) /\ Len(t) = Len(s) - 1
  BY <1>0, <1>1b
<1>2. \A i \in 1 .. Len(t) : t[i] = IF i < at THEN s[i] ELSE s[i + 1]
  <2> SUFFICES ASSUME NEW i \in 1 .. Len(t) PROVE t[i] = IF i < at THEN s[i] ELSE s[i + 1]
    OBVIOUS
  <2>1. CASE i < at
    BY <2>1, <1>0, <1>1, <1>1b
  <2>2. CASE ~ (i < at)
    <3>1. /\ i - (at - 1) \in 1 .. Len(w) /\ at + (i - (at - 1)) = i + 1
          /\ Len(u) + (i - (at - 1)) = i
      BY <2>2, <1>0, <1>1
    <3>2. t[i] = w[i - (at - 1)]
      BY <3>1, <1>1b
    <3> QED BY <3>1, <3>2, <2>2, <1>0
  <2> QED BY <2>1, <2>2
<1>3. Distinct(t)
  <2> SUFFICES ASSUME NEW i \in 1 .. Len(t), NEW j \in 1 .. Len(t), t[i] = t[j] PROVE i = j
    BY DEF Distinct
  <2> DEFINE f(k) == IF k < at THEN k ELSE k + 1
  <2>1. f(i) \in 1 .. Len(s) /\ f(j) \in 1 .. Len(s)
    BY <1>1
  <2>2. s[f(i)] = s[f(j)]
    BY <1>2
  <2>3. f(i) = f(j)
    BY <2>1, <2>2 DEF Distinct
  <2> QED BY <2>3
<1>4. ToSet(t) = ToSet(s) \ {s[at]}
  <2>1. ASSUME NEW e \in ToSet(t) PROVE e \in ToSet(s) /\ e # s[at]
    <3>1. PICK i \in 1 .. Len(t) : t[i] = e
      BY <1>1, InToSet
    <3> DEFINE k == IF i < at THEN i ELSE i + 1
    <3>2. k \in 1 .. Len(s) /\ k # at /\ s[k] = e
      BY <1>1, <1>2, <3>1
    <3> QED BY <3>2, InToSet DEF Distinct
  <2>2. ASSUME NEW e \in ToSet(s), e # s[at] PROVE e \in ToSet(t)
    <3>1. PICK k \in 1 .. Len(s) : s[k] = e
      BY InToSet
    <3> DEFINE i == IF k < at THEN k ELSE k - 1
    <3>2. i \in 1 .. Len(t) /\ t[i] = e
      BY <1>1, <1>2, <2>2, <3>1
    <3> QED BY <3>2, <1>1, InToSet
  <2> QED BY <2>1, <2>2
<1> QED BY <1>1, <1>3, <1>4 DEF t

\* A chain after UnlinkChannelKey: without the voice, the others in order.
LEMMA RemoveFacts ==
    ASSUME NEW S, NEW s \in Seq(S), Distinct(s), NEW e
    PROVE  /\ RemoveFirst(s, e) \in Seq(S)
           /\ Distinct(RemoveFirst(s, e))
           /\ ToSet(RemoveFirst(s, e)) = ToSet(s) \ {e}
<1>1. CASE e \in ToSet(s)
  <2>1. PICK i \in 1 .. Len(s) : s[i] = e
    BY <1>1, InToSet
  <2>2. {j \in 1 .. Len(s) : s[j] = e} # {} /\ Min({j \in 1 .. Len(s) : s[j] = e}) = i
    BY <2>1, PlaceOf
  <2>3. RemoveFirst(s, e) = RemoveAt(s, i)
    BY <2>1, <2>2 DEF RemoveFirst, SelectInSeq
  <2> QED BY <2>1, <2>3, RemoveAtFacts
<1>2. CASE e \notin ToSet(s)
  <2>1. RemoveFirst(s, e) = s
    BY <1>2, InToSet DEF RemoveFirst
  <2> QED BY <1>2, <2>1
<1> QED BY <1>1, <1>2

\* A chain after LinkChannelKey: the voice is its new head.
LEMMA ConsFacts ==
    ASSUME NEW S, NEW s \in Seq(S), Distinct(s), NEW e \in S, e \notin ToSet(s)
    PROVE  /\ <<e>> \o s \in Seq(S)
           /\ Distinct(<<e>> \o s)
           /\ ToSet(<<e>> \o s) = ToSet(s) \union {e}
<1> DEFINE t == <<e>> \o s
<1>1. t \in Seq(S) /\ Len(t) = Len(s) + 1
  OBVIOUS
<1>2. t[1] = e /\ \A i \in 1 .. Len(s) : t[i + 1] = s[i]
  OBVIOUS
<1>3. \A i \in 1 .. Len(t) : i # 1 => i - 1 \in 1 .. Len(s) /\ t[i] = s[i - 1]
  <2> SUFFICES ASSUME NEW i \in 1 .. Len(t), i # 1 PROVE i - 1 \in 1 .. Len(s) /\ t[i] = s[i - 1]
    OBVIOUS
  <2>1. i - 1 \in 1 .. Len(s) /\ i = (i - 1) + 1
    BY <1>1
  <2> QED BY <1>2, <2>1
<1> HIDE DEF t
<1>4. Distinct(t)
  <2> SUFFICES ASSUME NEW i \in 1 .. Len(t), NEW j \in 1 .. Len(t), t[i] = t[j] PROVE i = j
    BY DEF Distinct
  <2>1. i # 1 => t[i] \in ToSet(s)
    BY <1>3, InToSet
  <2>2. j # 1 => t[j] \in ToSet(s)
    BY <1>3, InToSet
  <2>3. CASE i = 1 \/ j = 1
    BY <2>1, <2>2, <2>3, <1>2
  <2>4. CASE i # 1 /\ j # 1
    <3>1. i - 1 = j - 1
      BY <2>4, <1>3 DEF Distinct
    <3> QED BY <3>1
  <2> QED BY <2>3, <2>4
<1>5. ToSet(t) = ToSet(s) \union {e}
  <2>1. ASSUME NEW g \in ToSet(t) PROVE g \in ToSet(s) \/ g = e
    <3>1. PICK i \in 1 .. Len(t) : t[i] = g
      BY <1>1, InToSet
    <3> QED BY <3>1, <1>2, <1>3, InToSet
  <2>2. ASSUME NEW g \in ToSet(s) PROVE g \in ToSet(t)
    <3>1. PICK i \in 1 .. Len(s) : s[i] = g
      BY InToSet
    <3>2. i + 1 \in 1 .. Len(t) /\ t[i + 1] = g
      BY <3>1, <1>1, <1>2
    <3> QED BY <3>2, <1>1, InToSet
  <2>3. e \in ToSet(t)
    <3>1. 1 \in 1 .. Len(t)
      BY <1>1
    <3> QED BY <3>1, <1>1, <1>2, InToSet
  <2> QED BY <2>1, <2>2, <2>3
<1> QED BY <1>1, <1>4, <1>5 DEF t

\* An active list after a voice is added.
LEMMA AppendFacts ==
    ASSUME NEW S, NEW s \in Seq(S), NEW e \in S
    PROVE  /\ Append(s, e) \in Seq(S)
           /\ Len(Append(s, e)) = Len(s) + 1
           /\ \A i \in 1 .. Len(s) : Append(s, e)[i] = s[i]
           /\ Append(s, e)[Len(s) + 1] = e
           /\ ToSet(Append(s, e)) = ToSet(s) \union {e}
           /\ Distinct(s) /\ e \notin ToSet(s) => Distinct(Append(s, e))
<1> DEFINE t == Append(s, e)
<1>1. t \in Seq(S) /\ Len(t) = Len(s) + 1
  OBVIOUS
<1>2. t[Len(s) + 1] = e /\ \A i \in 1 .. Len(s) : t[i] = s[i]
  OBVIOUS
<1> HIDE DEF t
<1>3. \A i \in 1 .. Len(t) : i = Len(s) + 1 \/ i \in 1 .. Len(s)
  BY <1>1
<1>4. ToSet(t) = ToSet(s) \union {e}
  <2>1. ASSUME NEW g \in ToSet(t) PROVE g \in ToSet(s) \/ g = e
    <3>1. PICK i \in 1 .. Len(t) : t[i] = g
      BY <1>1, InToSet
    <3> QED BY <3>1, <1>2, <1>3, InToSet
  <2>2. ASSUME NEW g \in ToSet(s) PROVE g \in ToSet(t)
    <3>1. PICK i \in 1 .. Len(s) : s[i] = g
      BY InToSet
    <3>2. i \in 1 .. Len(t) /\ t[i] = g
      BY <3>1, <1>1, <1>2
    <3> QED BY <3>2, <1>1, InToSet
  <2>3. e \in ToSet(t)
    <3>1. Len(s) + 1 \in 1 .. Len(t)
      BY <1>1
    <3> QED BY <3>1, <1>1, <1>2, InToSet
  <2> QED BY <2>1, <2>2, <2>3
<1>5. ASSUME Distinct(s), e \notin ToSet(s) PROVE Distinct(t)
  <2> SUFFICES ASSUME NEW i \in 1 .. Len(t), NEW j \in 1 .. Len(t), t[i] = t[j] PROVE i = j
    BY DEF Distinct
  <2>1. i \in 1 .. Len(s) => t[i] \in ToSet(s)
    BY <1>2, InToSet
  <2>2. j \in 1 .. Len(s) => t[j] \in ToSet(s)
    BY <1>2, InToSet
  <2>3. CASE i = Len(s) + 1 \/ j = Len(s) + 1
    BY <2>1, <2>2, <2>3, <1>2, <1>3, <1>5
  <2>4. CASE i \in 1 .. Len(s) /\ j \in 1 .. Len(s)
    BY <2>4, <1>2, <1>5 DEF Distinct
  <2> QED BY <2>3, <2>4, <1>3
<1> QED BY <1>1, <1>2, <1>4, <1>5 DEF t

\* t is s after its last entry took the place of the one at `at`.
SwapRemoved(S, s, at, t) ==
    /\ t \in Seq(S)
    /\ Len(t) = Len(s) - 1
    /\ \A i \in 1 .. Len(t) : t[i] = IF i = at THEN s[Len(s)] ELSE s[i]
    /\ Distinct(t)
    /\ ToSet(t) = ToSet(s) \ {s[at]}

\* The active list after a swap-removal: the last voice has the freed place.
LEMMA SwapRemoveFacts ==
    ASSUME NEW S, NEW s \in Seq(S), Distinct(s), NEW at \in 1 .. Len(s),
           NEW t, t = SubSeq([s EXCEPT ![at] = s[Len(s)]], 1, Len(s) - 1)
    PROVE  SwapRemoved(S, s, at, t)
<1> DEFINE u == [s EXCEPT ![at] = s[Len(s)]]
<1>0. u \in Seq(S) /\ Len(u) = Len(s)
      /\ \A i \in 1 .. Len(s) : u[i] = IF i = at THEN s[Len(s)] ELSE s[i]
  OBVIOUS
<1>a. t = SubSeq(u, 1, Len(s) - 1)
  OBVIOUS
<1> HIDE DEF u
<1>1. t \in Seq(S) /\ Len(t) = Len(s) - 1
  BY <1>0, <1>a
<1>2. \A i \in 1 .. Len(t) : t[i] = IF i = at THEN s[Len(s)] ELSE s[i]
  BY <1>0, <1>1, <1>a
<1>3. Distinct(t)
  <2> SUFFICES ASSUME NEW i \in 1 .. Len(t), NEW j \in 1 .. Len(t), t[i] = t[j] PROVE i = j
    BY DEF Distinct
  <2> DEFINE f(k) == IF k = at THEN Len(s) ELSE k
  <2>1. f(i) \in 1 .. Len(s) /\ f(j) \in 1 .. Len(s)
    BY <1>1
  <2>2. s[f(i)] = s[f(j)]
    BY <1>2
  <2>3. f(i) = f(j)
    BY <2>1, <2>2 DEF Distinct
  <2> QED BY <2>3, <1>1
<1>4. ToSet(t) = ToSet(s) \ {s[at]}
  <2>1. ASSUME NEW e \in ToSet(t) PROVE e \in ToSet(s) /\ e # s[at]
    <3>1. PICK i \in 1 .. Len(t) : t[i] = e
      BY <1>1, InToSet
    <3> DEFINE k == IF i = at THEN Len(s) ELSE i
    <3>2. k \in 1 .. Len(s) /\ k # at /\ s[k] = e
      BY <1>1, <1>2, <3>1
    <3> QED BY <3>2, InToSet DEF Distinct
  <2>2. ASSUME NEW e \in ToSet(s), e # s[at] PROVE e \in ToSet(t)
    <3>1. PICK k \in 1 .. Len(s) : s[k] = e
      BY InToSet
    <3> DEFINE i == IF k = Len(s) THEN at ELSE k
    <3>2. i \in 1 .. Len(t)
      BY <1>1, <2>2, <3>1
    <3>3. t[i] = e
      BY <1>1, <1>2, <2>2, <3>1, <3>2
    <3>4. \E j \in 1 .. Len(t) : t[j] = e
      BY <3>2, <3>3
    <3>5. DOMAIN t = 1 .. Len(t)
      BY <1>1
    <3> QED BY <3>4, <3>5 DEF ToSet
  <2> QED BY <2>1, <2>2
<1> QED BY <1>1, <1>2, <1>3, <1>4 DEF SwapRemoved

\* A list walked backwards has the same voices.
LEMMA ReverseFacts ==
    ASSUME NEW S, NEW s \in Seq(S)
    PROVE  Reverse(s) \in Seq(S) /\ ToSet(Reverse(s)) = ToSet(s)
<1> DEFINE t == Reverse(s)
<1>1. t \in Seq(S) /\ Len(t) = Len(s)
  BY DEF Reverse
<1>2. \A i \in 1 .. Len(s) : t[i] = s[(Len(s) - i) + 1]
  BY DEF Reverse
<1> HIDE DEF t
<1>3. ASSUME NEW e \in ToSet(t) PROVE e \in ToSet(s)
  <2>1. PICK i \in 1 .. Len(t) : t[i] = e
    BY <1>1, InToSet
  <2>2. (Len(s) - i) + 1 \in 1 .. Len(s) /\ s[(Len(s) - i) + 1] = e
    BY <1>1, <1>2, <2>1
  <2> QED BY <2>2, InToSet
<1>4. ASSUME NEW e \in ToSet(s) PROVE e \in ToSet(t)
  <2>1. PICK i \in 1 .. Len(s) : s[i] = e
    BY InToSet
  <2>2. (Len(s) - i) + 1 \in 1 .. Len(s) /\ (Len(s) - ((Len(s) - i) + 1)) + 1 = i
    BY <2>1
  <2>3. t[(Len(s) - i) + 1] = e
    BY <1>2, <2>1, <2>2
  <2> QED BY <2>2, <2>3, <1>1, InToSet
<1> QED BY <1>1, <1>3, <1>4 DEF t

\* A sequence whose elements are all in B is one over B.
LEMMA SeqNarrow ==
    ASSUME NEW A, NEW B, NEW s \in Seq(A), \A i \in 1 .. Len(s) : s[i] \in B
    PROVE  s \in Seq(B)
<1>1. Len(s) \in Nat /\ s \in [1 .. Len(s) -> A]
  OBVIOUS
<1>2. s \in [1 .. Len(s) -> B]
  BY <1>1
<1> QED BY <1>1, <1>2

-----------------------------------------------------------------------------
(* The parts of the invariant, and the index under one operation.         *)

\* The pools the operators of the model take and leave.
Pools ==
    [voice : [Handles -> VoiceType], chain : [Keys -> Seq(Handles)],
     active : Seq(Handles), free : SUBSET Handles, leaf : [Handles -> Nat],
     volatile : SUBSET Handles, valid : BOOLEAN, over : BOOLEAN,
     deferred : SUBSET Handles, limit : Nat \ {0}]

\* A slot is free, or it is once on the active list.
Shape(p) ==
    /\ p.free = In(p, "Free")
    /\ Distinct(p.active)
    /\ ToSet(p.active) = Live(p)

\* A chain has Active voices of its key, each once.
Chained(p) ==
    \A k \in Keys :
       /\ Distinct(p.chain[k])
       /\ \A h \in ToSet(p.chain[k]) : p.voice[h].state = "Active" /\ p.voice[h].key = k

\* An Active voice waits for its note-off or a pedal holds it, but for E.
Kept(p, E) ==
    \A h \in Handles \ E :
       p.voice[h].state = "Active" => Waits(p, h) \/ p.voice[h].held # {}

\* Nothing holds a voice but a pedal that is down; S and T are those channels.
Pedals(p, S, T) ==
    \A h \in Handles :
       /\ "sustain" \in p.voice[h].held => p.voice[h].key[1] \in S
       /\ "sostenuto" \in p.voice[h].held => p.voice[h].key[1] \in T
       /\ p.voice[h].state = "Releasing" => p.voice[h].held = {}

\* The lists and rows of a pool.
Body(p, E, S, T) ==
    p \in Pools /\ Shape(p) /\ Chained(p) /\ Kept(p, E) /\ Pedals(p, S, T)

\* The index: D are the voices whose key may be wrong, X those that may have
\* none, each with its position.
AnyPlace(h) == {h} \X Nat
Keyed(p, D, X) ==
    p.valid =>
       /\ \A h \in Handles \ D :
             p.leaf[h] # 0 => p.voice[h].state = "Active" /\ p.leaf[h] = Position(p, h)
       /\ \A h \in Handles \ D :
             p.voice[h].state = "Active" /\ p.leaf[h] = 0 => <<h, Position(p, h)>> \in X
       /\ p.volatile \subseteq In(p, "Releasing")

\* Only the index differs.
SameSlots(p, q) ==
    /\ q.voice = p.voice /\ q.chain = p.chain /\ q.active = p.active
    /\ q.free = p.free /\ q.limit = p.limit /\ q.deferred = p.deferred

\* Position finds a voice on the active list, and is 0 for the others.
LEMMA PositionFacts ==
    ASSUME NEW p \in Pools, Distinct(p.active)
    PROVE  /\ \A h : Position(p, h) \in Nat
           /\ \A i \in 1 .. Len(p.active) : Position(p, p.active[i]) = i
           /\ \A h \in ToSet(p.active) : /\ Position(p, h) \in 1 .. Len(p.active)
                                         /\ p.active[Position(p, h)] = h
           /\ \A h : h \notin ToSet(p.active) => Position(p, h) = 0
<1>1. p.active \in Seq(Handles)
  BY DEF Pools
<1> DEFINE I(h) == {j \in 1 .. Len(p.active) : p.active[j] = h}
<1>2. \A i \in 1 .. Len(p.active) : I(p.active[i]) # {} /\ Min(I(p.active[i])) = i
  BY <1>1, PlaceOf
<1>3. \A h : h \notin ToSet(p.active) => I(h) = {}
  BY <1>1, InToSet
<1>4. \A h : Position(p, h) = IF I(h) # {} THEN Min(I(h)) ELSE 0
  BY DEF Position, SelectInSeq
<1>5. \A h \in ToSet(p.active) : \E i \in 1 .. Len(p.active) : p.active[i] = h
  BY <1>1, InToSet
<1> HIDE DEF I
<1>6. \A i \in 1 .. Len(p.active) : Position(p, p.active[i]) = i
  BY <1>2, <1>4
<1>7. \A h \in ToSet(p.active) : /\ Position(p, h) \in 1 .. Len(p.active)
                                 /\ p.active[Position(p, h)] = h
  BY <1>5, <1>6
<1>8. \A h : h \notin ToSet(p.active) => Position(p, h) = 0
  BY <1>3, <1>4
<1>9. \A h : Position(p, h) \in Nat
  BY <1>1, <1>7, <1>8
<1> QED BY <1>6, <1>7, <1>8, <1>9

\* Position depends on the active list alone.
LEMMA PositionSame ==
    ASSUME NEW p, NEW q, q.active = p.active
    PROVE  \A h : Position(q, h) = Position(p, h)
BY DEF Position, SelectInSeq

\* An operation on the index leaves the lists as they were.
LEMMA BodySame ==
    ASSUME NEW p, NEW q \in Pools, SameSlots(p, q), NEW E, NEW S, NEW T, Body(p, E, S, T)
    PROVE  Body(q, E, S, T)
BY DEF Body, SameSlots, Shape, Chained, Kept, Pedals, In, Live, Waits

\* What the index says depends on states, positions and the index.
LEMMA KeyedSame ==
    ASSUME NEW p, NEW q, q.voice = p.voice, q.active = p.active, q.leaf = p.leaf,
           q.volatile = p.volatile, q.valid = p.valid, NEW D, NEW X, Keyed(p, D, X)
    PROVE  Keyed(q, D, X)
BY PositionSame DEF Keyed, In

\* The places a voice may have.
LEMMA AnyFacts ==
    ASSUME NEW X, NEW h
    PROVE  \A g, i : <<g, i>> \in X \union AnyPlace(h) <=> <<g, i>> \in X \/ (g = h /\ i \in Nat)
BY DEF AnyPlace

\* A position is a number, whether the voice is on the list or not.
LEMMA PositionNat ==
    ASSUME NEW p \in Pools
    PROVE  \A h : Position(p, h) \in Nat
<1> SUFFICES ASSUME NEW h PROVE Position(p, h) \in Nat
  OBVIOUS
<1> DEFINE I == {j \in 1 .. Len(p.active) : p.active[j] = h}
<1>1. I \in SUBSET Nat
  BY DEF Pools
<1>2. Position(p, h) = IF I # {} THEN Min(I) ELSE 0
  BY DEF Position, SelectInSeq
<1> HIDE DEF I
<1>3. I # {} => Min(I) \in Nat
  <2>1. I # {} => Min(I) \in I
    BY <1>1, LeastExists
  <2> QED BY <1>1, <2>1
<1> QED BY <1>2, <1>3

\* More exceptions, fewer obligations.
LEMMA KeyedMore ==
    ASSUME NEW p, NEW D, NEW X, Keyed(p, D, X), NEW DD, NEW XX,
           D \subseteq DD, \A h \in Handles \ DD : \A i : <<h, i>> \in X => <<h, i>> \in XX
    PROVE  Keyed(p, DD, XX)
BY DEF Keyed

-----------------------------------------------------------------------------

\* RemoveStealCandidate: the voice has no steal key afterwards, the others keep
\* theirs.
LEMMA UnindexFacts ==
    ASSUME NEW p \in Pools, NEW h \in Handles
    PROVE  /\ Unindex(p, h) \in Pools
           /\ SameSlots(p, Unindex(p, h))
           /\ Unindex(p, h).valid = p.valid
           /\ Unindex(p, h).leaf[h] = 0
           /\ \A D, X : Keyed(p, D, X) => Keyed(Unindex(p, h), D, X \union AnyPlace(h))
           /\ \A D, X : Keyed(p, D, X) /\ h \in D => Keyed(Unindex(p, h), D, X)
           /\ h \notin Unindex(p, h).volatile
           /\ \A g \in Handles \ {h} : Unindex(p, h).leaf[g] = p.leaf[g]
<1> DEFINE q == Unindex(p, h)
<1>1. q \in Pools /\ SameSlots(p, q) /\ q.valid = p.valid /\ q.volatile = p.volatile \ {h}
      /\ q.leaf = [p.leaf EXCEPT ![h] = 0]
  BY DEF Unindex, Pools, SameSlots
<1> HIDE DEF q
<1>2. p.leaf \in [Handles -> Nat]
  BY DEF Pools
<1>0. \A g : Position(q, g) = Position(p, g)
  BY <1>1, PositionSame DEF SameSlots
<1>3. \A D, X : Keyed(p, D, X) => Keyed(q, D, X \union AnyPlace(h))
  <2> SUFFICES ASSUME NEW D, NEW X, Keyed(p, D, X) PROVE Keyed(q, D, X \union AnyPlace(h))
    OBVIOUS
  <2>1. \A g : Position(p, g) \in Nat
    BY PositionNat
  <2>2. \A g, i : <<g, i>> \in X \union AnyPlace(h) <=> <<g, i>> \in X \/ (g = h /\ i \in Nat)
    BY AnyFacts
  <2> QED BY <1>0, <1>1, <1>2, <2>1, <2>2 DEF Keyed, SameSlots, In
<1>4. \A D, X : Keyed(p, D, X) /\ h \in D => Keyed(q, D, X)
  BY <1>0, <1>1, <1>2 DEF Keyed, SameSlots, In
<1>5. q.leaf[h] = 0 /\ \A g \in Handles \ {h} : q.leaf[g] = p.leaf[g]
  BY <1>1, <1>2
<1> QED BY <1>1, <1>3, <1>4, <1>5 DEF q

\* UpdateStealCandidate: the voice is in the tier of its state, under the position
\* it has now.
LEMMA RefreshFacts ==
    ASSUME NEW p \in Pools, Distinct(p.active), NEW h \in Handles
    PROVE  /\ Refresh(p, h) \in Pools
           /\ SameSlots(p, Refresh(p, h))
           /\ Refresh(p, h).valid = p.valid
           /\ ~ p.valid \/ h \in p.deferred => Refresh(p, h) = p
           /\ p.valid /\ h \notin p.deferred =>
                 Refresh(p, h).leaf[h] = IF p.voice[h].state = "Active" THEN Position(p, h) ELSE 0
           /\ \A g \in Handles \ {h} : Refresh(p, h).leaf[g] = p.leaf[g]
           /\ Refresh(p, h).volatile \subseteq p.volatile \union {h}
           /\ p.valid /\ h \notin p.deferred /\ p.voice[h].state # "Releasing"
                => h \notin Refresh(p, h).volatile
<1> DEFINE q == Refresh(p, h)
           r == Unindex(p, h)
<1>1. r \in Pools /\ SameSlots(p, r) /\ r.valid = p.valid /\ r.volatile = p.volatile \ {h}
      /\ r.leaf = [p.leaf EXCEPT ![h] = 0]
  BY DEF Unindex, Pools, SameSlots
<1> HIDE DEF r
<1>2. p.leaf \in [Handles -> Nat] /\ p.volatile \in SUBSET Handles /\ Position(p, h) \in Nat
  BY PositionFacts DEF Pools
<1>3. CASE ~ p.valid \/ h \in p.deferred
  <2>1. q = p
    BY <1>3 DEF Refresh
  <2> QED BY <1>3, <2>1 DEF SameSlots, q
<1>4. CASE p.valid /\ h \notin p.deferred /\ p.voice[h].state = "Active"
  <2>1. q = [r EXCEPT !.leaf[h] = Position(p, h)]
    BY <1>4 DEF Refresh, r
  <2> HIDE DEF q
  <2>2. q \in Pools /\ SameSlots(p, q) /\ q.valid = p.valid /\ q.volatile = r.volatile
        /\ q.leaf = [r.leaf EXCEPT ![h] = Position(p, h)]
    BY <1>1, <1>2, <2>1 DEF Pools, SameSlots
  <2>3. r.leaf \in [Handles -> Nat]
    BY <1>1, <1>2
  <2> QED BY <1>1, <1>2, <1>4, <2>2, <2>3 DEF q
<1>5. CASE p.valid /\ h \notin p.deferred /\ p.voice[h].state = "Releasing"
  <2>1. q = [r EXCEPT !.volatile = @ \union {h}]
    BY <1>5 DEF Refresh, r
  <2> HIDE DEF q
  <2>2. q \in Pools /\ SameSlots(p, q) /\ q.valid = p.valid /\ q.volatile = r.volatile \union {h}
        /\ q.leaf = r.leaf
    BY <1>1, <1>2, <2>1 DEF Pools, SameSlots
  <2> QED BY <1>1, <1>2, <1>5, <2>2 DEF q
<1>6. CASE p.valid /\ h \notin p.deferred /\ p.voice[h].state \notin {"Active", "Releasing"}
  <2>1. q = r
    BY <1>6 DEF Refresh, r
  <2> QED BY <1>1, <1>2, <1>6, <2>1 DEF q
<1> QED BY <1>3, <1>4, <1>5, <1>6

\* The row of a voice has its type.
LEMMA StateOf ==
    ASSUME NEW p \in Pools, NEW h \in Handles
    PROVE  p.voice[h] \in VoiceType /\ p.voice[h].state \in {"Free", "Active", "Releasing"}
BY DEF Pools, VoiceType

\* Live voices are the entries of the active list, and free slots the others.
LEMMA LiveFacts ==
    ASSUME NEW p \in Pools, Shape(p)
    PROVE  /\ Live(p) \subseteq Handles /\ ToSet(p.active) = Live(p)
           /\ \A h \in Handles : h \in Live(p) <=> p.voice[h].state # "Free"
           /\ \A h \in Handles : h \in p.free <=> p.voice[h].state = "Free"
           /\ \A h \in Live(p) : /\ Position(p, h) \in 1 .. Len(p.active)
                                 /\ p.active[Position(p, h)] = h
           /\ \A i \in 1 .. Len(p.active) : p.active[i] \in Live(p) /\ Position(p, p.active[i]) = i
           /\ \A h \in Handles \ Live(p) : Position(p, h) = 0
           /\ p.active \in Seq(Handles) /\ Len(p.active) \in Nat
<1>1. /\ Live(p) \subseteq Handles /\ ToSet(p.active) = Live(p)
      /\ \A h \in Handles : h \in Live(p) <=> p.voice[h].state # "Free"
      /\ \A h \in Handles : h \in p.free <=> p.voice[h].state = "Free"
  BY DEF Shape, Live, In
<1>2. Distinct(p.active) /\ p.active \in Seq(Handles)
  BY DEF Shape, Pools
<1>3. \A i \in 1 .. Len(p.active) : p.active[i] \in Live(p)
  BY <1>1, <1>2, InToSet
<1> QED BY <1>1, <1>2, <1>3, PositionFacts

\* A sequence without repetitions is as long as its set.
LEMMA DistinctCount ==
    ASSUME NEW B, NEW s \in Seq(B), Distinct(s)
    PROVE  IsFiniteSet(ToSet(s)) /\ Cardinality(ToSet(s)) = Len(s)
<1> DEFINE n == Len(s)
           A == ToSet(s)
           f == [i \in 1 .. n |-> s[i]]
<1>1. n \in Nat /\ \A e : e \in A <=> \E i \in 1 .. n : s[i] = e
  BY InToSet
<1>2. \A i, j \in 1 .. n : s[i] = s[j] => i = j
  BY DEF Distinct
<1> HIDE DEF A
<1>3. f \in Bijection(1 .. n, A)
  <2>1. f \in [1 .. n -> A] /\ \A i \in 1 .. n : f[i] = s[i]
    BY <1>1
  <2> HIDE DEF f
  <2>2. \A i, j \in 1 .. n : f[i] = f[j] => i = j
    BY <1>2, <2>1
  <2>3. \A e \in A : \E i \in 1 .. n : f[i] = e
    BY <1>1, <2>1
  <2>4. f \in Injection(1 .. n, A)
    BY <2>1, <2>2 DEF Injection, IsInjective
  <2>5. f \in Surjection(1 .. n, A)
    BY <2>1, <2>3 DEF Surjection
  <2> QED BY <2>4, <2>5 DEF Bijection
<1>4. ExistsBijection(1 .. n, A)
  BY <1>3 DEF ExistsBijection
<1>5. IsFiniteSet(1 .. n) /\ Cardinality(1 .. n) = n
  BY <1>1, FS_Interval
<1> QED BY <1>4, <1>5, FS_Bijection DEF A

\* The room of an event: the limit of its pool, and the voices it found.  The
\* pool is within it when it has not grown past both.
Within(p, room) ==
    /\ room.most \in Nat /\ p.limit = room.limit
    /\ Len(p.active) <= room.limit \/ Len(p.active) <= room.most

\* A pool that grows no further than its limit.
Grown(p, q) ==
    q.limit = p.limit /\ (Len(q.active) <= p.limit \/ Len(q.active) <= Len(p.active))

\* It stays within the room of the event.
LEMMA Grows ==
    ASSUME NEW p \in Pools, NEW q \in Pools, NEW room, Within(p, room), Grown(p, q)
    PROVE  Within(q, room)
<1>1. /\ Len(p.active) \in Nat /\ Len(q.active) \in Nat /\ p.limit \in Nat
      /\ room.most \in Nat /\ p.limit = room.limit
  BY DEF Pools, Within
<1> QED BY <1>1 DEF Within, Grown

\* A pool that keeps its active list stays within its room.
LEMMA Stays ==
    ASSUME NEW p, NEW q, NEW room, Within(p, room), q.limit = p.limit, q.active = p.active
    PROVE  Within(q, room)
BY DEF Within

\* A pool whose live voices were live before has not grown.
LEMMA Shrunk ==
    ASSUME NEW p \in Pools, NEW q \in Pools, Shape(p), Shape(q), Live(q) \subseteq Live(p),
           q.limit = p.limit
    PROVE  Grown(p, q)
<1>1. /\ p.active \in Seq(Handles) /\ Distinct(p.active) /\ ToSet(p.active) = Live(p)
      /\ q.active \in Seq(Handles) /\ Distinct(q.active) /\ ToSet(q.active) = Live(q)
  BY DEF Pools, Shape
<1>2. /\ IsFiniteSet(Live(p)) /\ Cardinality(Live(p)) = Len(p.active)
      /\ Cardinality(Live(q)) = Len(q.active)
  BY <1>1, DistinctCount
<1>3. Cardinality(Live(q)) <= Cardinality(Live(p))
  BY <1>2, FS_Subset
<1> QED BY <1>2, <1>3 DEF Grown

\* BuildStealHeap: every key is right afterwards.
LEMMA RebuiltFacts ==
    ASSUME NEW p \in Pools, Shape(p)
    PROVE  /\ Rebuilt(p) \in Pools /\ SameSlots(p, Rebuilt(p)) /\ Rebuilt(p).valid
           /\ \A D, X : Keyed(Rebuilt(p), D, X)
<1> DEFINE q == Rebuilt(p)
           leaf == [h \in Handles |-> IF h \in In(p, "Active") THEN Position(p, h) ELSE 0]
<1>1. leaf \in [Handles -> Nat]
  BY PositionFacts DEF Shape
<1> HIDE DEF leaf
<1>2. q = [p EXCEPT !.leaf = leaf, !.volatile = In(p, "Releasing"), !.over = FALSE, !.valid = TRUE]
  BY DEF Rebuilt, leaf
<1> HIDE DEF q
<1>3. In(p, "Releasing") \in SUBSET Handles
  BY DEF In
<1>4. q \in Pools /\ SameSlots(p, q) /\ q.valid = TRUE /\ q.leaf = leaf
      /\ q.volatile = In(p, "Releasing")
  BY <1>1, <1>2, <1>3 DEF Pools, SameSlots
<1>5. \A h \in Handles : Position(q, h) = Position(p, h)
  BY <1>4, PositionSame DEF SameSlots
<1>6. \A h \in Handles : p.voice[h].state = "Active" => Position(p, h) # 0
  BY LiveFacts
<1>7. \A h \in Handles : q.leaf[h] = IF p.voice[h].state = "Active" THEN Position(p, h) ELSE 0
  BY <1>4 DEF leaf, In
<1>8. \A D, X : Keyed(q, D, X)
  BY <1>4, <1>5, <1>6, <1>7 DEF Keyed, SameSlots, In
<1> QED BY <1>4, <1>8 DEF q

\* The index a selection looks at is right where the index it found was.
LEMMA SearchedFacts ==
    ASSUME NEW p \in Pools, Shape(p)
    PROVE  /\ Searched(p) \in Pools /\ SameSlots(p, Searched(p)) /\ Searched(p).valid
           /\ \A D, X : Keyed(p, D, X) => Keyed(Searched(p), D, X)
<1>1. CASE Searched(p) = Rebuilt(p)
  BY <1>1, RebuiltFacts
<1>2. CASE Searched(p) # Rebuilt(p)
  <2>1. Searched(p) = p /\ p.valid
    BY <1>2 DEF Searched
  <2> QED BY <2>1 DEF SameSlots
<1> QED BY <1>1, <1>2

\* What a selection leaves.
Popped(p, r, D, X) ==
    /\ r.pool \in Pools /\ SameSlots(p, r.pool) /\ r.pool.valid
    /\ r.victim = NoVoice \/ r.victim \in Live(p)
    /\ Keyed(r.pool, D, X \union AnyPlace(r.victim))

\* A selection names a live voice: a current leaf stands at its position.
LEMMA PicksFacts ==
    ASSUME NEW p \in Pools, Shape(p), p.valid, NEW D, NEW X, Keyed(p, D, X),
           NEW reserve \in BOOLEAN, NEW r \in Picks(p, reserve)
    PROVE  /\ r.victim \in Live(p) /\ Popped(p, r, D, X)
           /\ reserve => r.pool = p
           /\ ~ reserve => r.pool.leaf[r.victim] = 0 /\ r.victim \notin r.pool.volatile
<1>1. PICK h \in Indexed(p) : /\ ~ Dangling(p, h)
                              /\ r = [pool |-> IF reserve THEN p ELSE Unindex(p, Winner(p, h)),
                                      victim |-> Winner(p, h)]
  BY DEF Picks
<1>2. Winner(p, h) \in Live(p)
  <2>1. CASE h \in p.volatile
    <3>1. p.voice[h].state = "Releasing" /\ h \in Handles
      BY <2>1 DEF Keyed, In
    <3> QED BY <2>1, <3>1, LiveFacts DEF Winner
  <2>2. CASE h \notin p.volatile
    <3>1. h \in Handles /\ p.leaf[h] # 0 /\ p.leaf[h] <= Len(p.active)
          /\ Winner(p, h) = p.active[p.leaf[h]]
      <4>1. h \in Handles /\ p.leaf[h] # 0 /\ Winner(p, h) = p.active[p.leaf[h]]
        BY <2>2 DEF Indexed, Winner
      <4>2. p.leaf[h] \in Nat /\ Len(p.active) \in Nat
        BY <4>1 DEF Pools
      <4> QED BY <1>1, <2>2, <4>1, <4>2 DEF Dangling
    <3>2. p.leaf[h] \in 1 .. Len(p.active)
      BY <3>1 DEF Pools
    <3> QED BY <3>1, <3>2, LiveFacts
  <2> QED BY <2>1, <2>2
<1>3. Winner(p, h) \in Handles
  BY <1>2, LiveFacts
<1>4. r.victim = Winner(p, h) /\ r.pool = IF reserve THEN p ELSE Unindex(p, Winner(p, h))
  BY <1>1
<1>5. CASE reserve
  <2>1. Keyed(p, D, X \union AnyPlace(r.victim))
    BY KeyedMore
  <2> QED BY <1>2, <1>4, <1>5, <2>1 DEF Popped, SameSlots
<1>6. CASE ~ reserve
  BY <1>2, <1>3, <1>4, <1>6, UnindexFacts DEF Popped
<1> QED BY <1>5, <1>6

\* PopStealCandidate, tiers: the victim sounds, and is out of the index unless it
\* is only reserved.
LEMMA PopTierFacts ==
    ASSUME NEW p \in Pools, Shape(p), NEW D, NEW X, Keyed(p, D, X),
           NEW reserve \in BOOLEAN, NEW r \in PopTier(p, reserve)
    PROVE  /\ Popped(p, r, D, X)
           /\ reserve => Keyed(r.pool, D, X)
           /\ ~ reserve /\ r.victim # NoVoice =>
                 r.pool.leaf[r.victim] = 0 /\ r.victim \notin r.pool.volatile
<1> DEFINE s == Searched(p)
<1>1. s \in Pools /\ SameSlots(p, s) /\ s.valid /\ Keyed(s, D, X)
  BY SearchedFacts
<1>2. Shape(s)
  BY <1>1 DEF SameSlots, Shape, In, Live
<1>3. Live(s) = Live(p)
  BY <1>1 DEF SameSlots, Live, In
<1>4. \/ r = [pool |-> s, victim |-> NoVoice]
      \/ r \in Picks(s, reserve)
      \/ r \in Picks(Rebuilt(s), reserve)
  BY DEF PopTier
<1> HIDE DEF s
<1>5. CASE r = [pool |-> s, victim |-> NoVoice]
  <2>1. Keyed(s, D, X \union AnyPlace(NoVoice))
    BY <1>1, KeyedMore
  <2> QED BY <1>1, <1>5, <2>1 DEF Popped
<1>6. CASE r \in Picks(s, reserve)
  <2>1. r.victim \in Live(s) /\ Popped(s, r, D, X) /\ (reserve => r.pool = s)
        /\ (~ reserve => r.pool.leaf[r.victim] = 0 /\ r.victim \notin r.pool.volatile)
    BY <1>1, <1>2, <1>6, PicksFacts
  <2> QED BY <1>1, <1>3, <2>1 DEF Popped, SameSlots
<1>7. CASE r \in Picks(Rebuilt(s), reserve)
  <2> DEFINE b == Rebuilt(s)
  <2>1. b \in Pools /\ SameSlots(s, b) /\ b.valid /\ Keyed(b, D, X)
    BY <1>1, <1>2, RebuiltFacts
  <2> HIDE DEF b
  <2>2. Shape(b) /\ Live(b) = Live(s)
    BY <1>2, <2>1 DEF SameSlots, Shape, In, Live
  <2>3. r.victim \in Live(b) /\ Popped(b, r, D, X) /\ (reserve => r.pool = b)
        /\ (~ reserve => r.pool.leaf[r.victim] = 0 /\ r.victim \notin r.pool.volatile)
    BY <1>7, <2>1, <2>2, PicksFacts DEF b
  <2> QED BY <1>1, <1>3, <2>1, <2>2, <2>3 DEF Popped, SameSlots
<1> QED BY <1>4, <1>5, <1>6, <1>7

\* PopStealCandidate with the ring of released voices.
LEMMA PopFacts ==
    ASSUME NEW p \in Pools, Shape(p), NEW D, NEW X, Keyed(p, D, X), NEW r \in Pop(p)
    PROVE  /\ Popped(p, r, D, X)
           /\ r.victim # NoVoice =>
                 r.pool.leaf[r.victim] = 0 /\ r.victim \notin r.pool.volatile
<1>1. CASE RingVictims(p) = {}
  <2>1. r \in PopTier(p, FALSE)
    BY <1>1 DEF Pop
  <2> QED BY <2>1, PopTierFacts
<1>2. CASE RingVictims(p) # {}
  <2> DEFINE s == IF p.valid THEN p ELSE Rebuilt(p)
  <2>1. s \in Pools /\ SameSlots(p, s) /\ s.valid /\ Keyed(s, D, X)
    BY RebuiltFacts DEF SameSlots
  <2>2. PICK h \in RingVictims(p) : r = [pool |-> Unindex(s, h), victim |-> h]
    BY <1>2 DEF Pop
  <2> HIDE DEF s
  <2>3. h \in Live(p) /\ h \in Handles
    <3>1. h \in In(p, "Releasing")
      BY <2>2 DEF RingVictims
    <3> QED BY <3>1, LiveFacts DEF In
  <2>4. r.pool = Unindex(s, h) /\ r.victim = h
    BY <2>2
  <2> QED BY <2>1, <2>3, <2>4, UnindexFacts DEF Popped, SameSlots
<1> QED BY <1>1, <1>2

-----------------------------------------------------------------------------
(* Voices leave their lists.                                              *)

\* What of the index an operation that only touches the lists leaves alone.
SameIndex(p, q) == q.leaf = p.leaf /\ q.volatile = p.volatile /\ q.valid = p.valid

\* The key of a row, and its chain.
LEMMA KeyOf ==
    ASSUME NEW p \in Pools, NEW h \in Handles
    PROVE  p.voice[h].key \in Keys /\ p.chain[p.voice[h].key] \in Seq(Handles)
BY DEF Pools, VoiceType

\* The voices of a chain.
LEMMA ChainMembers ==
    ASSUME NEW p \in Pools, NEW k \in Keys
    PROVE  /\ p.chain[k] \in Seq(Handles) /\ ToSet(p.chain[k]) \subseteq Handles
           /\ \A h : Contains(p.chain[k], h) <=> h \in ToSet(p.chain[k])
<1>1. p.chain[k] \in Seq(Handles)
  BY DEF Pools
<1> QED BY <1>1, InToSet DEF Contains

\* A voice waits for its note-off when it is on the chain of its key.
LEMMA WaitsIs ==
    ASSUME NEW p \in Pools, NEW h \in Handles
    PROVE  Waits(p, h) <=> h \in ToSet(p.chain[p.voice[h].key])
BY KeyOf, ChainMembers DEF Waits

\* UnlinkChannelKey: the voice is on no chain, the other voices stay where they
\* are.
LEMMA UnlinkFacts ==
    ASSUME NEW p, NEW E, NEW S, NEW T, Body(p, E, S, T), NEW h \in Handles
    PROVE  /\ Body(Unlink(p, h), E \union {h}, S, T)
           /\ p.voice[h].state # "Active" \/ p.voice[h].held # {} => Body(Unlink(p, h), E, S, T)
           /\ \A k \in Keys : h \notin ToSet(Unlink(p, h).chain[k])
           /\ \A k \in Keys : ToSet(Unlink(p, h).chain[k]) \subseteq ToSet(p.chain[k])
           /\ \A k \in Keys : \A g \in Handles \ {h} :
                 g \in ToSet(p.chain[k]) => g \in ToSet(Unlink(p, h).chain[k])
           /\ SameIndex(p, Unlink(p, h))
           /\ Unlink(p, h).voice = p.voice /\ Unlink(p, h).active = p.active
           /\ Unlink(p, h).free = p.free /\ Unlink(p, h).limit = p.limit
           /\ Unlink(p, h).deferred = p.deferred
<1> DEFINE q == Unlink(p, h)
           key == p.voice[h].key
<1>1. p \in Pools /\ key \in Keys /\ p.chain \in [Keys -> Seq(Handles)]
  BY KeyOf DEF Body, Pools
<1>2. Distinct(p.chain[key])
  BY <1>1 DEF Body, Chained
<1>3. /\ RemoveFirst(p.chain[key], h) \in Seq(Handles)
      /\ Distinct(RemoveFirst(p.chain[key], h))
      /\ ToSet(RemoveFirst(p.chain[key], h)) = ToSet(p.chain[key]) \ {h}
  BY <1>1, <1>2, RemoveFacts
<1> DEFINE chain == [p.chain EXCEPT ![key] = RemoveFirst(p.chain[key], h)]
<1>4. chain \in [Keys -> Seq(Handles)]
  BY <1>1, <1>3
<1>5. /\ \A k \in Keys \ {key} : chain[k] = p.chain[k]
      /\ chain[key] = RemoveFirst(p.chain[key], h)
  BY <1>1
<1>6. q = [p EXCEPT !.chain = chain]
  BY DEF Unlink
<1> HIDE DEF chain, q
<1>7. /\ q \in Pools /\ SameIndex(p, q) /\ q.voice = p.voice /\ q.active = p.active
      /\ q.free = p.free /\ q.limit = p.limit /\ q.deferred = p.deferred /\ q.chain = chain
  BY <1>1, <1>4, <1>6 DEF Pools, SameIndex
<1>8. \A k \in Keys : h \in ToSet(p.chain[k]) => k = key
  BY DEF Body, Chained
<1>9. /\ \A k \in Keys : h \notin ToSet(q.chain[k])
      /\ \A k \in Keys : ToSet(q.chain[k]) \subseteq ToSet(p.chain[k])
      /\ \A k \in Keys : \A g \in Handles \ {h} :
            g \in ToSet(p.chain[k]) => g \in ToSet(q.chain[k])
  BY <1>3, <1>5, <1>7, <1>8
<1>10. Chained(q)
  BY <1>1, <1>3, <1>5, <1>7, <1>9 DEF Body, Chained
<1>11. Shape(q) /\ Pedals(q, S, T)
  BY <1>7 DEF Body, Shape, Pedals, In, Live
<1>12. \A g \in Handles \ {h} : Waits(p, g) => Waits(q, g)
  BY <1>1, <1>7, <1>9, WaitsIs, KeyOf
<1>13. Kept(q, E \union {h})
  BY <1>7, <1>12 DEF Body, Kept
<1>14. p.voice[h].state # "Active" \/ p.voice[h].held # {} => Kept(q, E)
  BY <1>7, <1>12 DEF Body, Kept
<1> QED BY <1>7, <1>9, <1>10, <1>11, <1>13, <1>14 DEF Body, q

\* StartRelease: an Active voice leaves its chain, its pedals and its steal key; the
\* others are as they were.
LEMMA ReleaseFacts ==
    ASSUME NEW p, NEW E, NEW S, NEW T, Body(p, E, S, T), NEW h \in Handles,
           p.deferred = {}
    PROVE  /\ Body(Release(p, h), E, S, T)
           /\ \A D, X : Keyed(p, D, X) => Keyed(Release(p, h), D, X)
           /\ Release(p, h).deferred = {} /\ Release(p, h).valid = p.valid
           /\ Release(p, h).limit = p.limit /\ Release(p, h).active = p.active
           /\ \A g \in Handles \ {h} : Release(p, h).voice[g] = p.voice[g]
           /\ Release(p, h).voice[h].key = p.voice[h].key
           /\ Release(p, h).voice[h].play = p.voice[h].play
           /\ IF p.voice[h].state = "Active"
              THEN /\ Release(p, h).voice[h].state = "Releasing"
                   /\ Release(p, h).voice[h].held = {}
              ELSE Release(p, h).voice[h] = p.voice[h]
<1>0. p \in Pools
  BY DEF Body
<1>1. CASE p.voice[h].state # "Active"
  <2>1. Release(p, h) = p
    BY <1>1 DEF Release
  <2> QED BY <1>1, <2>1
<1>2. CASE p.voice[h].state = "Active"
  <2> DEFINE u == Unlink(p, h)
             r == [u EXCEPT !.voice[h].state = "Releasing", !.voice[h].held = {}]
             q == Refresh(r, h)
             v == [p.voice[h] EXCEPT !.state = "Releasing", !.held = {}]
             voice == [p.voice EXCEPT ![h] = v]
  <2>1. Release(p, h) = q
    BY <1>2 DEF Release
  <2>2. /\ Body(u, E \union {h}, S, T) /\ SameIndex(p, u) /\ u.voice = p.voice
        /\ u.active = p.active /\ u.free = p.free /\ u.limit = p.limit
        /\ u.deferred = p.deferred /\ \A k \in Keys : h \notin ToSet(u.chain[k])
    BY UnlinkFacts
  <2> HIDE DEF u
  <2>3. /\ p.voice[h] \in VoiceType /\ v \in VoiceType /\ v.state = "Releasing" /\ v.held = {}
        /\ v.key = p.voice[h].key /\ v.play = p.voice[h].play
    <3>1. p.voice[h] \in VoiceType
      BY <1>0 DEF Pools
    <3> QED BY <3>1 DEF VoiceType
  <2> HIDE DEF v
  <2>4. /\ voice \in [Handles -> VoiceType] /\ voice[h] = v
        /\ \A g \in Handles \ {h} : voice[g] = p.voice[g]
    BY <1>0, <2>3 DEF Pools
  <2>5. r = [u EXCEPT !.voice = voice]
    BY <2>2, <2>3, <2>4, ZenonT(60) DEF v, Body, Pools
  <2> HIDE DEF r, voice
  <2>6. /\ r \in Pools /\ SameIndex(p, r) /\ r.voice = voice /\ r.active = p.active
        /\ r.free = p.free /\ r.limit = p.limit /\ r.deferred = {} /\ r.chain = u.chain
    BY <2>2, <2>4, <2>5 DEF Body, Pools, SameIndex
  <2>7. Shape(r)
    <3>1. In(r, "Free") = In(p, "Free")
      BY <1>2, <2>3, <2>4, <2>6 DEF In
    <3> QED BY <2>6, <3>1 DEF Body, Shape, Live
  <2>8. Chained(r)
    BY <2>2, <2>4, <2>6, ChainMembers DEF Body, Chained
  <2>9. Kept(r, E)
    <3> SUFFICES ASSUME NEW g \in Handles \ E, r.voice[g].state = "Active"
                 PROVE  Waits(r, g) \/ r.voice[g].held # {}
      BY DEF Kept
    <3>1. g # h /\ r.voice[g] = u.voice[g]
      BY <2>2, <2>3, <2>4, <2>6
    <3>2. Waits(u, g) \/ u.voice[g].held # {}
      BY <3>1, <2>2 DEF Body, Kept
    <3>3. Waits(u, g) => Waits(r, g)
      BY <3>1, <2>6 DEF Waits
    <3> QED BY <3>1, <3>2, <3>3
  <2>10. Pedals(r, S, T)
    BY <2>3, <2>4, <2>6 DEF Body, Pedals
  <2>11. Body(r, E, S, T)
    BY <2>6, <2>7, <2>8, <2>9, <2>10 DEF Body
  <2>12. /\ q \in Pools /\ SameSlots(r, q) /\ q.valid = r.valid
         /\ r.valid => q.leaf[h] = 0
         /\ \A g \in Handles \ {h} : q.leaf[g] = r.leaf[g]
         /\ q.volatile \subseteq r.volatile \union {h}
    BY <2>3, <2>4, <2>6, <2>7, RefreshFacts DEF Shape
  <2> HIDE DEF q
  <2>13. Body(q, E, S, T)
    BY <2>11, <2>12, BodySame
  <2>14. \A D, X : Keyed(p, D, X) => Keyed(q, D, X)
    <3> SUFFICES ASSUME NEW D, NEW X, Keyed(p, D, X) PROVE Keyed(q, D, X)
      OBVIOUS
    <3> SUFFICES ASSUME q.valid PROVE Keyed(q, D, X)
      BY DEF Keyed
    <3>1. \A g : Position(q, g) = Position(p, g)
      BY <2>6, <2>12, PositionSame DEF SameSlots
    <3>2. q.voice = voice /\ p.valid /\ q.leaf[h] = 0
          /\ \A g \in Handles \ {h} : q.leaf[g] = p.leaf[g] /\ q.voice[g] = p.voice[g]
      BY <2>4, <2>6, <2>12 DEF SameSlots, SameIndex
    <3>3. q.volatile \subseteq In(q, "Releasing")
      BY <2>3, <2>4, <2>6, <2>12, <3>2 DEF Keyed, In, SameIndex
    <3> QED BY <2>3, <2>4, <3>1, <3>2, <3>3 DEF Keyed
  <2> QED
    BY <1>2, <2>1, <2>3, <2>4, <2>6, <2>12, <2>13, <2>14 DEF SameSlots, SameIndex
<1> QED BY <1>1, <1>2

\* What is left of the row of a voice that lost its slot.
Emptied(v, w) ==
    w.state = "Free" /\ w.key = v.key /\ w.play = v.play /\ w.held = v.held

\* A pool that gave up the slot of h.
Without(p, q, h, popped, E, S, T, D, X) ==
    /\ Body(q, E, S, T) /\ Keyed(q, D, X)
    /\ q.limit = p.limit /\ q.valid = p.valid /\ q.deferred \ {h} = p.deferred \ {h}
    /\ \A g \in Handles \ {h} : q.voice[g] = p.voice[g]
    /\ Emptied(p.voice[h], q.voice[h])
    /\ popped \in q.volatile => popped \in p.volatile

\* Vacate, on a pool whose index and chains have let go of the voice.
LEMMA VacateFacts ==
    ASSUME NEW p, NEW E, NEW S, NEW T, NEW h, Body(p, E \union {h}, S, T), h \in Live(p),
           \A k \in Keys : h \notin ToSet(p.chain[k]),
           NEW popped, NEW D, NEW X, Keyed(p, D, X \union AnyPlace(h)),
           p.leaf[h] = 0, h \notin p.volatile, p.deferred \subseteq D \union {h},
           popped # NoVoice => popped \in D
    PROVE  Without(p, Vacate(p, h, popped), h, popped, E, S, T, D, X)
<1> DEFINE last == Len(p.active)
           at == Position(p, h)
           moved == p.active[last]
           active == SubSeq([p.active EXCEPT ![at] = moved], 1, last - 1)
           v == [p.voice[h] EXCEPT !.state = "Free"]
           voice == [p.voice EXCEPT ![h] = v]
           r == [p EXCEPT !.voice[h].state = "Free",
                          !.free = @ \union {h},
                          !.active = SubSeq([@ EXCEPT ![at] = moved], 1, last - 1)]
           q == Vacate(p, h, popped)
<1>1. p \in Pools /\ Shape(p) /\ h \in Handles
  BY LiveFacts DEF Body
<1>2. /\ at \in 1 .. last /\ p.active[at] = h /\ last \in Nat /\ last \in 1 .. last
      /\ p.active \in Seq(Handles) /\ Distinct(p.active)
      /\ ToSet(p.active) = Live(p) /\ moved \in Live(p) /\ moved \in Handles
      /\ Position(p, moved) = last
  <2>1. /\ at \in 1 .. last /\ p.active[at] = h /\ last \in Nat
        /\ p.active \in Seq(Handles) /\ ToSet(p.active) = Live(p)
    BY <1>1, LiveFacts
  <2>2. last \in 1 .. last
    BY <2>1
  <2>3. moved \in Live(p) /\ moved \in Handles /\ Position(p, moved) = last
    BY <1>1, <2>2, LiveFacts
  <2> QED BY <1>1, <2>1, <2>2, <2>3 DEF Shape
<1>3. q = IF moved \in {h, popped} THEN r ELSE Refresh(r, moved)
  BY DEF Vacate
<1>4. /\ active \in Seq(Handles) /\ Len(active) = last - 1 /\ Distinct(active)
      /\ ToSet(active) = Live(p) \ {h}
      /\ \A i \in 1 .. Len(active) : active[i] = IF i = at THEN moved ELSE p.active[i]
  <2>1. active = SubSeq([p.active EXCEPT ![at] = p.active[Len(p.active)]], 1, Len(p.active) - 1)
    OBVIOUS
  <2> HIDE DEF active
  <2>2. SwapRemoved(Handles, p.active, at, active)
    BY <1>2, <2>1, SwapRemoveFacts
  <2> QED BY <1>2, <2>2 DEF SwapRemoved
<1>5. /\ p.voice[h] \in VoiceType /\ v \in VoiceType /\ v.state = "Free"
      /\ v.key = p.voice[h].key /\ v.held = p.voice[h].held
      /\ v.play = p.voice[h].play
  BY <1>1, StateOf DEF VoiceType
<1> HIDE DEF v
<1>6. /\ voice \in [Handles -> VoiceType] /\ voice[h] = v
      /\ \A g \in Handles \ {h} : voice[g] = p.voice[g]
  BY <1>1, <1>5 DEF Pools
<1>7. r = [p EXCEPT !.voice = voice, !.free = p.free \union {h}, !.active = active]
  BY <1>1, <1>5 DEF v, Pools
<1> HIDE DEF r, voice, active, q, at, moved, last
<1>8. /\ r \in Pools /\ r.voice = voice /\ r.free = p.free \union {h} /\ r.active = active
      /\ r.chain = p.chain /\ r.limit = p.limit /\ r.deferred = p.deferred /\ SameIndex(p, r)
  BY <1>1, <1>4, <1>6, <1>7 DEF Pools, SameIndex
<1>9. Shape(r)
  <2>1. In(r, "Free") = In(p, "Free") \union {h}
    BY <1>1, <1>5, <1>6, <1>8 DEF In
  <2>2. Live(r) = Live(p) \ {h}
    BY <2>1 DEF Live
  <2> QED BY <1>1, <1>4, <1>8, <2>1, <2>2 DEF Shape
<1>10. Body(r, E, S, T)
  <2>1. Chained(r)
    BY <1>6, <1>8, ChainMembers DEF Body, Chained
  <2>2. Kept(r, E)
    <3> SUFFICES ASSUME NEW g \in Handles \ E, r.voice[g].state = "Active"
                 PROVE  Waits(r, g) \/ r.voice[g].held # {}
      BY DEF Kept
    <3>1. g # h /\ r.voice[g] = p.voice[g]
      BY <1>5, <1>6, <1>8
    <3>2. Waits(p, g) => Waits(r, g)
      BY <1>8, <3>1 DEF Waits
    <3> QED BY <3>1, <3>2 DEF Body, Kept
  <2>3. Pedals(r, S, T)
    BY <1>5, <1>6, <1>8 DEF Body, Pedals
  <2> QED BY <1>8, <1>9, <2>1, <2>2, <2>3 DEF Body
<1>11. \A g \in Handles \ {h, moved} : Position(r, g) = Position(p, g)
  <2> SUFFICES ASSUME NEW g \in Handles \ {h, moved} PROVE Position(r, g) = Position(p, g)
    OBVIOUS
  <2>1. CASE g \in Live(p)
    <3> DEFINE i == Position(p, g)
    <3>1. i \in 1 .. last /\ p.active[i] = g
      BY <1>1, <2>1, LiveFacts DEF last
    <3>2. i # last /\ i # at
      BY <1>2, <3>1 DEF moved
    <3>3. i \in 1 .. Len(active) /\ active[i] = g
      BY <1>2, <1>4, <3>1, <3>2
    <3> QED BY <1>8, <1>9, <3>3, LiveFacts
  <2>2. CASE g \notin Live(p)
    <3>1. g \notin Live(r)
      BY <1>4, <1>8, <1>9, <2>2, LiveFacts
    <3> QED BY <1>1, <1>8, <1>9, <2>2, <3>1, LiveFacts
  <2> QED BY <2>1, <2>2
<1>12. Keyed(r, D \union {moved}, X)
  <2> SUFFICES ASSUME r.valid PROVE Keyed(r, D \union {moved}, X)
    BY DEF Keyed
  <2>1. p.valid
    BY <1>8 DEF SameIndex
  <2>2. \A g \in Handles \ (D \union {moved}) :
           r.leaf[g] # 0 => r.voice[g].state = "Active" /\ r.leaf[g] = Position(r, g)
    BY <1>6, <1>8, <1>11, <2>1 DEF Keyed, SameIndex
  <2>3. \A g \in Handles \ (D \union {moved}) :
           r.voice[g].state = "Active" /\ r.leaf[g] = 0 => <<g, Position(r, g)>> \in X
    <3> SUFFICES ASSUME NEW g \in Handles \ (D \union {moved}),
                        r.voice[g].state = "Active", r.leaf[g] = 0
                 PROVE  <<g, Position(r, g)>> \in X
      OBVIOUS
    <3>1. g # h /\ p.voice[g].state = "Active" /\ p.leaf[g] = 0
      BY <1>5, <1>6, <1>8 DEF SameIndex
    <3>2. <<g, Position(p, g)>> \in X \union AnyPlace(h)
      BY <2>1, <3>1 DEF Keyed
    <3>3. <<g, Position(p, g)>> \in X
      BY <3>1, <3>2, AnyFacts
    <3> QED BY <1>11, <3>1, <3>3
  <2>4. r.volatile \subseteq In(r, "Releasing")
    BY <1>6, <1>8, <2>1 DEF Keyed, SameIndex, In
  <2> QED BY <2>2, <2>3, <2>4 DEF Keyed
<1>13. /\ q.voice = r.voice /\ q.deferred = r.deferred /\ q.limit = r.limit /\ q.valid = r.valid
       /\ Body(q, E, S, T) /\ Keyed(q, D, X)
       /\ popped \in q.volatile => popped \in r.volatile
  <2>1. CASE moved = h
    <3>1. q = r
      BY <1>3, <2>1
    <3>2. Keyed(r, D, X)
      <4>1. r.leaf[h] = 0 /\ r.voice[h].state = "Free"
        BY <1>5, <1>6, <1>8 DEF SameIndex
      <4> QED BY <1>12, <2>1, <4>1 DEF Keyed
    <3> QED BY <1>10, <3>1, <3>2
  <2>2. CASE moved # h /\ moved = popped
    <3>1. q = r
      BY <1>3, <2>2
    <3>2. moved \in D
      BY <1>1, <1>2, <2>2, HandlesAssumption
    <3>3. Keyed(r, D, X)
      BY <1>12, <3>2, KeyedMore
    <3> QED BY <1>10, <3>1, <3>3
  <2>3. CASE moved \notin {h, popped}
    <3>1. q = Refresh(r, moved)
      BY <1>3, <2>3
    <3>2. /\ q \in Pools /\ SameSlots(r, q) /\ q.valid = r.valid
          /\ ~ r.valid \/ moved \in r.deferred => q = r
          /\ r.valid /\ moved \notin r.deferred =>
                q.leaf[moved] = IF r.voice[moved].state = "Active" THEN Position(r, moved) ELSE 0
          /\ \A g \in Handles \ {moved} : q.leaf[g] = r.leaf[g]
          /\ q.volatile \subseteq r.volatile \union {moved}
          /\ r.valid /\ moved \notin r.deferred /\ r.voice[moved].state # "Releasing"
                => moved \notin q.volatile
      BY <1>2, <1>8, <1>9, <3>1, RefreshFacts DEF Shape
    <3>3. Body(q, E, S, T)
      BY <1>10, <3>2, BodySame
    <3>4. Keyed(q, D, X)
      <4>1. CASE ~ r.valid \/ moved \in r.deferred
        <5>1. q = r
          BY <3>2, <4>1
        <5>2. r.valid => moved \in D
          BY <1>8, <2>3, <4>1
        <5> QED BY <1>12, <5>1, <5>2 DEF Keyed
      <4>2. CASE r.valid /\ moved \notin r.deferred
        <5>1. \A g : Position(q, g) = Position(r, g)
          BY <3>2, PositionSame DEF SameSlots
        <5>2. q.voice = r.voice
          BY <3>2 DEF SameSlots
        <5>3. q.volatile \subseteq In(q, "Releasing")
          BY <1>2, <1>12, <3>2, <4>2, <5>2 DEF Keyed, In
        <5>4. r.voice[moved].state = "Active" => Position(r, moved) # 0
          BY <1>2, <1>8, <1>9, LiveFacts
        <5> QED BY <1>12, <3>2, <4>2, <5>1, <5>2, <5>3, <5>4 DEF Keyed
      <4> QED BY <4>1, <4>2
    <3> QED BY <2>3, <3>2, <3>3, <3>4 DEF SameSlots
  <2> QED BY <2>1, <2>2, <2>3
<1> QED BY <1>5, <1>6, <1>8, <1>13 DEF SameIndex, Emptied, Without, q

\* And the voice is not deferred any more.
Dropped(p, q, h, popped, E, S, T, D, X) ==
    Without(p, q, h, popped, E, S, T, D, X) /\ q.deferred = p.deferred \ {h}

\* RetireVoice and RetireStolenSibling: the slot is free, and the voice that took
\* its position has its new steal key.
LEMMA DropFacts ==
    ASSUME NEW p, NEW E, NEW S, NEW T, Body(p, E, S, T), NEW h \in Live(p),
           NEW popped, NEW D, NEW X, Keyed(p, D \union {h}, X), p.deferred \subseteq D \union {h},
           popped # NoVoice => popped \in D
    PROVE  Dropped(p, Drop(p, h, popped), h, popped, E, S, T, D, X)
<1> DEFINE a == Unindex(p, h)
           b == Unlink(a, h)
           c == Vacate(b, h, popped)
           q == [c EXCEPT !.deferred = @ \ {h}]
<1>1. p \in Pools /\ Shape(p) /\ h \in Handles /\ p.voice[h].state # "Free"
  BY LiveFacts DEF Body
<1>2. Drop(p, h, popped) = q
  BY <1>1 DEF Drop
<1>3. /\ a \in Pools /\ SameSlots(p, a) /\ a.valid = p.valid /\ a.leaf[h] = 0
      /\ Keyed(a, D, X \union AnyPlace(h)) /\ h \notin a.volatile
      /\ a.volatile \subseteq p.volatile
  <2>1. a.volatile = p.volatile \ {h}
    BY <1>1 DEF Unindex, Pools
  <2>2. Keyed(a, D \union {h}, X)
    BY <1>1, UnindexFacts
  <2>3. a.leaf[h] = 0 /\ a.valid = p.valid
    BY <1>1, UnindexFacts
  <2>4. Keyed(a, D, X \union AnyPlace(h))
    <3> HIDE DEF a
    <3>1. \A g : Position(a, g) \in Nat
      <4>1. a \in Pools
        BY <1>1, UnindexFacts DEF a
      <4> QED BY <4>1, PositionNat
    <3>2. \A g, i : <<g, i>> \in X \union AnyPlace(h) <=> <<g, i>> \in X \/ (g = h /\ i \in Nat)
      BY AnyFacts
    <3> QED BY <2>2, <2>3, <3>1, <3>2 DEF Keyed
  <2> QED BY <1>1, <2>1, <2>4, UnindexFacts
<1> HIDE DEF a
<1>4. Body(a, E, S, T)
  BY <1>3, BodySame
<1>5. /\ Body(b, E \union {h}, S, T) /\ SameIndex(a, b) /\ b.voice = a.voice
      /\ b.active = a.active /\ b.limit = a.limit /\ b.deferred = a.deferred
      /\ \A k \in Keys : h \notin ToSet(b.chain[k])
  BY <1>1, <1>4, UnlinkFacts
<1> HIDE DEF b
<1>6. Keyed(b, D, X \union AnyPlace(h))
  BY <1>3, <1>5, KeyedSame DEF SameIndex
<1>7. h \in Live(b)
  BY <1>1, <1>3, <1>5 DEF SameSlots, Live, In
<1>8. b.leaf[h] = 0 /\ h \notin b.volatile /\ b.deferred \subseteq D \union {h}
  BY <1>3, <1>5 DEF SameIndex, SameSlots
<1>9. /\ Body(c, E, S, T) /\ Keyed(c, D, X) /\ c.deferred \ {h} = b.deferred \ {h} /\ c.limit = b.limit
      /\ popped \in c.volatile => popped \in b.volatile
      /\ c.valid = b.valid /\ \A g \in Handles \ {h} : c.voice[g] = b.voice[g]
      /\ Emptied(b.voice[h], c.voice[h])
  <2> HIDE DEF q
  <2>1. /\ Body(b, E \union {h}, S, T) /\ h \in Live(b) /\ Keyed(b, D, X \union AnyPlace(h))
        /\ \A k \in Keys : h \notin ToSet(b.chain[k])
        /\ b.leaf[h] = 0 /\ h \notin b.volatile /\ b.deferred \subseteq D \union {h}
        /\ popped # NoVoice => popped \in D
    BY <1>5, <1>6, <1>7, <1>8
  <2>2. Without(b, c, h, popped, E, S, T, D, X)
    BY <2>1, VacateFacts
  <2> QED BY <2>2 DEF Without
<1> HIDE DEF c
<1>10. /\ q \in Pools /\ q.voice = c.voice /\ q.chain = c.chain /\ q.active = c.active
       /\ q.free = c.free /\ q.limit = c.limit /\ q.deferred = c.deferred \ {h}
       /\ SameIndex(c, q)
  BY <1>9 DEF Body, Pools, SameIndex
<1> HIDE DEF q
<1>11. Body(q, E, S, T)
  BY <1>9, <1>10 DEF Body, Shape, Chained, Kept, Pedals, In, Live, Waits
<1>12. Keyed(q, D, X)
  BY <1>9, <1>10, KeyedSame DEF SameIndex
<1> QED BY <1>2, <1>3, <1>5, <1>9, <1>10, <1>11, <1>12 DEF SameSlots, SameIndex, Without, Dropped

\* A pool that gave up a slot has not grown.
LEMMA DroppedGrown ==
    ASSUME NEW p \in Pools, Shape(p), NEW q, NEW h \in Handles, NEW popped, NEW E, NEW S, NEW T,
           NEW D, NEW X, Dropped(p, q, h, popped, E, S, T, D, X)
    PROVE  Grown(p, q)
<1>1. /\ q \in Pools /\ Shape(q) /\ q.limit = p.limit /\ q.voice[h].state = "Free"
      /\ \A g \in Handles \ {h} : q.voice[g] = p.voice[g]
  BY DEF Dropped, Without, Body, Emptied
<1>2. Live(q) \subseteq Live(p)
  BY <1>1 DEF Live, In
<1> QED BY <1>1, <1>2, Shrunk

-----------------------------------------------------------------------------
(* The loops of a launch.                                                 *)

\* The loops of the model, each with its step.
SiblingsGone(p, s, victim) == Along(LAMBDA r, h : RetireStolenSibling(r, h, victim), p, s)
CommitStep(q, h) == Index([q EXCEPT !.deferred = @ \ {h}], h)
ReplaceStep(q, h, key) == Prepare(Unlink(Unindex(q, h), h), h, key)
RollStep(q, h) == IF h = NoVoice THEN q ELSE RetireVoice(q, h)
ServeStep(q, h, down) ==
    IF down \/ "sostenuto" \in q.voice[h].held
    THEN Unlink(Hold(q, h, IF down THEN {"sustain"} ELSE {}), h)
    ELSE Release(q, h)

Committed(p, s) == Along(LAMBDA q, h : Index([q EXCEPT !.deferred = @ \ {h}], h), p, s)
Replaced(p, s, key) == Along(LAMBDA q, h : Prepare(Unlink(Unindex(q, h), h), h, key), p, s)
Rolled(p, s) == Along(LAMBDA q, h : IF h = NoVoice THEN q ELSE RetireVoice(q, h), p, s)
Refreshed(p, s) == Along(Refresh, p, s)
ServedOver(p, s, down) ==
    Along(LAMBDA q, h :
             IF down \/ "sostenuto" \in q.voice[h].held
             THEN Unlink(Hold(q, h, IF down THEN {"sustain"} ELSE {}), h)
             ELSE Release(q, h), p, s)

\* The loops of the model, one lemma for each: when every step from W[i - 1] leads to
\* W[i], the loop ends in W[n].  Here the siblings of a victim.
LEMMA SiblingsAlong ==
    ASSUME NEW victim, NEW n \in Nat, NEW s, Len(s) = n, NEW W, NEW x \in W[0],
           \A i \in 1 .. n : \A q \in W[i - 1] : RetireStolenSibling(q, s[i], victim) \in W[i]
    PROVE  SiblingsGone(x, s, victim) \in W[n]
<1> DEFINE after == CHOOSE after : after = [i \in 0 .. Len(s) |->
                       IF i = 0 THEN x ELSE RetireStolenSibling(after[i - 1], s[i], victim)]
           U == UNION {W[i] : i \in 0 .. n}
           G == [z \in U \X (1 .. n) |-> RetireStolenSibling(z[1], s[z[2]], victim)]
<1>1. SiblingsGone(x, s, victim) = after[n]
  BY DEF SiblingsGone, Along
<1>2. \A i \in 1 .. n : i - 1 \in 0 .. n
  OBVIOUS
<1>3. \A i \in 1 .. n : \A q \in W[i - 1] : q \in U
  BY <1>2
<1> HIDE DEF U
<1>4. \A i \in 1 .. n : \A q \in W[i - 1] : G[<<q, i>>] = RetireStolenSibling(q, s[i], victim)
  BY <1>3
<1> HIDE DEF G
<1>5. \A i \in 1 .. n : \A q \in W[i - 1] : G[<<q, i>>] \in W[i]
  BY <1>4
<1>6. PICK f : /\ f = [i \in 0 .. n |-> f[i]]
               /\ f[0] = x
               /\ \A i \in 0 .. n : f[i] \in W[i]
               /\ \A i \in 1 .. n : f[i] = G[<<f[i - 1], i>>]
  <2>1. Loops(n, W, x, G)
    BY <1>5, LoopExists
  <2> QED BY <2>1 DEF Loops
<1>7. f = [i \in 0 .. n |-> IF i = 0 THEN x ELSE RetireStolenSibling(f[i - 1], s[i], victim)]
  <2>1. \A i \in 0 .. n : i # 0 => i \in 1 .. n /\ f[i - 1] \in W[i - 1]
    BY <1>2, <1>6
  <2>2. \A i \in 0 .. n : f[i] = IF i = 0 THEN x ELSE RetireStolenSibling(f[i - 1], s[i], victim)
    BY <1>4, <1>6, <2>1
  <2> QED BY <1>6, <2>2
<1>8. after = [i \in 0 .. n |-> IF i = 0 THEN x ELSE RetireStolenSibling(after[i - 1], s[i], victim)]
  BY <1>7
<1> HIDE DEF after
<1>9. after[0] = x /\ \A i \in 1 .. n : after[i] = RetireStolenSibling(after[i - 1], s[i], victim)
  BY <1>8
<1>10. \A i \in 0 .. n : after[i] \in W[i]
  BY <1>9, Rising
<1> QED BY <1>1, <1>10

\* CommitVoiceGroupConfigurations over the layers.
LEMMA CommitAlong ==
    ASSUME NEW n \in Nat, NEW s, Len(s) = n, NEW W, NEW x \in W[0],
           \A i \in 1 .. n : \A q \in W[i - 1] : CommitStep(q, s[i]) \in W[i]
    PROVE  Committed(x, s) \in W[n]
<1> DEFINE after == CHOOSE after : after = [i \in 0 .. Len(s) |->
                       IF i = 0 THEN x ELSE CommitStep(after[i - 1], s[i])]
           U == UNION {W[i] : i \in 0 .. n}
           G == [z \in U \X (1 .. n) |-> CommitStep(z[1], s[z[2]])]
<1>1. Committed(x, s) = after[n]
  BY DEF Committed, Along, CommitStep
<1>2. \A i \in 1 .. n : i - 1 \in 0 .. n
  OBVIOUS
<1>3. \A i \in 1 .. n : \A q \in W[i - 1] : q \in U
  BY <1>2
<1> HIDE DEF U
<1>4. \A i \in 1 .. n : \A q \in W[i - 1] : G[<<q, i>>] = CommitStep(q, s[i])
  BY <1>3
<1> HIDE DEF G
<1>5. \A i \in 1 .. n : \A q \in W[i - 1] : G[<<q, i>>] \in W[i]
  BY <1>4
<1>6. PICK f : /\ f = [i \in 0 .. n |-> f[i]]
               /\ f[0] = x
               /\ \A i \in 0 .. n : f[i] \in W[i]
               /\ \A i \in 1 .. n : f[i] = G[<<f[i - 1], i>>]
  <2>1. Loops(n, W, x, G)
    BY <1>5, LoopExists
  <2> QED BY <2>1 DEF Loops
<1>7. f = [i \in 0 .. n |-> IF i = 0 THEN x ELSE CommitStep(f[i - 1], s[i])]
  <2>1. \A i \in 0 .. n : i # 0 => i \in 1 .. n /\ f[i - 1] \in W[i - 1]
    BY <1>2, <1>6
  <2>2. \A i \in 0 .. n : f[i] = IF i = 0 THEN x ELSE CommitStep(f[i - 1], s[i])
    BY <1>4, <1>6, <2>1
  <2> QED BY <1>6, <2>2
<1>8. after = [i \in 0 .. n |-> IF i = 0 THEN x ELSE CommitStep(after[i - 1], s[i])]
  BY <1>7
<1> HIDE DEF after
<1>9. after[0] = x /\ \A i \in 1 .. n : after[i] = CommitStep(after[i - 1], s[i])
  BY <1>8
<1>10. \A i \in 0 .. n : after[i] \in W[i]
  BY <1>9, Rising
<1> QED BY <1>1, <1>10

\* ReplaceGroupInPlace over the slots.
LEMMA ReplaceAlong ==
    ASSUME NEW key, NEW n \in Nat, NEW s, Len(s) = n, NEW W, NEW x \in W[0],
           \A i \in 1 .. n : \A q \in W[i - 1] : ReplaceStep(q, s[i], key) \in W[i]
    PROVE  Replaced(x, s, key) \in W[n]
<1> DEFINE after == CHOOSE after : after = [i \in 0 .. Len(s) |->
                       IF i = 0 THEN x ELSE ReplaceStep(after[i - 1], s[i], key)]
           U == UNION {W[i] : i \in 0 .. n}
           G == [z \in U \X (1 .. n) |-> ReplaceStep(z[1], s[z[2]], key)]
<1>1. Replaced(x, s, key) = after[n]
  BY DEF Replaced, Along, ReplaceStep
<1>2. \A i \in 1 .. n : i - 1 \in 0 .. n
  OBVIOUS
<1>3. \A i \in 1 .. n : \A q \in W[i - 1] : q \in U
  BY <1>2
<1> HIDE DEF U
<1>4. \A i \in 1 .. n : \A q \in W[i - 1] : G[<<q, i>>] = ReplaceStep(q, s[i], key)
  BY <1>3
<1> HIDE DEF G
<1>5. \A i \in 1 .. n : \A q \in W[i - 1] : G[<<q, i>>] \in W[i]
  BY <1>4
<1>6. PICK f : /\ f = [i \in 0 .. n |-> f[i]]
               /\ f[0] = x
               /\ \A i \in 0 .. n : f[i] \in W[i]
               /\ \A i \in 1 .. n : f[i] = G[<<f[i - 1], i>>]
  <2>1. Loops(n, W, x, G)
    BY <1>5, LoopExists
  <2> QED BY <2>1 DEF Loops
<1>7. f = [i \in 0 .. n |-> IF i = 0 THEN x ELSE ReplaceStep(f[i - 1], s[i], key)]
  <2>1. \A i \in 0 .. n : i # 0 => i \in 1 .. n /\ f[i - 1] \in W[i - 1]
    BY <1>2, <1>6
  <2>2. \A i \in 0 .. n : f[i] = IF i = 0 THEN x ELSE ReplaceStep(f[i - 1], s[i], key)
    BY <1>4, <1>6, <2>1
  <2> QED BY <1>6, <2>2
<1>8. after = [i \in 0 .. n |-> IF i = 0 THEN x ELSE ReplaceStep(after[i - 1], s[i], key)]
  BY <1>7
<1> HIDE DEF after
<1>9. after[0] = x /\ \A i \in 1 .. n : after[i] = ReplaceStep(after[i - 1], s[i], key)
  BY <1>8
<1>10. \A i \in 0 .. n : after[i] \in W[i]
  BY <1>9, Rising
<1> QED BY <1>1, <1>10

\* The roll-back of a launch over its handles.
LEMMA RollAlong ==
    ASSUME NEW n \in Nat, NEW s, Len(s) = n, NEW W, NEW x \in W[0],
           \A i \in 1 .. n : \A q \in W[i - 1] : RollStep(q, s[i]) \in W[i]
    PROVE  Rolled(x, s) \in W[n]
<1> DEFINE after == CHOOSE after : after = [i \in 0 .. Len(s) |->
                       IF i = 0 THEN x ELSE RollStep(after[i - 1], s[i])]
           U == UNION {W[i] : i \in 0 .. n}
           G == [z \in U \X (1 .. n) |-> RollStep(z[1], s[z[2]])]
<1>1. Rolled(x, s) = after[n]
  BY DEF Rolled, Along, RollStep
<1>2. \A i \in 1 .. n : i - 1 \in 0 .. n
  OBVIOUS
<1>3. \A i \in 1 .. n : \A q \in W[i - 1] : q \in U
  BY <1>2
<1> HIDE DEF U
<1>4. \A i \in 1 .. n : \A q \in W[i - 1] : G[<<q, i>>] = RollStep(q, s[i])
  BY <1>3
<1> HIDE DEF G
<1>5. \A i \in 1 .. n : \A q \in W[i - 1] : G[<<q, i>>] \in W[i]
  BY <1>4
<1>6. PICK f : /\ f = [i \in 0 .. n |-> f[i]]
               /\ f[0] = x
               /\ \A i \in 0 .. n : f[i] \in W[i]
               /\ \A i \in 1 .. n : f[i] = G[<<f[i - 1], i>>]
  <2>1. Loops(n, W, x, G)
    BY <1>5, LoopExists
  <2> QED BY <2>1 DEF Loops
<1>7. f = [i \in 0 .. n |-> IF i = 0 THEN x ELSE RollStep(f[i - 1], s[i])]
  <2>1. \A i \in 0 .. n : i # 0 => i \in 1 .. n /\ f[i - 1] \in W[i - 1]
    BY <1>2, <1>6
  <2>2. \A i \in 0 .. n : f[i] = IF i = 0 THEN x ELSE RollStep(f[i - 1], s[i])
    BY <1>4, <1>6, <2>1
  <2> QED BY <1>6, <2>2
<1>8. after = [i \in 0 .. n |-> IF i = 0 THEN x ELSE RollStep(after[i - 1], s[i])]
  BY <1>7
<1> HIDE DEF after
<1>9. after[0] = x /\ \A i \in 1 .. n : after[i] = RollStep(after[i - 1], s[i])
  BY <1>8
<1>10. \A i \in 0 .. n : after[i] \in W[i]
  BY <1>9, Rising
<1> QED BY <1>1, <1>10

\* UpdateStealCandidate over the sources of a twin.
LEMMA RefreshAlong ==
    ASSUME NEW n \in Nat, NEW s, Len(s) = n, NEW W, NEW x \in W[0],
           \A i \in 1 .. n : \A q \in W[i - 1] : Refresh(q, s[i]) \in W[i]
    PROVE  Refreshed(x, s) \in W[n]
<1> DEFINE after == CHOOSE after : after = [i \in 0 .. Len(s) |->
                       IF i = 0 THEN x ELSE Refresh(after[i - 1], s[i])]
           U == UNION {W[i] : i \in 0 .. n}
           G == [z \in U \X (1 .. n) |-> Refresh(z[1], s[z[2]])]
<1>1. Refreshed(x, s) = after[n]
  BY DEF Refreshed, Along
<1>2. \A i \in 1 .. n : i - 1 \in 0 .. n
  OBVIOUS
<1>3. \A i \in 1 .. n : \A q \in W[i - 1] : q \in U
  BY <1>2
<1> HIDE DEF U
<1>4. \A i \in 1 .. n : \A q \in W[i - 1] : G[<<q, i>>] = Refresh(q, s[i])
  BY <1>3
<1> HIDE DEF G
<1>5. \A i \in 1 .. n : \A q \in W[i - 1] : G[<<q, i>>] \in W[i]
  BY <1>4
<1>6. PICK f : /\ f = [i \in 0 .. n |-> f[i]]
               /\ f[0] = x
               /\ \A i \in 0 .. n : f[i] \in W[i]
               /\ \A i \in 1 .. n : f[i] = G[<<f[i - 1], i>>]
  <2>1. Loops(n, W, x, G)
    BY <1>5, LoopExists
  <2> QED BY <2>1 DEF Loops
<1>7. f = [i \in 0 .. n |-> IF i = 0 THEN x ELSE Refresh(f[i - 1], s[i])]
  <2>1. \A i \in 0 .. n : i # 0 => i \in 1 .. n /\ f[i - 1] \in W[i - 1]
    BY <1>2, <1>6
  <2>2. \A i \in 0 .. n : f[i] = IF i = 0 THEN x ELSE Refresh(f[i - 1], s[i])
    BY <1>4, <1>6, <2>1
  <2> QED BY <1>6, <2>2
<1>8. after = [i \in 0 .. n |-> IF i = 0 THEN x ELSE Refresh(after[i - 1], s[i])]
  BY <1>7
<1> HIDE DEF after
<1>9. after[0] = x /\ \A i \in 1 .. n : after[i] = Refresh(after[i - 1], s[i])
  BY <1>8
<1>10. \A i \in 0 .. n : after[i] \in W[i]
  BY <1>9, Rising
<1> QED BY <1>1, <1>10

\* NoteOffPlayIndex over the layers of a note.
LEMMA ServeAlong ==
    ASSUME NEW down, NEW n \in Nat, NEW s, Len(s) = n, NEW W, NEW x \in W[0],
           \A i \in 1 .. n : \A q \in W[i - 1] : ServeStep(q, s[i], down) \in W[i]
    PROVE  ServedOver(x, s, down) \in W[n]
<1> DEFINE after == CHOOSE after : after = [i \in 0 .. Len(s) |->
                       IF i = 0 THEN x ELSE ServeStep(after[i - 1], s[i], down)]
           U == UNION {W[i] : i \in 0 .. n}
           G == [z \in U \X (1 .. n) |-> ServeStep(z[1], s[z[2]], down)]
<1>1. ServedOver(x, s, down) = after[n]
  BY DEF ServedOver, Along, ServeStep
<1>2. \A i \in 1 .. n : i - 1 \in 0 .. n
  OBVIOUS
<1>3. \A i \in 1 .. n : \A q \in W[i - 1] : q \in U
  BY <1>2
<1> HIDE DEF U
<1>4. \A i \in 1 .. n : \A q \in W[i - 1] : G[<<q, i>>] = ServeStep(q, s[i], down)
  BY <1>3
<1> HIDE DEF G
<1>5. \A i \in 1 .. n : \A q \in W[i - 1] : G[<<q, i>>] \in W[i]
  BY <1>4
<1>6. PICK f : /\ f = [i \in 0 .. n |-> f[i]]
               /\ f[0] = x
               /\ \A i \in 0 .. n : f[i] \in W[i]
               /\ \A i \in 1 .. n : f[i] = G[<<f[i - 1], i>>]
  <2>1. Loops(n, W, x, G)
    BY <1>5, LoopExists
  <2> QED BY <2>1 DEF Loops
<1>7. f = [i \in 0 .. n |-> IF i = 0 THEN x ELSE ServeStep(f[i - 1], s[i], down)]
  <2>1. \A i \in 0 .. n : i # 0 => i \in 1 .. n /\ f[i - 1] \in W[i - 1]
    BY <1>2, <1>6
  <2>2. \A i \in 0 .. n : f[i] = IF i = 0 THEN x ELSE ServeStep(f[i - 1], s[i], down)
    BY <1>4, <1>6, <2>1
  <2> QED BY <1>6, <2>2
<1>8. after = [i \in 0 .. n |-> IF i = 0 THEN x ELSE ServeStep(after[i - 1], s[i], down)]
  BY <1>7
<1> HIDE DEF after
<1>9. after[0] = x /\ \A i \in 1 .. n : after[i] = ServeStep(after[i - 1], s[i], down)
  BY <1>8
<1>10. \A i \in 0 .. n : after[i] \in W[i]
  BY <1>9, Rising
<1> QED BY <1>1, <1>10

-----------------------------------------------------------------------------
(* Slots for a launch.                                                    *)

\* The row of a voice that was given a slot and is not configured yet.
Newborn(v, key) ==
    v.state = "Active" /\ v.key = key /\ v.play = NoPlay /\ v.held = {}

\* A pool in which h got a newborn voice.
Born(p, q, h, key, E, S, T) ==
    /\ Body(q, E, S, T)
    /\ q.deferred = p.deferred \union {h} /\ q.limit = p.limit /\ SameIndex(p, q)
    /\ q.active = p.active
    /\ Newborn(q.voice[h], key)
    /\ \A g \in Handles \ {h} : q.voice[g] = p.voice[g]

\* InitializePreparedVoice on a slot that is in no list but the active one.
LEMMA PrepareFacts ==
    ASSUME NEW p \in Pools, NEW E, NEW S, NEW T, NEW h \in Handles, NEW key \in Keys,
           Chained(p), Kept(p, E \union {h}), Pedals(p, S, T), Distinct(p.active),
           ToSet(p.active) = Live(p) \union {h}, p.free = In(p, "Free") \ {h},
           \A k \in Keys : h \notin ToSet(p.chain[k])
    PROVE  Born(p, Prepare(p, h, key), h, key, E, S, T)
<1> DEFINE v == [state |-> "Active", key |-> key, play |-> NoPlay,
                 mult |-> 1, class |-> NoClass, held |-> {}]
           voice == [p.voice EXCEPT ![h] = v]
           chain == [p.chain EXCEPT ![key] = <<h>> \o p.chain[key]]
           q == Prepare(p, h, key)
<1>1. v \in VoiceType /\ Newborn(v, key)
  BY DEF VoiceType, NoPlay, NoClass, Newborn
<1> HIDE DEF v
<1>2. /\ voice \in [Handles -> VoiceType] /\ voice[h] = v
      /\ \A g \in Handles \ {h} : voice[g] = p.voice[g]
  BY <1>1 DEF Pools
<1>3. /\ <<h>> \o p.chain[key] \in Seq(Handles) /\ Distinct(<<h>> \o p.chain[key])
      /\ ToSet(<<h>> \o p.chain[key]) = ToSet(p.chain[key]) \union {h}
  BY ConsFacts, ChainMembers DEF Chained
<1>4. /\ chain \in [Keys -> Seq(Handles)] /\ chain[key] = <<h>> \o p.chain[key]
      /\ \A k \in Keys \ {key} : chain[k] = p.chain[k]
  <2>1. p.chain \in [Keys -> Seq(Handles)]
    BY DEF Pools
  <2> QED BY <1>3, <2>1
<1>5. q = [p EXCEPT !.voice = voice, !.chain = chain, !.deferred = p.deferred \union {h}]
  BY DEF Prepare, v
<1> HIDE DEF q, voice, chain
<1>6. /\ q \in Pools /\ q.voice = voice /\ q.chain = chain /\ q.active = p.active
      /\ q.free = p.free /\ q.limit = p.limit /\ q.deferred = p.deferred \union {h}
      /\ SameIndex(p, q)
  BY <1>2, <1>4, <1>5 DEF Pools, SameIndex
<1>7. Shape(q)
  <2>1. In(q, "Free") = In(p, "Free") \ {h}
    BY <1>1, <1>2, <1>6 DEF In, Newborn
  <2> QED BY <1>6, <2>1 DEF Shape, Live
<1>8. Chained(q)
  <2> SUFFICES ASSUME NEW k \in Keys
               PROVE  /\ Distinct(q.chain[k])
                      /\ \A g \in ToSet(q.chain[k]) :
                            q.voice[g].state = "Active" /\ q.voice[g].key = k
    BY DEF Chained
  <2>1. ToSet(p.chain[k]) \subseteq Handles \ {h}
    BY ChainMembers
  <2>2. /\ Distinct(p.chain[k])
        /\ \A g \in ToSet(p.chain[k]) : q.voice[g].state = "Active" /\ q.voice[g].key = k
    BY <1>2, <1>6, <2>1 DEF Chained
  <2>3. CASE k = key
    BY <1>1, <1>2, <1>3, <1>4, <1>6, <2>2, <2>3 DEF Newborn
  <2>4. CASE k # key
    BY <1>4, <1>6, <2>2, <2>4
  <2> QED BY <2>3, <2>4
<1>9. Kept(q, E)
  <2> SUFFICES ASSUME NEW g \in Handles \ E, q.voice[g].state = "Active"
               PROVE  Waits(q, g) \/ q.voice[g].held # {}
    BY DEF Kept
  <2>1. CASE g = h
    BY <1>1, <1>2, <1>3, <1>4, <1>6, <2>1, WaitsIs DEF Newborn
  <2>2. CASE g # h
    <3>1. q.voice[g] = p.voice[g]
      BY <1>2, <1>6, <2>2
    <3>2. Waits(p, g) \/ p.voice[g].held # {}
      BY <2>2, <3>1 DEF Kept
    <3>3. Waits(p, g) => Waits(q, g)
      <4>1. p.voice[g].key \in Keys
        BY KeyOf
      <4>2. \A k \in Keys : ToSet(p.chain[k]) \subseteq ToSet(q.chain[k])
        BY <1>3, <1>4, <1>6
      <4> QED BY <1>6, <3>1, <4>1, <4>2, WaitsIs
    <3> QED BY <3>1, <3>2, <3>3
  <2> QED BY <2>1, <2>2
<1>10. Pedals(q, S, T)
  BY <1>1, <1>2, <1>6 DEF Pedals, Newborn
<1> QED BY <1>1, <1>2, <1>6, <1>7, <1>8, <1>9, <1>10 DEF Born, Body, q

\* Between the layers of a launch: the newborn voices are deferred.
Launching(p, S, T, X) ==
    /\ Body(p, {}, S, T) /\ Keyed(p, p.deferred, X)
    /\ \A h \in p.deferred : p.voice[h].state = "Active" /\ p.voice[h].play = NoPlay

\* What a layer's slot leaves: p before, r.pool after.
Allocated(p, r, key, S, T, X) ==
    /\ Launching(r.pool, S, T, X) /\ Grown(p, r.pool)
    /\ p.valid => r.pool.valid
    /\ r.handle \in Handles \union {NoVoice}
    /\ r.handle = NoVoice => r.pool.deferred = p.deferred /\ r.pool.voice = p.voice
    /\ r.handle # NoVoice =>
          /\ r.pool.deferred = p.deferred \union {r.handle}
          /\ Newborn(r.pool.voice[r.handle], key)
          /\ \A g \in Handles \ {r.handle} :
                r.pool.voice[g] = p.voice[g] \/ Emptied(p.voice[g], r.pool.voice[g])

\* AllocateVoiceOrSteal from the free stack.
LEMMA TakeFreeFacts ==
    ASSUME NEW p, NEW S, NEW T, NEW X, Launching(p, S, T, X), NEW key \in Keys,
           HasRoom(p), NEW r \in TakeFree(p, key)
    PROVE  Allocated(p, r, key, S, T, X) /\ r.handle # NoVoice
<1>1. p \in Pools /\ Shape(p)
  BY DEF Launching, Body
<1>2. PICK h \in p.free :
         r = [pool |-> Prepare([p EXCEPT !.free = @ \ {h}, !.active = Append(@, h)], h, key),
              handle |-> h]
  BY DEF TakeFree
<1> DEFINE q == [p EXCEPT !.free = @ \ {h}, !.active = Append(@, h)]
           w == Prepare(q, h, key)
<1>3. /\ h \in Handles /\ p.voice[h].state = "Free" /\ h \notin Live(p) /\ h # NoVoice
  BY <1>1, HandlesAssumption DEF Shape, In, Live
<1>4. /\ p.active \in Seq(Handles) /\ ToSet(p.active) = Live(p) /\ Distinct(p.active)
  BY <1>1 DEF Pools, Shape
<1>5. /\ Append(p.active, h) \in Seq(Handles)
      /\ Len(Append(p.active, h)) = Len(p.active) + 1
      /\ \A i \in 1 .. Len(p.active) : Append(p.active, h)[i] = p.active[i]
      /\ ToSet(Append(p.active, h)) = Live(p) \union {h}
      /\ Distinct(Append(p.active, h))
  BY <1>3, <1>4, AppendFacts
<1>6. /\ q \in Pools /\ q.voice = p.voice /\ q.chain = p.chain /\ q.active = Append(p.active, h)
      /\ q.free = p.free \ {h} /\ q.limit = p.limit /\ q.deferred = p.deferred
      /\ SameIndex(p, q)
  BY <1>1, <1>5 DEF Pools, SameIndex
<1> HIDE DEF q
<1>7. /\ Chained(q) /\ Kept(q, {} \union {h}) /\ Pedals(q, S, T)
      /\ Distinct(q.active) /\ ToSet(q.active) = Live(q) \union {h}
      /\ q.free = In(q, "Free") \ {h}
  BY <1>1, <1>5, <1>6 DEF Launching, Body, Chained, Kept, Pedals, Shape, In, Live, Waits
<1>8. \A k \in Keys : h \notin ToSet(q.chain[k])
  BY <1>3, <1>6 DEF Launching, Body, Chained
<1>9. Born(q, w, h, key, {}, S, T) /\ w.active = q.active
  <2>1. Born(q, w, h, key, {}, S, T)
    BY <1>3, <1>6, <1>7, <1>8, PrepareFacts
  <2> QED BY <2>1 DEF Born
<1> HIDE DEF w
<1>10. \A g \in Handles \ {h} : Position(w, g) = Position(p, g)
  <2> SUFFICES ASSUME NEW g \in Handles \ {h} PROVE Position(w, g) = Position(p, g)
    OBVIOUS
  <2>0. w \in Pools /\ Shape(w) /\ ToSet(w.active) = Live(p) \union {h} /\ Distinct(w.active)
    BY <1>5, <1>6, <1>9 DEF Born, Body
  <2>1. CASE g \in Live(p)
    <3>1. Position(p, g) \in 1 .. Len(p.active) /\ p.active[Position(p, g)] = g
      BY <1>1, <2>1, LiveFacts
    <3>2. Position(p, g) \in 1 .. Len(w.active) /\ w.active[Position(p, g)] = g
      BY <1>4, <1>5, <1>6, <1>9, <3>1
    <3> QED BY <2>0, <3>2, PositionFacts
  <2>2. CASE g \notin Live(p)
    <3>1. g \notin ToSet(w.active)
      BY <2>0, <2>2
    <3> QED BY <1>1, <1>4, <2>0, <2>2, <3>1, PositionFacts
  <2> QED BY <2>1, <2>2
<1>11. Keyed(w, w.deferred, X)
  <2>1. Keyed(p, p.deferred, X)
    BY DEF Launching
  <2>2. /\ w.deferred = p.deferred \union {h} /\ w.leaf = p.leaf /\ w.volatile = p.volatile
        /\ w.valid = p.valid /\ \A g \in Handles \ {h} : w.voice[g] = p.voice[g]
    BY <1>6, <1>9 DEF Born, SameIndex
  <2>3. p.valid => p.volatile \subseteq In(w, "Releasing")
    BY <1>3, <2>1, <2>2 DEF Keyed, In
  <2> QED BY <1>10, <2>1, <2>2, <2>3 DEF Keyed
<1>12. r.pool = w /\ r.handle = h
  BY <1>2 DEF w, q
<1>13. Launching(w, S, T, X)
  <2>1. \A g \in p.deferred : g # h /\ p.voice[g].state = "Active" /\ p.voice[g].play = NoPlay
    BY <1>3 DEF Launching
  <2>2. \A g \in w.deferred : g = h \/ (g \in p.deferred /\ w.voice[g] = p.voice[g])
    <3>1. w.deferred = p.deferred \union {h} /\ p.deferred \subseteq Handles
      BY <1>1, <1>6, <1>9 DEF Pools, Born
    <3>2. \A g \in Handles \ {h} : w.voice[g] = p.voice[g]
      BY <1>6, <1>9 DEF Born
    <3> SUFFICES ASSUME NEW g \in w.deferred, g # h PROVE g \in p.deferred /\ w.voice[g] = p.voice[g]
      OBVIOUS
    <3>3. g \in p.deferred
      BY <3>1
    <3>4. g \in Handles \ {h}
      BY <3>1, <3>3
    <3> QED BY <3>2, <3>3, <3>4
  <2>3. w.voice[h].state = "Active" /\ w.voice[h].play = NoPlay /\ Body(w, {}, S, T)
    BY <1>9 DEF Born, Newborn
  <2>4. \A g \in w.deferred : w.voice[g].state = "Active" /\ w.voice[g].play = NoPlay
    BY <2>1, <2>2, <2>3
  <2> QED BY <1>11, <2>3, <2>4 DEF Launching
<1>14. Grown(p, w)
  <2>1. Len(w.active) = Len(p.active) + 1 /\ w.limit = p.limit
    BY <1>5, <1>6, <1>9 DEF Born
  <2>2. Len(p.active) < p.limit /\ Len(p.active) \in Nat /\ p.limit \in Nat
    BY <1>1 DEF HasRoom, Pools
  <2> QED BY <2>1, <2>2 DEF Grown
<1> QED BY <1>3, <1>6, <1>9, <1>12, <1>13, <1>14 DEF Allocated, Born, SameIndex

\* The pools the loop over the siblings can reach from p: some of `lost` are free.
Thinned(p, lost, victim, S, T, X) ==
    {q \in Pools :
       /\ Body(q, {}, S, T) /\ Keyed(q, p.deferred \union {victim}, X)
       /\ q.deferred = p.deferred /\ q.limit = p.limit /\ q.valid = p.valid
       /\ \A g \in Handles : \/ q.voice[g] = p.voice[g]
                             \/ g \in lost /\ Emptied(p.voice[g], q.voice[g])
       /\ victim \in q.volatile => victim \in p.volatile}

\* RetireStolenSibling for every sibling, while the victim keeps out of the index.
LEMMA SiblingsFacts ==
    ASSUME NEW p, NEW S, NEW T, NEW X, Body(p, {}, S, T), NEW victim \in Handles,
           Keyed(p, p.deferred \union {victim}, X), NEW s \in Seq(Handles),
           ToSet(s) \intersect (p.deferred \union {victim}) = {}
    PROVE  SiblingsGone(p, s, victim) \in Thinned(p, ToSet(s), victim, S, T, X)
<1> DEFINE U == Thinned(p, ToSet(s), victim, S, T, X)
           n == Len(s)
           W == [i \in 0 .. n |-> U]
<1>1. p \in U
  BY DEF Thinned, Body
<1>2. ASSUME NEW q \in U, NEW h \in ToSet(s)
      PROVE  RetireStolenSibling(q, h, victim) \in U
  <2> DEFINE r == Drop(q, h, victim)
  <2>1. /\ q \in Pools /\ Body(q, {}, S, T) /\ Keyed(q, p.deferred \union {victim}, X)
        /\ q.deferred = p.deferred /\ q.limit = p.limit /\ q.valid = p.valid
        /\ \A g \in Handles : \/ q.voice[g] = p.voice[g]
                              \/ g \in ToSet(s) /\ Emptied(p.voice[g], q.voice[g])
        /\ victim \in q.volatile => victim \in p.volatile
    BY <1>2 DEF Thinned
  <2>2. h \in Handles /\ h \notin p.deferred /\ h # victim
    BY <1>2, InToSet
  <2>3. CASE q.voice[h].state = "Free"
    <3>1. r = q
      BY <2>3 DEF Drop
    <3> QED BY <3>1 DEF RetireStolenSibling
  <2>4. CASE q.voice[h].state # "Free"
    <3>1. h \in Live(q)
      BY <2>1, <2>2, <2>4, LiveFacts DEF Body
    <3>2. Dropped(q, r, h, victim, {}, S, T, p.deferred \union {victim}, X)
      <4>1. Keyed(q, (p.deferred \union {victim}) \union {h}, X)
        BY <2>1, KeyedMore
      <4> QED BY <2>1, <3>1, <4>1, DropFacts
    <3> HIDE DEF r
    <3>3. \A g \in Handles : \/ r.voice[g] = p.voice[g]
                             \/ g \in ToSet(s) /\ Emptied(p.voice[g], r.voice[g])
      <4> SUFFICES ASSUME NEW g \in Handles
                   PROVE  \/ r.voice[g] = p.voice[g]
                          \/ g \in ToSet(s) /\ Emptied(p.voice[g], r.voice[g])
        OBVIOUS
      <4>1. CASE g = h
        BY <1>2, <2>1, <3>2, <4>1 DEF Dropped, Without, Emptied
      <4>2. CASE g # h
        BY <2>1, <3>2, <4>2 DEF Dropped, Without
      <4> QED BY <4>1, <4>2
    <3>4. r.deferred = p.deferred
      BY <2>1, <2>2, <3>2 DEF Dropped
    <3>5. r \in U
      BY <2>1, <3>2, <3>3, <3>4 DEF Dropped, Without, Thinned, Body
    <3> QED BY <3>5 DEF r, RetireStolenSibling
  <2> QED BY <2>3, <2>4
<1>3. n \in Nat /\ \A i \in 1 .. n : s[i] \in ToSet(s)
  BY InToSet
<1> HIDE DEF U
<1>4. \A i \in 1 .. n : \A q \in W[i - 1] : RetireStolenSibling(q, s[i], victim) \in W[i]
  <2>1. \A i \in 1 .. n : W[i - 1] = U /\ W[i] = U
    OBVIOUS
  <2> QED BY <1>2, <1>3, <2>1
<1>5. p \in W[0] /\ W[n] = U
  BY <1>1, <1>3
<1> HIDE DEF W
<1>6. SiblingsGone(p, s, victim) \in W[n]
  BY <1>3, <1>4, <1>5, SiblingsAlong
<1> QED BY <1>5, <1>6 DEF U

\* Picked
PickStep(r, h, S) == IF h \in S THEN Append(r, h) ELSE r

\* The loop of Picked.
LEMMA PickAlong ==
    ASSUME NEW S, NEW n \in Nat, NEW s, Len(s) = n, NEW W, NEW x, x = <<>>, x \in W[0],
           \A i \in 1 .. n : \A q \in W[i - 1] : PickStep(q, s[i], S) \in W[i]
    PROVE  Picked(s, S) \in W[n]
<1> DEFINE after == CHOOSE after : after = [i \in 0 .. Len(s) |->
                       IF i = 0 THEN x ELSE PickStep(after[i - 1], s[i], S)]
           U == UNION {W[i] : i \in 0 .. n}
           G == [z \in U \X (1 .. n) |-> PickStep(z[1], s[z[2]], S)]
<1>1. Picked(s, S) = after[n]
  BY DEF Picked, Along, PickStep
<1>2. \A i \in 1 .. n : i - 1 \in 0 .. n
  OBVIOUS
<1>3. \A i \in 1 .. n : \A q \in W[i - 1] : q \in U
  BY <1>2
<1> HIDE DEF U
<1>4. \A i \in 1 .. n : \A q \in W[i - 1] : G[<<q, i>>] = PickStep(q, s[i], S)
  BY <1>3
<1> HIDE DEF G
<1>5. \A i \in 1 .. n : \A q \in W[i - 1] : G[<<q, i>>] \in W[i]
  BY <1>4
<1>6. PICK f : /\ f = [i \in 0 .. n |-> f[i]]
               /\ f[0] = x
               /\ \A i \in 0 .. n : f[i] \in W[i]
               /\ \A i \in 1 .. n : f[i] = G[<<f[i - 1], i>>]
  <2>1. Loops(n, W, x, G)
    BY <1>5, LoopExists
  <2> QED BY <2>1 DEF Loops
<1>7. f = [i \in 0 .. n |-> IF i = 0 THEN x ELSE PickStep(f[i - 1], s[i], S)]
  <2>1. \A i \in 0 .. n : i # 0 => i \in 1 .. n /\ f[i - 1] \in W[i - 1]
    BY <1>2, <1>6
  <2>2. \A i \in 0 .. n : f[i] = IF i = 0 THEN x ELSE PickStep(f[i - 1], s[i], S)
    BY <1>4, <1>6, <2>1
  <2> QED BY <1>6, <2>2
<1>8. after = [i \in 0 .. n |-> IF i = 0 THEN x ELSE PickStep(after[i - 1], s[i], S)]
  BY <1>7
<1> HIDE DEF after
<1>9. after[0] = x /\ \A i \in 1 .. n : after[i] = PickStep(after[i - 1], s[i], S)
  BY <1>8
<1>10. \A i \in 0 .. n : after[i] \in W[i]
  BY <1>9, Rising
<1> QED BY <1>1, <1>10

\* Picked selects the members of a set, all of them.
LEMMA PickedFacts ==
    ASSUME NEW B, NEW s \in Seq(B), NEW S
    PROVE  Picked(s, S) \in Seq(B) /\ ToSet(Picked(s, S)) = ToSet(s) \intersect S
<1> DEFINE n == Len(s)
           W == [i \in 0 .. n |->
                   {r \in Seq(B) : ToSet(r) = {s[j] : j \in 1 .. i} \intersect S}]
<1>1. n \in Nat
  OBVIOUS
<1>2. <<>> \in W[0]
  <2>1. <<>> \in Seq(B) /\ ToSet(<<>>) = {}
    BY DEF ToSet
  <2>2. {s[j] : j \in 1 .. 0} = {}
    OBVIOUS
  <2> QED BY <2>1, <2>2
<1>3. ASSUME NEW i \in 1 .. n, NEW r \in W[i - 1] PROVE PickStep(r, s[i], S) \in W[i]
  <2>1. /\ r \in Seq(B) /\ ToSet(r) = {s[j] : j \in 1 .. (i - 1)} \intersect S
    BY <1>3
  <2>2. s[i] \in B
    OBVIOUS
  <2>3. {s[j] : j \in 1 .. i} = {s[j] : j \in 1 .. (i - 1)} \union {s[i]}
    <3>1. \A j : j \in 1 .. i <=> j \in 1 .. (i - 1) \/ j = i
      OBVIOUS
    <3> QED BY <3>1
  <2>4. CASE s[i] \in S
    <3>1. PickStep(r, s[i], S) = Append(r, s[i])
      BY <2>4 DEF PickStep
    <3>2. Append(r, s[i]) \in Seq(B) /\ ToSet(Append(r, s[i])) = ToSet(r) \union {s[i]}
      BY <2>1, <2>2, AppendFacts
    <3>3. ToSet(Append(r, s[i])) = {s[j] : j \in 1 .. i} \intersect S
      <4> DEFINE A == {s[j] : j \in 1 .. (i - 1)}
      <4> HIDE DEF A
      <4>1. ToSet(Append(r, s[i])) = (A \intersect S) \union {s[i]}
        BY <2>1, <3>2 DEF A
      <4>2. {s[j] : j \in 1 .. i} = A \union {s[i]}
        BY <2>3 DEF A
      <4> QED BY <2>4, <4>1, <4>2
    <3>4. W[i] = {t \in Seq(B) : ToSet(t) = {s[j] : j \in 1 .. i} \intersect S}
      OBVIOUS
    <3> HIDE DEF W
    <3> QED BY <3>1, <3>2, <3>3, <3>4
  <2>5. CASE s[i] \notin S
    <3>1. PickStep(r, s[i], S) = r
      BY <2>5 DEF PickStep
    <3>2. ToSet(r) = {s[j] : j \in 1 .. i} \intersect S
      <4> DEFINE A == {s[j] : j \in 1 .. (i - 1)}
      <4> HIDE DEF A
      <4>1. ToSet(r) = A \intersect S
        BY <2>1 DEF A
      <4>2. {s[j] : j \in 1 .. i} = A \union {s[i]}
        BY <2>3 DEF A
      <4> QED BY <2>5, <4>1, <4>2
    <3>3. W[i] = {t \in Seq(B) : ToSet(t) = {s[j] : j \in 1 .. i} \intersect S}
      OBVIOUS
    <3>4. r \in Seq(B)
      BY <2>1
    <3> HIDE DEF W
    <3> QED BY <3>1, <3>2, <3>3, <3>4
  <2> QED BY <2>4, <2>5
<1>4. {s[j] : j \in 1 .. n} = ToSet(s)
  BY DEF ToSet
<1>5. W[n] = {r \in Seq(B) : ToSet(r) = ToSet(s) \intersect S}
  BY <1>1, <1>4
<1> HIDE DEF W
<1>6. Picked(s, S) \in W[n]
  BY <1>1, <1>2, <1>3, PickAlong
<1> QED BY <1>5, <1>6

\* A walk of the active list meets every live voice of the set.
LEMMA InOrderFacts ==
    ASSUME NEW p \in Pools, Shape(p), NEW R
    PROVE  InOrder(p, R) \in Seq(Handles) /\ ToSet(InOrder(p, R)) = Live(p) \intersect R
BY PickedFacts DEF InOrder, Shape, Pools

\* Groups and the live voices depend on the rows and lists alone.
LEMMA ShapeSame ==
    ASSUME NEW p, NEW q, SameSlots(p, q)
    PROVE  /\ Live(q) = Live(p) /\ \A t : In(q, t) = In(p, t)
           /\ Shape(p) => Shape(q)
           /\ \A h : Group(q, h) = Group(p, h)
BY DEF SameSlots, Shape, Live, In, Group

\* A selection the launch can act on.
Fits(p, r, X) ==
    /\ Popped(p, r, p.deferred, X)
    /\ r.victim # NoVoice => r.victim \notin r.pool.volatile

\* AllocateVoiceOrSteal, steal: the victim's slot has a newborn voice and its
\* siblings are gone.
LEMMA TakeVictimFacts ==
    ASSUME NEW p, NEW S, NEW T, NEW X, Launching(p, S, T, X), NEW key \in Keys,
           NEW r, Fits(p, r, X), r.victim # NoVoice
    PROVE  Allocated(p, TakeVictim(r.pool, key, r.victim), key, S, T, X)
<1> DEFINE victim == r.victim
           q == r.pool
           D == p.deferred
           s == InOrder(q, Group(q, victim) \ {victim})
           a == SiblingsGone(q, s, victim)
           b == Unlink(a, victim)
           w == Prepare(b, victim, key)
<1>1. /\ q \in Pools /\ SameSlots(p, q) /\ q.valid /\ victim \in Live(p)
      /\ Keyed(q, D, X \union AnyPlace(victim)) /\ victim \notin q.volatile
  BY DEF Fits, Popped
<1>2. p \in Pools /\ Shape(p) /\ victim \in Handles /\ p.voice[victim].state # "Free"
  BY <1>1, LiveFacts DEF Launching, Body
<1>3. Body(q, {}, S, T) /\ q.deferred = D /\ q.voice = p.voice /\ q.limit = p.limit
  BY <1>1, BodySame DEF SameSlots, Launching
<1>4. s \in Seq(Handles) /\ ToSet(s) \subseteq Group(q, victim) \ {victim}
  BY <1>1, <1>3, InOrderFacts DEF Body
<1>5. ToSet(s) \intersect (D \union {victim}) = {}
  <2> SUFFICES ASSUME NEW g \in ToSet(s), g \in D PROVE FALSE
    BY <1>4
  <2>1. g # victim /\ p.voice[g].play = NoPlay
    BY <1>4 DEF Launching
  <2> QED BY <1>3, <1>4, <2>1 DEF Group
<1>6. TakeVictim(q, key, victim) = [pool |-> w, handle |-> victim]
  BY DEF TakeVictim, SiblingsGone
<1> HIDE DEF s
<1>7. a \in Thinned(q, ToSet(s), victim, S, T, X)
  <2>1. Keyed(q, D \union {victim}, X)
    BY <1>1, AnyFacts, KeyedMore
  <2> QED BY <1>2, <1>3, <1>4, <1>5, <2>1, SiblingsFacts
<1> HIDE DEF a
<1>8. /\ a \in Pools /\ Body(a, {}, S, T) /\ Keyed(a, D \union {victim}, X)
      /\ a.deferred = D /\ a.limit = p.limit /\ a.valid /\ victim \notin a.volatile
      /\ \A g \in Handles : \/ a.voice[g] = p.voice[g]
                            \/ g \in ToSet(s) /\ Emptied(p.voice[g], a.voice[g])
  BY <1>1, <1>3, <1>7 DEF Thinned
<1>9. a.voice[victim] = p.voice[victim]
  BY <1>2, <1>4, <1>8
<1>10. /\ Body(b, {} \union {victim}, S, T) /\ SameIndex(a, b) /\ b.voice = a.voice
       /\ b.active = a.active /\ b.limit = a.limit /\ b.deferred = a.deferred
       /\ \A k \in Keys : victim \notin ToSet(b.chain[k])
  <2>1. Body(a, {}, S, T) /\ victim \in Handles
    BY <1>2, <1>8
  <2> HIDE DEF victim
  <2> QED BY <2>1, UnlinkFacts
<1> HIDE DEF b
<1>11. Born(b, w, victim, key, {}, S, T)
  <2>1. b \in Pools /\ Shape(b) /\ b.voice[victim].state # "Free"
    BY <1>2, <1>9, <1>10 DEF Body
  <2>2. victim \in Live(b) /\ victim \notin In(b, "Free")
    BY <1>2, <2>1 DEF Live, In
  <2>3. /\ ToSet(b.active) = Live(b) \union {victim} /\ Distinct(b.active)
        /\ b.free = In(b, "Free") \ {victim}
    BY <2>1, <2>2 DEF Shape
  <2> QED BY <1>2, <1>10, <2>1, <2>3, PrepareFacts DEF Body
<1> HIDE DEF w
<1>12. /\ w.deferred = D \union {victim} /\ w.limit = p.limit /\ w.valid
       /\ w.leaf = a.leaf /\ w.volatile = a.volatile /\ w.active = a.active
       /\ \A g \in Handles \ {victim} : w.voice[g] = a.voice[g]
       /\ Newborn(w.voice[victim], key) /\ Body(w, {}, S, T)
  BY <1>8, <1>10, <1>11 DEF Born, SameIndex
<1>13. Keyed(w, w.deferred, X)
  <2>1. \A g : Position(w, g) = Position(a, g)
    BY <1>12, PositionSame
  <2>2. a.volatile \subseteq In(a, "Releasing")
    BY <1>8 DEF Keyed
  <2>3. w.volatile \subseteq In(w, "Releasing")
    BY <1>8, <1>12, <2>2 DEF In
  <2> QED BY <1>8, <1>12, <2>1, <2>3 DEF Keyed
<1>14. \A g \in Handles \ {victim} :
          w.voice[g] = p.voice[g] \/ Emptied(p.voice[g], w.voice[g])
  BY <1>8, <1>12
<1>15. \A g \in D \ {victim} : w.voice[g] = p.voice[g]
  <2>1. D \subseteq Handles
    BY <1>2 DEF Pools
  <2> QED BY <1>5, <1>8, <1>12, <2>1
<1>16. Launching(w, S, T, X)
  <2>1. \A g \in w.deferred : w.voice[g].state = "Active" /\ w.voice[g].play = NoPlay
    <3> SUFFICES ASSUME NEW g \in w.deferred
                 PROVE  w.voice[g].state = "Active" /\ w.voice[g].play = NoPlay
      OBVIOUS
    <3>1. CASE g = victim
      BY <1>12, <3>1 DEF Newborn
    <3>2. CASE g # victim
      BY <1>12, <1>15, <3>2 DEF Launching
    <3> QED BY <3>1, <3>2
  <2> QED BY <1>12, <1>13, <2>1 DEF Launching
<1>17. Grown(p, w)
  <2>1. w \in Pools /\ Shape(w)
    BY <1>12 DEF Body
  <2>2. Live(w) \subseteq Live(p)
    <3> SUFFICES ASSUME NEW g \in Handles, w.voice[g].state # "Free"
                 PROVE  p.voice[g].state # "Free"
      BY DEF Live, In
    <3>1. CASE g = victim
      BY <1>2, <3>1
    <3>2. CASE g # victim
      BY <1>14, <3>2 DEF Emptied
    <3> QED BY <3>1, <3>2
  <2> QED BY <1>2, <1>12, <2>1, <2>2, Shrunk
<1> QED BY <1>1, <1>2, <1>6, <1>12, <1>14, <1>16, <1>17 DEF Allocated

\* AllocateVoiceOrSteal, every outcome.
LEMMA AllocateFacts ==
    ASSUME NEW p, NEW S, NEW T, NEW X, Launching(p, S, T, X), NEW key \in Keys,
           NEW pops, \A r \in pops : Fits(p, r, X),
           NEW r \in Allocate(p, key, pops)
    PROVE  Allocated(p, r, key, S, T, X)
<1>1. Len(p.active) \in Nat /\ p.limit \in Nat /\ NoVoice \notin Handles
  BY HandlesAssumption DEF Launching, Body, Pools
<1>2. CASE r = [pool |-> p, handle |-> NoVoice]
  BY <1>1, <1>2 DEF Allocated, Grown
<1>3. CASE HasRoom(p) /\ r \in TakeFree(p, key)
  BY <1>3, TakeFreeFacts
<1>4. ASSUME NEW c \in pops, c.victim = NoVoice, r = [pool |-> c.pool, handle |-> NoVoice]
      PROVE  Allocated(p, r, key, S, T, X)
  <2>1. /\ SameSlots(p, c.pool) /\ c.pool \in Pools /\ c.pool.valid
        /\ Keyed(c.pool, p.deferred, X \union AnyPlace(NoVoice))
    BY <1>4 DEF Fits, Popped
  <2>2. Keyed(c.pool, p.deferred, X)
    BY <1>1, <2>1, AnyFacts, KeyedMore
  <2>3. Body(c.pool, {}, S, T)
    BY <2>1, BodySame DEF Launching
  <2>4. Launching(c.pool, S, T, X)
    BY <2>1, <2>2, <2>3 DEF Launching, SameSlots
  <2> QED BY <1>1, <1>4, <2>1, <2>4 DEF Allocated, SameSlots, Grown
<1>5. ASSUME NEW c \in pops, c.victim # NoVoice, r = TakeVictim(c.pool, key, c.victim)
      PROVE  Allocated(p, r, key, S, T, X)
  BY <1>5, TakeVictimFacts
<1>6. \/ r = [pool |-> p, handle |-> NoVoice]
      \/ HasRoom(p) /\ r \in TakeFree(p, key)
      \/ \E c \in pops : r = IF c.victim = NoVoice THEN [pool |-> c.pool, handle |-> NoVoice]
                             ELSE TakeVictim(c.pool, key, c.victim)
  <2>1. CASE Len(p.active) > p.limit
    BY <2>1 DEF Allocate, HasRoom
  <2>2. CASE ~ (Len(p.active) > p.limit)
    <3>1. CASE HasRoom(p)
      BY <2>2, <3>1 DEF Allocate
    <3>2. CASE ~ HasRoom(p)
      BY <2>2, <3>2 DEF Allocate
    <3> QED BY <3>1, <3>2
  <2> QED BY <2>1, <2>2
<1> QED BY <1>2, <1>3, <1>4, <1>5, <1>6

-----------------------------------------------------------------------------
(* The layers of a launch.                                                *)

\* The steps of PopStealCandidates and of the allocation loop.
PopStep(s) ==
    {IF r.victim = NoVoice THEN [s EXCEPT !.pool = r.pool]
     ELSE [pool |-> r.pool,
           popped |-> Append(s.popped, [victim |-> r.victim,
                                        position |-> Position(s.pool, r.victim)])] :
        r \in Pop(s.pool)}
PlaceStep(s, key, count, probed) == IF s.failed THEN {s} ELSE PlaceLayer(s, key, count, probed)

PlaceRounds(A, key, count, probed, n) ==
    Rounds(LAMBDA s : IF s.failed THEN {s} ELSE PlaceLayer(s, key, count, probed), A, n)

\* The loop of PopStealCandidates.
LEMMA PopRounds ==
    ASSUME NEW p, NEW n \in Nat, NEW W, {[pool |-> p, popped |-> <<>>]} \subseteq W[0],
           \A i \in 1 .. n : \A s \in W[i - 1] : PopStep(s) \subseteq W[i]
    PROVE  PopMany(p, n) \subseteq W[n]
<1> DEFINE x == {[pool |-> p, popped |-> <<>>]}
           after == CHOOSE after : after = [i \in 0 .. n |->
                       IF i = 0 THEN x ELSE UNION {PopStep(s) : s \in after[i - 1]}]
           V == [i \in 0 .. n |-> SUBSET W[i]]
           U == UNION {V[i] : i \in 0 .. n}
           G == [z \in U \X (1 .. n) |-> UNION {PopStep(s) : s \in z[1]}]
<1>1. PopMany(p, n) = after[n]
  BY DEF PopMany, Rounds, PopStep
<1>2. \A i \in 1 .. n : i - 1 \in 0 .. n /\ V[i] = SUBSET W[i] /\ V[i - 1] = SUBSET W[i - 1]
  OBVIOUS
<1>x. x \in V[0] /\ V[n] = SUBSET W[n]
  OBVIOUS
<1> HIDE DEF x
<1>3. \A i \in 1 .. n : \A q \in V[i - 1] : q \in U
  <2> HIDE DEF V
  <2> QED BY <1>2
<1> HIDE DEF U, V
<1>4. \A i \in 1 .. n : \A q \in V[i - 1] :
         G[<<q, i>>] = UNION {PopStep(s) : s \in q}
  BY <1>3
<1> HIDE DEF G
<1>5. \A i \in 1 .. n : \A q \in V[i - 1] : G[<<q, i>>] \in V[i]
  <2> SUFFICES ASSUME NEW i \in 1 .. n, NEW q \in V[i - 1] PROVE G[<<q, i>>] \in V[i]
    OBVIOUS
  <2>1. \A s \in q : PopStep(s) \subseteq W[i]
    BY <1>2
  <2> DEFINE Y == UNION {PopStep(s) : s \in q}
  <2>2. Y \subseteq W[i]
    BY <2>1
  <2>3. G[<<q, i>>] = Y
    BY <1>4
  <2> HIDE DEF Y
  <2>4. V[i] = SUBSET W[i]
    BY <1>2
  <2>5. Y \in SUBSET W[i]
    BY <2>2
  <2> QED BY <2>3, <2>4, <2>5
<1>6. PICK f : /\ f = [i \in 0 .. n |-> f[i]]
               /\ f[0] = x
               /\ \A i \in 0 .. n : f[i] \in V[i]
               /\ \A i \in 1 .. n : f[i] = G[<<f[i - 1], i>>]
  <2>1. Loops(n, V, x, G)
    BY <1>5, <1>x, LoopExists
  <2> QED BY <2>1 DEF Loops
<1>7. f = [i \in 0 .. n |-> IF i = 0 THEN x ELSE UNION {PopStep(s) : s \in f[i - 1]}]
  <2>1. \A i \in 0 .. n : i # 0 => i \in 1 .. n /\ f[i - 1] \in V[i - 1]
    BY <1>2, <1>6
  <2>2. \A i \in 0 .. n : f[i] = IF i = 0 THEN x ELSE UNION {PopStep(s) : s \in f[i - 1]}
    BY <1>4, <1>6, <2>1
  <2> QED BY <1>6, <2>2
<1>8. after = [i \in 0 .. n |-> IF i = 0 THEN x ELSE UNION {PopStep(s) : s \in after[i - 1]}]
  BY <1>7
<1> HIDE DEF after
<1>9. after[0] = x /\ \A i \in 1 .. n : after[i] = UNION {PopStep(s) : s \in after[i - 1]}
  BY <1>8
<1>10. \A i \in 1 .. n : after[i - 1] \in V[i - 1] => after[i] \in V[i]
  <2> SUFFICES ASSUME NEW i \in 1 .. n, after[i - 1] \in V[i - 1] PROVE after[i] \in V[i]
    OBVIOUS
  <2>1. G[<<after[i - 1], i>>] = UNION {PopStep(s) : s \in after[i - 1]}
    BY <1>4
  <2>2. after[i] = G[<<after[i - 1], i>>]
    BY <1>9, <2>1
  <2> QED BY <1>5, <2>2
<1>11. \A i \in 0 .. n : after[i] \in V[i]
  BY <1>x, <1>9, <1>10, Rising
<1> QED BY <1>1, <1>11, <1>x

\* The allocation loop of LaunchVoiceGroup.
LEMMA PlaceAlong ==
    ASSUME NEW A, NEW key, NEW count, NEW probed, NEW n \in Nat, NEW W, A \subseteq W[0],
           \A i \in 1 .. n : \A s \in W[i - 1] : PlaceStep(s, key, count, probed) \subseteq W[i]
    PROVE  PlaceRounds(A, key, count, probed, n) \subseteq W[n]
<1> DEFINE x == A
           after == CHOOSE after : after = [i \in 0 .. n |->
                       IF i = 0 THEN x ELSE UNION {PlaceStep(s, key, count, probed) : s \in after[i - 1]}]
           V == [i \in 0 .. n |-> SUBSET W[i]]
           U == UNION {V[i] : i \in 0 .. n}
           G == [z \in U \X (1 .. n) |-> UNION {PlaceStep(s, key, count, probed) : s \in z[1]}]
<1>1. PlaceRounds(A, key, count, probed, n) = after[n]
  BY DEF PlaceRounds, Rounds, PlaceStep
<1>2. \A i \in 1 .. n : i - 1 \in 0 .. n /\ V[i] = SUBSET W[i] /\ V[i - 1] = SUBSET W[i - 1]
  OBVIOUS
<1>x. x \in V[0] /\ V[n] = SUBSET W[n]
  OBVIOUS
<1> HIDE DEF x
<1>3. \A i \in 1 .. n : \A q \in V[i - 1] : q \in U
  <2> HIDE DEF V
  <2> QED BY <1>2
<1> HIDE DEF U, V
<1>4. \A i \in 1 .. n : \A q \in V[i - 1] :
         G[<<q, i>>] = UNION {PlaceStep(s, key, count, probed) : s \in q}
  BY <1>3
<1> HIDE DEF G
<1>5. \A i \in 1 .. n : \A q \in V[i - 1] : G[<<q, i>>] \in V[i]
  <2> SUFFICES ASSUME NEW i \in 1 .. n, NEW q \in V[i - 1] PROVE G[<<q, i>>] \in V[i]
    OBVIOUS
  <2>1. \A s \in q : PlaceStep(s, key, count, probed) \subseteq W[i]
    BY <1>2
  <2> DEFINE Y == UNION {PlaceStep(s, key, count, probed) : s \in q}
  <2>2. Y \subseteq W[i]
    BY <2>1
  <2>3. G[<<q, i>>] = Y
    BY <1>4
  <2> HIDE DEF Y
  <2>4. V[i] = SUBSET W[i]
    BY <1>2
  <2>5. Y \in SUBSET W[i]
    BY <2>2
  <2> QED BY <2>3, <2>4, <2>5
<1>6. PICK f : /\ f = [i \in 0 .. n |-> f[i]]
               /\ f[0] = x
               /\ \A i \in 0 .. n : f[i] \in V[i]
               /\ \A i \in 1 .. n : f[i] = G[<<f[i - 1], i>>]
  <2>1. Loops(n, V, x, G)
    BY <1>5, <1>x, LoopExists
  <2> QED BY <2>1 DEF Loops
<1>7. f = [i \in 0 .. n |-> IF i = 0 THEN x ELSE UNION {PlaceStep(s, key, count, probed) : s \in f[i - 1]}]
  <2>1. \A i \in 0 .. n : i # 0 => i \in 1 .. n /\ f[i - 1] \in V[i - 1]
    BY <1>2, <1>6
  <2>2. \A i \in 0 .. n : f[i] = IF i = 0 THEN x ELSE UNION {PlaceStep(s, key, count, probed) : s \in f[i - 1]}
    BY <1>4, <1>6, <2>1
  <2> QED BY <1>6, <2>2
<1>8. after = [i \in 0 .. n |-> IF i = 0 THEN x ELSE UNION {PlaceStep(s, key, count, probed) : s \in after[i - 1]}]
  BY <1>7
<1> HIDE DEF after
<1>9. after[0] = x /\ \A i \in 1 .. n : after[i] = UNION {PlaceStep(s, key, count, probed) : s \in after[i - 1]}
  BY <1>8
<1>10. \A i \in 1 .. n : after[i - 1] \in V[i - 1] => after[i] \in V[i]
  <2> SUFFICES ASSUME NEW i \in 1 .. n, after[i - 1] \in V[i - 1] PROVE after[i] \in V[i]
    OBVIOUS
  <2>1. G[<<after[i - 1], i>>] = UNION {PlaceStep(s, key, count, probed) : s \in after[i - 1]}
    BY <1>4
  <2>2. after[i] = G[<<after[i - 1], i>>]
    BY <1>9, <2>1
  <2> QED BY <1>5, <2>2
<1>11. \A i \in 0 .. n : after[i] \in V[i]
  BY <1>x, <1>9, <1>10, Rising
<1> QED BY <1>1, <1>11, <1>x

\* Victims with the positions they were popped with.
Batches == Seq([victim : Handles, position : Nat])

\* Where the popped victims are put back.
Places(popped) == {<<popped[i].victim, popped[i].position>> : i \in 1 .. Len(popped)}

\* What a batch of selections leaves.
BatchOf(p) ==
    {s \in [pool : Pools, popped : Batches] :
       /\ SameSlots(p, s.pool) /\ Keyed(s.pool, {}, Places(s.popped))
       /\ s.popped # <<>> => s.pool.valid
       /\ \A i \in 1 .. Len(s.popped) : s.popped[i].position = Position(p, s.popped[i].victim)}

\* One more victim of a batch.
LEMMA PlacesAppend ==
    ASSUME NEW popped \in Batches, NEW v \in Handles, NEW at \in Nat
    PROVE  /\ Append(popped, [victim |-> v, position |-> at]) \in Batches
           /\ Places(Append(popped, [victim |-> v, position |-> at]))
                 = Places(popped) \union {<<v, at>>}
           /\ Len(Append(popped, [victim |-> v, position |-> at])) = Len(popped) + 1
           /\ \A i \in 1 .. (Len(popped) + 1) :
                 Append(popped, [victim |-> v, position |-> at])[i]
                    = IF i = Len(popped) + 1 THEN [victim |-> v, position |-> at]
                      ELSE popped[i]
<1> DEFINE e == [victim |-> v, position |-> at]
           t == Append(popped, e)
           n == Len(popped)
<1>0. e \in [victim : Handles, position : Nat] /\ e.victim = v /\ e.position = at
  OBVIOUS
<1> HIDE DEF e
<1>1. /\ t \in Batches /\ Len(t) = n + 1 /\ n \in Nat /\ t[n + 1] = e
      /\ \A i \in 1 .. n : t[i] = popped[i]
  BY <1>0 DEF Batches
<1> HIDE DEF t
<1>2. \A i : i \in 1 .. (n + 1) <=> i \in 1 .. n \/ i = n + 1
  BY <1>1
<1>3. Places(t) \subseteq Places(popped) \union {<<v, at>>}
  BY <1>0, <1>1, <1>2 DEF Places
<1>4. Places(popped) \union {<<v, at>>} \subseteq Places(t)
  BY <1>0, <1>1, <1>2 DEF Places
<1>5. \A i \in 1 .. (n + 1) : t[i] = IF i = n + 1 THEN e ELSE popped[i]
  BY <1>1, <1>2
<1> QED BY <1>1, <1>3, <1>4, <1>5 DEF t, e

\* PopStealCandidates: a voice without its steal key is in the batch, with its
\* position.
LEMMA PopManyFacts ==
    ASSUME NEW p \in Pools, Shape(p), Keyed(p, {}, {}), NEW n \in Nat
    PROVE  PopMany(p, n) \subseteq BatchOf(p)
<1> DEFINE U == BatchOf(p)
           W == [i \in 0 .. n |-> U]
           start == [pool |-> p, popped |-> <<>>]
<1>1. start \in U
  <2>1. start.pool = p /\ start.popped = <<>> /\ start \in [pool : Pools, popped : Batches]
    BY DEF Batches
  <2>2. Keyed(p, {}, Places(<<>>))
    BY KeyedMore
  <2> HIDE DEF start
  <2> QED BY <2>1, <2>2 DEF BatchOf, SameSlots
<1>2. ASSUME NEW s \in U PROVE PopStep(s) \subseteq U
  <2> SUFFICES ASSUME NEW r \in Pop(s.pool)
               PROVE  (IF r.victim = NoVoice THEN [s EXCEPT !.pool = r.pool]
                       ELSE [pool |-> r.pool,
                             popped |-> Append(s.popped,
                                         [victim |-> r.victim,
                                          position |-> Position(s.pool, r.victim)])]) \in U
    <3> HIDE DEF U
    <3> QED BY DEF PopStep
  <2>1. /\ s.pool \in Pools /\ s.popped \in Batches /\ SameSlots(p, s.pool)
        /\ Keyed(s.pool, {}, Places(s.popped)) /\ s \in [pool : Pools, popped : Batches]
        /\ \A i \in 1 .. Len(s.popped) : s.popped[i].position = Position(p, s.popped[i].victim)
    BY <1>2 DEF BatchOf
  <2>2. Shape(s.pool)
    BY <2>1, ShapeSame
  <2> DEFINE X == Places(s.popped)
  <2>3. Popped(s.pool, r, {}, X)
    BY <2>1, <2>2, PopFacts
  <2>4. /\ r.pool \in Pools /\ SameSlots(s.pool, r.pool) /\ r.pool.valid
        /\ r.victim = NoVoice \/ r.victim \in Live(s.pool)
        /\ Keyed(r.pool, {}, X \union AnyPlace(r.victim))
    BY <2>3 DEF Popped
  <2>5. SameSlots(p, r.pool)
    BY <2>1, <2>4 DEF SameSlots
  <2>6. CASE r.victim = NoVoice
    <3>1. Keyed(r.pool, {}, X)
      BY <2>4, <2>6, AnyFacts, KeyedMore, HandlesAssumption
    <3> DEFINE w == [s EXCEPT !.pool = r.pool]
    <3>2. w \in [pool : Pools, popped : Batches] /\ w.pool = r.pool /\ w.popped = s.popped
      BY <2>1, <2>4
    <3> HIDE DEF w
    <3>3. w \in U
      BY <2>1, <2>4, <2>5, <3>1, <3>2 DEF BatchOf
    <3> QED BY <2>6, <3>3 DEF w
  <2>7. CASE r.victim # NoVoice
    <3> DEFINE at == Position(s.pool, r.victim)
               t == Append(s.popped, [victim |-> r.victim, position |-> at])
               w == [pool |-> r.pool, popped |-> t]
    <3>1. r.victim \in Handles /\ at \in Nat
      BY <2>1, <2>2, <2>4, <2>7, LiveFacts, PositionNat
    <3>2. \A g : Position(r.pool, g) = Position(s.pool, g)
      BY <2>4, PositionSame DEF SameSlots
    <3>a. at = Position(p, r.victim)
      BY <2>1, PositionSame DEF SameSlots
    <3> HIDE DEF at
    <3> DEFINE e == [victim |-> r.victim, position |-> at]
    <3>3. /\ t \in Batches /\ Places(t) = X \union {<<r.victim, at>>}
          /\ Len(t) = Len(s.popped) + 1
          /\ \A i \in 1 .. (Len(s.popped) + 1) :
                t[i] = IF i = Len(s.popped) + 1 THEN e ELSE s.popped[i]
      BY <2>1, <3>1, PlacesAppend
    <3>b. e.victim = r.victim /\ e.position = at
      OBVIOUS
    <3>c. Len(s.popped) \in Nat
      BY <2>1 DEF Batches
    <3> HIDE DEF e
    <3>d. \A i \in 1 .. Len(t) : t[i].position = Position(p, t[i].victim)
      <4> SUFFICES ASSUME NEW i \in 1 .. Len(t) PROVE t[i].position = Position(p, t[i].victim)
        OBVIOUS
      <4>1. CASE i = Len(s.popped) + 1
        BY <3>3, <3>a, <3>b, <3>c, <4>1
      <4>2. CASE i # Len(s.popped) + 1
        <5>1. i \in 1 .. Len(s.popped) /\ t[i] = s.popped[i]
          BY <3>3, <3>c, <4>2
        <5> QED BY <2>1, <5>1
      <4> QED BY <4>1, <4>2
    <3> HIDE DEF t, X
    <3>4. w \in [pool : Pools, popped : Batches] /\ w.pool = r.pool /\ w.popped = t
      BY <2>4, <3>3
    <3> HIDE DEF w
    <3>5. Keyed(r.pool, {}, Places(t))
      <4>1. \A g, i : <<g, i>> \in X \union AnyPlace(r.victim)
                          <=> <<g, i>> \in X \/ (g = r.victim /\ i \in Nat)
        BY AnyFacts
      <4>2. Position(r.pool, r.victim) = at
        BY <3>2 DEF at
      <4> QED BY <2>4, <3>3, <4>1, <4>2 DEF Keyed
    <3>6. w \in U
      BY <2>4, <2>5, <3>4, <3>5, <3>d DEF BatchOf
    <3> QED BY <2>7, <3>6 DEF w, t, at
  <2> QED BY <2>6, <2>7
<1> HIDE DEF U
<1>3. {start} \subseteq W[0] /\ W[n] = U
      /\ \A i \in 1 .. n : W[i - 1] = U /\ W[i] = U
  BY <1>1
<1> HIDE DEF W
<1>4. \A i \in 1 .. n : \A s \in W[i - 1] : PopStep(s) \subseteq W[i]
  BY <1>2, <1>3
<1>5. PopMany(p, n) \subseteq W[n]
  BY <1>3, <1>4, PopRounds
<1> QED BY <1>3, <1>5 DEF U

\* What an allocation returns.
Slots == Handles \union {NoVoice}

\* A launch that placed at most n layers.
Laying(room, S, T, n) ==
    {s \in [pool : Pools, popped : Batches, cursor : Nat \ {0}, used : SUBSET Nat,
            handles : Seq(Slots), failed : BOOLEAN] :
       /\ Launching(s.pool, S, T, Places(s.popped)) /\ Within(s.pool, room)
       /\ s.popped # <<>> => s.pool.valid
       /\ \A i, j \in 1 .. Len(s.popped) :
             s.popped[i].victim = s.popped[j].victim => s.popped[i].position = s.popped[j].position
       /\ \A i \in s.used \intersect (1 .. Len(s.popped)) : s.popped[i].victim \in s.pool.deferred
       /\ s.pool.deferred = ToSet(s.handles) \ {NoVoice}
       /\ ~ s.failed => NoVoice \notin ToSet(s.handles)
       /\ Len(s.handles) <= n}

\* A layer fed with a victim of the batch gets that voice or none.
LEMMA AllocateFed ==
    ASSUME NEW p, NEW key, NEW victim, p.free = {},
           NEW r \in Allocate(p, key, {[pool |-> p, victim |-> victim]})
    PROVE  r.handle \in {NoVoice, victim}
<1> DEFINE c == [pool |-> p, victim |-> victim]
<1>1. r = [pool |-> p, handle |-> NoVoice]
      \/ r = IF c.victim = NoVoice THEN [pool |-> c.pool, handle |-> NoVoice]
             ELSE TakeVictim(c.pool, key, c.victim)
  BY DEF Allocate, HasRoom
<1>2. TakeVictim(c.pool, key, c.victim).handle = victim
  BY DEF TakeVictim
<1> QED BY <1>1, <1>2

\* The entries of a batch.
LEMMA BatchFacts ==
    ASSUME NEW popped \in Batches
    PROVE  /\ Len(popped) \in Nat
           /\ \A i \in 1 .. Len(popped) : /\ popped[i].victim \in Handles
                                          /\ popped[i].position \in Nat
                                          /\ popped # <<>>
<1> DEFINE R == [victim : Handles, position : Nat]
<1>1. popped \in Seq(R)
  BY DEF Batches
<1>2. \A i \in 1 .. Len(popped) : popped[i] \in R
  <2> HIDE DEF R
  <2> QED BY <1>1
<1>3. popped = <<>> => Len(popped) = 0
  OBVIOUS
<1>4. \A i \in 1 .. Len(popped) : popped # <<>>
  BY <1>3
<1> QED BY <1>1, <1>2, <1>4

\* Part of an interval.
LEMMA IntervalFacts ==
    ASSUME NEW a \in Nat \ {0}, NEW b \in Nat
    PROVE  (a .. b) \subseteq 1 .. b /\ (1 .. b) \subseteq Nat \ {0}
OBVIOUS

\* One layer of LaunchVoiceGroup: a victim of the batch that is used becomes a
\* newborn voice.
LEMMA PlaceLayerFacts ==
    ASSUME NEW room, NEW S, NEW T, NEW n \in Nat, NEW s \in Laying(room, S, T, n), ~ s.failed,
           NEW key \in Keys, NEW count, NEW probed,
           NEW t \in PlaceLayer(s, key, count, probed)
    PROVE  t \in Laying(room, S, T, n + 1)
<1> DEFINE unused == {i \in s.cursor .. Len(s.popped) :
                         s.pool.voice[s.popped[i].victim].state = "Active"}
           cursor == IF unused = {} THEN Len(s.popped) + 1 ELSE Min(unused)
           feed == unused # {} /\ s.pool.free = {} /\ Len(s.pool.active) >= s.pool.limit
           fed == [pool |-> s.pool, victim |-> s.popped[cursor].victim]
           drawn == {r \in Pop(s.pool) :
                       probed /\ s.handles = <<>> =>
                          \/ r.victim \in RingVictims(s.pool) \union {NoVoice}
                          \/ Cardinality(Group(s.pool, r.victim)) # count}
           pops == IF feed THEN {fed} ELSE drawn
           X == Places(s.popped)
<1>1. PICK r \in Allocate(s.pool, key, pops) :
         t = [s EXCEPT !.pool = r.pool,
                  !.handles = Append(@, r.handle),
                  !.cursor = IF feed THEN cursor + 1 ELSE cursor,
                  !.used = IF feed /\ r.handle # NoVoice THEN @ \union {cursor} ELSE @,
                  !.failed = r.handle = NoVoice]
  BY DEF PlaceLayer
<1>2. /\ s \in [pool : Pools, popped : Batches, cursor : Nat \ {0}, used : SUBSET Nat,
                handles : Seq(Slots), failed : BOOLEAN]
      /\ Launching(s.pool, S, T, X) /\ Within(s.pool, room)
      /\ s.popped # <<>> => s.pool.valid
      /\ \A i, j \in 1 .. Len(s.popped) :
            s.popped[i].victim = s.popped[j].victim => s.popped[i].position = s.popped[j].position
      /\ \A i \in s.used \intersect (1 .. Len(s.popped)) : s.popped[i].victim \in s.pool.deferred
      /\ s.pool.deferred = ToSet(s.handles) \ {NoVoice}
      /\ Len(s.handles) <= n
  BY DEF Laying
<1>3. s.popped \in Batches /\ s.cursor \in Nat \ {0} /\ Len(s.popped) \in Nat
      /\ s.handles \in Seq(Slots) /\ s.used \in SUBSET Nat
  <2>1. /\ s.popped \in Batches /\ s.cursor \in Nat \ {0}
        /\ s.handles \in Seq(Slots) /\ s.used \in SUBSET Nat
    BY <1>2
  <2> QED BY <2>1, BatchFacts
<1>4. unused \in SUBSET Nat /\ unused \subseteq 1 .. Len(s.popped)
  <2>1. (s.cursor .. Len(s.popped)) \subseteq 1 .. Len(s.popped)
    BY <1>3, IntervalFacts
  <2>2. unused \subseteq s.cursor .. Len(s.popped)
    OBVIOUS
  <2>3. (1 .. Len(s.popped)) \subseteq Nat
    BY <1>3, IntervalFacts
  <2> HIDE DEF unused
  <2> QED BY <2>1, <2>2, <2>3
<1>5. cursor \in Nat \ {0} /\ (unused # {} => cursor \in unused)
  <2>1. CASE unused = {}
    <3>1. cursor = Len(s.popped) + 1
      BY <2>1
    <3> HIDE DEF cursor, unused
    <3> QED BY <1>3, <2>1, <3>1
  <2>2. CASE unused # {}
    <3>1. cursor \in unused
      BY <1>4, <2>2, LeastExists
    <3>2. cursor \in 1 .. Len(s.popped)
      BY <1>4, <3>1
    <3>3. (1 .. Len(s.popped)) \subseteq Nat \ {0}
      BY <1>3, IntervalFacts
    <3> QED BY <3>1, <3>2, <3>3
  <2> QED BY <2>1, <2>2
<1>6. feed => /\ cursor \in 1 .. Len(s.popped) /\ s.popped[cursor].victim \in Handles
              /\ s.pool.voice[s.popped[cursor].victim].state = "Active"
              /\ s.pool.free = {} /\ s.pool.valid
  <2> SUFFICES ASSUME feed
               PROVE  /\ cursor \in 1 .. Len(s.popped) /\ s.popped[cursor].victim \in Handles
                      /\ s.pool.voice[s.popped[cursor].victim].state = "Active"
                      /\ s.pool.free = {} /\ s.pool.valid
    OBVIOUS
  <2>1. cursor \in unused
    BY <1>5
  <2>2. cursor \in 1 .. Len(s.popped) /\ s.pool.voice[s.popped[cursor].victim].state = "Active"
    BY <1>4, <2>1
  <2>3. s.popped[cursor].victim \in Handles /\ s.popped # <<>>
    BY <1>3, <2>2, BatchFacts
  <2> QED BY <1>2, <2>2, <2>3
<1> HIDE DEF unused, cursor
<1>7. \A c \in pops : Fits(s.pool, c, X)
  <2> SUFFICES ASSUME NEW c \in pops PROVE Fits(s.pool, c, X)
    OBVIOUS
  <2>1. CASE feed
    <3> DEFINE v == s.popped[cursor].victim
    <3>1. c = fed /\ c.pool = s.pool /\ c.victim = v
      BY <2>1
    <3>2. /\ v \in Handles /\ s.pool.voice[v].state = "Active" /\ s.pool.valid
          /\ s.pool \in Pools /\ Shape(s.pool) /\ Keyed(s.pool, s.pool.deferred, X)
      BY <1>2, <1>6, <2>1 DEF Launching, Body
    <3> HIDE DEF v, fed, X, feed
    <3>3. v \in Live(s.pool)
      BY <3>2, LiveFacts
    <3>4. v \notin s.pool.volatile
      BY <3>2 DEF Keyed, In
    <3>5. Keyed(s.pool, s.pool.deferred, X \union AnyPlace(v))
      BY <3>2, AnyFacts, KeyedMore
    <3> QED BY <3>1, <3>2, <3>3, <3>4, <3>5 DEF Fits, Popped, SameSlots
  <2>2. CASE ~ feed
    <3>1. c \in Pop(s.pool)
      BY <2>2
    <3>2. s.pool \in Pools /\ Shape(s.pool) /\ Keyed(s.pool, s.pool.deferred, X)
      BY <1>2 DEF Launching, Body
    <3> HIDE DEF feed, X
    <3> QED BY <3>1, <3>2, PopFacts DEF Fits
  <2> QED BY <2>1, <2>2
<1>8. Allocated(s.pool, r, key, S, T, X)
  <2> HIDE DEF pops, X, feed
  <2> QED BY <1>2, <1>7, AllocateFacts
<1>9. feed /\ r.handle # NoVoice => r.handle = s.popped[cursor].victim
  <2> SUFFICES ASSUME feed, r.handle # NoVoice PROVE r.handle = s.popped[cursor].victim
    OBVIOUS
  <2> DEFINE v == s.popped[cursor].victim
  <2>1. r \in Allocate(s.pool, key, {[pool |-> s.pool, victim |-> v]})
    BY <1>1
  <2>2. s.pool.free = {}
    BY <1>6
  <2>3. s.pool.free = {} => r.handle \in {NoVoice, v}
    <3> HIDE DEF v, feed
    <3> QED BY <2>1, AllocateFed
  <2> QED BY <2>2, <2>3
<1> HIDE DEF pops, feed
<1> DEFINE used == IF feed /\ r.handle # NoVoice THEN s.used \union {cursor} ELSE s.used
<1>10. r.handle \in Slots /\ r.pool \in Pools
  BY <1>8 DEF Allocated, Slots, Launching, Body
<1>11. /\ t.pool = r.pool /\ t.popped = s.popped /\ t.used = used
       /\ t.handles = Append(s.handles, r.handle) /\ t.failed = (r.handle = NoVoice)
       /\ t \in [pool : Pools, popped : Batches, cursor : Nat \ {0}, used : SUBSET Nat,
                 handles : Seq(Slots), failed : BOOLEAN]
  <2>1. Append(s.handles, r.handle) \in Seq(Slots)
    BY <1>3, <1>10
  <2>2. used \in SUBSET Nat
    BY <1>3, <1>5
  <2>3. (IF feed THEN cursor + 1 ELSE cursor) \in Nat \ {0}
    BY <1>5
  <2>4. (r.handle = NoVoice) \in BOOLEAN
    OBVIOUS
  <2> QED BY <1>1, <1>2, <1>10, <2>1, <2>2, <2>3, <2>4
<1>12. /\ Launching(t.pool, S, T, Places(t.popped)) /\ Within(t.pool, room)
       /\ t.popped # <<>> => t.pool.valid
  BY <1>2, <1>8, <1>10, <1>11, Grows DEF Allocated
<1>13. t.pool.deferred = s.pool.deferred \union ({r.handle} \ {NoVoice})
  BY <1>8, <1>11 DEF Allocated
<1>14. /\ ToSet(t.handles) = ToSet(s.handles) \union {r.handle}
       /\ Len(t.handles) = Len(s.handles) + 1 /\ Len(s.handles) \in Nat
  BY <1>3, <1>10, <1>11, AppendFacts
<1>15. t.pool.deferred = ToSet(t.handles) \ {NoVoice}
  BY <1>2, <1>13, <1>14
<1>16. \A i \in t.used \intersect (1 .. Len(t.popped)) : t.popped[i].victim \in t.pool.deferred
  <2> SUFFICES ASSUME NEW i \in used, i \in 1 .. Len(s.popped)
               PROVE  s.popped[i].victim \in t.pool.deferred
    BY <1>11
  <2>1. CASE i \in s.used
    BY <1>2, <1>13, <2>1
  <2>2. CASE i \notin s.used
    BY <1>9, <1>13, <2>2
  <2> QED BY <2>1, <2>2
<1>17. Len(t.handles) <= n + 1
  BY <1>2, <1>14
<1>18. ~ t.failed => NoVoice \notin ToSet(t.handles)
  <2>1. NoVoice \notin ToSet(s.handles)
    BY DEF Laying
  <2> QED BY <2>1, <1>11, <1>14
<1>19. \A i, j \in 1 .. Len(t.popped) :
          t.popped[i].victim = t.popped[j].victim => t.popped[i].position = t.popped[j].position
  BY <1>2, <1>11
<1> QED
  <2> HIDE DEF used
  <2> QED BY <1>11, <1>12, <1>15, <1>16, <1>17, <1>18, <1>19 DEF Laying

\* All layers of LaunchVoiceGroup.
LEMMA PlaceLayersFacts ==
    ASSUME NEW room, NEW S, NEW T, NEW p, Body(p, {}, S, T), Keyed(p, {}, {}),
           p.deferred = {}, Within(p, room), NEW key \in Keys, NEW count \in Nat, NEW batch \in BOOLEAN
    PROVE  PlaceLayers(p, key, count, batch) \subseteq Laying(room, S, T, count)
<1> DEFINE probed == p.free = {}
           all == IF batch THEN PopMany(p, count) ELSE {[pool |-> p, popped |-> <<>>]}
           begun == {s \in all : probed /\ s.popped # <<>> =>
                                    Cardinality(Group(p, s.popped[1].victim)) # count}
           A == {[pool |-> s.pool, popped |-> s.popped, cursor |-> 1,
                  used |-> {}, handles |-> <<>>, failed |-> FALSE] : s \in begun}
           W == [i \in 0 .. count |-> Laying(room, S, T, i)]
<1>1. PlaceLayers(p, key, count, batch) = PlaceRounds(A, key, count, probed, count)
  BY DEF PlaceLayers, PlaceRounds
<1>2. p \in Pools /\ Shape(p)
  BY DEF Body
<1>3. all \subseteq BatchOf(p)
  <2>1. CASE batch
    BY <1>2, <2>1, PopManyFacts
  <2>2. CASE ~ batch
    <3> DEFINE s == [pool |-> p, popped |-> <<>>]
    <3>1. s.pool = p /\ s.popped = <<>> /\ s \in [pool : Pools, popped : Batches]
      BY <1>2 DEF Batches
    <3>2. Keyed(p, {}, Places(<<>>))
      BY KeyedMore
    <3>3. \A i \in 1 .. Len(<<>>) : FALSE
      OBVIOUS
    <3>4. all = {s}
      BY <2>2
    <3> HIDE DEF s
    <3>5. s \in BatchOf(p)
      BY <3>1, <3>2, <3>3 DEF BatchOf, SameSlots
    <3> QED BY <3>4, <3>5
  <2> QED BY <2>1, <2>2
<1> HIDE DEF all, probed
<1>4. A \subseteq Laying(room, S, T, 0)
  <2> SUFFICES ASSUME NEW s \in BatchOf(p)
               PROVE  [pool |-> s.pool, popped |-> s.popped, cursor |-> 1,
                       used |-> {}, handles |-> <<>>, failed |-> FALSE] \in Laying(room, S, T, 0)
    BY <1>3
  <2> DEFINE w == [pool |-> s.pool, popped |-> s.popped, cursor |-> 1,
                   used |-> {}, handles |-> <<>>, failed |-> FALSE]
  <2>1. /\ s.pool \in Pools /\ s.popped \in Batches /\ SameSlots(p, s.pool)
        /\ Keyed(s.pool, {}, Places(s.popped))
        /\ s.popped # <<>> => s.pool.valid
        /\ \A i \in 1 .. Len(s.popped) : s.popped[i].position = Position(p, s.popped[i].victim)
    BY DEF BatchOf
  <2>2. /\ w.pool = s.pool /\ w.popped = s.popped /\ w.used = {} /\ w.handles = <<>>
        /\ w.failed = FALSE
        /\ w \in [pool : Pools, popped : Batches, cursor : Nat \ {0}, used : SUBSET Nat,
                  handles : Seq(Slots), failed : BOOLEAN]
    BY <2>1
  <2> HIDE DEF w
  <2>3. Body(s.pool, {}, S, T) /\ s.pool.deferred = {} /\ Within(s.pool, room)
    BY <2>1, BodySame DEF SameSlots, Within
  <2>4. Launching(s.pool, S, T, Places(s.popped))
    BY <2>1, <2>3 DEF Launching
  <2>5. ToSet(<<>>) = {} /\ Len(<<>>) = 0
    BY DEF ToSet
  <2>6. \A i, j \in 1 .. Len(s.popped) :
           s.popped[i].victim = s.popped[j].victim => s.popped[i].position = s.popped[j].position
    BY <2>1
  <2>7. w.pool.deferred = ToSet(w.handles) \ {NoVoice} /\ NoVoice \notin ToSet(w.handles)
        /\ Len(w.handles) <= 0
    BY <2>2, <2>3, <2>5
  <2>8. w \in Laying(room, S, T, 0)
    BY <2>1, <2>2, <2>3, <2>4, <2>6, <2>7 DEF Laying
  <2> QED BY <2>8 DEF w
<1>5. ASSUME NEW i \in 1 .. count, NEW s \in Laying(room, S, T, i - 1)
      PROVE  PlaceStep(s, key, count, probed) \subseteq Laying(room, S, T, i)
  <2>0. i - 1 \in Nat /\ (i - 1) + 1 = i
    OBVIOUS
  <2>1. CASE s.failed
    <3>1. Len(s.handles) <= i
      <4>1. Len(s.handles) <= i - 1 /\ s.handles \in Seq(Slots)
        BY <1>5 DEF Laying
      <4> QED BY <4>1
    <3>2. s \in Laying(room, S, T, i)
      BY <1>5, <3>1 DEF Laying
    <3> QED BY <2>1, <3>2 DEF PlaceStep
  <2>2. CASE ~ s.failed
    <3>1. \A t \in PlaceLayer(s, key, count, probed) : t \in Laying(room, S, T, (i - 1) + 1)
      BY <1>5, <2>0, <2>2, PlaceLayerFacts
    <3> QED BY <2>0, <2>2, <3>1 DEF PlaceStep
  <2> QED BY <2>1, <2>2
<1>6. /\ \A i \in 1 .. count : W[i] = Laying(room, S, T, i) /\ W[i - 1] = Laying(room, S, T, i - 1)
      /\ W[0] = Laying(room, S, T, 0) /\ W[count] = Laying(room, S, T, count)
  OBVIOUS
<1> HIDE DEF W, A
<1>7. \A i \in 1 .. count : \A s \in W[i - 1] : PlaceStep(s, key, count, probed) \subseteq W[i]
  BY <1>5, <1>6
<1>8. PlaceRounds(A, key, count, probed, count) \subseteq W[count]
  BY <1>4, <1>6, <1>7, PlaceAlong
<1> QED BY <1>1, <1>6, <1>8

-----------------------------------------------------------------------------

\* The step of RearmLiveBatchVictims, and the loop.
RearmStep(q, i, popped, used) ==
    LET h == popped[i].victim IN
    IF i \in used \/ q.voice[h].state # "Active" THEN q
    ELSE [q EXCEPT !.leaf[h] = IF @ # 0 THEN @ ELSE popped[i].position,
                   !.over = @ \/ q.leaf[h] # 0]
Rearmed(p, s, popped, used) ==
    Along(LAMBDA q, i :
             LET h == popped[i].victim IN
             IF i \in used \/ q.voice[h].state # "Active" THEN q
             ELSE [q EXCEPT !.leaf[h] = IF @ # 0 THEN @ ELSE popped[i].position,
                            !.over = @ \/ q.leaf[h] # 0],
          p, s)

\* The loop of RearmLiveBatchVictims.
LEMMA RearmAlong ==
    ASSUME NEW popped, NEW used, NEW n \in Nat, NEW s, Len(s) = n, NEW W, NEW x \in W[0],
           \A i \in 1 .. n : \A q \in W[i - 1] : RearmStep(q, s[i], popped, used) \in W[i]
    PROVE  Rearmed(x, s, popped, used) \in W[n]
<1> DEFINE after == CHOOSE after : after = [i \in 0 .. Len(s) |->
                       IF i = 0 THEN x ELSE RearmStep(after[i - 1], s[i], popped, used)]
           U == UNION {W[i] : i \in 0 .. n}
           G == [z \in U \X (1 .. n) |-> RearmStep(z[1], s[z[2]], popped, used)]
<1>1. Rearmed(x, s, popped, used) = after[n]
  BY DEF Rearmed, Along, RearmStep
<1>2. \A i \in 1 .. n : i - 1 \in 0 .. n
  OBVIOUS
<1>3. \A i \in 1 .. n : \A q \in W[i - 1] : q \in U
  BY <1>2
<1> HIDE DEF U
<1>4. \A i \in 1 .. n : \A q \in W[i - 1] : G[<<q, i>>] = RearmStep(q, s[i], popped, used)
  BY <1>3
<1> HIDE DEF G
<1>5. \A i \in 1 .. n : \A q \in W[i - 1] : G[<<q, i>>] \in W[i]
  BY <1>4
<1>6. PICK f : /\ f = [i \in 0 .. n |-> f[i]]
               /\ f[0] = x
               /\ \A i \in 0 .. n : f[i] \in W[i]
               /\ \A i \in 1 .. n : f[i] = G[<<f[i - 1], i>>]
  <2>1. Loops(n, W, x, G)
    BY <1>5, LoopExists
  <2> QED BY <2>1 DEF Loops
<1>7. f = [i \in 0 .. n |-> IF i = 0 THEN x ELSE RearmStep(f[i - 1], s[i], popped, used)]
  <2>1. \A i \in 0 .. n : i # 0 => i \in 1 .. n /\ f[i - 1] \in W[i - 1]
    BY <1>2, <1>6
  <2>2. \A i \in 0 .. n : f[i] = IF i = 0 THEN x ELSE RearmStep(f[i - 1], s[i], popped, used)
    BY <1>4, <1>6, <2>1
  <2> QED BY <1>6, <2>2
<1>8. after = [i \in 0 .. n |-> IF i = 0 THEN x ELSE RearmStep(after[i - 1], s[i], popped, used)]
  BY <1>7
<1> HIDE DEF after
<1>9. after[0] = x /\ \A i \in 1 .. n : after[i] = RearmStep(after[i - 1], s[i], popped, used)
  BY <1>8
<1>10. \A i \in 0 .. n : after[i] \in W[i]
  BY <1>9, Rising
<1> QED BY <1>1, <1>10

\* The pool after the first i popped victims are put back.
PlacesAfter(popped, i) ==
    {<<popped[j].victim, popped[j].position>> : j \in {k \in 1 .. Len(popped) : k > i}}
Rearming(p, popped, i) ==
    {q \in Pools : /\ SameSlots(p, q) /\ q.valid = p.valid
                   /\ Keyed(q, p.deferred, PlacesAfter(popped, i))}

\* A victim goes back under the position it was popped with: one that still
\* sounds and has no key yet is still at that position.
LEMMA RearmStepFacts ==
    ASSUME NEW p \in Pools, Shape(p), p.valid, NEW popped \in Batches, NEW used,
           \A i, j \in 1 .. Len(popped) :
              popped[i].victim = popped[j].victim => popped[i].position = popped[j].position,
           \A i \in used \intersect (1 .. Len(popped)) : popped[i].victim \in p.deferred,
           NEW i \in 1 .. Len(popped), NEW q \in Rearming(p, popped, i - 1)
    PROVE  RearmStep(q, i, popped, used) \in Rearming(p, popped, i)
<1> DEFINE v == popped[i].victim
           at == popped[i].position
           r == RearmStep(q, i, popped, used)
           A == PlacesAfter(popped, i - 1)
           B == PlacesAfter(popped, i)
<1>1. v \in Handles /\ at \in Nat /\ Len(popped) \in Nat
  BY BatchFacts
<1>2. \A k \in 1 .. Len(popped) : k > i - 1 <=> k = i \/ k > i
  BY <1>1
<1>3. A \subseteq {<<v, at>>} \union B
  BY <1>2 DEF PlacesAfter
<1>4. \A k : <<v, k>> \in A => k = at
  <2> SUFFICES ASSUME NEW k, <<v, k>> \in A PROVE k = at
    OBVIOUS
  <2>1. PICK j \in 1 .. Len(popped) : <<v, k>> = <<popped[j].victim, popped[j].position>>
    BY DEF PlacesAfter
  <2> QED BY <2>1
<1>5. /\ q \in Pools /\ SameSlots(p, q) /\ q.valid /\ Keyed(q, p.deferred, A)
  BY DEF Rearming
<1>6. v \notin p.deferred => i \notin used
  OBVIOUS
<1> HIDE DEF A, B
<1>7. \A g \in Handles \ {v} : \A k : <<g, k>> \in A => <<g, k>> \in B
  BY <1>3
<1>8. CASE i \in used \/ q.voice[v].state # "Active"
  <2>1. r = q
    BY <1>8 DEF RearmStep
  <2>2. Keyed(q, p.deferred, B)
    BY <1>5, <1>6, <1>7, <1>8 DEF Keyed
  <2> QED BY <1>5, <2>1, <2>2 DEF Rearming, B
<1>9. CASE ~ (i \in used \/ q.voice[v].state # "Active")
  <2>1. r = [q EXCEPT !.leaf[v] = IF @ # 0 THEN @ ELSE at, !.over = @ \/ q.leaf[v] # 0]
    BY <1>9 DEF RearmStep
  <2>2. q.leaf \in [Handles -> Nat] /\ q.over \in BOOLEAN
    BY <1>5 DEF Pools
  <2> DEFINE leaf == [q.leaf EXCEPT ![v] = IF @ # 0 THEN @ ELSE at]
  <2>3. /\ leaf \in [Handles -> Nat] /\ leaf[v] = IF q.leaf[v] # 0 THEN q.leaf[v] ELSE at
        /\ \A g \in Handles \ {v} : leaf[g] = q.leaf[g]
    BY <1>1, <2>2
  <2> HIDE DEF leaf, r
  <2>4. /\ r \in Pools /\ SameSlots(q, r) /\ r.valid = q.valid /\ r.volatile = q.volatile
        /\ r.leaf = leaf
    <3>1. r = [q EXCEPT !.leaf = leaf, !.over = q.over \/ q.leaf[v] # 0]
      BY <1>1, <1>5, <2>1 DEF leaf, Pools
    <3>2. (q.over \/ q.leaf[v] # 0) \in BOOLEAN
      OBVIOUS
    <3> QED BY <1>5, <2>3, <3>1, <3>2 DEF Pools, SameSlots
  <2>5. Shape(q) /\ Shape(r) /\ SameSlots(p, r)
    BY <1>5, <2>4, ShapeSame DEF SameSlots
  <2>6. \A g : Position(r, g) = Position(q, g)
    BY <2>4, PositionSame DEF SameSlots
  <2>7. v \notin p.deferred =>
           /\ q.leaf[v] # 0 => q.leaf[v] = Position(q, v)
           /\ q.leaf[v] = 0 => at = Position(q, v)
           /\ Position(q, v) # 0
    <3>1. Position(q, v) # 0
      BY <1>1, <1>5, <1>9, <2>5, LiveFacts
    <3> QED BY <1>1, <1>4, <1>5, <1>9, <3>1 DEF Keyed
  <2>8. Keyed(r, p.deferred, B)
    <3>1. \A g \in Handles \ p.deferred :
             r.leaf[g] # 0 => r.voice[g].state = "Active" /\ r.leaf[g] = Position(r, g)
      BY <1>5, <1>9, <2>3, <2>4, <2>6, <2>7 DEF Keyed, SameSlots
    <3>2. \A g \in Handles \ p.deferred :
             r.voice[g].state = "Active" /\ r.leaf[g] = 0 => <<g, Position(r, g)>> \in B
      BY <1>5, <1>7, <1>9, <2>3, <2>4, <2>6, <2>7 DEF Keyed, SameSlots
    <3>3. r.volatile \subseteq In(r, "Releasing")
      BY <1>5, <2>4 DEF Keyed, SameSlots, In
    <3> QED BY <3>1, <3>2, <3>3 DEF Keyed
  <2> QED BY <1>5, <2>4, <2>5, <2>8 DEF Rearming, B, r
<1> QED BY <1>8, <1>9

\* RearmLiveBatchVictims: every Active voice has its steal key again.
LEMMA RearmFacts ==
    ASSUME NEW room, NEW S, NEW T, NEW n, NEW s \in Laying(room, S, T, n)
    PROVE  /\ Launching(Rearm(s.pool, s.popped, s.used), S, T, {})
           /\ SameSlots(s.pool, Rearm(s.pool, s.popped, s.used))
<1> DEFINE p == s.pool
           m == Len(s.popped)
           list == [i \in DOMAIN s.popped |-> i]
           W == [i \in 0 .. m |-> Rearming(p, s.popped, i)]
           q == Rearm(s.pool, s.popped, s.used)
<1>1. /\ p \in Pools /\ s.popped \in Batches /\ Launching(p, S, T, Places(s.popped))
      /\ s.popped # <<>> => p.valid
      /\ \A i, j \in 1 .. Len(s.popped) :
            s.popped[i].victim = s.popped[j].victim => s.popped[i].position = s.popped[j].position
      /\ \A i \in s.used \intersect (1 .. Len(s.popped)) : s.popped[i].victim \in s.pool.deferred
  BY DEF Laying
<1>2. m \in Nat /\ DOMAIN s.popped = 1 .. m
  <2> DEFINE R == [victim : Handles, position : Nat]
  <2>1. s.popped \in Seq(R)
    BY <1>1 DEF Batches
  <2> HIDE DEF R
  <2> QED BY <2>1
<1>3. Shape(p) /\ Keyed(p, p.deferred, Places(s.popped)) /\ Body(p, {}, S, T)
  BY <1>1 DEF Launching, Body
<1>4. q = Rearmed(p, list, s.popped, s.used)
  BY DEF Rearm, Rearmed
<1>5. Len(list) = m /\ \A i \in 1 .. m : list[i] = i
  BY <1>2
<1>6. p \in W[0]
  <2>1. \A g, k : <<g, k>> \in Places(s.popped) => <<g, k>> \in PlacesAfter(s.popped, 0)
    <3> HIDE DEF p
    <3>1. \A k \in 1 .. m : k > 0
      BY <1>2
    <3> QED BY <3>1 DEF Places, PlacesAfter
  <2>2. Keyed(p, p.deferred, PlacesAfter(s.popped, 0))
    BY <1>3, <2>1, KeyedMore
  <2>3. p \in Rearming(p, s.popped, 0)
    BY <1>1, <2>2 DEF Rearming, SameSlots
  <2> QED BY <1>2, <2>3
<1>7. \A i \in 1 .. m : \A r \in W[i - 1] : RearmStep(r, list[i], s.popped, s.used) \in W[i]
  <2> SUFFICES ASSUME NEW i \in 1 .. m, NEW r \in Rearming(p, s.popped, i - 1)
               PROVE  RearmStep(r, i, s.popped, s.used) \in Rearming(p, s.popped, i)
    <3>1. \A i \in 1 .. m : W[i] = Rearming(p, s.popped, i) /\ W[i - 1] = Rearming(p, s.popped, i - 1)
      BY <1>2
    <3> HIDE DEF W, list
    <3> QED BY <1>5, <3>1
  <2>1. p.valid
    BY <1>1, BatchFacts
  <2> HIDE DEF W, list, q
  <2> QED BY <1>1, <1>3, <2>1, RearmStepFacts
<1>8. W[m] = Rearming(p, s.popped, m)
  BY <1>2
<1>9. q \in Rearming(p, s.popped, m)
  <2> HIDE DEF W, list, p, m, q
  <2> QED BY <1>2, <1>4, <1>5, <1>6, <1>7, <1>8, RearmAlong
<1>10. PlacesAfter(s.popped, m) = {}
  <2>1. \A k \in 1 .. m : ~ (k > m)
    BY <1>2
  <2> QED BY <2>1 DEF PlacesAfter
<1>11. q \in Pools /\ SameSlots(p, q) /\ Keyed(q, p.deferred, {})
  BY <1>9, <1>10 DEF Rearming
<1> HIDE DEF q
<1>12. Body(q, {}, S, T)
  BY <1>3, <1>11, BodySame
<1>13. Launching(q, S, T, {})
  BY <1>1, <1>11, <1>12 DEF Launching, SameSlots
<1> QED BY <1>11, <1>13 DEF q

-----------------------------------------------------------------------------
(* A launch ends: roll-back or commit.                                    *)

\* The pool between two events, but for what is left in the free rows.
Ready(p, room, S, T) ==
    Body(p, {}, S, T) /\ Keyed(p, {}, {}) /\ p.deferred = {} /\ Within(p, room)

\* What a loop over s has to look at after its first i entries.
Beyond(s, i) == {s[j] : j \in {k \in 1 .. Len(s) : k > i}}

\* The handles a loop has still to look at.
LEMMA TailFacts ==
    ASSUME NEW B, NEW s \in Seq(B)
    PROVE  /\ Beyond(s, 0) = ToSet(s) /\ Beyond(s, Len(s)) = {}
           /\ \A i \in 1 .. Len(s) : Beyond(s, i - 1) = Beyond(s, i) \union {s[i]}
<1>1. \A k \in 1 .. Len(s) : k > 0 /\ ~ (k > Len(s))
  OBVIOUS
<1>2. Beyond(s, 0) = ToSet(s) /\ Beyond(s, Len(s)) = {}
  BY <1>1 DEF Beyond, ToSet
<1>3. ASSUME NEW i \in 1 .. Len(s) PROVE Beyond(s, i - 1) = Beyond(s, i) \union {s[i]}
  <2>1. \A k \in 1 .. Len(s) : k > i - 1 <=> k = i \/ k > i
    OBVIOUS
  <2> QED BY <2>1 DEF Beyond
<1> QED BY <1>2, <1>3

\* A launch of which the first i handles are taken back or committed.
Winding(room, S, T, s, i) ==
    {q \in Pools : /\ Body(q, {}, S, T) /\ Keyed(q, q.deferred, {}) /\ Within(q, room)
                   /\ q.deferred \subseteq Beyond(s, i)
                   /\ \A h \in q.deferred : q.voice[h].state = "Active"}

\* One handle of a failed launch is retired.
LEMMA RollStepFacts ==
    ASSUME NEW room, NEW S, NEW T, NEW s \in Seq(Slots), NEW i \in 1 .. Len(s),
           NEW q \in Winding(room, S, T, s, i - 1)
    PROVE  RollStep(q, s[i]) \in Winding(room, S, T, s, i)
<1> DEFINE h == s[i]
           r == RollStep(q, h)
<1>1. /\ q \in Pools /\ Body(q, {}, S, T) /\ Keyed(q, q.deferred, {}) /\ Within(q, room)
      /\ q.deferred \subseteq Beyond(s, i - 1)
      /\ \A g \in q.deferred : q.voice[g].state = "Active"
  BY DEF Winding
<1>2. h \in Slots /\ Beyond(s, i - 1) = Beyond(s, i) \union {h} /\ q.deferred \subseteq Handles
  BY <1>1, TailFacts DEF Pools
<1>3. CASE h \notin q.deferred /\ r = q
  BY <1>1, <1>2, <1>3 DEF Winding
<1>4. CASE h = NoVoice
  <2>1. h \notin q.deferred /\ r = q
    BY <1>2, <1>4, HandlesAssumption DEF RollStep
  <2> QED BY <1>3, <2>1
<1>5. CASE h # NoVoice /\ q.voice[h].state = "Free"
  <2>1. h \notin q.deferred
    BY <1>1, <1>5
  <2>2. r = q
    BY <1>5 DEF RollStep, RetireVoice, Drop
  <2> QED BY <1>3, <2>1, <2>2
<1>6. CASE h # NoVoice /\ q.voice[h].state # "Free"
  <2>0. h \in Handles
    BY <1>2, <1>6 DEF Slots
  <2>1. h \in Live(q)
    BY <1>1, <1>6, <2>0, LiveFacts DEF Body
  <2> DEFINE D == q.deferred \ {h}
  <2>2. Keyed(q, D \union {h}, {})
    BY <1>1, KeyedMore
  <2>3. r = Drop(q, h, NoVoice)
    BY <1>6 DEF RollStep, RetireVoice
  <2>4. q.deferred \subseteq D \union {h}
    OBVIOUS
  <2>5. Dropped(q, Drop(q, h, NoVoice), h, NoVoice, {}, S, T, D, {})
    <3> HIDE DEF D, r, h
    <3> QED BY <1>1, <2>1, <2>2, <2>4, DropFacts
  <2>6. /\ Body(r, {}, S, T) /\ Keyed(r, D, {}) /\ r.deferred = D /\ r.limit = q.limit
        /\ \A g \in Handles \ {h} : r.voice[g] = q.voice[g]
    BY <2>3, <2>5 DEF Dropped, Without
  <2>7. \A g \in D : r.voice[g].state = "Active"
    BY <1>1, <1>2, <2>6
  <2> HIDE DEF r
  <2>8. r \in Pools
    BY <2>6 DEF Body
  <2>9. D \subseteq Beyond(s, i)
    BY <1>1, <1>2
  <2>10. Within(r, room)
    <3> HIDE DEF D
    <3>1. Grown(q, r)
      BY <1>1, <2>0, <2>3, <2>5, DroppedGrown DEF Body
    <3> QED BY <1>1, <2>8, <3>1, Grows
  <2> HIDE DEF D
  <2> QED BY <1>1, <2>6, <2>7, <2>8, <2>9, <2>10 DEF Winding, r
<1> QED BY <1>4, <1>5, <1>6

\* The roll-back of a failed launch leaves a pool as between two events.
LEMMA RollFacts ==
    ASSUME NEW p, NEW room, NEW S, NEW T, Launching(p, S, T, {}), Within(p, room),
           NEW s \in Seq(Slots), p.deferred \subseteq ToSet(s)
    PROVE  Ready(RollBack(p, s), room, S, T)
<1> DEFINE n == Len(s)
           W == [i \in 0 .. n |-> Winding(room, S, T, s, i)]
<1>1. RollBack(p, s) = Rolled(p, s)
  BY DEF RollBack, Rolled
<1>2. p \in Winding(room, S, T, s, 0)
  BY TailFacts DEF Winding, Launching, Body
<1>3. /\ n \in Nat /\ W[0] = Winding(room, S, T, s, 0) /\ W[n] = Winding(room, S, T, s, n)
      /\ \A i \in 1 .. n : /\ W[i] = Winding(room, S, T, s, i)
                           /\ W[i - 1] = Winding(room, S, T, s, i - 1)
  OBVIOUS
<1> HIDE DEF W
<1>4. \A i \in 1 .. n : \A q \in W[i - 1] : RollStep(q, s[i]) \in W[i]
  <2> SUFFICES ASSUME NEW i \in 1 .. n, NEW q \in Winding(room, S, T, s, i - 1)
               PROVE  RollStep(q, s[i]) \in Winding(room, S, T, s, i)
    BY <1>3
  <2> QED BY RollStepFacts
<1>5. Rolled(p, s) \in W[n]
  BY <1>2, <1>3, <1>4, RollAlong
<1>6. Rolled(p, s) \in Winding(room, S, T, s, Len(s))
  BY <1>3, <1>5
<1> DEFINE q == Rolled(p, s)
<1> HIDE DEF q
<1>7. /\ Body(q, {}, S, T) /\ Keyed(q, q.deferred, {}) /\ Within(q, room)
      /\ q.deferred \subseteq Beyond(s, Len(s))
  BY <1>6 DEF Winding, q
<1>8. q.deferred = {}
  BY <1>7, TailFacts
<1> QED BY <1>1, <1>7, <1>8 DEF Ready, q

\* One newborn voice becomes stealable.
LEMMA CommitStepFacts ==
    ASSUME NEW room, NEW S, NEW T, NEW s \in Seq(Handles), NEW i \in 1 .. Len(s),
           NEW q \in Winding(room, S, T, s, i - 1), q.voice[s[i]].state = "Active"
    PROVE  /\ CommitStep(q, s[i]) \in Winding(room, S, T, s, i)
           /\ CommitStep(q, s[i]).voice = q.voice
<1> DEFINE h == s[i]
           D == q.deferred \ {h}
           a == [q EXCEPT !.deferred = @ \ {h}]
           r == CommitStep(q, h)
<1>1. /\ q \in Pools /\ Body(q, {}, S, T) /\ Keyed(q, q.deferred, {}) /\ Within(q, room)
      /\ q.deferred \subseteq Beyond(s, i - 1)
      /\ \A g \in q.deferred : q.voice[g].state = "Active"
  BY DEF Winding
<1>2. h \in Handles /\ Beyond(s, i - 1) = Beyond(s, i) \union {h}
  BY <1>1, TailFacts
<1>3. /\ a \in Pools /\ a.voice = q.voice /\ a.chain = q.chain /\ a.active = q.active
      /\ a.free = q.free /\ a.limit = q.limit /\ a.deferred = D /\ a.over = q.over
      /\ SameIndex(q, a)
  BY <1>1 DEF Pools, SameIndex
<1> HIDE DEF D, a
<1>4. Body(a, {}, S, T)
  BY <1>1, <1>3 DEF Body, Shape, Chained, Kept, Pedals, In, Live, Waits
<1>5. Keyed(a, q.deferred, {})
  BY <1>1, <1>3, KeyedSame DEF SameIndex
<1>6. r = IF ~ a.valid THEN a
          ELSE [a EXCEPT !.leaf[h] = Position(a, h), !.over = @ \/ a.leaf[h] # 0]
  <2>1. a.voice[h].state # "Releasing"
    BY <1>3
  <2> QED BY <2>1 DEF CommitStep, Index, a
<1>7. D \subseteq Beyond(s, i) /\ D \subseteq q.deferred /\ q.deferred \subseteq D \union {h}
  BY <1>1, <1>2 DEF D
<1>8. CASE ~ a.valid
  <2>1. r = a
    BY <1>6, <1>8
  <2>2. Keyed(a, D, {})
    BY <1>8 DEF Keyed
  <2> QED BY <1>1, <1>3, <1>4, <1>7, <2>1, <2>2, Stays DEF Winding
<1>9. CASE a.valid
  <2> DEFINE at == Position(a, h)
             leaf == [a.leaf EXCEPT ![h] = at]
  <2>1. at \in Nat /\ a.leaf \in [Handles -> Nat] /\ at # 0
    <3>1. h \in Live(a) /\ Shape(a)
      BY <1>2, <1>3, <1>4, LiveFacts DEF Body
    <3>2. at \in 1 .. Len(a.active) /\ Len(a.active) \in Nat
      BY <1>3, <3>1, LiveFacts
    <3>3. a.leaf \in [Handles -> Nat]
      BY <1>3 DEF Pools
    <3> HIDE DEF at
    <3> QED BY <3>2, <3>3
  <2>2. r = [a EXCEPT !.leaf[h] = at, !.over = @ \/ a.leaf[h] # 0]
    BY <1>6, <1>9
  <2> HIDE DEF at, r
  <2>3. /\ leaf \in [Handles -> Nat] /\ leaf[h] = at
        /\ \A g \in Handles \ {h} : leaf[g] = a.leaf[g]
    BY <1>2, <2>1
  <2>4. r = [a EXCEPT !.leaf = leaf, !.over = a.over \/ a.leaf[h] # 0]
    BY <1>3, <2>2 DEF Pools
  <2> HIDE DEF leaf
  <2>5. /\ r \in Pools /\ SameSlots(a, r) /\ r.valid = a.valid /\ r.volatile = a.volatile
        /\ r.leaf = leaf
    BY <1>3, <2>3, <2>4 DEF Pools, SameSlots
  <2>6. Body(r, {}, S, T)
    BY <1>4, <2>5, BodySame
  <2>7. \A g : Position(r, g) = Position(a, g)
    BY <2>5, PositionSame DEF SameSlots
  <2>8. Keyed(r, D, {})
    <3>1. r.volatile \subseteq In(r, "Releasing")
      BY <1>5, <1>9, <2>5 DEF Keyed, SameSlots, In
    <3>2. \A g \in Handles \ D : g = h \/ g \in Handles \ q.deferred
      BY <1>7
    <3>3. \A g \in Handles \ D :
             r.leaf[g] # 0 => r.voice[g].state = "Active" /\ r.leaf[g] = Position(r, g)
      BY <1>3, <1>5, <1>9, <2>3, <2>5, <2>7, <3>2 DEF Keyed, SameSlots, at
    <3>4. \A g \in Handles \ D : r.voice[g].state = "Active" => r.leaf[g] # 0
      BY <1>3, <1>5, <1>9, <2>1, <2>3, <2>5, <3>2 DEF Keyed, SameSlots
    <3> QED BY <3>1, <3>3, <3>4 DEF Keyed
  <2>9. Within(r, room)
    BY <1>1, <1>3, <2>5, Stays DEF SameSlots
  <2> QED BY <1>1, <1>3, <1>7, <2>5, <2>6, <2>8, <2>9 DEF Winding, SameSlots, r
<1> QED BY <1>8, <1>9

\* CommitVoiceGroupConfigurations: no voice is deferred any more.
LEMMA CommitFacts ==
    ASSUME NEW p, NEW room, NEW S, NEW T, Body(p, {}, S, T), Keyed(p, p.deferred, {}),
           Within(p, room), NEW s \in Seq(Handles), p.deferred \subseteq ToSet(s),
           \A h \in ToSet(s) : p.voice[h].state = "Active"
    PROVE  /\ Ready(Commit(p, s), room, S, T)
           /\ Commit(p, s).voice = p.voice
<1> DEFINE n == Len(s)
           V(i) == {q \in Winding(room, S, T, s, i) : q.voice = p.voice}
           W == [i \in 0 .. n |-> V(i)]
           q == Commit(p, s)
<1>1. q = Committed(p, s)
  BY DEF Commit, Committed
<1>2. p \in V(0)
  BY TailFacts DEF Winding, Body
<1>3. ASSUME NEW i \in 1 .. n, NEW r \in V(i - 1) PROVE CommitStep(r, s[i]) \in V(i)
  <2>1. s[i] \in ToSet(s)
    BY InToSet
  <2> QED BY <2>1, CommitStepFacts
<1>4. /\ n \in Nat /\ W[0] = V(0) /\ W[n] = V(n)
      /\ \A i \in 1 .. n : W[i] = V(i) /\ W[i - 1] = V(i - 1)
  OBVIOUS
<1> HIDE DEF W, V
<1>5. \A i \in 1 .. n : \A r \in W[i - 1] : CommitStep(r, s[i]) \in W[i]
  BY <1>3, <1>4
<1>6. Committed(p, s) \in W[n]
  BY <1>2, <1>4, <1>5, CommitAlong
<1>7. q \in V(n)
  BY <1>1, <1>4, <1>6
<1> HIDE DEF q
<1>8. /\ Body(q, {}, S, T) /\ Keyed(q, q.deferred, {}) /\ Within(q, room)
      /\ q.deferred \subseteq Beyond(s, Len(s)) /\ q.voice = p.voice
  BY <1>7 DEF Winding, V
<1>9. q.deferred = {}
  BY <1>8, TailFacts
<1> QED BY <1>8, <1>9 DEF Ready, q

\* Play indices, multiplicities and classes bear on none of the invariant's parts.
LEMMA RelabelFacts ==
    ASSUME NEW p, NEW q \in Pools, q.chain = p.chain, q.active = p.active, q.free = p.free,
           SameIndex(p, q),
           \A h \in Handles : /\ q.voice[h].state = p.voice[h].state
                              /\ q.voice[h].key = p.voice[h].key
                              /\ q.voice[h].held = p.voice[h].held
    PROVE  /\ \A E, S, T : Body(p, E, S, T) => Body(q, E, S, T)
           /\ \A D, X : Keyed(p, D, X) => Keyed(q, D, X)
           /\ \A t : In(q, t) = In(p, t)
<1>1. \A t : In(q, t) = In(p, t)
  BY DEF In
<1>2. Live(q) = Live(p)
  BY <1>1 DEF Live
<1>3. \A E, S, T : Body(p, E, S, T) => Body(q, E, S, T)
  <2> SUFFICES ASSUME NEW E, NEW S, NEW T, Body(p, E, S, T) PROVE Body(q, E, S, T)
    OBVIOUS
  <2>1. p \in Pools
    BY DEF Body
  <2>2. Chained(q)
    <3>1. \A k \in Keys : ToSet(p.chain[k]) \subseteq Handles
      BY <2>1, ChainMembers
    <3> QED BY <3>1 DEF Body, Chained
  <2>3. \A h \in Handles : Waits(p, h) => Waits(q, h)
    BY DEF Waits
  <2> QED BY <1>1, <1>2, <2>2, <2>3 DEF Body, Shape, Kept, Pedals
<1>4. \A D, X : Keyed(p, D, X) => Keyed(q, D, X)
  BY <1>1, PositionSame DEF Keyed, SameIndex
<1> QED BY <1>1, <1>3, <1>4

\* What a launch leaves.
Done(r, room, S, T) == Ready(r.pool, room, S, T) /\ r.born \subseteq In(r.pool, "Active")

\* ConfigureVoice and commit: what a launch leaves.
LEMMA LaunchedFacts ==
    ASSUME NEW p, NEW room, NEW S, NEW T, Launching(p, S, T, {}), Within(p, room),
           NEW handles \in Seq(Handles), p.deferred = ToSet(handles),
           NEW layers \in Seq([class : Nat, offBy : Nat]),
           Len(handles) <= Len(layers), NEW play \in Nat, NEW mult \in Nat \ {0}
    PROVE  Done(Launched(p, handles, layers, play, mult), room, S, T)
<1> DEFINE At(h) == CHOOSE i \in DOMAIN handles : handles[i] = h
           row(h) == [p.voice[h] EXCEPT !.play = play, !.mult = mult,
                                        !.class = layers[At(h)].class]
           voice == [h \in Handles |-> IF \A i \in DOMAIN handles : handles[i] # h
                                       THEN p.voice[h] ELSE row(h)]
           q == [p EXCEPT !.voice = [h \in Handles |->
                    IF \A i \in DOMAIN handles : handles[i] # h THEN @[h]
                    ELSE [@[h] EXCEPT
                            !.play = play, !.mult = mult,
                            !.class = layers[CHOOSE i \in DOMAIN handles :
                                                handles[i] = h].class]]]
           w == Commit(q, handles)
<1>1. Launched(p, handles, layers, play, mult) = [pool |-> w, born |-> ToSet(handles)]
  BY DEF Launched, Configure
<1>2. p \in Pools /\ Body(p, {}, S, T) /\ Keyed(p, p.deferred, {})
  BY DEF Launching, Body
<1>3. ASSUME NEW h \in Handles
      PROVE  /\ voice[h] \in VoiceType /\ voice[h].state = p.voice[h].state
             /\ voice[h].key = p.voice[h].key /\ voice[h].held = p.voice[h].held
  <2>1. p.voice[h] \in VoiceType
    BY <1>2 DEF Pools
  <2>2. CASE \A i \in DOMAIN handles : handles[i] # h
    BY <2>1, <2>2
  <2>3. CASE \E i \in DOMAIN handles : handles[i] = h
    <3>1. At(h) \in DOMAIN handles
      BY <2>3
    <3>2. At(h) \in 1 .. Len(layers)
      BY <3>1
    <3> DEFINE R == [class : Nat, offBy : Nat]
    <3>3. layers[At(h)] \in R
      <4> HIDE DEF At, R
      <4>1. layers \in Seq(R)
        BY DEF R
      <4> QED BY <3>2, <4>1
    <3>4. layers[At(h)].class \in Nat
      BY <3>3
    <3> DEFINE c == layers[At(h)].class
    <3> HIDE DEF At, c
    <3>5. [p.voice[h] EXCEPT !.play = play, !.mult = mult, !.class = c] \in VoiceType
      BY <2>1, <3>4 DEF VoiceType, c
    <3>6. /\ [p.voice[h] EXCEPT !.play = play, !.mult = mult, !.class = c].state = p.voice[h].state
          /\ [p.voice[h] EXCEPT !.play = play, !.mult = mult, !.class = c].key = p.voice[h].key
          /\ [p.voice[h] EXCEPT !.play = play, !.mult = mult, !.class = c].held = p.voice[h].held
      BY <2>1 DEF VoiceType
    <3>7. voice[h] = [p.voice[h] EXCEPT !.play = play, !.mult = mult, !.class = c]
      BY <2>3 DEF c
    <3> QED BY <3>5, <3>6, <3>7
  <2> QED BY <2>2, <2>3
<1>4. voice \in [Handles -> VoiceType]
  <2> HIDE DEF row
  <2>1. voice = [h \in Handles |-> voice[h]]
    OBVIOUS
  <2> HIDE DEF voice
  <2> QED BY <1>3, <2>1
<1>5. q = [p EXCEPT !.voice = voice]
  BY <1>2 DEF Pools
<1> HIDE DEF voice, row, q, At
<1>6. /\ q \in Pools /\ q.voice = voice /\ q.chain = p.chain /\ q.active = p.active
      /\ q.free = p.free /\ q.limit = p.limit /\ q.deferred = p.deferred /\ SameIndex(p, q)
  BY <1>2, <1>4, <1>5 DEF Pools, SameIndex
<1>7. /\ Body(q, {}, S, T) /\ Keyed(q, q.deferred, {}) /\ \A t : In(q, t) = In(p, t)
  BY <1>2, <1>3, <1>6, RelabelFacts
<1>8. \A h \in ToSet(handles) : h \in Handles /\ q.voice[h].state = "Active"
  <2>1. ToSet(handles) \subseteq Handles
    BY InToSet
  <2> QED BY <1>3, <1>6, <2>1 DEF Launching
<1>9. Ready(w, room, S, T) /\ w.voice = q.voice
  <2>1. Within(q, room)
    BY <1>6, Stays
  <2> HIDE DEF w
  <2> QED BY <1>6, <1>7, <1>8, <2>1, CommitFacts DEF w
<1> HIDE DEF w
<1> QED BY <1>1, <1>6, <1>8, <1>9 DEF Done, In

\* The general path of LaunchVoiceGroup, whether it succeeds or rolls back.
LEMMA GeneralFacts ==
    ASSUME NEW p, NEW room, NEW S, NEW T, Ready(p, room, S, T), NEW key \in Keys,
           NEW layers \in Seq([class : Nat, offBy : Nat]), NEW play \in Nat,
           NEW mult \in Nat \ {0}, NEW batch \in BOOLEAN,
           NEW r \in General(p, key, layers, play, mult, batch)
    PROVE  Done(r, room, S, T)
<1>1. PICK s \in PlaceLayers(p, key, Len(layers), batch) :
         r = IF s.failed
             THEN [pool |-> RollBack(Rearm(s.pool, s.popped, s.used), s.handles), born |-> {}]
             ELSE Launched(Rearm(s.pool, s.popped, s.used), s.handles, layers, play, mult)
  BY DEF General
<1> DEFINE q == Rearm(s.pool, s.popped, s.used)
<1>2. Len(layers) \in Nat
  OBVIOUS
<1>3. s \in Laying(room, S, T, Len(layers))
  <2>1. PlaceLayers(p, key, Len(layers), batch) \subseteq Laying(room, S, T, Len(layers))
    BY <1>2, PlaceLayersFacts DEF Ready
  <2> QED BY <1>1, <2>1
<1>4. Launching(q, S, T, {}) /\ SameSlots(s.pool, q)
  BY <1>3, RearmFacts
<1> HIDE DEF q
<1>5. /\ s.handles \in Seq(Slots) /\ Len(s.handles) <= Len(layers)
      /\ q.deferred = ToSet(s.handles) \ {NoVoice} /\ Within(q, room)
      /\ ~ s.failed => NoVoice \notin ToSet(s.handles)
  BY <1>3, <1>4, Stays DEF Laying, SameSlots
<1>6. CASE s.failed
  <2>1. Ready(RollBack(q, s.handles), room, S, T)
    BY <1>4, <1>5, RollFacts
  <2>2. r = [pool |-> RollBack(q, s.handles), born |-> {}]
    BY <1>1, <1>6 DEF q
  <2> QED BY <2>1, <2>2 DEF Done
<1>7. CASE ~ s.failed
  <2>1. s.handles \in Seq(Handles)
    <3>1. \A i \in 1 .. Len(s.handles) : s.handles[i] \in Handles
      BY <1>5, <1>7, InToSet DEF Slots
    <3> QED BY <1>5, <3>1, SeqNarrow
  <2>2. q.deferred = ToSet(s.handles)
    BY <1>5, <1>7
  <2>3. r = Launched(q, s.handles, layers, play, mult)
    BY <1>1, <1>7 DEF q
  <2> QED BY <1>4, <1>5, <2>1, <2>2, <2>3, LaunchedFacts
<1> QED BY <1>6, <1>7

-----------------------------------------------------------------------------
(* Launching over voices that sound.                                      *)

\* There is a play index that no live voice has.
LEMMA FreshPlayFacts ==
    ASSUME NEW p \in Pools
    PROVE  FreshPlay(p) \in Nat \ {0}
<1> DEFINE L == Live(p)
           f == [h \in L |-> p.voice[h].play]
           T == {p.voice[h].play : h \in L}
           C == Cardinality(Handles)
           N == {n \in 1 .. Capacity + 1 : \A h \in L : p.voice[h].play # n}
<1>1. IsFiniteSet(L) /\ Cardinality(L) <= C /\ C \in Nat /\ Cardinality(L) \in Nat
  <2>1. IsFiniteSet(Handles) /\ L \in SUBSET Handles
    BY HandlesAssumption DEF Live
  <2> QED BY <2>1, FS_Subset, FS_CardinalityType
<1>2. IsFiniteSet(T) /\ Cardinality(T) <= Cardinality(L)
  <2>1. f \in Surjection(L, T)
    BY DEF Surjection
  <2> HIDE DEF f, T, L
  <2> QED BY <1>1, <2>1, FS_Surjection
<1>3. N # {}
  <2> SUFFICES ASSUME N = {} PROVE FALSE
    OBVIOUS
  <2>1. (1 .. C + 1) \in SUBSET T
    BY DEF Capacity
  <2>2. Cardinality(1 .. C + 1) = C + 1
    BY <1>1, FS_Interval
  <2>3. Cardinality(1 .. C + 1) <= Cardinality(T) /\ Cardinality(T) \in Nat
    <3> HIDE DEF T, C
    <3> QED BY <1>2, <2>1, FS_Subset, FS_CardinalityType
  <2> HIDE DEF T, C, L
  <2> QED BY <1>1, <1>2, <2>2, <2>3
<1>4. N \in SUBSET Nat /\ N \subseteq Nat \ {0}
  BY <1>1 DEF Capacity
<1>5. FreshPlay(p) = Min(N)
  BY DEF FreshPlay
<1> HIDE DEF N
<1>6. Min(N) \in N
  BY <1>3, <1>4, LeastExists
<1> QED BY <1>4, <1>5, <1>6

-----------------------------------------------------------------------------

\* StartRelease over a list.
Released(p, s) == Along(Release, p, s)

\* StartRelease over any list keeps the invariant.
LEMMA ReleasedFacts ==
    ASSUME NEW p, NEW room, NEW S, NEW T, Ready(p, room, S, T), NEW s \in Seq(Handles)
    PROVE  Ready(Released(p, s), room, S, T)
<1> DEFINE n == Len(s)
           U == {q \in Pools : Ready(q, room, S, T)}
           W == [i \in 0 .. n |-> U]
<1>1. p \in U
  BY DEF Ready, Body
<1>2. ASSUME NEW q \in U, NEW h \in Handles PROVE Release(q, h) \in U
  <2>1. Body(q, {}, S, T) /\ Keyed(q, {}, {}) /\ q.deferred = {} /\ Within(q, room)
    BY DEF Ready
  <2> DEFINE r == Release(q, h)
  <2> HIDE DEF r
  <2>2. /\ Body(r, {}, S, T) /\ Keyed(r, {}, {}) /\ r.deferred = {}
        /\ r.limit = q.limit /\ r.active = q.active
    BY <2>1, ReleaseFacts DEF r
  <2> QED BY <2>1, <2>2, Stays DEF Ready, Body, r
<1>3. /\ n \in Nat /\ W[0] = U /\ W[n] = U /\ \A i \in 1 .. n : W[i] = U /\ W[i - 1] = U
      /\ \A i \in 1 .. n : s[i] \in Handles
  OBVIOUS
<1> HIDE DEF W, U
<1>4. \A i \in 1 .. n : \A q \in W[i - 1] : Release(q, s[i]) \in W[i]
  BY <1>2, <1>3
<1>5. Along(Release, p, s) \in W[n]
  BY <1>1, <1>3, <1>4, ReleaseAlong
<1> QED BY <1>3, <1>5 DEF U, Released

\* ReleaseChannel and the choke keep the invariant.
LEMMA ReleaseAllFacts ==
    ASSUME NEW p, NEW room, NEW S, NEW T, Ready(p, room, S, T), NEW R
    PROVE  Ready(ReleaseAll(p, R), room, S, T)
<1>1. InOrder(p, R) \in Seq(Handles)
  BY InOrderFacts DEF Ready, Body
<1>2. ReleaseAll(p, R) = Released(p, InOrder(p, R))
  BY DEF ReleaseAll, Released
<1> QED BY <1>1, <1>2, ReleasedFacts

-----------------------------------------------------------------------------
\* A voice out of the index gets a newborn in its place.
Reborn(p, q, h, S, T, X) ==
    /\ Launching(q, S, T, X) /\ q.limit = p.limit /\ q.active = p.active
    /\ q.deferred = p.deferred \union {h}
    /\ \A g \in Handles \ {h} : q.voice[g] = p.voice[g]

\* A victim that is out of the index gives its slot to a newborn voice.
LEMMA RebornFacts ==
    ASSUME NEW p, NEW S, NEW T, NEW X, NEW h \in Handles, Body(p, {}, S, T),
           Keyed(p, p.deferred \union {h}, X),
           \A g \in p.deferred : p.voice[g].state = "Active" /\ p.voice[g].play = NoPlay,
           h \in Live(p), h \notin p.volatile, NEW key \in Keys
    PROVE  Reborn(p, Prepare(Unlink(p, h), h, key), h, S, T, X)
<1> DEFINE b == Unlink(p, h)
           w == Prepare(b, h, key)
<1>1. /\ Body(b, {} \union {h}, S, T) /\ SameIndex(p, b) /\ b.voice = p.voice
      /\ b.active = p.active /\ b.limit = p.limit /\ b.deferred = p.deferred
      /\ \A k \in Keys : h \notin ToSet(b.chain[k])
  BY UnlinkFacts
<1> HIDE DEF b
<1>2. Born(b, w, h, key, {}, S, T)
  <2>1. b \in Pools /\ Shape(b) /\ p \in Pools /\ Shape(p)
    BY <1>1 DEF Body
  <2>2. p.voice[h].state # "Free"
    BY <2>1, LiveFacts
  <2>3. h \in Live(b) /\ h \notin In(b, "Free")
    BY <1>1, <2>2 DEF Live, In
  <2>4. /\ ToSet(b.active) = Live(b) \union {h} /\ Distinct(b.active)
        /\ b.free = In(b, "Free") \ {h}
    BY <2>1, <2>3 DEF Shape
  <2> QED BY <1>1, <2>1, <2>4, PrepareFacts DEF Body
<1> HIDE DEF w
<1>3. /\ w.deferred = p.deferred \union {h} /\ w.limit = p.limit /\ w.valid = p.valid
      /\ w.leaf = p.leaf /\ w.volatile = p.volatile /\ w.active = p.active
      /\ \A g \in Handles \ {h} : w.voice[g] = p.voice[g]
      /\ Newborn(w.voice[h], key) /\ Body(w, {}, S, T)
  BY <1>1, <1>2 DEF Born, SameIndex
<1>4. Keyed(w, w.deferred, X)
  <2>1. \A g : Position(w, g) = Position(p, g)
    BY <1>3, PositionSame
  <2>2. p.valid => p.volatile \subseteq In(p, "Releasing")
    BY DEF Keyed
  <2>3. w.valid => w.volatile \subseteq In(w, "Releasing")
    BY <1>3, <2>2 DEF In
  <2> QED BY <1>3, <2>1, <2>3 DEF Keyed
<1>5. Launching(w, S, T, X)
  <2>1. \A g \in w.deferred : w.voice[g].state = "Active" /\ w.voice[g].play = NoPlay
    <3> SUFFICES ASSUME NEW g \in w.deferred
                 PROVE  w.voice[g].state = "Active" /\ w.voice[g].play = NoPlay
      OBVIOUS
    <3>0. g \in Handles
      BY <1>3 DEF Body, Pools
    <3>1. CASE g = h
      BY <1>3, <3>1 DEF Newborn
    <3>2. CASE g # h
      BY <1>3, <3>0, <3>2
    <3> QED BY <3>1, <3>2
  <2> QED BY <1>3, <1>4, <2>1 DEF Launching
<1> QED BY <1>3, <1>5 DEF Reborn, w, b

\* The slots s of which the first i are taken over in place.
Replacing(room, S, T, s, live, i) ==
    {q \in Pools : /\ Launching(q, S, T, {}) /\ Within(q, room) /\ Live(q) = live
                   /\ q.deferred = {s[j] : j \in 1 .. i}}

\* One slot of ReplaceGroupInPlace.
LEMMA ReplaceStepFacts ==
    ASSUME NEW room, NEW S, NEW T, NEW live, NEW s \in Seq(Handles), NEW i \in 1 .. Len(s),
           s[i] \in live, NEW q \in Replacing(room, S, T, s, live, i - 1), NEW key \in Keys
    PROVE  ReplaceStep(q, s[i], key) \in Replacing(room, S, T, s, live, i)
<1> DEFINE h == s[i]
           a == Unindex(q, h)
           w == Prepare(Unlink(a, h), h, key)
<1>1. /\ q \in Pools /\ Launching(q, S, T, {}) /\ Within(q, room) /\ Live(q) = live
      /\ q.deferred = {s[j] : j \in 1 .. (i - 1)} /\ h \in Handles
  BY DEF Replacing
<1>2. Keyed(q, q.deferred \union {h}, {}) /\ Body(q, {}, S, T)
  BY <1>1, KeyedMore DEF Launching
<1>3. /\ a \in Pools /\ SameSlots(q, a) /\ h \notin a.volatile
      /\ Keyed(a, q.deferred \union {h}, {})
  BY <1>1, <1>2, UnindexFacts
<1> HIDE DEF a
<1>4. /\ Body(a, {}, S, T) /\ a.deferred = q.deferred /\ a.voice = q.voice /\ Within(a, room)
      /\ Live(a) = live
  BY <1>1, <1>2, <1>3, BodySame, ShapeSame, Stays DEF SameSlots
<1>5. \A g \in a.deferred : a.voice[g].state = "Active" /\ a.voice[g].play = NoPlay
  BY <1>1, <1>4 DEF Launching
<1>6. Reborn(a, w, h, S, T, {})
  <2> HIDE DEF h
  <2> QED BY <1>1, <1>3, <1>4, <1>5, RebornFacts DEF h
<1> HIDE DEF w
<1>7. {s[j] : j \in 1 .. i} = {s[j] : j \in 1 .. (i - 1)} \union {h}
  <2>1. \A j : j \in 1 .. i <=> j \in 1 .. (i - 1) \/ j = i
    OBVIOUS
  <2> QED BY <2>1
<1>8. /\ w \in Pools /\ Launching(w, S, T, {}) /\ Within(w, room)
      /\ w.deferred = a.deferred \union {h}
      /\ \A g \in Handles \ {h} : w.voice[g] = a.voice[g]
  BY <1>4, <1>6, Stays DEF Reborn, Launching, Body
<1>9. Live(w) = live
  <2>1. w.voice[h].state = "Active"
    BY <1>8 DEF Launching
  <2>2. \A g \in Handles : w.voice[g].state = "Free" <=> a.voice[g].state = "Free"
    <3>1. a.voice[h].state # "Free"
      BY <1>1, <1>4, LiveFacts DEF Body
    <3> QED BY <1>8, <2>1, <3>1
  <2> QED BY <1>4, <2>2 DEF Live, In
<1>10. w.deferred = {s[j] : j \in 1 .. i}
  BY <1>1, <1>4, <1>7, <1>8
<1>11. ReplaceStep(q, h, key) = w
  BY DEF ReplaceStep, w, a
<1> HIDE DEF h
<1>12. w \in Replacing(room, S, T, s, live, i)
  BY <1>8, <1>9, <1>10 DEF Replacing
<1> QED BY <1>11, <1>12 DEF h

\* ReplaceGroupInPlace: every slot keeps its position and has a newborn voice.
LEMMA ReplaceFacts ==
    ASSUME NEW p, NEW room, NEW S, NEW T, Ready(p, room, S, T), NEW s \in Seq(Handles),
           ToSet(s) \subseteq Live(p), NEW key \in Keys
    PROVE  /\ Launching(ReplaceInPlace(p, s, key), S, T, {})
           /\ ReplaceInPlace(p, s, key).deferred = ToSet(s)
           /\ Within(ReplaceInPlace(p, s, key), room)
<1> DEFINE n == Len(s)
           V(i) == Replacing(room, S, T, s, Live(p), i)
           W == [i \in 0 .. n |-> V(i)]
           q == ReplaceInPlace(p, s, key)
<1>1. q = Replaced(p, s, key)
  BY DEF ReplaceInPlace, Replaced
<1>2. p \in V(0)
  <2>1. {s[j] : j \in 1 .. 0} = {}
    OBVIOUS
  <2> QED BY <2>1 DEF Replacing, Ready, Launching, Body
<1>3. ASSUME NEW i \in 1 .. n, NEW r \in V(i - 1) PROVE ReplaceStep(r, s[i], key) \in V(i)
  <2>1. s[i] \in Live(p)
    BY InToSet
  <2> QED BY <1>3, <2>1, ReplaceStepFacts
<1>4. /\ n \in Nat /\ W[0] = V(0) /\ W[n] = V(n)
      /\ \A i \in 1 .. n : W[i] = V(i) /\ W[i - 1] = V(i - 1)
  OBVIOUS
<1> HIDE DEF W, V
<1>5. \A i \in 1 .. n : \A r \in W[i - 1] : ReplaceStep(r, s[i], key) \in W[i]
  BY <1>3, <1>4
<1>6. Replaced(p, s, key) \in W[n]
  BY <1>2, <1>4, <1>5, ReplaceAlong
<1>7. q \in V(n)
  BY <1>1, <1>4, <1>6
<1> HIDE DEF q
<1>8. Launching(q, S, T, {}) /\ Within(q, room) /\ q.deferred = {s[j] : j \in 1 .. Len(s)}
  BY <1>7 DEF V, Replacing
<1>9. ToSet(s) = {s[j] : j \in 1 .. Len(s)}
  BY DEF ToSet
<1> QED BY <1>8, <1>9 DEF q

\* Picked repeats nothing that its list does not.
LEMMA PickedDistinct ==
    ASSUME NEW B, NEW s \in Seq(B), Distinct(s), NEW S
    PROVE  Distinct(Picked(s, S))
<1> DEFINE n == Len(s)
           First(i) == {s[j] : j \in 1 .. i}
           V(i) == {r \in Seq(B) : Distinct(r) /\ ToSet(r) \subseteq First(i)}
           W == [i \in 0 .. n |-> V(i)]
<1>1. n \in Nat
  OBVIOUS
<1>2. <<>> \in V(0)
  BY DEF ToSet, Distinct
<1>3. ASSUME NEW i \in 1 .. n, NEW r \in V(i - 1) PROVE PickStep(r, s[i], S) \in V(i)
  <2>1. r \in Seq(B) /\ Distinct(r) /\ ToSet(r) \subseteq First(i - 1) /\ s[i] \in B
    OBVIOUS
  <2>2. First(i - 1) \subseteq First(i) /\ s[i] \in First(i)
    OBVIOUS
  <2>3. s[i] \notin First(i - 1)
    <3> SUFFICES ASSUME NEW j \in 1 .. (i - 1), s[j] = s[i] PROVE FALSE
      OBVIOUS
    <3>1. j \in 1 .. Len(s) /\ i \in 1 .. Len(s) /\ j # i
      OBVIOUS
    <3> QED BY <3>1 DEF Distinct
  <2> HIDE DEF First
  <2>4. CASE s[i] \in S
    <3>1. PickStep(r, s[i], S) = Append(r, s[i])
      BY <2>4 DEF PickStep
    <3>2. /\ Append(r, s[i]) \in Seq(B) /\ ToSet(Append(r, s[i])) = ToSet(r) \union {s[i]}
          /\ Distinct(Append(r, s[i]))
      BY <2>1, <2>3, AppendFacts
    <3> QED BY <2>1, <2>2, <3>1, <3>2
  <2>5. CASE s[i] \notin S
    <3>1. PickStep(r, s[i], S) = r
      BY <2>5 DEF PickStep
    <3> QED BY <2>1, <2>2, <3>1
  <2> QED BY <2>4, <2>5
<1>4. /\ W[0] = V(0) /\ W[n] = V(n)
      /\ \A i \in 1 .. n : W[i] = V(i) /\ W[i - 1] = V(i - 1)
  OBVIOUS
<1> HIDE DEF W, V
<1>5. \A i \in 1 .. n : \A r \in W[i - 1] : PickStep(r, s[i], S) \in W[i]
  BY <1>3, <1>4
<1>6. Picked(s, S) \in W[n]
  BY <1>1, <1>2, <1>4, <1>5, PickAlong
<1>7. Picked(s, S) \in V(n)
  BY <1>4, <1>6
<1> QED BY <1>7 DEF V

\* The layers of a note-on.
Regions == Seq([class : Nat, offBy : Nat])

\* A reserving selection leaves the pool as it was, but for a rebuilt index.
LEMMA ReserveFacts ==
    ASSUME NEW p, NEW room, NEW S, NEW T, Ready(p, room, S, T),
           NEW c \in PopTier(p, TRUE), c.victim # NoVoice
    PROVE  Ready(c.pool, room, S, T) /\ c.victim \in Live(p) /\ SameSlots(p, c.pool)
<1>1. p \in Pools /\ Shape(p) /\ Keyed(p, {}, {})
  BY DEF Ready, Body
<1>2. Popped(p, c, {}, {}) /\ Keyed(c.pool, {}, {})
  BY <1>1, PopTierFacts
<1>3. Body(c.pool, {}, S, T)
  BY <1>2, BodySame DEF Popped, Ready
<1> QED BY <1>2, <1>3, Stays DEF Popped, Ready, SameSlots

\* A note taken over in place, from its slots to the commit.
LEMMA TakenOver ==
    ASSUME NEW p, NEW room, NEW S, NEW T, Ready(p, room, S, T), NEW key \in Keys,
           NEW s \in Seq(Handles), ToSet(s) \subseteq Live(p), NEW layers \in Regions,
           Len(s) <= Len(layers), NEW play \in Nat, NEW mult \in Nat \ {0}
    PROVE  Done(Launched(ReplaceInPlace(p, s, key), s, layers, play, mult), room, S, T)
<1> DEFINE q == ReplaceInPlace(p, s, key)
<1>1. Launching(q, S, T, {}) /\ q.deferred = ToSet(s) /\ Within(q, room)
  BY ReplaceFacts
<1> HIDE DEF q
<1>2. layers \in Seq([class : Nat, offBy : Nat])
  BY DEF Regions
<1>3. Done(Launched(q, s, layers, play, mult), room, S, T)
  BY <1>1, <1>2, LaunchedFacts
<1> QED BY <1>3 DEF q

\* TryLaunchSingleVoiceInPlace.
LEMMA InPlaceFacts ==
    ASSUME NEW p, NEW room, NEW S, NEW T, Ready(p, room, S, T), NEW key \in Keys,
           NEW layers \in Regions, NEW play \in Nat, NEW mult \in Nat \ {0},
           NEW r \in InPlace(p, key, layers, play, mult)
    PROVE  Done(r, room, S, T)
<1>1. Len(layers) = 1
  BY DEF InPlace
<1>2. PICK c : /\ r = Launched(ReplaceInPlace(c.pool, <<c.victim>>, key), <<c.victim>>,
                               layers, play, mult)
               /\ \/ c \in PopTier(p, TRUE) /\ c.victim # NoVoice
                  \/ \E h \in RingVictims(p) : c = [pool |-> p, victim |-> h]
  BY DEF InPlace
<1>3. p \in Pools /\ Shape(p)
  BY DEF Ready, Body
<1>4. Ready(c.pool, room, S, T) /\ c.victim \in Live(c.pool)
  <2>1. CASE c \in PopTier(p, TRUE) /\ c.victim # NoVoice
    BY <2>1, ReserveFacts, ShapeSame
  <2>2. ASSUME NEW h \in RingVictims(p), c = [pool |-> p, victim |-> h]
        PROVE  Ready(c.pool, room, S, T) /\ c.victim \in Live(c.pool)
    <3>1. h \in Handles /\ p.voice[h].state = "Releasing"
      BY DEF RingVictims, In
    <3>2. h \in Live(p)
      BY <1>3, <3>1, LiveFacts
    <3> QED BY <2>2, <3>2
  <2> QED BY <1>2, <2>1, <2>2
<1>5. Live(c.pool) \subseteq Handles
  BY DEF Live
<1> DEFINE s == <<c.victim>>
<1>6. s \in Seq(Handles) /\ ToSet(s) \subseteq Live(c.pool) /\ Len(s) = 1
  BY <1>4, <1>5 DEF ToSet
<1> HIDE DEF s
<1>7. Done(Launched(ReplaceInPlace(c.pool, s, key), s, layers, play, mult), room, S, T)
  BY <1>1, <1>4, <1>6, TakenOver
<1> QED BY <1>2, <1>7 DEF s

\* ReuseMatchingStealGroup.
LEMMA MatchingFacts ==
    ASSUME NEW p, NEW room, NEW S, NEW T, Ready(p, room, S, T), NEW key \in Keys,
           NEW layers \in Regions, NEW play \in Nat, NEW mult \in Nat \ {0},
           NEW r \in Matching(p, key, layers, play, mult)
    PROVE  Done(r, room, S, T)
<1>1. PICK c \in PopTier(p, TRUE) :
         /\ c.victim # NoVoice /\ Cardinality(Group(p, c.victim)) = Len(layers)
         /\ r = Launched(ReplaceInPlace(c.pool,
                            <<c.victim>> \o InOrder(p, Group(p, c.victim) \ {c.victim}), key),
                         <<c.victim>> \o InOrder(p, Group(p, c.victim) \ {c.victim}),
                         layers, play, mult)
  BY DEF Matching
<1> DEFINE v == c.victim
           G == Group(p, v)
           o == InOrder(p, G \ {v})
           s == <<v>> \o o
<1>2. Ready(c.pool, room, S, T) /\ v \in Live(p) /\ SameSlots(p, c.pool)
  BY <1>1, ReserveFacts
<1>3. p \in Pools /\ Shape(p) /\ Live(c.pool) = Live(p) /\ v \in Handles
  BY <1>2, ShapeSame DEF Ready, Body, Live
<1>4. o \in Seq(Handles) /\ ToSet(o) = Live(p) \intersect (G \ {v}) /\ Distinct(o)
  <2>1. p.active \in Seq(Handles) /\ Distinct(p.active)
    BY <1>3 DEF Pools, Shape
  <2> QED BY <1>3, <2>1, InOrderFacts, PickedDistinct DEF InOrder
<1>5. G \subseteq Live(p) /\ v \in G
  BY <1>2 DEF Group
<1> HIDE DEF v, G, o
<1>6. s \in Seq(Handles) /\ Distinct(s) /\ ToSet(s) = G
  <2>1. v \notin ToSet(o) /\ ToSet(o) \union {v} = G
    BY <1>4, <1>5
  <2>2. s \in Seq(Handles) /\ Distinct(s) /\ ToSet(s) = ToSet(o) \union {v}
    BY <1>3, <1>4, <2>1, ConsFacts
  <2> QED BY <2>1, <2>2
<1>7. Len(s) = Len(layers)
  BY <1>1, <1>6, DistinctCount DEF v, G
<1> HIDE DEF s
<1>8. Done(Launched(ReplaceInPlace(c.pool, s, key), s, layers, play, mult), room, S, T)
  <2>1. Len(s) <= Len(layers)
    BY <1>6, <1>7
  <2> QED BY <1>2, <1>3, <1>5, <1>6, <2>1, TakenOver
<1> QED BY <1>1, <1>8 DEF s, o, G, v

\* LaunchVoiceGroup, every path: the pool is as between two events, and what was
\* born sounds.
LEMMA LaunchVoiceGroupFacts ==
    ASSUME NEW p, NEW room, NEW S, NEW T, Ready(p, room, S, T), NEW key \in Keys,
           NEW layers \in Regions, NEW mult \in Nat \ {0},
           NEW r \in LaunchVoiceGroup(p, key, layers, mult)
    PROVE  Done(r, room, S, T)
<1> DEFINE q == Choke(p, key[1], layers)
           play == FreshPlay(q)
<1>1. CASE r = [pool |-> p, born |-> {}]
  BY <1>1 DEF Done
<1>2. Ready(q, room, S, T)
  BY ReleaseAllFacts DEF Choke
<1>3. play \in Nat
  BY <1>2, FreshPlayFacts DEF Ready, Body
<1>4. \/ r = [pool |-> p, born |-> {}]
      \/ r \in InPlace(q, key, layers, play, mult)
      \/ r \in Matching(q, key, layers, play, mult)
      \/ \E b \in BatchChoices(q, layers) : r \in General(q, key, layers, play, mult, b)
  BY DEF LaunchVoiceGroup
<1>5. BatchChoices(q, layers) \subseteq BOOLEAN
  BY DEF BatchChoices
<1>6. layers \in Seq([class : Nat, offBy : Nat])
  BY DEF Regions
<1> HIDE DEF q, play
<1> QED BY <1>1, <1>2, <1>3, <1>4, <1>5, <1>6, InPlaceFacts, MatchingFacts, GeneralFacts

-----------------------------------------------------------------------------
(* Note-offs.                                                             *)

\* Only pedals and the rows of free slots changed.
LEMMA RowsFacts ==
    ASSUME NEW p, NEW E, NEW S, NEW T, Body(p, E, S, T), NEW q \in Pools,
           q.chain = p.chain, q.active = p.active, q.free = p.free, SameIndex(p, q),
           \A h \in Handles : /\ q.voice[h].state = p.voice[h].state
                              /\ p.voice[h].state = "Active" => q.voice[h].key = p.voice[h].key,
           NEW F, NEW A, NEW B, Kept(q, F), Pedals(q, A, B)
    PROVE  /\ Body(q, F, A, B)
           /\ \A D, X : Keyed(p, D, X) => Keyed(q, D, X)
           /\ \A t : In(q, t) = In(p, t)
<1>1. \A t : In(q, t) = In(p, t)
  BY DEF In
<1>2. Shape(q)
  BY <1>1 DEF Body, Shape, Live
<1>3. Chained(q)
  BY ChainMembers DEF Body, Chained
<1>4. \A D, X : Keyed(p, D, X) => Keyed(q, D, X)
  BY <1>1, PositionSame DEF Keyed, SameIndex
<1> QED BY <1>1, <1>2, <1>3, <1>4 DEF Body

\* A pool in which only the pedals of h changed.
Reheld(p, q, h, X) ==
    /\ q.voice[h].held = X
    /\ q.voice[h].state = p.voice[h].state /\ q.voice[h].key = p.voice[h].key
    /\ \A g \in Handles \ {h} : q.voice[g] = p.voice[g]
    /\ q.chain = p.chain /\ q.active = p.active /\ q.free = p.free
    /\ q.limit = p.limit /\ q.deferred = p.deferred

\* The pedals of one voice are set to X.
LEMMA HeldFacts ==
    ASSUME NEW p, NEW E, NEW S, NEW T, Body(p, E, S, T), NEW h \in Handles,
           NEW X \in SUBSET {"sustain", "sostenuto"}, NEW A, NEW B, Pedals(p, A, B),
           "sustain" \in X => p.voice[h].key[1] \in A,
           "sostenuto" \in X => p.voice[h].key[1] \in B,
           p.voice[h].state = "Releasing" => X = {}
    PROVE  LET q == [p EXCEPT !.voice[h].held = X] IN
           /\ Reheld(p, q, h, X)
           /\ Body(q, E \union {h}, A, B)
           /\ p.voice[h].state # "Active" \/ Waits(p, h) \/ X # {} => Body(q, E, A, B)
           /\ \A D, Y : Keyed(p, D, Y) => Keyed(q, D, Y)
<1> DEFINE q == [p EXCEPT !.voice[h].held = X]
           v == [p.voice[h] EXCEPT !.held = X]
           voice == [p.voice EXCEPT ![h] = v]
<1>1. p \in Pools /\ p.voice \in [Handles -> VoiceType]
  BY DEF Body, Pools
<1>2. /\ v \in VoiceType /\ v.held = X /\ v.state = p.voice[h].state /\ v.key = p.voice[h].key
  BY <1>1 DEF VoiceType
<1> HIDE DEF v
<1>3. /\ voice \in [Handles -> VoiceType] /\ voice[h] = v
      /\ \A g \in Handles \ {h} : voice[g] = p.voice[g]
  BY <1>1, <1>2
<1>4. q = [p EXCEPT !.voice = voice]
  BY <1>1 DEF v, Pools
<1> HIDE DEF q, voice
<1>5. /\ q \in Pools /\ SameIndex(p, q) /\ q.voice = voice /\ q.active = p.active
      /\ q.free = p.free /\ q.limit = p.limit /\ q.deferred = p.deferred /\ q.chain = p.chain
  BY <1>1, <1>3, <1>4 DEF Pools, SameIndex
<1>6. Reheld(p, q, h, X)
  BY <1>2, <1>3, <1>5 DEF Reheld
<1>7. \A g \in Handles : q.voice[g].state = p.voice[g].state /\ q.voice[g].key = p.voice[g].key
  BY <1>6 DEF Reheld
<1>8. \A g \in Handles : Waits(q, g) <=> Waits(p, g)
  BY <1>5, <1>7 DEF Waits
<1>9. Pedals(q, A, B)
  <2>1. ASSUME NEW g \in Handles \ {h}
        PROVE  /\ "sustain" \in q.voice[g].held => q.voice[g].key[1] \in A
               /\ "sostenuto" \in q.voice[g].held => q.voice[g].key[1] \in B
               /\ q.voice[g].state = "Releasing" => q.voice[g].held = {}
    BY <1>3, <1>5 DEF Pedals
  <2>2. /\ "sustain" \in q.voice[h].held => q.voice[h].key[1] \in A
        /\ "sostenuto" \in q.voice[h].held => q.voice[h].key[1] \in B
        /\ q.voice[h].state = "Releasing" => q.voice[h].held = {}
    BY <1>2, <1>3, <1>5
  <2> QED BY <2>1, <2>2 DEF Pedals
<1>10. Kept(q, E \union {h})
  BY <1>6, <1>8 DEF Body, Kept, Reheld
<1>11. p.voice[h].state # "Active" \/ Waits(p, h) \/ X # {} => Kept(q, E)
  BY <1>6, <1>8 DEF Body, Kept, Reheld
<1>12. Body(q, E \union {h}, A, B) /\ \A D, Y : Keyed(p, D, Y) => Keyed(q, D, Y)
  BY <1>5, <1>7, <1>9, <1>10, RowsFacts
<1>13. p.voice[h].state # "Active" \/ Waits(p, h) \/ X # {} => Body(q, E, A, B)
  BY <1>5, <1>7, <1>9, <1>11, RowsFacts
<1> QED BY <1>6, <1>12, <1>13 DEF q

-----------------------------------------------------------------------------
\* A note-off of a layer.
Serving(p, q, room, S, T, down) ==
    /\ Ready(q, room, S, T)
    /\ \A g \in Handles : q.voice[g].key = p.voice[g].key
    /\ down => \A g \in Handles : q.voice[g].state = p.voice[g].state

\* NoteOffPlayIndex, one layer: held by a pedal that is down, or released.
LEMMA ServeStepFacts ==
    ASSUME NEW p, NEW room, NEW S, NEW T, Ready(p, room, S, T), NEW h \in Handles,
           NEW down \in BOOLEAN,
           down => p.voice[h].state = "Active" /\ p.voice[h].key[1] \in S
    PROVE  Serving(p, ServeStep(p, h, down), room, S, T, down)
<1> DEFINE r == ServeStep(p, h, down)
<1>1. /\ Body(p, {}, S, T) /\ Keyed(p, {}, {}) /\ p.deferred = {} /\ Within(p, room)
      /\ p \in Pools
  BY DEF Ready, Body
<1>2. p.voice[h] \in VoiceType /\ p.voice[h].held \in SUBSET {"sustain", "sostenuto"}
  BY <1>1 DEF Pools, VoiceType
<1>3. CASE down
  <2> DEFINE X == p.voice[h].held \union {"sustain"}
             q == [p EXCEPT !.voice[h].held = X]
             w == Unlink(q, h)
  <2>1. r = w
    BY <1>1, <1>2, <1>3 DEF ServeStep, Hold, Pools
  <2>2. X \in SUBSET {"sustain", "sostenuto"} /\ X # {}
    BY <1>2
  <2>3. /\ "sustain" \in X => p.voice[h].key[1] \in S
        /\ "sostenuto" \in X => p.voice[h].key[1] \in T
        /\ p.voice[h].state = "Releasing" => X = {}
        /\ Pedals(p, S, T)
    BY <1>1, <1>3 DEF Body, Pedals
  <2> HIDE DEF X
  <2>4. /\ Reheld(p, q, h, X) /\ Body(q, {}, S, T) /\ Keyed(q, {}, {})
    BY <1>1, <2>2, <2>3, HeldFacts
  <2> HIDE DEF q
  <2>5. /\ Body(w, {}, S, T) /\ SameIndex(q, w) /\ w.voice = q.voice /\ w.active = q.active
        /\ w.limit = q.limit /\ w.deferred = q.deferred
    BY <2>2, <2>4, UnlinkFacts DEF Reheld
  <2> HIDE DEF w
  <2>6. Keyed(w, {}, {})
    BY <2>4, <2>5, KeyedSame DEF SameIndex
  <2>7. Ready(w, room, S, T)
    BY <1>1, <2>4, <2>5, <2>6, Stays DEF Ready, Reheld
  <2>8. \A g \in Handles : w.voice[g].key = p.voice[g].key /\ w.voice[g].state = p.voice[g].state
    BY <2>4, <2>5 DEF Reheld
  <2> QED BY <2>1, <2>7, <2>8 DEF Serving
<1>4. CASE ~ down /\ "sostenuto" \in p.voice[h].held
  <2> DEFINE w == Unlink(p, h)
  <2>1. Hold(p, h, {}) = p
    BY <1>1, <1>2 DEF Hold, Pools, VoiceType
  <2>2. r = w
    BY <1>4, <2>1 DEF ServeStep
  <2>3. /\ Body(w, {}, S, T) /\ SameIndex(p, w) /\ w.voice = p.voice /\ w.active = p.active
        /\ w.limit = p.limit /\ w.deferred = p.deferred
    BY <1>1, <1>4, UnlinkFacts
  <2> HIDE DEF w
  <2>4. Keyed(w, {}, {})
    BY <1>1, <2>3, KeyedSame DEF SameIndex
  <2> QED BY <1>1, <1>4, <2>2, <2>3, <2>4, Stays DEF Serving, Ready
<1>5. CASE ~ down /\ "sostenuto" \notin p.voice[h].held
  <2> DEFINE w == Release(p, h)
  <2>1. r = w
    BY <1>5 DEF ServeStep
  <2>2. /\ Body(w, {}, S, T) /\ Keyed(w, {}, {}) /\ w.deferred = {}
        /\ w.limit = p.limit /\ w.active = p.active
        /\ \A g \in Handles \ {h} : w.voice[g] = p.voice[g]
        /\ w.voice[h].key = p.voice[h].key
    BY <1>1, ReleaseFacts
  <2> HIDE DEF w
  <2>3. \A g \in Handles : w.voice[g].key = p.voice[g].key
    BY <2>2
  <2> QED BY <1>1, <1>5, <2>1, <2>2, <2>3, Stays DEF Serving, Ready
<1> QED BY <1>3, <1>4, <1>5

\* NoteOffPlayIndex, all layers.
LEMMA ServeFacts ==
    ASSUME NEW p, NEW room, NEW S, NEW T, Ready(p, room, S, T), NEW s \in Seq(Handles),
           NEW down \in BOOLEAN,
           down => \A h \in ToSet(s) : p.voice[h].state = "Active" /\ p.voice[h].key[1] \in S
    PROVE  Serving(p, ServedOver(p, s, down), room, S, T, down)
<1> DEFINE n == Len(s)
           U == {q \in Pools : Serving(p, q, room, S, T, down)}
           W == [i \in 0 .. n |-> U]
<1>1. p \in U
  BY DEF Serving, Ready, Body
<1>2. ASSUME NEW q \in U, NEW h \in ToSet(s) PROVE ServeStep(q, h, down) \in U
  <2>1. h \in Handles
    BY InToSet
  <2>2. Ready(q, room, S, T) /\ Serving(p, q, room, S, T, down)
    BY DEF Serving
  <2>3. down => q.voice[h].state = "Active" /\ q.voice[h].key[1] \in S
    BY <2>1, <2>2 DEF Serving
  <2> DEFINE r == ServeStep(q, h, down)
  <2>4. Serving(q, r, room, S, T, down)
    BY <2>1, <2>2, <2>3, ServeStepFacts
  <2> HIDE DEF r
  <2>5. Serving(p, r, room, S, T, down)
    BY <2>2, <2>4 DEF Serving
  <2>6. r \in Pools
    BY <2>4 DEF Serving, Ready, Body
  <2> QED BY <2>5, <2>6 DEF r
<1>3. /\ n \in Nat /\ W[0] = U /\ W[n] = U /\ \A i \in 1 .. n : W[i] = U /\ W[i - 1] = U
      /\ \A i \in 1 .. n : s[i] \in ToSet(s)
  BY InToSet
<1> HIDE DEF W, U
<1>4. \A i \in 1 .. n : \A q \in W[i - 1] : ServeStep(q, s[i], down) \in W[i]
  BY <1>2, <1>3
<1>5. ServedOver(p, s, down) \in W[n]
  BY <1>1, <1>3, <1>4, ServeAlong
<1> QED BY <1>3, <1>5 DEF U

\* The layers of a generation are Active voices of the key.
LEMMA LayersFacts ==
    ASSUME NEW p \in Pools, Chained(p), NEW key \in Keys, NEW play, NEW newest \in BOOLEAN
    PROVE  /\ Layers(p, key, play, newest) \in Seq(Handles)
           /\ \A h \in ToSet(Layers(p, key, play, newest)) :
                 p.voice[h].state = "Active" /\ p.voice[h].key = key
<1> DEFINE list == IF newest THEN p.chain[key] ELSE Reverse(p.chain[key])
           G == {h \in Handles : p.voice[h].play = play}
<1>1. p.chain[key] \in Seq(Handles)
  BY DEF Pools
<1>2. list \in Seq(Handles) /\ ToSet(list) = ToSet(p.chain[key])
  BY <1>1, ReverseFacts
<1>3. Layers(p, key, play, newest) = Picked(list, G)
  BY DEF Layers
<1> HIDE DEF list, G
<1>4. Picked(list, G) \in Seq(Handles) /\ ToSet(Picked(list, G)) = ToSet(list) \intersect G
  BY <1>2, PickedFacts
<1> QED BY <1>2, <1>3, <1>4 DEF Chained

\* NoteOffPlayIndex keeps the invariant.
LEMMA NoteOffPlayIndexFacts ==
    ASSUME NEW p, NEW room, NEW S, NEW T, Ready(p, room, S, T), NEW key \in Keys,
           NEW play, NEW down \in BOOLEAN, down => key[1] \in S
    PROVE  Ready(NoteOffPlayIndex(p, key, play, down), room, S, T)
<1> DEFINE s == Layers(p, key, play, FALSE)
<1>1. p \in Pools /\ Chained(p)
  BY DEF Ready, Body
<1>2. s \in Seq(Handles) /\ \A h \in ToSet(s) : p.voice[h].state = "Active" /\ p.voice[h].key = key
  BY <1>1, LayersFacts
<1>3. NoteOffPlayIndex(p, key, play, down) = ServedOver(p, s, down)
  BY DEF NoteOffPlayIndex, ServedOver
<1> HIDE DEF s
<1>4. Serving(p, ServedOver(p, s, down), room, S, T, down)
  BY <1>2, ServeFacts
<1> QED BY <1>3, <1>4 DEF Serving

-----------------------------------------------------------------------------
(* Forks.                                                                 *)

\* The loops of a fork, each with its step.
TwinStep(t, key, source) == PlaceTwinLayer(t, key, TwinPops(t.pool, source))
TwinRounds(A, key, source, n) ==
    Rounds(LAMBDA t : PlaceTwinLayer(t, key, TwinPops(t.pool, source)), A, n)

\* The loop that places the layers of a twin.
LEMMA TwinAlong ==
    ASSUME NEW A, NEW key, NEW source, NEW n \in Nat, NEW W, A \subseteq W[0],
           \A i \in 1 .. n : \A s \in W[i - 1] : TwinStep(s, key, source) \subseteq W[i]
    PROVE  TwinRounds(A, key, source, n) \subseteq W[n]
<1> DEFINE x == A
           after == CHOOSE after : after = [i \in 0 .. n |->
                       IF i = 0 THEN x ELSE UNION {TwinStep(s, key, source) : s \in after[i - 1]}]
           V == [i \in 0 .. n |-> SUBSET W[i]]
           U == UNION {V[i] : i \in 0 .. n}
           G == [z \in U \X (1 .. n) |-> UNION {TwinStep(s, key, source) : s \in z[1]}]
<1>1. TwinRounds(A, key, source, n) = after[n]
  BY DEF TwinRounds, Rounds, TwinStep
<1>2. \A i \in 1 .. n : i - 1 \in 0 .. n /\ V[i] = SUBSET W[i] /\ V[i - 1] = SUBSET W[i - 1]
  OBVIOUS
<1>x. x \in V[0] /\ V[n] = SUBSET W[n]
  OBVIOUS
<1> HIDE DEF x
<1>3. \A i \in 1 .. n : \A q \in V[i - 1] : q \in U
  <2> HIDE DEF V
  <2> QED BY <1>2
<1> HIDE DEF U, V
<1>4. \A i \in 1 .. n : \A q \in V[i - 1] :
         G[<<q, i>>] = UNION {TwinStep(s, key, source) : s \in q}
  BY <1>3
<1> HIDE DEF G
<1>5. \A i \in 1 .. n : \A q \in V[i - 1] : G[<<q, i>>] \in V[i]
  <2> SUFFICES ASSUME NEW i \in 1 .. n, NEW q \in V[i - 1] PROVE G[<<q, i>>] \in V[i]
    OBVIOUS
  <2>1. \A s \in q : TwinStep(s, key, source) \subseteq W[i]
    BY <1>2
  <2> DEFINE Y == UNION {TwinStep(s, key, source) : s \in q}
  <2>2. Y \subseteq W[i]
    BY <2>1
  <2>3. G[<<q, i>>] = Y
    BY <1>4
  <2> HIDE DEF Y
  <2>4. V[i] = SUBSET W[i]
    BY <1>2
  <2>5. Y \in SUBSET W[i]
    BY <2>2
  <2> QED BY <2>3, <2>4, <2>5
<1>6. PICK f : /\ f = [i \in 0 .. n |-> f[i]]
               /\ f[0] = x
               /\ \A i \in 0 .. n : f[i] \in V[i]
               /\ \A i \in 1 .. n : f[i] = G[<<f[i - 1], i>>]
  <2>1. Loops(n, V, x, G)
    BY <1>5, <1>x, LoopExists
  <2> QED BY <2>1 DEF Loops
<1>7. f = [i \in 0 .. n |-> IF i = 0 THEN x ELSE UNION {TwinStep(s, key, source) : s \in f[i - 1]}]
  <2>1. \A i \in 0 .. n : i # 0 => i \in 1 .. n /\ f[i - 1] \in V[i - 1]
    BY <1>2, <1>6
  <2>2. \A i \in 0 .. n : f[i] = IF i = 0 THEN x ELSE UNION {TwinStep(s, key, source) : s \in f[i - 1]}
    BY <1>4, <1>6, <2>1
  <2> QED BY <1>6, <2>2
<1>8. after = [i \in 0 .. n |-> IF i = 0 THEN x ELSE UNION {TwinStep(s, key, source) : s \in after[i - 1]}]
  BY <1>7
<1> HIDE DEF after
<1>9. after[0] = x /\ \A i \in 1 .. n : after[i] = UNION {TwinStep(s, key, source) : s \in after[i - 1]}
  BY <1>8
<1>10. \A i \in 1 .. n : after[i - 1] \in V[i - 1] => after[i] \in V[i]
  <2> SUFFICES ASSUME NEW i \in 1 .. n, after[i - 1] \in V[i - 1] PROVE after[i] \in V[i]
    OBVIOUS
  <2>1. G[<<after[i - 1], i>>] = UNION {TwinStep(s, key, source) : s \in after[i - 1]}
    BY <1>4
  <2>2. after[i] = G[<<after[i - 1], i>>]
    BY <1>9, <2>1
  <2> QED BY <1>5, <2>2
<1>11. \A i \in 0 .. n : after[i] \in V[i]
  BY <1>x, <1>9, <1>10, Rising
<1> QED BY <1>1, <1>11, <1>x

-----------------------------------------------------------------------------
SplitStep(q, i, source, twin, play, units, rest) ==
    [q EXCEPT !.voice[twin[i]] =
                  [q.voice[source[i]] EXCEPT
                      !.state = "Active", !.play = play,
                      !.mult = units, !.held = @ \ {"sustain"}],
              !.voice[source[i]].mult = rest]
SplitOver(p, s, source, twin, play, units, rest) ==
    Along(LAMBDA q, i :
             [q EXCEPT !.voice[twin[i]] =
                           [q.voice[source[i]] EXCEPT
                               !.state = "Active", !.play = play,
                               !.mult = units, !.held = @ \ {"sustain"}],
                       !.voice[source[i]].mult = rest],
          p, s)

\* The loop that writes the rows of a twin.
LEMMA SplitAlong ==
    ASSUME NEW source, NEW twin, NEW play, NEW units, NEW rest, NEW n \in Nat, NEW s, Len(s) = n, NEW W, NEW x \in W[0],
           \A i \in 1 .. n : \A q \in W[i - 1] : SplitStep(q, s[i], source, twin, play, units, rest) \in W[i]
    PROVE  SplitOver(x, s, source, twin, play, units, rest) \in W[n]
<1> DEFINE after == CHOOSE after : after = [i \in 0 .. Len(s) |->
                       IF i = 0 THEN x ELSE SplitStep(after[i - 1], s[i], source, twin, play, units, rest)]
           U == UNION {W[i] : i \in 0 .. n}
           G == [z \in U \X (1 .. n) |-> SplitStep(z[1], s[z[2]], source, twin, play, units, rest)]
<1>1. SplitOver(x, s, source, twin, play, units, rest) = after[n]
  BY DEF SplitOver, Along, SplitStep
<1>2. \A i \in 1 .. n : i - 1 \in 0 .. n
  OBVIOUS
<1>3. \A i \in 1 .. n : \A q \in W[i - 1] : q \in U
  BY <1>2
<1> HIDE DEF U
<1>4. \A i \in 1 .. n : \A q \in W[i - 1] : G[<<q, i>>] = SplitStep(q, s[i], source, twin, play, units, rest)
  BY <1>3
<1> HIDE DEF G
<1>5. \A i \in 1 .. n : \A q \in W[i - 1] : G[<<q, i>>] \in W[i]
  BY <1>4
<1>6. PICK f : /\ f = [i \in 0 .. n |-> f[i]]
               /\ f[0] = x
               /\ \A i \in 0 .. n : f[i] \in W[i]
               /\ \A i \in 1 .. n : f[i] = G[<<f[i - 1], i>>]
  <2>1. Loops(n, W, x, G)
    BY <1>5, LoopExists
  <2> QED BY <2>1 DEF Loops
<1>7. f = [i \in 0 .. n |-> IF i = 0 THEN x ELSE SplitStep(f[i - 1], s[i], source, twin, play, units, rest)]
  <2>1. \A i \in 0 .. n : i # 0 => i \in 1 .. n /\ f[i - 1] \in W[i - 1]
    BY <1>2, <1>6
  <2>2. \A i \in 0 .. n : f[i] = IF i = 0 THEN x ELSE SplitStep(f[i - 1], s[i], source, twin, play, units, rest)
    BY <1>4, <1>6, <2>1
  <2> QED BY <1>6, <2>2
<1>8. after = [i \in 0 .. n |-> IF i = 0 THEN x ELSE SplitStep(after[i - 1], s[i], source, twin, play, units, rest)]
  BY <1>7
<1> HIDE DEF after
<1>9. after[0] = x /\ \A i \in 1 .. n : after[i] = SplitStep(after[i - 1], s[i], source, twin, play, units, rest)
  BY <1>8
<1>10. \A i \in 0 .. n : after[i] \in W[i]
  BY <1>9, Rising
<1> QED BY <1>1, <1>10

\* A twin with at most n layers placed; the sources keep their key.
Twinning(room, S, T, key, K, n) ==
    {s \in [pool : Pools, handles : Seq(Slots), failed : BOOLEAN] :
       /\ Launching(s.pool, S, T, {}) /\ Within(s.pool, room)
       /\ s.pool.deferred = ToSet(s.handles) \ {NoVoice}
       /\ ~ s.failed => NoVoice \notin ToSet(s.handles)
       /\ \A h \in K \union s.pool.deferred : s.pool.voice[h].key = key
       /\ \A h \in s.pool.deferred : s.pool.voice[h].held = {}
       /\ Len(s.handles) <= n}

\* One slot of a twin; a source that is stolen for it leaves its key in its row.
LEMMA TwinStepFacts ==
    ASSUME NEW room, NEW S, NEW T, NEW key \in Keys, NEW source, NEW K \in SUBSET Handles,
           NEW n \in Nat, NEW s \in Twinning(room, S, T, key, K, n),
           NEW t \in TwinStep(s, key, source)
    PROVE  t \in Twinning(room, S, T, key, K, n + 1)
<1>1. /\ s \in [pool : Pools, handles : Seq(Slots), failed : BOOLEAN]
      /\ Launching(s.pool, S, T, {}) /\ Within(s.pool, room)
      /\ s.pool.deferred = ToSet(s.handles) \ {NoVoice}
      /\ ~ s.failed => NoVoice \notin ToSet(s.handles)
      /\ \A h \in K \union s.pool.deferred : s.pool.voice[h].key = key
      /\ \A h \in s.pool.deferred : s.pool.voice[h].held = {}
      /\ Len(s.handles) <= n
  BY DEF Twinning
<1>2. s.handles \in Seq(Slots) /\ Len(s.handles) \in Nat /\ s.pool \in Pools
  BY <1>1
<1>3. CASE s.failed
  <2>1. t = s
    BY <1>3 DEF TwinStep, PlaceTwinLayer
  <2>2. Len(s.handles) <= n + 1
    BY <1>1, <1>2
  <2> QED BY <1>1, <2>1, <2>2 DEF Twinning
<1>4. CASE ~ s.failed
  <2> DEFINE pops == TwinPops(s.pool, source)
  <2>1. PICK r \in Allocate(s.pool, key, pops) :
           t = [pool |-> r.pool, handles |-> Append(s.handles, r.handle),
                failed |-> r.handle = NoVoice]
    BY <1>4 DEF TwinStep, PlaceTwinLayer
  <2>2. \A c \in pops : Fits(s.pool, c, {})
    <3>1. pops \subseteq Pop(s.pool)
      BY DEF TwinPops
    <3>2. s.pool \in Pools /\ Shape(s.pool) /\ Keyed(s.pool, s.pool.deferred, {})
      BY <1>1 DEF Launching, Body
    <3> QED BY <3>1, <3>2, PopFacts DEF Fits
  <2> HIDE DEF pops
  <2>3. Allocated(s.pool, r, key, S, T, {})
    BY <1>1, <2>1, <2>2, AllocateFacts
  <2>4. /\ Launching(r.pool, S, T, {}) /\ Within(r.pool, room) /\ r.pool \in Pools
        /\ r.handle \in Slots
    <3>1. Launching(r.pool, S, T, {}) /\ r.pool \in Pools /\ Grown(s.pool, r.pool)
      BY <2>3 DEF Allocated, Launching, Body
    <3>2. Within(r.pool, room)
      BY <1>1, <1>2, <3>1, Grows
    <3> QED BY <2>3, <3>1, <3>2 DEF Allocated, Slots
  <2>5. /\ Append(s.handles, r.handle) \in Seq(Slots)
        /\ ToSet(Append(s.handles, r.handle)) = ToSet(s.handles) \union {r.handle}
        /\ Len(Append(s.handles, r.handle)) = Len(s.handles) + 1
    BY <1>2, <2>4, AppendFacts
  <2>6. r.pool.deferred = s.pool.deferred \union ({r.handle} \ {NoVoice})
    BY <2>3 DEF Allocated
  <2>7. /\ \A h \in K \union r.pool.deferred : r.pool.voice[h].key = key
        /\ \A h \in r.pool.deferred : r.pool.voice[h].held = {}
    <3>1. CASE r.handle = NoVoice
      BY <1>1, <2>3, <3>1 DEF Allocated
    <3>2. CASE r.handle # NoVoice
      <4>1. /\ Newborn(r.pool.voice[r.handle], key)
            /\ \A g \in Handles \ {r.handle} :
                  r.pool.voice[g] = s.pool.voice[g] \/ Emptied(s.pool.voice[g], r.pool.voice[g])
        BY <2>3, <3>2 DEF Allocated
      <4>2. s.pool.deferred \subseteq Handles
        BY <1>2 DEF Pools
      <4>3. r.pool.voice[r.handle].key = key /\ r.pool.voice[r.handle].held = {}
        BY <4>1 DEF Newborn
      <4>4. \A g \in Handles \ {r.handle} : /\ r.pool.voice[g].key = s.pool.voice[g].key
                                            /\ r.pool.voice[g].held = s.pool.voice[g].held
        BY <4>1 DEF Emptied
      <4> QED BY <1>1, <2>6, <4>2, <4>3, <4>4
    <3> QED BY <3>1, <3>2
  <2> DEFINE hs == Append(s.handles, r.handle)
  <2>8. /\ t.pool = r.pool /\ t.handles = hs /\ t.failed = (r.handle = NoVoice)
        /\ t \in [pool : Pools, handles : Seq(Slots), failed : BOOLEAN]
    <3>1. (r.handle = NoVoice) \in BOOLEAN
      OBVIOUS
    <3> HIDE DEF hs
    <3>2. t = [pool |-> r.pool, handles |-> hs, failed |-> r.handle = NoVoice]
      BY <2>1 DEF hs
    <3>3. hs \in Seq(Slots)
      BY <2>5 DEF hs
    <3> QED BY <2>4, <3>1, <3>2, <3>3
  <2>9. t.pool.deferred = ToSet(t.handles) \ {NoVoice}
    BY <1>1, <2>5, <2>6, <2>8
  <2>10. ~ t.failed => NoVoice \notin ToSet(t.handles)
    BY <1>1, <1>4, <2>5, <2>8
  <2>11. Len(t.handles) <= n + 1
    BY <1>1, <1>2, <2>5, <2>8
  <2> HIDE DEF hs
  <2> QED BY <2>4, <2>7, <2>8, <2>9, <2>10, <2>11 DEF Twinning
<1> QED BY <1>3, <1>4

\* UpdateStealCandidate while a launch is under way.
LEMMA RefreshLaunching ==
    ASSUME NEW p, NEW S, NEW T, Launching(p, S, T, {}), NEW h \in Handles
    PROVE  Launching(Refresh(p, h), S, T, {}) /\ SameSlots(p, Refresh(p, h))
<1> DEFINE q == Refresh(p, h)
<1>1. p \in Pools /\ Shape(p) /\ Body(p, {}, S, T) /\ Keyed(p, p.deferred, {})
  BY DEF Launching, Body
<1>2. /\ q \in Pools /\ SameSlots(p, q) /\ q.valid = p.valid
      /\ ~ p.valid \/ h \in p.deferred => q = p
      /\ p.valid /\ h \notin p.deferred =>
            q.leaf[h] = IF p.voice[h].state = "Active" THEN Position(p, h) ELSE 0
      /\ \A g \in Handles \ {h} : q.leaf[g] = p.leaf[g]
      /\ q.volatile \subseteq p.volatile \union {h}
      /\ p.valid /\ h \notin p.deferred /\ p.voice[h].state # "Releasing" => h \notin q.volatile
  BY <1>1, RefreshFacts DEF Shape
<1> HIDE DEF q
<1>3. Body(q, {}, S, T)
  BY <1>1, <1>2, BodySame
<1>4. Keyed(q, q.deferred, {})
  <2>1. CASE ~ p.valid \/ h \in p.deferred
    BY <1>1, <1>2, <2>1
  <2>2. CASE p.valid /\ h \notin p.deferred
    <3>1. \A g : Position(q, g) = Position(p, g)
      BY <1>2, PositionSame DEF SameSlots
    <3>2. p.voice[h].state = "Active" => Position(p, h) # 0
      BY <1>1, LiveFacts
    <3>3. q.voice = p.voice /\ q.deferred = p.deferred
      BY <1>2 DEF SameSlots
    <3>4. q.volatile \subseteq In(q, "Releasing")
      BY <1>1, <1>2, <2>2, <3>3 DEF Keyed, In
    <3> QED BY <1>1, <1>2, <2>2, <3>1, <3>2, <3>3, <3>4 DEF Keyed
  <2> QED BY <2>1, <2>2
<1>5. \A g \in q.deferred : q.voice[g].state = "Active" /\ q.voice[g].play = NoPlay
  BY <1>2 DEF SameSlots, Launching
<1> QED BY <1>2, <1>3, <1>4, <1>5 DEF Launching, q

\* The sources of a twin are keyed again.
LEMMA RefreshedFacts ==
    ASSUME NEW p, NEW S, NEW T, Launching(p, S, T, {}), NEW s \in Seq(Handles)
    PROVE  Launching(Refreshed(p, s), S, T, {}) /\ SameSlots(p, Refreshed(p, s))
<1> DEFINE n == Len(s)
           U == {q \in Pools : Launching(q, S, T, {}) /\ SameSlots(p, q)}
           W == [i \in 0 .. n |-> U]
<1>1. p \in U
  BY DEF Launching, Body, SameSlots
<1>2. ASSUME NEW q \in U, NEW h \in Handles PROVE Refresh(q, h) \in U
  <2> DEFINE r == Refresh(q, h)
  <2>1. Launching(r, S, T, {}) /\ SameSlots(q, r)
    BY RefreshLaunching
  <2> HIDE DEF r
  <2>2. r \in Pools /\ SameSlots(p, r)
    BY <2>1 DEF Launching, Body, SameSlots
  <2> QED BY <2>1, <2>2 DEF r
<1>3. /\ n \in Nat /\ W[0] = U /\ W[n] = U /\ \A i \in 1 .. n : W[i] = U /\ W[i - 1] = U
      /\ \A i \in 1 .. n : s[i] \in Handles
  OBVIOUS
<1> HIDE DEF W, U
<1>4. \A i \in 1 .. n : \A q \in W[i - 1] : Refresh(q, s[i]) \in W[i]
  BY <1>2, <1>3
<1>5. Refreshed(p, s) \in W[n]
  BY <1>1, <1>3, <1>4, RefreshAlong
<1> QED BY <1>3, <1>5 DEF U

\* The slots of a twin.
LEMMA PlaceTwinFacts ==
    ASSUME NEW p, NEW room, NEW S, NEW T, Ready(p, room, S, T), NEW key \in Keys,
           NEW source \in Seq(Handles), \A h \in ToSet(source) : p.voice[h].key = key,
           NEW t \in PlaceTwin(p, key, source)
    PROVE  t \in Twinning(room, S, T, key, ToSet(source), Len(source))
<1> DEFINE K == ToSet(source)
           n == Len(source)
           start == [pool |-> p, handles |-> <<>>, failed |-> FALSE]
           W == [i \in 0 .. n |-> Twinning(room, S, T, key, K, i)]
<1>1. K \in SUBSET Handles /\ n \in Nat
  BY InToSet
<1>2. PICK s \in TwinRounds({start}, key, source, n) :
         t = [s EXCEPT !.pool = Along(Refresh, @, source)]
  BY DEF PlaceTwin, TwinRounds
<1>3. start \in Twinning(room, S, T, key, K, 0)
  <2>1. /\ start \in [pool : Pools, handles : Seq(Slots), failed : BOOLEAN]
        /\ start.pool = p /\ start.handles = <<>>
    BY DEF Ready, Body
  <2> HIDE DEF start, K
  <2>2. ToSet(<<>>) = {} /\ Len(<<>>) = 0
    BY DEF ToSet
  <2>3. Launching(p, S, T, {}) /\ p.deferred = {} /\ Within(p, room)
    BY DEF Ready, Launching
  <2>4. \A h \in K : p.voice[h].key = key
    BY DEF K
  <2> QED BY <2>1, <2>2, <2>3, <2>4 DEF Twinning
<1>4. /\ W[0] = Twinning(room, S, T, key, K, 0) /\ W[n] = Twinning(room, S, T, key, K, n)
      /\ \A i \in 1 .. n : /\ W[i] = Twinning(room, S, T, key, K, i)
                           /\ W[i - 1] = Twinning(room, S, T, key, K, i - 1)
  BY <1>1
<1> HIDE DEF W, start, K
<1>5. ASSUME NEW i \in 1 .. n, NEW r \in W[i - 1] PROVE TwinStep(r, key, source) \subseteq W[i]
  <2>1. i - 1 \in Nat /\ (i - 1) + 1 = i
    OBVIOUS
  <2>2. \A w \in TwinStep(r, key, source) : w \in Twinning(room, S, T, key, K, (i - 1) + 1)
    BY <1>1, <1>4, <1>5, <2>1, TwinStepFacts
  <2> QED BY <1>4, <2>1, <2>2
<1>6. {start} \subseteq W[0]
  BY <1>3, <1>4
<1>7. TwinRounds({start}, key, source, n) \subseteq W[n]
  BY <1>1, <1>5, <1>6, TwinAlong
<1>8. s \in Twinning(room, S, T, key, K, n)
  BY <1>2, <1>4, <1>7
<1> DEFINE q == Refreshed(s.pool, source)
<1>9. /\ s \in [pool : Pools, handles : Seq(Slots), failed : BOOLEAN]
      /\ Launching(s.pool, S, T, {}) /\ Within(s.pool, room)
      /\ s.pool.deferred = ToSet(s.handles) \ {NoVoice}
      /\ ~ s.failed => NoVoice \notin ToSet(s.handles)
      /\ \A h \in K \union s.pool.deferred : s.pool.voice[h].key = key
      /\ \A h \in s.pool.deferred : s.pool.voice[h].held = {}
      /\ Len(s.handles) <= n
  BY <1>8 DEF Twinning
<1>10. Launching(q, S, T, {}) /\ SameSlots(s.pool, q)
  BY <1>9, RefreshedFacts
<1>11. t = [s EXCEPT !.pool = q]
  BY <1>2, <1>9 DEF Refreshed
<1> HIDE DEF q
<1>12. /\ q \in Pools /\ Within(q, room) /\ q.deferred = s.pool.deferred /\ q.voice = s.pool.voice
  BY <1>9, <1>10, Stays DEF SameSlots, Launching, Body
<1>13. /\ t \in [pool : Pools, handles : Seq(Slots), failed : BOOLEAN]
       /\ t.pool = q /\ t.handles = s.handles /\ t.failed = s.failed
  BY <1>9, <1>11, <1>12
<1>14. t \in Twinning(room, S, T, key, K, n)
  <2> HIDE DEF n
  <2> QED BY <1>9, <1>10, <1>12, <1>13 DEF Twinning
<1> QED BY <1>14 DEF K

\* A twin whose rows are being written.
Splitting(room, S, T, key, K, D) ==
    {q \in Pools : /\ Body(q, {}, S, T) /\ Keyed(q, D, {}) /\ Within(q, room)
                   /\ q.deferred = D
                   /\ \A h \in D : q.voice[h].state = "Active"
                   /\ \A h \in D : Waits(q, h)
                   /\ \A h \in K \union D : q.voice[h].key = key}

\* One layer of a twin is a copy of its source, of the same key, and waits on that
\* key's chain.
LEMMA SplitStepFacts ==
    ASSUME NEW room, NEW S, NEW T, NEW key, NEW K \in SUBSET Handles, NEW D,
           NEW q \in Splitting(room, S, T, key, K, D), NEW source, NEW twin, NEW i,
           source[i] \in K, twin[i] \in D, NEW play \in Nat, NEW units \in Nat \ {0},
           NEW rest \in Nat \ {0}
    PROVE  SplitStep(q, i, source, twin, play, units, rest) \in Splitting(room, S, T, key, K, D)
<1> DEFINE h == source[i]
           t == twin[i]
           v == [q.voice[h] EXCEPT !.state = "Active", !.play = play,
                                   !.mult = units, !.held = @ \ {"sustain"}]
           first == [q.voice EXCEPT ![t] = v]
           w == [first[h] EXCEPT !.mult = rest]
           voice == [first EXCEPT ![h] = w]
           r == SplitStep(q, i, source, twin, play, units, rest)
<1>1. /\ q \in Pools /\ Body(q, {}, S, T) /\ Keyed(q, D, {}) /\ Within(q, room)
      /\ q.deferred = D /\ \A g \in D : q.voice[g].state = "Active"
      /\ \A g \in K \union D : q.voice[g].key = key
      /\ \A g \in D : Waits(q, g)
  BY DEF Splitting
<1>2. h \in Handles /\ t \in Handles /\ q.voice \in [Handles -> VoiceType]
  BY <1>1 DEF Pools
<1>3. /\ v \in VoiceType /\ v.state = "Active" /\ v.key = q.voice[h].key
      /\ v.held = q.voice[h].held \ {"sustain"}
  <2>1. q.voice[h] \in VoiceType
    BY <1>2
  <2> HIDE DEF h
  <2> QED BY <2>1 DEF VoiceType
<1>4. r = [q EXCEPT !.voice[t] = v, !.voice[h].mult = rest]
  BY DEF SplitStep
<1> HIDE DEF v
<1>5. /\ first \in [Handles -> VoiceType] /\ first[t] = v
      /\ \A g \in Handles \ {t} : first[g] = q.voice[g]
  BY <1>2, <1>3
<1> HIDE DEF h, t, r
<1>6. r = [q EXCEPT !.voice = voice]
  BY <1>1, <1>2, <1>4, <1>5 DEF Pools
<1> HIDE DEF first
<1>7. /\ w \in VoiceType /\ w.state = first[h].state /\ w.key = first[h].key
      /\ w.held = first[h].held
  <2>1. first[h] \in VoiceType
    BY <1>2, <1>5
  <2> QED BY <2>1 DEF VoiceType
<1> HIDE DEF w
<1>8. /\ voice \in [Handles -> VoiceType] /\ voice[h] = w
      /\ \A g \in Handles \ {h} : voice[g] = first[g]
  BY <1>2, <1>5, <1>7
<1> HIDE DEF voice
<1>9. /\ r \in Pools /\ SameIndex(q, r) /\ r.voice = voice /\ r.active = q.active
      /\ r.free = q.free /\ r.limit = q.limit /\ r.deferred = q.deferred /\ r.chain = q.chain
  BY <1>1, <1>6, <1>8 DEF Pools, SameIndex
<1>10. \A g \in Handles : /\ voice[g].state = first[g].state
                          /\ voice[g].key = first[g].key
                          /\ voice[g].held = first[g].held
  BY <1>7, <1>8
<1>11. t \in D /\ h \in K
  BY DEF t, h
<1>12. \A g \in Handles : /\ first[g].state = q.voice[g].state
                          /\ first[g].key = q.voice[g].key
  BY <1>1, <1>3, <1>5, <1>11
<1>13. \A g \in Handles : r.voice[g].state = q.voice[g].state /\ r.voice[g].key = q.voice[g].key
  BY <1>9, <1>10, <1>12
<1>14. Pedals(r, S, T)
  <2>1. Pedals(q, S, T)
    BY <1>1 DEF Body
  <2>2. ASSUME NEW g \in Handles
        PROVE  /\ "sustain" \in first[g].held => q.voice[g].key[1] \in S
               /\ "sostenuto" \in first[g].held => q.voice[g].key[1] \in T
               /\ q.voice[g].state = "Releasing" => first[g].held = {}
    <3>1. CASE g = t
      <4>1. first[g].held = q.voice[h].held \ {"sustain"} /\ q.voice[g].state = "Active"
        BY <1>1, <1>3, <1>5, <1>11, <3>1
      <4>2. q.voice[g].key = q.voice[h].key
        BY <1>1, <1>11, <3>1
      <4>3. "sostenuto" \in q.voice[h].held => q.voice[h].key[1] \in T
        BY <1>2, <2>1 DEF Pedals
      <4> QED BY <4>1, <4>2, <4>3
    <3>2. CASE g # t
      <4>1. first[g] = q.voice[g]
        BY <1>5, <3>2
      <4> QED BY <2>1, <4>1 DEF Pedals
    <3> QED BY <3>1, <3>2
  <2> QED BY <1>9, <1>10, <1>13, <2>2 DEF Pedals
<1>15. \A g \in Handles : Waits(r, g) <=> Waits(q, g)
  BY <1>9, <1>13 DEF Waits
<1>16. Kept(r, {})
  <2> SUFFICES ASSUME NEW g \in Handles, r.voice[g].state = "Active"
               PROVE  Waits(r, g) \/ r.voice[g].held # {}
    BY DEF Kept
  <2>1. Waits(q, g) \/ q.voice[g].held # {}
    BY <1>1, <1>13 DEF Body, Kept
  <2>2. CASE g # t
    <3>1. r.voice[g].held = q.voice[g].held
      BY <1>5, <1>9, <1>10, <2>2
    <3> QED BY <1>15, <2>1, <3>1
  <2>3. CASE g = t
    <3> QED BY <1>1, <1>11, <1>15, <2>3
  <2> QED BY <2>2, <2>3
<1>17. Body(r, {}, S, T) /\ Keyed(r, D, {})
  BY <1>1, <1>9, <1>13, <1>14, <1>16, RowsFacts
<1>18. \A g \in D : r.voice[g].state = "Active"
  BY <1>1, <1>9, <1>13 DEF Pools
<1>19. /\ \A g \in K \union D : r.voice[g].key = key
       /\ \A g \in D : Waits(r, g)
  <2>1. D \subseteq Handles
    BY <1>1 DEF Pools
  <2> QED BY <1>1, <1>13, <1>15, <2>1
<1> QED BY <1>1, <1>9, <1>17, <1>18, <1>19, Stays DEF Splitting, r

\* All layers of a twin.
LEMMA SplitFacts ==
    ASSUME NEW room, NEW S, NEW T, NEW key, NEW source \in Seq(Handles),
           NEW twin \in Seq(Handles), Len(twin) <= Len(source),
           NEW D, D = ToSet(twin), NEW p \in Splitting(room, S, T, key, ToSet(source), D),
           NEW play \in Nat, NEW units \in Nat \ {0}, NEW rest \in Nat \ {0}
    PROVE  Split(p, source, twin, play, units, rest)
              \in Splitting(room, S, T, key, ToSet(source), D)
<1> DEFINE n == Len(twin)
           K == ToSet(source)
           U == Splitting(room, S, T, key, K, D)
           W == [i \in 0 .. n |-> U]
           list == [i \in DOMAIN twin |-> i]
<1>1. /\ n \in Nat /\ Len(list) = n /\ \A i \in 1 .. n : list[i] = i
      /\ W[0] = U /\ W[n] = U /\ \A i \in 1 .. n : W[i] = U /\ W[i - 1] = U
  OBVIOUS
<1>2. K \in SUBSET Handles
  BY InToSet
<1>3. ASSUME NEW i \in 1 .. n, NEW q \in U
      PROVE  SplitStep(q, i, source, twin, play, units, rest) \in U
  <2>1. twin[i] \in D
    BY InToSet
  <2>2. i \in 1 .. Len(source)
    BY <1>1
  <2>3. source[i] \in K
    BY <2>2, InToSet
  <2> HIDE DEF K, n
  <2> QED BY <1>2, <1>3, <2>1, <2>3, SplitStepFacts
<1> HIDE DEF W, U, list
<1>4. \A i \in 1 .. n : \A q \in W[i - 1] :
         SplitStep(q, list[i], source, twin, play, units, rest) \in W[i]
  BY <1>1, <1>3
<1>5. p \in W[0]
  BY <1>1 DEF U
<1>6. SplitOver(p, list, source, twin, play, units, rest) \in W[n]
  <2> HIDE DEF n
  <2> QED BY <1>1, <1>4, <1>5, SplitAlong
<1>7. Split(p, source, twin, play, units, rest) = SplitOver(p, list, source, twin, play, units, rest)
  BY DEF Split, SplitOver, list
<1> QED BY <1>1, <1>6, <1>7 DEF U

\* A twin from its slots to its note-off.
LEMMA TwinFacts ==
    ASSUME NEW room, NEW S, NEW T, NEW key \in Keys, NEW source \in Seq(Handles),
           NEW s \in Twinning(room, S, T, key, ToSet(source), Len(source)), ~ s.failed,
           NEW units \in Nat \ {0}, NEW rest \in Nat \ {0}, NEW play \in Nat,
           NEW down \in BOOLEAN, down => key[1] \in S
    PROVE  Ready(NoteOffPlayIndex(
                    Commit(Split(s.pool, source, s.handles, play, units, rest), s.handles),
                    key, play, down), room, S, T)
<1> DEFINE p == s.pool
           twin == s.handles
           D == ToSet(twin)
           K == ToSet(source)
           q == Split(p, source, twin, play, units, rest)
           c == Commit(q, twin)
<1>1. /\ p \in Pools /\ Launching(p, S, T, {}) /\ Within(p, room)
      /\ p.deferred = ToSet(twin) \ {NoVoice} /\ NoVoice \notin ToSet(twin)
      /\ \A h \in K \union p.deferred : p.voice[h].key = key
      /\ \A h \in p.deferred : p.voice[h].held = {}
      /\ Len(twin) <= Len(source) /\ twin \in Seq(Slots)
  BY DEF Twinning
<1>2. twin \in Seq(Handles) /\ p.deferred = D /\ D \subseteq Handles
  <2>1. \A i \in 1 .. Len(twin) : twin[i] \in Handles
    BY <1>1, InToSet DEF Slots
  <2>2. twin \in Seq(Handles)
    BY <1>1, <2>1, SeqNarrow
  <2> QED BY <1>1, <2>2, InToSet
<1> HIDE DEF D, K
<1>3. p \in Splitting(room, S, T, key, K, D)
  <2>1. \A h \in D : p.voice[h].state = "Active"
    BY <1>1, <1>2 DEF Launching
  <2>2. \A h \in D : Waits(p, h)
    BY <1>1, <1>2, <2>1 DEF Launching, Body, Kept
  <2> HIDE DEF p
  <2> QED BY <1>1, <1>2, <2>1, <2>2 DEF Splitting, Launching
<1> HIDE DEF p, twin
<1>4. q \in Splitting(room, S, T, key, K, D)
  BY <1>1, <1>2, <1>3, SplitFacts DEF D, K
<1> HIDE DEF q
<1>5. /\ Body(q, {}, S, T) /\ Keyed(q, q.deferred, {}) /\ Within(q, room) /\ q.deferred = D
      /\ \A h \in D : q.voice[h].state = "Active"
  BY <1>4 DEF Splitting
<1>6. Ready(c, room, S, T)
  BY <1>2, <1>5, CommitFacts DEF D
<1> HIDE DEF c
<1>7. Ready(NoteOffPlayIndex(c, key, play, down), room, S, T)
  BY <1>6, NoteOffPlayIndexFacts
<1> QED BY <1>7 DEF c, q, p, twin

\* ForkReleasedUnits, whether it forks, fails or returns early.
LEMMA ForkFacts ==
    ASSUME NEW p, NEW room, NEW S, NEW T, Ready(p, room, S, T), NEW key \in Keys,
           NEW play, NEW units \in Nat \ {0}, NEW down \in BOOLEAN, down => key[1] \in S,
           NEW newest \in BOOLEAN,
           NEW r \in ForkReleasedUnits(p, key, play, units, down, newest)
    PROVE  Ready(r.pool, room, S, T)
<1> DEFINE source == Layers(p, key, play, newest)
           mult == p.voice[source[1]].mult
<1>1. p \in Pools /\ Chained(p)
  BY DEF Ready, Body
<1>2. /\ source \in Seq(Handles)
      /\ \A h \in ToSet(source) : p.voice[h].state = "Active" /\ p.voice[h].key = key
  BY <1>1, LayersFacts
<1>3. CASE source = <<>> \/ units >= mult
  BY <1>3 DEF ForkReleasedUnits
<1>4. CASE source # <<>> /\ ~ (units >= mult)
  <2>1. PICK s \in PlaceTwin(p, key, source) :
           r = IF s.failed THEN [pool |-> RollBack(s.pool, s.handles), forked |-> FALSE]
               ELSE [pool |-> NoteOffPlayIndex(
                                 Commit(Split(s.pool, source, s.handles, FreshPlay(s.pool),
                                              units, mult - units), s.handles),
                                 key, FreshPlay(s.pool), down),
                     forked |-> TRUE]
    BY <1>4 DEF ForkReleasedUnits
  <2>2. mult \in Nat \ {0}
    <3> HIDE DEF source
    <3>1. source[1] \in Handles
      BY <1>2, <1>4
    <3> QED BY <1>1, <3>1 DEF Pools, VoiceType
  <2> HIDE DEF mult
  <2>3. mult - units \in Nat \ {0}
    BY <1>4, <2>2
  <2> HIDE DEF source
  <2>4. s \in Twinning(room, S, T, key, ToSet(source), Len(source))
    BY <1>2, <2>1, PlaceTwinFacts
  <2>5. /\ s.pool \in Pools /\ Launching(s.pool, S, T, {}) /\ Within(s.pool, room)
        /\ s.pool.deferred = ToSet(s.handles) \ {NoVoice} /\ s.handles \in Seq(Slots)
    BY <2>4 DEF Twinning
  <2>6. CASE s.failed
    <3>1. Ready(RollBack(s.pool, s.handles), room, S, T)
      BY <2>5, RollFacts
    <3> QED BY <2>1, <2>5, <2>6, <3>1
  <2>7. CASE ~ s.failed
    <3> DEFINE fresh == FreshPlay(s.pool)
               rest == mult - units
    <3>1. fresh \in Nat
      BY <2>5, FreshPlayFacts
    <3> HIDE DEF fresh, rest
    <3>2. Ready(NoteOffPlayIndex(
                   Commit(Split(s.pool, source, s.handles, fresh, units, rest), s.handles),
                   key, fresh, down), room, S, T)
      BY <1>2, <2>3, <2>4, <2>7, <3>1, TwinFacts DEF rest
    <3> QED BY <2>1, <2>7, <3>2 DEF fresh, rest
  <2> QED BY <2>6, <2>7
<1> QED BY <1>3, <1>4

-----------------------------------------------------------------------------

\* The step of NoteOffOldestPlayIndices, and the loop.
OffStep(s, key, count, down, newest) ==
    LET chain == s.pool.chain[key]
        h == IF newest THEN chain[1] ELSE chain[Len(chain)]
        v == s.pool.voice[h]
        left == count - s.released
        forks == ForkReleasedUnits(s.pool, key, v.play, left, down, newest)
    IN  IF left = 0 \/ chain = <<>> THEN {s}
        ELSE IF v.mult > left
        THEN {[released |-> count,
               pool |-> IF r.forked THEN r.pool
                        ELSE NoteOffPlayIndex(r.pool, key, v.play, down)] :
                 r \in forks}
        ELSE {[released |-> s.released + v.mult,
               pool |-> NoteOffPlayIndex(s.pool, key, v.play, down)]}
OffRounds(A, key, count, down, newest, n) ==
    Rounds(LAMBDA s :
            LET chain == s.pool.chain[key]
                h == IF newest THEN chain[1] ELSE chain[Len(chain)]
                v == s.pool.voice[h]
                left == count - s.released
                forks == ForkReleasedUnits(s.pool, key, v.play, left, down, newest)
            IN  IF left = 0 \/ chain = <<>> THEN {s}
                ELSE IF v.mult > left
                THEN {[released |-> count,
                       pool |-> IF r.forked THEN r.pool
                                ELSE NoteOffPlayIndex(r.pool, key, v.play, down)] :
                         r \in forks}
                ELSE {[released |-> s.released + v.mult,
                       pool |-> NoteOffPlayIndex(s.pool, key, v.play, down)]}, A, n)

\* The loop of NoteOffOldestPlayIndices.
LEMMA OffAlong ==
    ASSUME NEW A, NEW key, NEW count, NEW down, NEW newest, NEW n \in Nat, NEW W, A \subseteq W[0],
           \A i \in 1 .. n : \A s \in W[i - 1] : OffStep(s, key, count, down, newest) \subseteq W[i]
    PROVE  OffRounds(A, key, count, down, newest, n) \subseteq W[n]
<1> DEFINE x == A
           after == CHOOSE after : after = [i \in 0 .. n |->
                       IF i = 0 THEN x ELSE UNION {OffStep(s, key, count, down, newest) : s \in after[i - 1]}]
           V == [i \in 0 .. n |-> SUBSET W[i]]
           U == UNION {V[i] : i \in 0 .. n}
           G == [z \in U \X (1 .. n) |-> UNION {OffStep(s, key, count, down, newest) : s \in z[1]}]
<1>1. OffRounds(A, key, count, down, newest, n) = after[n]
  BY DEF OffRounds, Rounds, OffStep
<1>2. \A i \in 1 .. n : i - 1 \in 0 .. n /\ V[i] = SUBSET W[i] /\ V[i - 1] = SUBSET W[i - 1]
  OBVIOUS
<1>x. x \in V[0] /\ V[n] = SUBSET W[n]
  OBVIOUS
<1> HIDE DEF x
<1>3. \A i \in 1 .. n : \A q \in V[i - 1] : q \in U
  <2> HIDE DEF V
  <2> QED BY <1>2
<1> HIDE DEF U, V
<1>4. \A i \in 1 .. n : \A q \in V[i - 1] :
         G[<<q, i>>] = UNION {OffStep(s, key, count, down, newest) : s \in q}
  BY <1>3
<1> HIDE DEF G
<1>5. \A i \in 1 .. n : \A q \in V[i - 1] : G[<<q, i>>] \in V[i]
  <2> SUFFICES ASSUME NEW i \in 1 .. n, NEW q \in V[i - 1] PROVE G[<<q, i>>] \in V[i]
    OBVIOUS
  <2>1. \A s \in q : OffStep(s, key, count, down, newest) \subseteq W[i]
    BY <1>2
  <2> DEFINE Y == UNION {OffStep(s, key, count, down, newest) : s \in q}
  <2>2. Y \subseteq W[i]
    BY <2>1
  <2>3. G[<<q, i>>] = Y
    BY <1>4
  <2> HIDE DEF Y
  <2>4. V[i] = SUBSET W[i]
    BY <1>2
  <2>5. Y \in SUBSET W[i]
    BY <2>2
  <2> QED BY <2>3, <2>4, <2>5
<1>6. PICK f : /\ f = [i \in 0 .. n |-> f[i]]
               /\ f[0] = x
               /\ \A i \in 0 .. n : f[i] \in V[i]
               /\ \A i \in 1 .. n : f[i] = G[<<f[i - 1], i>>]
  <2>1. Loops(n, V, x, G)
    BY <1>5, <1>x, LoopExists
  <2> QED BY <2>1 DEF Loops
<1>7. f = [i \in 0 .. n |-> IF i = 0 THEN x ELSE UNION {OffStep(s, key, count, down, newest) : s \in f[i - 1]}]
  <2>1. \A i \in 0 .. n : i # 0 => i \in 1 .. n /\ f[i - 1] \in V[i - 1]
    BY <1>2, <1>6
  <2>2. \A i \in 0 .. n : f[i] = IF i = 0 THEN x ELSE UNION {OffStep(s, key, count, down, newest) : s \in f[i - 1]}
    BY <1>4, <1>6, <2>1
  <2> QED BY <1>6, <2>2
<1>8. after = [i \in 0 .. n |-> IF i = 0 THEN x ELSE UNION {OffStep(s, key, count, down, newest) : s \in after[i - 1]}]
  BY <1>7
<1> HIDE DEF after
<1>9. after[0] = x /\ \A i \in 1 .. n : after[i] = UNION {OffStep(s, key, count, down, newest) : s \in after[i - 1]}
  BY <1>8
<1>10. \A i \in 1 .. n : after[i - 1] \in V[i - 1] => after[i] \in V[i]
  <2> SUFFICES ASSUME NEW i \in 1 .. n, after[i - 1] \in V[i - 1] PROVE after[i] \in V[i]
    OBVIOUS
  <2>1. G[<<after[i - 1], i>>] = UNION {OffStep(s, key, count, down, newest) : s \in after[i - 1]}
    BY <1>4
  <2>2. after[i] = G[<<after[i - 1], i>>]
    BY <1>9, <2>1
  <2> QED BY <1>5, <2>2
<1>11. \A i \in 0 .. n : after[i] \in V[i]
  BY <1>x, <1>9, <1>10, Rising
<1> QED BY <1>1, <1>11, <1>x

\* A pool with some of the note-offs served.
Offing(room, S, T, count) ==
    {s \in [released : 0 .. count, pool : Pools] : Ready(s.pool, room, S, T)}

\* One generation served, or one fork.
LEMMA OffStepFacts ==
    ASSUME NEW room, NEW S, NEW T, NEW key \in Keys, NEW count \in Nat,
           NEW down \in BOOLEAN, down => key[1] \in S, NEW newest \in BOOLEAN,
           NEW s \in Offing(room, S, T, count),
           NEW t \in OffStep(s, key, count, down, newest)
    PROVE  t \in Offing(room, S, T, count)
<1> DEFINE chain == s.pool.chain[key]
           h == IF newest THEN chain[1] ELSE chain[Len(chain)]
           v == s.pool.voice[h]
           left == count - s.released
<1>1. s.pool \in Pools /\ s.released \in 0 .. count /\ Ready(s.pool, room, S, T)
  BY DEF Offing
<1>2. CASE left = 0 \/ chain = <<>>
  BY <1>2 DEF OffStep
<1>3. CASE ~ (left = 0 \/ chain = <<>>)
  <2>1. left \in Nat \ {0}
    BY <1>1, <1>3
  <2>2. h \in Handles
    <3>1. chain \in Seq(Handles)
      BY <1>1 DEF Pools
    <3> QED BY <1>3, <3>1
  <2>3. v.mult \in Nat \ {0}
    BY <1>1, <2>2 DEF Pools, VoiceType
  <2> HIDE DEF h, chain
  <2>4. CASE v.mult > left
    <3>1. PICK r \in ForkReleasedUnits(s.pool, key, v.play, left, down, newest) :
             t = [released |-> count,
                  pool |-> IF r.forked THEN r.pool
                           ELSE NoteOffPlayIndex(r.pool, key, v.play, down)]
      BY <1>3, <2>4 DEF OffStep, h, chain
    <3>2. Ready(r.pool, room, S, T)
      <4> HIDE DEF left, v
      <4> QED BY <1>1, <2>1, <3>1, ForkFacts
    <3>3. Ready(NoteOffPlayIndex(r.pool, key, v.play, down), room, S, T)
      <4> HIDE DEF v
      <4> QED BY <3>2, NoteOffPlayIndexFacts
    <3>4. Ready(t.pool, room, S, T) /\ t.released = count
      BY <3>1, <3>2, <3>3
    <3>5. t.pool \in Pools
      BY <3>4 DEF Ready, Body
    <3>6. t \in [released : 0 .. count, pool : Pools]
      BY <3>1, <3>4, <3>5
    <3> QED BY <3>4, <3>6 DEF Offing
  <2>5. CASE ~ (v.mult > left)
    <3> DEFINE w == NoteOffPlayIndex(s.pool, key, v.play, down)
    <3>1. t = [released |-> s.released + v.mult, pool |-> w]
      BY <1>3, <2>5 DEF OffStep, h, chain
    <3>2. Ready(w, room, S, T)
      <4> HIDE DEF v
      <4> QED BY <1>1, NoteOffPlayIndexFacts
    <3>3. w \in Pools
      BY <3>2 DEF Ready, Body
    <3> HIDE DEF w
    <3>4. s.released + v.mult \in 0 .. count
      BY <1>1, <2>3, <2>5
    <3>5. t \in [released : 0 .. count, pool : Pools] /\ t.pool = w
      BY <3>1, <3>3, <3>4
    <3> QED BY <3>2, <3>5 DEF Offing
  <2> QED BY <2>4, <2>5
<1> QED BY <1>2, <1>3

\* NoteOffOldestPlayIndices.
LEMMA NoteOffsFacts ==
    ASSUME NEW p, NEW room, NEW S, NEW T, Ready(p, room, S, T), NEW key \in Keys,
           NEW count \in Nat, NEW down \in BOOLEAN, down => key[1] \in S,
           NEW newest \in BOOLEAN, NEW q \in NoteOffs(p, key, count, down, newest)
    PROVE  Ready(q, room, S, T)
<1> DEFINE start == [released |-> 0, pool |-> p]
           U == Offing(room, S, T, count)
           W == [i \in 0 .. count |-> U]
<1>1. PICK s \in OffRounds({start}, key, count, down, newest, count) : q = s.pool
  BY DEF NoteOffs, OffRounds
<1>2. start \in U
  <2>1. p \in Pools /\ 0 \in 0 .. count
    BY DEF Ready, Body
  <2> QED BY <2>1 DEF Offing
<1>3. /\ W[0] = U /\ W[count] = U /\ \A i \in 1 .. count : W[i] = U /\ W[i - 1] = U
  OBVIOUS
<1>4. \A e \in U : OffStep(e, key, count, down, newest) \subseteq U
  BY OffStepFacts
<1> HIDE DEF W, U, start
<1>5. \A i \in 1 .. count : \A e \in W[i - 1] : OffStep(e, key, count, down, newest) \subseteq W[i]
  BY <1>3, <1>4
<1>6. {start} \subseteq W[0]
  BY <1>2, <1>3
<1>7. OffRounds({start}, key, count, down, newest, count) \subseteq W[count]
  BY <1>5, <1>6, OffAlong
<1> QED BY <1>1, <1>3, <1>7 DEF U, Offing

-----------------------------------------------------------------------------
(* Pedals.                                                                *)

\* Between two events a free slot holds no pedal.
Idle(p) == \A h \in Handles : p.voice[h].state = "Free" => p.voice[h].held = {}

\* StartRelease takes pedals away and gives none.
LEMMA ReleaseIdle ==
    ASSUME NEW p, NEW room, NEW S, NEW T, Ready(p, room, S, T), Idle(p), NEW h \in Handles
    PROVE  /\ Ready(Release(p, h), room, S, T) /\ Idle(Release(p, h))
           /\ \A g \in Handles : /\ Release(p, h).voice[g].key = p.voice[g].key
                                 /\ Release(p, h).voice[g].held \subseteq p.voice[g].held
<1> DEFINE r == Release(p, h)
<1>1. Body(p, {}, S, T) /\ Keyed(p, {}, {}) /\ p.deferred = {} /\ Within(p, room)
  BY DEF Ready
<1>2. /\ Body(r, {}, S, T) /\ Keyed(r, {}, {}) /\ r.deferred = {}
      /\ r.limit = p.limit /\ r.active = p.active
      /\ \A g \in Handles \ {h} : r.voice[g] = p.voice[g]
      /\ r.voice[h].key = p.voice[h].key
      /\ IF p.voice[h].state = "Active"
         THEN r.voice[h].state = "Releasing" /\ r.voice[h].held = {}
         ELSE r.voice[h] = p.voice[h]
  BY <1>1, ReleaseFacts
<1> HIDE DEF r
<1>3. Ready(r, room, S, T)
  BY <1>1, <1>2, Stays DEF Ready
<1>4. Idle(r)
  BY <1>2 DEF Idle
<1>5. \A g \in Handles : r.voice[g].key = p.voice[g].key /\ r.voice[g].held \subseteq p.voice[g].held
  BY <1>2
<1> QED BY <1>3, <1>4, <1>5 DEF r

\* ReleaseChannel leaves no pedal in a free row.
LEMMA ReleaseAllIdle ==
    ASSUME NEW p, NEW room, NEW S, NEW T, Ready(p, room, S, T), Idle(p), NEW R
    PROVE  Ready(ReleaseAll(p, R), room, S, T) /\ Idle(ReleaseAll(p, R))
<1> DEFINE s == InOrder(p, R)
           n == Len(s)
           U == {q \in Pools : Ready(q, room, S, T) /\ Idle(q)}
           W == [i \in 0 .. n |-> U]
<1>1. s \in Seq(Handles)
  BY InOrderFacts DEF Ready, Body
<1>2. p \in U
  BY DEF Ready, Body
<1>3. ASSUME NEW q \in U, NEW h \in Handles PROVE Release(q, h) \in U
  BY ReleaseIdle DEF Ready, Body
<1> HIDE DEF s
<1>4. /\ n \in Nat /\ W[0] = U /\ W[n] = U /\ \A i \in 1 .. n : W[i] = U /\ W[i - 1] = U
      /\ \A i \in 1 .. n : s[i] \in Handles
  BY <1>1
<1> HIDE DEF W, U
<1>5. \A i \in 1 .. n : \A q \in W[i - 1] : Release(q, s[i]) \in W[i]
  BY <1>3, <1>4
<1>6. Along(Release, p, s) \in W[n]
  BY <1>2, <1>4, <1>5, ReleaseAlong
<1> QED BY <1>4, <1>6 DEF U, ReleaseAll, s

-----------------------------------------------------------------------------
\* A pedal of a voice is up: r is the voice kept, or released.
Lifted(p, r, h, pedal, room, S, T) ==
    /\ Ready(r, room, S, T) /\ Idle(r) /\ pedal \notin r.voice[h].held
    /\ \A g \in Handles : /\ r.voice[g].key = p.voice[g].key
                          /\ r.voice[g].held \subseteq p.voice[g].held

\* A pedal is taken from a voice that something else keeps, or the voice goes.
LEMMA LiftFacts ==
    ASSUME NEW p, NEW room, NEW S, NEW T, Ready(p, room, S, T), Idle(p), NEW h \in Handles,
           NEW pedal \in {"sustain", "sostenuto"}
    PROVE  /\ Waits(p, h) \/ p.voice[h].held \ {pedal} # {} =>
                 Lifted(p, Lift(p, h, pedal), h, pedal, room, S, T)
           /\ Lifted(p, Release(Lift(p, h, pedal), h), h, pedal, room, S, T)
<1> DEFINE X == p.voice[h].held \ {pedal}
           q == [p EXCEPT !.voice[h].held = X]
           r == Release(q, h)
<1>1. /\ Body(p, {}, S, T) /\ Keyed(p, {}, {}) /\ p.deferred = {} /\ Within(p, room)
      /\ p \in Pools /\ Pedals(p, S, T)
  BY DEF Ready, Body
<1>2. p.voice[h] \in VoiceType /\ p.voice[h].held \in SUBSET {"sustain", "sostenuto"}
  BY <1>1 DEF Pools, VoiceType
<1>3. Lift(p, h, pedal) = q
  BY <1>1 DEF Lift, Pools
<1>4. /\ X \in SUBSET {"sustain", "sostenuto"} /\ X \subseteq p.voice[h].held
      /\ pedal \notin X
  BY <1>2
<1>5. /\ "sustain" \in X => p.voice[h].key[1] \in S
      /\ "sostenuto" \in X => p.voice[h].key[1] \in T
      /\ p.voice[h].state = "Releasing" => X = {}
      /\ p.voice[h].state = "Free" => X = {}
  BY <1>1 DEF Pedals, Idle
<1> HIDE DEF X
<1>6. /\ Reheld(p, q, h, X) /\ Body(q, {} \union {h}, S, T)
      /\ p.voice[h].state # "Active" \/ Waits(p, h) \/ X # {} => Body(q, {}, S, T)
      /\ Keyed(q, {}, {})
  BY <1>1, <1>4, <1>5, HeldFacts
<1> HIDE DEF q
<1>7. /\ q.deferred = {} /\ Within(q, room)
      /\ q.voice[h].held = X /\ q.voice[h].state = p.voice[h].state
      /\ q.voice[h].key = p.voice[h].key
      /\ \A g \in Handles \ {h} : q.voice[g] = p.voice[g]
  BY <1>1, <1>6, Stays DEF Reheld
<1>8. Idle(q)
  BY <1>5, <1>7 DEF Idle
<1>9. \A g \in Handles : q.voice[g].key = p.voice[g].key /\ q.voice[g].held \subseteq p.voice[g].held
  BY <1>4, <1>7
<1>10. Waits(p, h) \/ X # {} => Lifted(p, q, h, pedal, room, S, T)
  BY <1>4, <1>6, <1>7, <1>8, <1>9 DEF Lifted, Ready
<1>11. /\ Body(r, {h}, S, T) /\ Keyed(r, {}, {}) /\ r.deferred = {}
       /\ r.limit = q.limit /\ r.active = q.active
       /\ \A g \in Handles \ {h} : r.voice[g] = q.voice[g]
       /\ r.voice[h].key = q.voice[h].key
       /\ IF q.voice[h].state = "Active"
          THEN r.voice[h].state = "Releasing" /\ r.voice[h].held = {}
          ELSE r.voice[h] = q.voice[h]
  <2>1. Body(q, {h}, S, T)
    BY <1>6
  <2> QED BY <1>6, <1>7, <2>1, ReleaseFacts
<1> HIDE DEF r
<1>12. Body(r, {}, S, T)
  <2>1. r.voice[h].state # "Active"
    BY <1>11
  <2> QED BY <1>11, <2>1 DEF Body, Kept
<1>13. Idle(r)
  BY <1>8, <1>11 DEF Idle
<1>14. \A g \in Handles : r.voice[g].key = p.voice[g].key /\ r.voice[g].held \subseteq p.voice[g].held
  BY <1>9, <1>11
<1>15. pedal \notin r.voice[h].held
  BY <1>4, <1>7, <1>11
<1>16. Lifted(p, r, h, pedal, room, S, T)
  BY <1>7, <1>11, <1>12, <1>13, <1>14, <1>15, Stays DEF Lifted, Ready
<1> QED BY <1>3, <1>10, <1>16 DEF X, r

\* The loops over the voices of a channel, each with its step.
SustainStep(q, h) ==
    IF "sostenuto" \in q.voice[h].held THEN Lift(q, h, "sustain")
    ELSE Release(Lift(q, h, "sustain"), h)
SustainOver(p, s) ==
    Along(LAMBDA q, h : IF "sostenuto" \in q.voice[h].held
                        THEN Lift(q, h, "sustain")
                        ELSE Release(Lift(q, h, "sustain"), h), p, s)
SostenutoStep(q, h) ==
    IF Waits(q, h) \/ "sustain" \in q.voice[h].held THEN Lift(q, h, "sostenuto")
    ELSE Release(Lift(q, h, "sostenuto"), h)
SostenutoOver(p, s) ==
    Along(LAMBDA q, h : IF Waits(q, h) \/ "sustain" \in q.voice[h].held
                        THEN Lift(q, h, "sostenuto")
                        ELSE Release(Lift(q, h, "sostenuto"), h), p, s)
CaptureStep(q, h) == Hold(q, h, {"sostenuto"})
CaptureOver(p, s) == Along(LAMBDA q, h : Hold(q, h, {"sostenuto"}), p, s)
RetiredAll(p, s) == Along(RetireVoice, p, s)

\* The loop of ReleaseSustain.
LEMMA SustainAlong ==
    ASSUME NEW n \in Nat, NEW s, Len(s) = n, NEW W, NEW x \in W[0],
           \A i \in 1 .. n : \A q \in W[i - 1] : SustainStep(q, s[i]) \in W[i]
    PROVE  SustainOver(x, s) \in W[n]
<1> DEFINE after == CHOOSE after : after = [i \in 0 .. Len(s) |->
                       IF i = 0 THEN x ELSE SustainStep(after[i - 1], s[i])]
           U == UNION {W[i] : i \in 0 .. n}
           G == [z \in U \X (1 .. n) |-> SustainStep(z[1], s[z[2]])]
<1>1. SustainOver(x, s) = after[n]
  BY DEF SustainOver, Along, SustainStep
<1>2. \A i \in 1 .. n : i - 1 \in 0 .. n
  OBVIOUS
<1>3. \A i \in 1 .. n : \A q \in W[i - 1] : q \in U
  BY <1>2
<1> HIDE DEF U
<1>4. \A i \in 1 .. n : \A q \in W[i - 1] : G[<<q, i>>] = SustainStep(q, s[i])
  BY <1>3
<1> HIDE DEF G
<1>5. \A i \in 1 .. n : \A q \in W[i - 1] : G[<<q, i>>] \in W[i]
  BY <1>4
<1>6. PICK f : /\ f = [i \in 0 .. n |-> f[i]]
               /\ f[0] = x
               /\ \A i \in 0 .. n : f[i] \in W[i]
               /\ \A i \in 1 .. n : f[i] = G[<<f[i - 1], i>>]
  <2>1. Loops(n, W, x, G)
    BY <1>5, LoopExists
  <2> QED BY <2>1 DEF Loops
<1>7. f = [i \in 0 .. n |-> IF i = 0 THEN x ELSE SustainStep(f[i - 1], s[i])]
  <2>1. \A i \in 0 .. n : i # 0 => i \in 1 .. n /\ f[i - 1] \in W[i - 1]
    BY <1>2, <1>6
  <2>2. \A i \in 0 .. n : f[i] = IF i = 0 THEN x ELSE SustainStep(f[i - 1], s[i])
    BY <1>4, <1>6, <2>1
  <2> QED BY <1>6, <2>2
<1>8. after = [i \in 0 .. n |-> IF i = 0 THEN x ELSE SustainStep(after[i - 1], s[i])]
  BY <1>7
<1> HIDE DEF after
<1>9. after[0] = x /\ \A i \in 1 .. n : after[i] = SustainStep(after[i - 1], s[i])
  BY <1>8
<1>10. \A i \in 0 .. n : after[i] \in W[i]
  BY <1>9, Rising
<1> QED BY <1>1, <1>10

\* The loop of ReleaseSostenuto.
LEMMA SostenutoAlong ==
    ASSUME NEW n \in Nat, NEW s, Len(s) = n, NEW W, NEW x \in W[0],
           \A i \in 1 .. n : \A q \in W[i - 1] : SostenutoStep(q, s[i]) \in W[i]
    PROVE  SostenutoOver(x, s) \in W[n]
<1> DEFINE after == CHOOSE after : after = [i \in 0 .. Len(s) |->
                       IF i = 0 THEN x ELSE SostenutoStep(after[i - 1], s[i])]
           U == UNION {W[i] : i \in 0 .. n}
           G == [z \in U \X (1 .. n) |-> SostenutoStep(z[1], s[z[2]])]
<1>1. SostenutoOver(x, s) = after[n]
  BY DEF SostenutoOver, Along, SostenutoStep
<1>2. \A i \in 1 .. n : i - 1 \in 0 .. n
  OBVIOUS
<1>3. \A i \in 1 .. n : \A q \in W[i - 1] : q \in U
  BY <1>2
<1> HIDE DEF U
<1>4. \A i \in 1 .. n : \A q \in W[i - 1] : G[<<q, i>>] = SostenutoStep(q, s[i])
  BY <1>3
<1> HIDE DEF G
<1>5. \A i \in 1 .. n : \A q \in W[i - 1] : G[<<q, i>>] \in W[i]
  BY <1>4
<1>6. PICK f : /\ f = [i \in 0 .. n |-> f[i]]
               /\ f[0] = x
               /\ \A i \in 0 .. n : f[i] \in W[i]
               /\ \A i \in 1 .. n : f[i] = G[<<f[i - 1], i>>]
  <2>1. Loops(n, W, x, G)
    BY <1>5, LoopExists
  <2> QED BY <2>1 DEF Loops
<1>7. f = [i \in 0 .. n |-> IF i = 0 THEN x ELSE SostenutoStep(f[i - 1], s[i])]
  <2>1. \A i \in 0 .. n : i # 0 => i \in 1 .. n /\ f[i - 1] \in W[i - 1]
    BY <1>2, <1>6
  <2>2. \A i \in 0 .. n : f[i] = IF i = 0 THEN x ELSE SostenutoStep(f[i - 1], s[i])
    BY <1>4, <1>6, <2>1
  <2> QED BY <1>6, <2>2
<1>8. after = [i \in 0 .. n |-> IF i = 0 THEN x ELSE SostenutoStep(after[i - 1], s[i])]
  BY <1>7
<1> HIDE DEF after
<1>9. after[0] = x /\ \A i \in 1 .. n : after[i] = SostenutoStep(after[i - 1], s[i])
  BY <1>8
<1>10. \A i \in 0 .. n : after[i] \in W[i]
  BY <1>9, Rising
<1> QED BY <1>1, <1>10

\* The loop of CaptureSostenuto.
LEMMA CaptureAlong ==
    ASSUME NEW n \in Nat, NEW s, Len(s) = n, NEW W, NEW x \in W[0],
           \A i \in 1 .. n : \A q \in W[i - 1] : CaptureStep(q, s[i]) \in W[i]
    PROVE  CaptureOver(x, s) \in W[n]
<1> DEFINE after == CHOOSE after : after = [i \in 0 .. Len(s) |->
                       IF i = 0 THEN x ELSE CaptureStep(after[i - 1], s[i])]
           U == UNION {W[i] : i \in 0 .. n}
           G == [z \in U \X (1 .. n) |-> CaptureStep(z[1], s[z[2]])]
<1>1. CaptureOver(x, s) = after[n]
  BY DEF CaptureOver, Along, CaptureStep
<1>2. \A i \in 1 .. n : i - 1 \in 0 .. n
  OBVIOUS
<1>3. \A i \in 1 .. n : \A q \in W[i - 1] : q \in U
  BY <1>2
<1> HIDE DEF U
<1>4. \A i \in 1 .. n : \A q \in W[i - 1] : G[<<q, i>>] = CaptureStep(q, s[i])
  BY <1>3
<1> HIDE DEF G
<1>5. \A i \in 1 .. n : \A q \in W[i - 1] : G[<<q, i>>] \in W[i]
  BY <1>4
<1>6. PICK f : /\ f = [i \in 0 .. n |-> f[i]]
               /\ f[0] = x
               /\ \A i \in 0 .. n : f[i] \in W[i]
               /\ \A i \in 1 .. n : f[i] = G[<<f[i - 1], i>>]
  <2>1. Loops(n, W, x, G)
    BY <1>5, LoopExists
  <2> QED BY <2>1 DEF Loops
<1>7. f = [i \in 0 .. n |-> IF i = 0 THEN x ELSE CaptureStep(f[i - 1], s[i])]
  <2>1. \A i \in 0 .. n : i # 0 => i \in 1 .. n /\ f[i - 1] \in W[i - 1]
    BY <1>2, <1>6
  <2>2. \A i \in 0 .. n : f[i] = IF i = 0 THEN x ELSE CaptureStep(f[i - 1], s[i])
    BY <1>4, <1>6, <2>1
  <2> QED BY <1>6, <2>2
<1>8. after = [i \in 0 .. n |-> IF i = 0 THEN x ELSE CaptureStep(after[i - 1], s[i])]
  BY <1>7
<1> HIDE DEF after
<1>9. after[0] = x /\ \A i \in 1 .. n : after[i] = CaptureStep(after[i - 1], s[i])
  BY <1>8
<1>10. \A i \in 0 .. n : after[i] \in W[i]
  BY <1>9, Rising
<1> QED BY <1>1, <1>10

\* The loop of SilenceChannelImmediate.
LEMMA RetireAlong ==
    ASSUME NEW n \in Nat, NEW s, Len(s) = n, NEW W, NEW x \in W[0],
           \A i \in 1 .. n : \A q \in W[i - 1] : RetireVoice(q, s[i]) \in W[i]
    PROVE  RetiredAll(x, s) \in W[n]
<1> DEFINE after == CHOOSE after : after = [i \in 0 .. Len(s) |->
                       IF i = 0 THEN x ELSE RetireVoice(after[i - 1], s[i])]
           U == UNION {W[i] : i \in 0 .. n}
           G == [z \in U \X (1 .. n) |-> RetireVoice(z[1], s[z[2]])]
<1>1. RetiredAll(x, s) = after[n]
  BY DEF RetiredAll, Along
<1>2. \A i \in 1 .. n : i - 1 \in 0 .. n
  OBVIOUS
<1>3. \A i \in 1 .. n : \A q \in W[i - 1] : q \in U
  BY <1>2
<1> HIDE DEF U
<1>4. \A i \in 1 .. n : \A q \in W[i - 1] : G[<<q, i>>] = RetireVoice(q, s[i])
  BY <1>3
<1> HIDE DEF G
<1>5. \A i \in 1 .. n : \A q \in W[i - 1] : G[<<q, i>>] \in W[i]
  BY <1>4
<1>6. PICK f : /\ f = [i \in 0 .. n |-> f[i]]
               /\ f[0] = x
               /\ \A i \in 0 .. n : f[i] \in W[i]
               /\ \A i \in 1 .. n : f[i] = G[<<f[i - 1], i>>]
  <2>1. Loops(n, W, x, G)
    BY <1>5, LoopExists
  <2> QED BY <2>1 DEF Loops
<1>7. f = [i \in 0 .. n |-> IF i = 0 THEN x ELSE RetireVoice(f[i - 1], s[i])]
  <2>1. \A i \in 0 .. n : i # 0 => i \in 1 .. n /\ f[i - 1] \in W[i - 1]
    BY <1>2, <1>6
  <2>2. \A i \in 0 .. n : f[i] = IF i = 0 THEN x ELSE RetireVoice(f[i - 1], s[i])
    BY <1>4, <1>6, <2>1
  <2> QED BY <1>6, <2>2
<1>8. after = [i \in 0 .. n |-> IF i = 0 THEN x ELSE RetireVoice(after[i - 1], s[i])]
  BY <1>7
<1> HIDE DEF after
<1>9. after[0] = x /\ \A i \in 1 .. n : after[i] = RetireVoice(after[i - 1], s[i])
  BY <1>8
<1>10. \A i \in 0 .. n : after[i] \in W[i]
  BY <1>9, Rising
<1> QED BY <1>1, <1>10

\* The voices of s have lost the pedal, the first i of them.
Easing(p, room, S, T, pedal, s, i) ==
    {q \in Pools : /\ Ready(q, room, S, T) /\ Idle(q)
                   /\ \A g \in Handles : /\ q.voice[g].key = p.voice[g].key
                                         /\ q.voice[g].held \subseteq p.voice[g].held
                   /\ \A j \in 1 .. i : pedal \notin q.voice[s[j]].held}

\* One more voice without the pedal.
LEMMA EasingStep ==
    ASSUME NEW p, NEW room, NEW S, NEW T, NEW pedal, NEW s \in Seq(Handles),
           NEW i \in 1 .. Len(s), NEW q \in Easing(p, room, S, T, pedal, s, i - 1),
           NEW r, Lifted(q, r, s[i], pedal, room, S, T)
    PROVE  r \in Easing(p, room, S, T, pedal, s, i)
<1>1. /\ Ready(r, room, S, T) /\ Idle(r) /\ r \in Pools
      /\ pedal \notin r.voice[s[i]].held
      /\ \A g \in Handles : /\ r.voice[g].key = q.voice[g].key
                            /\ r.voice[g].held \subseteq q.voice[g].held
  BY DEF Lifted, Ready, Body
<1>2. /\ \A g \in Handles : /\ q.voice[g].key = p.voice[g].key
                            /\ q.voice[g].held \subseteq p.voice[g].held
      /\ \A j \in 1 .. (i - 1) : pedal \notin q.voice[s[j]].held
  BY DEF Easing
<1>3. \A j \in 1 .. i : s[j] \in Handles /\ (j = i \/ j \in 1 .. (i - 1))
  OBVIOUS
<1>4. \A j \in 1 .. i : pedal \notin r.voice[s[j]].held
  BY <1>1, <1>2, <1>3
<1>5. \A g \in Handles : /\ r.voice[g].key = p.voice[g].key
                         /\ r.voice[g].held \subseteq p.voice[g].held
  BY <1>1, <1>2
<1> QED BY <1>1, <1>4, <1>5 DEF Easing

\* The channel's pedal is up in the rows once every voice it held is eased.
LEMMA PedalUp ==
    ASSUME NEW p, NEW room, NEW S, NEW T, Ready(p, room, S, T), Idle(p), NEW c,
           NEW pedal \in {"sustain", "sostenuto"}, NEW s \in Seq(Handles),
           ToSet(s) = Live(p) \intersect {h \in OfChannel(p, c) : pedal \in p.voice[h].held},
           NEW q \in Easing(p, room, S, T, pedal, s, Len(s))
    PROVE  /\ pedal = "sustain" => Ready(q, room, S \ {c}, T)
           /\ pedal = "sostenuto" => Ready(q, room, S, T \ {c})
           /\ Idle(q)
<1>1. /\ Ready(q, room, S, T) /\ Idle(q)
      /\ \A g \in Handles : /\ q.voice[g].key = p.voice[g].key
                            /\ q.voice[g].held \subseteq p.voice[g].held
      /\ \A j \in 1 .. Len(s) : pedal \notin q.voice[s[j]].held
  BY DEF Easing
<1>2. \A h \in ToSet(s) : pedal \notin q.voice[h].held
  BY <1>1, InToSet
<1>3. ASSUME NEW h \in Handles, pedal \in q.voice[h].held PROVE q.voice[h].key[1] # c
  <2> SUFFICES ASSUME q.voice[h].key[1] = c PROVE FALSE
    OBVIOUS
  <2>1. pedal \in p.voice[h].held /\ p.voice[h].key[1] = c
    BY <1>1, <1>3
  <2>2. h \in Live(p)
    <3>1. p.voice[h].state # "Free"
      BY <2>1 DEF Idle
    <3> QED BY <3>1 DEF Live, In
  <2>3. h \in ToSet(s)
    BY <2>1, <2>2 DEF OfChannel
  <2> QED BY <1>2, <1>3, <2>3
<1>4. Pedals(q, S, T)
  BY <1>1 DEF Ready, Body
<1>5. pedal = "sustain" => Pedals(q, S \ {c}, T)
  BY <1>3, <1>4 DEF Pedals
<1>6. pedal = "sostenuto" => Pedals(q, S, T \ {c})
  BY <1>3, <1>4 DEF Pedals
<1> QED BY <1>1, <1>5, <1>6 DEF Ready, Body

\* ReleaseSustain: nothing of the channel is held by CC64 any more.
LEMMA ReleaseSustainFacts ==
    ASSUME NEW p, NEW room, NEW S, NEW T, Ready(p, room, S, T), Idle(p), NEW c
    PROVE  Ready(ReleaseSustain(p, c), room, S \ {c}, T) /\ Idle(ReleaseSustain(p, c))
<1> DEFINE R == {h \in OfChannel(p, c) : "sustain" \in p.voice[h].held}
           s == InOrder(p, R)
           n == Len(s)
           V(i) == Easing(p, room, S, T, "sustain", s, i)
           W == [i \in 0 .. n |-> V(i)]
           q == ReleaseSustain(p, c)
<1>1. p \in Pools /\ Shape(p)
  BY DEF Ready, Body
<1>2. s \in Seq(Handles) /\ ToSet(s) = Live(p) \intersect R
  <2> HIDE DEF R
  <2> QED BY <1>1, InOrderFacts
<1>3. q = SustainOver(p, s)
  BY DEF ReleaseSustain, SustainOver
<1> HIDE DEF s, q
<1>4. p \in V(0)
  BY <1>1 DEF Easing
<1>5. ASSUME NEW i \in 1 .. n, NEW r \in V(i - 1) PROVE SustainStep(r, s[i]) \in V(i)
  <2>1. s[i] \in Handles /\ i \in 1 .. Len(s)
    BY <1>2
  <2>2. Ready(r, room, S, T) /\ Idle(r) /\ r \in Easing(p, room, S, T, "sustain", s, i - 1)
    BY <1>5 DEF Easing
  <2> DEFINE w == SustainStep(r, s[i])
             lift == Lift(r, s[i], "sustain")
  <2>3. /\ Waits(r, s[i]) \/ r.voice[s[i]].held \ {"sustain"} # {} =>
               Lifted(r, lift, s[i], "sustain", room, S, T)
        /\ Lifted(r, Release(lift, s[i]), s[i], "sustain", room, S, T)
    BY <2>1, <2>2, LiftFacts
  <2>4. IF "sostenuto" \in r.voice[s[i]].held THEN w = lift ELSE w = Release(lift, s[i])
    BY DEF SustainStep
  <2> HIDE DEF w, lift
  <2>5. Lifted(r, w, s[i], "sustain", room, S, T)
    BY <2>3, <2>4
  <2>6. w \in Easing(p, room, S, T, "sustain", s, i)
    BY <1>2, <2>1, <2>2, <2>5, EasingStep
  <2> QED BY <2>6 DEF w
<1>6. /\ n \in Nat /\ W[0] = V(0) /\ W[n] = V(n)
      /\ \A i \in 1 .. n : W[i] = V(i) /\ W[i - 1] = V(i - 1)
  BY <1>2
<1> HIDE DEF W, V
<1>7. \A i \in 1 .. n : \A r \in W[i - 1] : SustainStep(r, s[i]) \in W[i]
  BY <1>5, <1>6
<1>8. SustainOver(p, s) \in W[n]
  BY <1>4, <1>6, <1>7, SustainAlong
<1>9. q \in Easing(p, room, S, T, "sustain", s, Len(s))
  BY <1>3, <1>6, <1>8 DEF V
<1>10. Ready(q, room, S \ {c}, T) /\ Idle(q)
  BY <1>2, <1>9, PedalUp
<1> QED BY <1>10 DEF q

\* ReleaseSostenuto: nothing of the channel is held by CC66 any more.
LEMMA ReleaseSostenutoFacts ==
    ASSUME NEW p, NEW room, NEW S, NEW T, Ready(p, room, S, T), Idle(p), NEW c
    PROVE  Ready(ReleaseSostenuto(p, c), room, S, T \ {c}) /\ Idle(ReleaseSostenuto(p, c))
<1> DEFINE R == {h \in OfChannel(p, c) : "sostenuto" \in p.voice[h].held}
           s == InOrder(p, R)
           n == Len(s)
           V(i) == Easing(p, room, S, T, "sostenuto", s, i)
           W == [i \in 0 .. n |-> V(i)]
           q == ReleaseSostenuto(p, c)
<1>1. p \in Pools /\ Shape(p)
  BY DEF Ready, Body
<1>2. s \in Seq(Handles) /\ ToSet(s) = Live(p) \intersect R
  <2> HIDE DEF R
  <2> QED BY <1>1, InOrderFacts
<1>3. q = SostenutoOver(p, s)
  BY DEF ReleaseSostenuto, SostenutoOver
<1> HIDE DEF s, q
<1>4. p \in V(0)
  BY <1>1 DEF Easing
<1>5. ASSUME NEW i \in 1 .. n, NEW r \in V(i - 1) PROVE SostenutoStep(r, s[i]) \in V(i)
  <2>1. s[i] \in Handles /\ i \in 1 .. Len(s)
    BY <1>2
  <2>2. Ready(r, room, S, T) /\ Idle(r) /\ r \in Easing(p, room, S, T, "sostenuto", s, i - 1)
    BY <1>5 DEF Easing
  <2> DEFINE w == SostenutoStep(r, s[i])
             lift == Lift(r, s[i], "sostenuto")
  <2>3. /\ Waits(r, s[i]) \/ r.voice[s[i]].held \ {"sostenuto"} # {} =>
               Lifted(r, lift, s[i], "sostenuto", room, S, T)
        /\ Lifted(r, Release(lift, s[i]), s[i], "sostenuto", room, S, T)
    BY <2>1, <2>2, LiftFacts
  <2>4. IF Waits(r, s[i]) \/ "sustain" \in r.voice[s[i]].held THEN w = lift ELSE w = Release(lift, s[i])
    BY DEF SostenutoStep
  <2> HIDE DEF w, lift
  <2>5. Lifted(r, w, s[i], "sostenuto", room, S, T)
    BY <2>3, <2>4
  <2>6. w \in Easing(p, room, S, T, "sostenuto", s, i)
    BY <1>2, <2>1, <2>2, <2>5, EasingStep
  <2> QED BY <2>6 DEF w
<1>6. /\ n \in Nat /\ W[0] = V(0) /\ W[n] = V(n)
      /\ \A i \in 1 .. n : W[i] = V(i) /\ W[i - 1] = V(i - 1)
  BY <1>2
<1> HIDE DEF W, V
<1>7. \A i \in 1 .. n : \A r \in W[i - 1] : SostenutoStep(r, s[i]) \in W[i]
  BY <1>5, <1>6
<1>8. SostenutoOver(p, s) \in W[n]
  BY <1>4, <1>6, <1>7, SostenutoAlong
<1>9. q \in Easing(p, room, S, T, "sostenuto", s, Len(s))
  BY <1>3, <1>6, <1>8 DEF V
<1>10. Ready(q, room, S, T \ {c}) /\ Idle(q)
  BY <1>2, <1>9, PedalUp
<1> QED BY <1>10 DEF q

\* A pedal that goes down disturbs nothing.
LEMMA PedalDown ==
    ASSUME NEW p, NEW room, NEW S, NEW T, Ready(p, room, S, T), NEW c
    PROVE  Ready(p, room, S \union {c}, T) /\ Ready(p, room, S, T \union {c})
BY DEF Ready, Body, Pedals

\* CaptureSostenuto: what it holds is of a channel whose CC66 is down.
LEMMA CaptureSostenutoFacts ==
    ASSUME NEW p, NEW room, NEW S, NEW T, Ready(p, room, S, T), Idle(p), NEW c
    PROVE  Ready(CaptureSostenuto(p, c), room, S, T \union {c}) /\ Idle(CaptureSostenuto(p, c))
<1> DEFINE R == {h \in OfChannel(p, c) \intersect In(p, "Active") : Waits(p, h)}
           TT == T \union {c}
           s == InOrder(p, R)
           n == Len(s)
           U == {q \in Pools : /\ Ready(q, room, S, TT) /\ Idle(q)
                               /\ \A g \in Handles : /\ q.voice[g].key = p.voice[g].key
                                                     /\ q.voice[g].state = p.voice[g].state}
           W == [i \in 0 .. n |-> U]
<1>1. p \in Pools /\ Shape(p)
  BY DEF Ready, Body
<1>2. s \in Seq(Handles) /\ ToSet(s) \subseteq R
  <2> HIDE DEF R
  <2> QED BY <1>1, InOrderFacts
<1>3. CaptureSostenuto(p, c) = CaptureOver(p, s)
  BY DEF CaptureSostenuto, CaptureOver
<1>4. \A h \in ToSet(s) : h \in Handles /\ p.voice[h].state = "Active" /\ p.voice[h].key[1] = c
  BY <1>2 DEF OfChannel, In
<1>5. p \in U
  BY <1>1, PedalDown
<1> HIDE DEF s
<1>6. ASSUME NEW q \in U, NEW h \in ToSet(s) PROVE CaptureStep(q, h) \in U
  <2>1. /\ Body(q, {}, S, TT) /\ Keyed(q, {}, {}) /\ q.deferred = {} /\ Within(q, room)
        /\ q \in Pools /\ Pedals(q, S, TT) /\ Idle(q) /\ c \in TT
    BY DEF Ready, Body
  <2>2. h \in Handles /\ q.voice[h].state = "Active" /\ q.voice[h].key[1] = c
    BY <1>4
  <2> HIDE DEF TT
  <2> DEFINE X == q.voice[h].held \union {"sostenuto"}
             r == [q EXCEPT !.voice[h].held = X]
  <2>3. CaptureStep(q, h) = r
    BY <2>1 DEF CaptureStep, Hold, Pools
  <2>4. X \in SUBSET {"sustain", "sostenuto"} /\ X # {}
    BY <2>1, <2>2 DEF Pools, VoiceType
  <2>5. /\ "sustain" \in X => q.voice[h].key[1] \in S
        /\ "sostenuto" \in X => q.voice[h].key[1] \in TT
        /\ q.voice[h].state = "Releasing" => X = {}
    BY <2>1, <2>2 DEF Pedals
  <2> HIDE DEF X
  <2>6. Reheld(q, r, h, X) /\ Body(r, {}, S, TT) /\ Keyed(r, {}, {})
    BY <2>1, <2>2, <2>4, <2>5, HeldFacts
  <2> HIDE DEF r
  <2>7. Ready(r, room, S, TT) /\ r \in Pools
    BY <2>1, <2>6, Stays DEF Ready, Body, Reheld
  <2>8. Idle(r)
    BY <2>1, <2>2, <2>6 DEF Idle, Reheld
  <2>9. \A g \in Handles : r.voice[g].key = p.voice[g].key /\ r.voice[g].state = p.voice[g].state
    BY <1>6, <2>6 DEF Reheld
  <2> QED BY <2>3, <2>7, <2>8, <2>9 DEF TT
<1>7. /\ n \in Nat /\ W[0] = U /\ W[n] = U /\ \A i \in 1 .. n : W[i] = U /\ W[i - 1] = U
      /\ \A i \in 1 .. n : s[i] \in ToSet(s)
  BY <1>2, InToSet
<1> HIDE DEF W, U
<1>8. \A i \in 1 .. n : \A q \in W[i - 1] : CaptureStep(q, s[i]) \in W[i]
  BY <1>6, <1>7
<1>9. CaptureOver(p, s) \in W[n]
  BY <1>5, <1>7, <1>8, CaptureAlong
<1> QED BY <1>3, <1>7, <1>9 DEF U

-----------------------------------------------------------------------------
(* Retirement, the voice limit and what is forgotten between two events.  *)

\* RetireVoice between two events.
LEMMA RetireFacts ==
    ASSUME NEW p, NEW room, NEW S, NEW T, Ready(p, room, S, T), NEW h \in Handles
    PROVE  Ready(RetireVoice(p, h), room, S, T)
<1>1. /\ Body(p, {}, S, T) /\ Keyed(p, {}, {}) /\ p.deferred = {} /\ Within(p, room)
      /\ p \in Pools /\ Shape(p)
  BY DEF Ready, Body
<1>2. CASE p.voice[h].state = "Free"
  BY <1>2 DEF RetireVoice, Drop
<1>3. CASE p.voice[h].state # "Free"
  <2> DEFINE r == Drop(p, h, NoVoice)
  <2>1. h \in Live(p)
    BY <1>1, <1>3, LiveFacts
  <2>2. Keyed(p, {} \union {h}, {})
    BY <1>1, KeyedMore
  <2>3. Dropped(p, r, h, NoVoice, {}, S, T, {}, {})
    BY <1>1, <2>1, <2>2, DropFacts
  <2> HIDE DEF r
  <2>4. Body(r, {}, S, T) /\ Keyed(r, {}, {}) /\ r.deferred = {} /\ Within(r, room)
    <3>1. Grown(p, r)
      BY <1>1, <2>3, DroppedGrown
    <3> QED BY <1>1, <2>3, <3>1, Grows DEF Dropped, Without, Body
  <2> QED BY <2>4 DEF Ready, RetireVoice, r
<1> QED BY <1>2, <1>3

\* SilenceChannelImmediate.
LEMMA RetiredAllFacts ==
    ASSUME NEW p, NEW room, NEW S, NEW T, Ready(p, room, S, T), NEW s \in Seq(Handles)
    PROVE  Ready(RetiredAll(p, s), room, S, T)
<1> DEFINE n == Len(s)
           U == {q \in Pools : Ready(q, room, S, T)}
           W == [i \in 0 .. n |-> U]
<1>1. p \in U
  BY DEF Ready, Body
<1>2. ASSUME NEW q \in U, NEW h \in Handles PROVE RetireVoice(q, h) \in U
  BY RetireFacts DEF Ready, Body
<1>3. /\ n \in Nat /\ W[0] = U /\ W[n] = U /\ \A i \in 1 .. n : W[i] = U /\ W[i - 1] = U
      /\ \A i \in 1 .. n : s[i] \in Handles
  OBVIOUS
<1> HIDE DEF W, U
<1>4. \A i \in 1 .. n : \A q \in W[i - 1] : RetireVoice(q, s[i]) \in W[i]
  BY <1>2, <1>3
<1>5. RetiredAll(p, s) \in W[n]
  BY <1>1, <1>3, <1>4, RetireAlong
<1> QED BY <1>3, <1>5 DEF U

-----------------------------------------------------------------------------

\* The row of a slot after a reset.
LEMMA FreeVoiceFacts ==
    FreeVoice \in VoiceType /\ FreeVoice.state = "Free" /\ FreeVoice.held = {}
<1>1. (CHOOSE k \in Keys : TRUE) \in Keys
  <2>1. PICK c \in Channels, n \in Notes : TRUE
    BY KeysAssumption
  <2>2. <<c, n>> \in Keys
    BY DEF Keys
  <2> QED BY <2>2
<1> QED BY <1>1 DEF FreeVoice, VoiceType, NoPlay, NoClass

\* What the model forgets between two events is in no part of the invariant.
LEMMA SettledFacts ==
    ASSUME NEW p, NEW room, NEW S, NEW T, Ready(p, room, S, T)
    PROVE  /\ Ready(Settled(p), room, S, T) /\ Idle(Settled(p))
           /\ \A t : In(Settled(p), t) = In(p, t)
<1> DEFINE at(h) == Min({Position(p, g) : g \in Group(p, h)})
           row(h) == [p.voice[h] EXCEPT !.play = at(h)]
           voice == [h \in Handles |-> IF p.voice[h].state = "Free" THEN FreeVoice ELSE row(h)]
           q == Settled(p)
<1>1. /\ p \in Pools /\ Body(p, {}, S, T) /\ Keyed(p, {}, {}) /\ p.deferred = {}
      /\ Within(p, room)
  BY DEF Ready, Body
<1>2. ASSUME NEW h \in Handles, p.voice[h].state # "Free" PROVE at(h) \in Nat
  <2> DEFINE A == {Position(p, g) : g \in Group(p, h)}
  <2>1. A \in SUBSET Nat
    BY <1>1, PositionNat
  <2>2. h \in Group(p, h)
    BY <1>2 DEF Group, Live, In
  <2>3. A # {}
    BY <2>2
  <2> HIDE DEF A
  <2>4. Min(A) \in Nat
    <3>1. Min(A) \in A
      BY <2>1, <2>3, LeastExists
    <3> QED BY <2>1, <3>1
  <2> QED BY <2>4 DEF A
<1> HIDE DEF at
<1>3. ASSUME NEW h \in Handles
      PROVE  /\ voice[h] \in VoiceType /\ voice[h].state = p.voice[h].state
             /\ p.voice[h].state = "Free" => voice[h].held = {}
             /\ p.voice[h].state # "Free" =>
                   voice[h].held = p.voice[h].held /\ voice[h].key = p.voice[h].key
  <2>1. p.voice[h] \in VoiceType
    BY <1>1 DEF Pools
  <2>2. CASE p.voice[h].state = "Free"
    BY <2>2, FreeVoiceFacts
  <2>3. CASE p.voice[h].state # "Free"
    <3>1. /\ row(h) \in VoiceType /\ row(h).state = p.voice[h].state
          /\ row(h).held = p.voice[h].held /\ row(h).key = p.voice[h].key
      BY <1>2, <2>1, <2>3 DEF VoiceType
    <3> HIDE DEF row
    <3> QED BY <2>3, <3>1
  <2> QED BY <2>2, <2>3
<1>4. voice \in [Handles -> VoiceType]
  <2> HIDE DEF row
  <2>1. voice = [h \in Handles |-> voice[h]]
    OBVIOUS
  <2> HIDE DEF voice
  <2> QED BY <1>3, <2>1
<1>5. q = [p EXCEPT !.voice = voice]
  <2>1. q = [p EXCEPT !.voice = [h \in Handles |->
               IF p.voice[h].state = "Free" THEN FreeVoice
               ELSE [p.voice[h] EXCEPT !.play = Min({Position(p, g) : g \in Group(p, h)})]]]
    BY <1>1 DEF Settled, Pools
  <2> QED BY <2>1 DEF at
<1> HIDE DEF voice, row, q
<1>6. /\ q \in Pools /\ q.voice = voice /\ q.chain = p.chain /\ q.active = p.active
      /\ q.free = p.free /\ q.limit = p.limit /\ q.deferred = p.deferred /\ SameIndex(p, q)
  BY <1>1, <1>4, <1>5 DEF Pools, SameIndex
<1>7. \A h \in Handles : p.voice[h].state = "Active" => (Waits(q, h) <=> Waits(p, h))
  BY <1>3, <1>6 DEF Waits
<1>8. Kept(q, {})
  BY <1>1, <1>3, <1>6, <1>7 DEF Body, Kept
<1>9. Pedals(q, S, T)
  <2> SUFFICES ASSUME NEW h \in Handles
               PROVE  /\ "sustain" \in q.voice[h].held => q.voice[h].key[1] \in S
                      /\ "sostenuto" \in q.voice[h].held => q.voice[h].key[1] \in T
                      /\ q.voice[h].state = "Releasing" => q.voice[h].held = {}
    BY DEF Pedals
  <2>1. CASE p.voice[h].state = "Free"
    BY <1>3, <1>6, <2>1
  <2>2. CASE p.voice[h].state # "Free"
    BY <1>1, <1>3, <1>6, <2>2 DEF Body, Pedals
  <2> QED BY <2>1, <2>2
<1>10. Body(q, {}, S, T) /\ Keyed(q, {}, {}) /\ \A t : In(q, t) = In(p, t)
  BY <1>1, <1>3, <1>6, <1>8, <1>9, RowsFacts
<1>11. Idle(q)
  BY <1>3, <1>6 DEF Idle
<1> QED BY <1>1, <1>6, <1>10, <1>11, Stays DEF Ready, q

\* VoiceManager::Reset.
LEMMA EmptyFacts ==
    ASSUME NEW room, room.limit \in Nat \ {0}, room.most \in Nat, NEW S, NEW T
    PROVE  Ready(EmptyPool(room.limit), room, S, T) /\ Idle(EmptyPool(room.limit))
<1> DEFINE p == EmptyPool(room.limit)
           voice == [h \in Handles |-> FreeVoice]
           chain == [k \in Keys |-> <<>>]
           leaf == [h \in Handles |-> 0]
<1>1. /\ voice \in [Handles -> VoiceType] /\ chain \in [Keys -> Seq(Handles)]
      /\ leaf \in [Handles -> Nat] /\ \A h \in Handles : voice[h] = FreeVoice
      /\ \A k \in Keys : chain[k] = <<>>
  BY FreeVoiceFacts
<1> HIDE DEF voice, chain, leaf
<1>2. p = [voice |-> voice, chain |-> chain, active |-> <<>>, free |-> Handles, leaf |-> leaf,
           volatile |-> {}, valid |-> FALSE, over |-> FALSE, deferred |-> {},
           limit |-> room.limit]
  BY DEF EmptyPool, voice, chain, leaf
<1> HIDE DEF p
<1>3. /\ p \in Pools /\ p.voice = voice /\ p.chain = chain /\ p.active = <<>>
      /\ p.free = Handles /\ p.valid = FALSE /\ p.deferred = {} /\ Within(p, room)
  <2>1. /\ p \in Pools /\ p.voice = voice /\ p.chain = chain /\ p.active = <<>>
        /\ p.free = Handles /\ p.valid = FALSE /\ p.deferred = {} /\ p.limit = room.limit
    BY <1>1, <1>2 DEF Pools
  <2>2. Len(p.active) <= room.most
    BY <2>1
  <2> QED BY <2>1, <2>2 DEF Within
<1>4. \A h \in Handles : p.voice[h].state = "Free" /\ p.voice[h].held = {}
  BY <1>1, <1>3, FreeVoiceFacts
<1>5. Shape(p)
  <2>1. In(p, "Free") = Handles /\ Live(p) = {}
    BY <1>4 DEF In, Live
  <2>2. ToSet(<<>>) = {} /\ Distinct(<<>>)
    BY DEF ToSet, Distinct
  <2> QED BY <1>3, <2>1, <2>2 DEF Shape
<1>6. Chained(p)
  BY <1>1, <1>3 DEF Chained, ToSet, Distinct
<1>7. Kept(p, {}) /\ Pedals(p, S, T) /\ Idle(p) /\ Keyed(p, {}, {})
  BY <1>3, <1>4 DEF Kept, Pedals, Idle, Keyed
<1> QED BY <1>3, <1>5, <1>6, <1>7 DEF Ready, Body, p

\* The index is dropped: the next steal builds it.
LEMMA InvalidatedFacts ==
    ASSUME NEW p, NEW room, NEW S, NEW T, Ready(p, room, S, T), Idle(p)
    PROVE  Ready(Invalidated(p), room, S, T) /\ Idle(Invalidated(p))
<1> DEFINE q == Invalidated(p)
           leaf == [h \in Handles |-> 0]
<1>1. p \in Pools /\ Body(p, {}, S, T) /\ p.deferred = {} /\ Within(p, room)
  BY DEF Ready, Body
<1>2. leaf \in [Handles -> Nat]
  OBVIOUS
<1> HIDE DEF leaf
<1>3. q = [p EXCEPT !.leaf = leaf, !.volatile = {}, !.over = FALSE, !.valid = FALSE]
  BY DEF Invalidated, leaf
<1> HIDE DEF q
<1>4. q \in Pools /\ SameSlots(p, q) /\ q.valid = FALSE
  BY <1>1, <1>2, <1>3 DEF Pools, SameSlots
<1>5. Body(q, {}, S, T) /\ Keyed(q, {}, {})
  BY <1>1, <1>4, BodySame DEF Keyed
<1>6. Idle(q)
  BY <1>4 DEF Idle, SameSlots
<1> QED BY <1>1, <1>4, <1>5, <1>6, Stays DEF Ready, SameSlots, q

\* EnforceVoiceLimit.
LEMMA EnforceFacts ==
    ASSUME NEW p, NEW room, NEW S, NEW T, Ready(p, room, S, T), Idle(p),
           NEW q \in EnforceVoiceLimit(p)
    PROVE  Ready(q, room, S, T) /\ Idle(q)
<1>1. q = p \/ \E V : q = ReleaseAll(Invalidated(p), V)
  BY DEF EnforceVoiceLimit
<1>2. Ready(Invalidated(p), room, S, T) /\ Idle(Invalidated(p))
  BY InvalidatedFacts
<1> QED BY <1>1, <1>2, ReleaseAllIdle

\* What an event on p has room for, and a lowered or raised limit leaves.
RoomOf(p) == [limit |-> p.limit, most |-> Len(p.active)]

\* The host gives another voice limit.
LEMMA LimitFacts ==
    ASSUME NEW p, NEW room, NEW S, NEW T, Ready(p, room, S, T), Idle(p),
           NEW n \in Nat \ {0}
    PROVE  LET q == [p EXCEPT !.limit = n] IN
           Ready(q, RoomOf(q), S, T) /\ Idle(q) /\ q.limit = n /\ q.active = p.active
<1> DEFINE q == [p EXCEPT !.limit = n]
<1>1. /\ p \in Pools /\ Body(p, {}, S, T) /\ Keyed(p, {}, {}) /\ p.deferred = {}
      /\ Kept(p, {}) /\ Pedals(p, S, T)
  BY DEF Ready, Body
<1>2. /\ q \in Pools /\ q.limit = n /\ q.voice = p.voice /\ q.chain = p.chain
      /\ q.active = p.active /\ q.free = p.free /\ q.deferred = p.deferred /\ SameIndex(p, q)
  BY <1>1 DEF Pools, SameIndex
<1> HIDE DEF q
<1>3. Kept(q, {}) /\ Pedals(q, S, T) /\ Idle(q)
  BY <1>1, <1>2 DEF Kept, Pedals, Idle, Waits
<1>4. Body(q, {}, S, T) /\ Keyed(q, {}, {})
  BY <1>1, <1>2, <1>3, RowsFacts
<1>5. Within(q, RoomOf(q))
  BY <1>2 DEF Within, RoomOf, Pools
<1> QED BY <1>1, <1>2, <1>3, <1>4, <1>5 DEF Ready, q

-----------------------------------------------------------------------------
(* The theorems.                                                          *)

\* What every event finds and leaves.
Sound ==
    /\ Ready(pool, RoomOf(pool), sustain, sostenuto) /\ Idle(pool)
    /\ born \subseteq In(pool, "Active")
    /\ sustain \subseteq Channels /\ sostenuto \subseteq Channels

\* What an event leaves within its room is what the next one finds.
LEMMA ReadyAgain ==
    ASSUME NEW p, NEW room, NEW S, NEW T, Ready(p, room, S, T)
    PROVE  /\ Ready(p, RoomOf(p), S, T)
           /\ p \in Pools /\ p.limit = room.limit /\ room.limit \in Nat \ {0}
           /\ Len(p.active) <= p.limit \/ Len(p.active) <= room.most
<1>1. p \in Pools /\ Within(p, room)
  BY DEF Ready, Body
<1>2. Len(p.active) \in Nat /\ p.limit \in Nat \ {0}
  BY <1>1 DEF Pools
<1>3. Within(p, RoomOf(p))
  BY <1>2 DEF Within, RoomOf
<1> QED BY <1>1, <1>2, <1>3 DEF Ready, Within

\* What a launch leaves, as the next event finds it.
LEMMA SettledDone ==
    ASSUME NEW r, NEW room, NEW S, NEW T, Done(r, room, S, T)
    PROVE  /\ Ready(Settled(r.pool), room, S, T) /\ Idle(Settled(r.pool))
           /\ r.born \subseteq In(Settled(r.pool), "Active")
BY SettledFacts DEF Done

\* VoiceManager::Initialize establishes the invariant.
THEOREM SoundInit == Init => Sound
<1> SUFFICES ASSUME Init PROVE Sound
  OBVIOUS
<1> DEFINE room == [limit |-> Capacity, most |-> 0]
<1>1. Capacity \in Nat \ {0}
  <2>1. IsFiniteSet(Handles) /\ Handles # {}
    BY HandlesAssumption
  <2>2. Cardinality(Handles) \in Nat /\ Cardinality(Handles) # 0
    BY <2>1, FS_CardinalityType, FS_EmptySet
  <2> QED BY <2>2 DEF Capacity
<1>2. pool = EmptyPool(Capacity) /\ born = {} /\ sustain = {} /\ sostenuto = {}
  BY DEF Init
<1>3. Ready(pool, room, {}, {}) /\ Idle(pool)
  <2>1. room.limit = Capacity /\ room.most = 0
    OBVIOUS
  <2> HIDE DEF room
  <2> QED BY <1>1, <1>2, <2>1, EmptyFacts
<1> QED BY <1>2, <1>3, ReadyAgain DEF Sound

\* An event leaves no more voices than the limit, or no more than it found.
Bounded == \/ Len(pool'.active) <= pool'.limit
           \/ Len(pool'.active) <= Len(pool.active)

\* Every event of the audio thread keeps the invariant and grows the pool no
\* further than its limit: launches, note-offs, pedals, resets, the renderer's
\* retirements and a new voice limit.
LEMMA EventFacts == Sound /\ [Next]_vars => Sound' /\ Bounded
<1> DEFINE room == RoomOf(pool)
           S == sustain
           T == sostenuto
<1> SUFFICES ASSUME Sound, [Next]_vars PROVE Sound' /\ Bounded
  OBVIOUS
<1>1. /\ Ready(pool, room, S, T) /\ Idle(pool) /\ pool \in Pools /\ Shape(pool)
      /\ room.limit \in Nat \ {0} /\ room.limit = pool.limit /\ room.most = Len(pool.active)
      /\ S \subseteq Channels /\ T \subseteq Channels
  BY DEF Sound, Ready, Body, Pools, RoomOf
<1> HIDE DEF room, S, T
<1>a. ASSUME NEW U, NEW V, Ready(pool', room, U, V)
      PROVE  Ready(pool', RoomOf(pool'), U, V) /\ Bounded
  BY <1>1, <1>a, ReadyAgain DEF Bounded
<1>2. ASSUME NEW c \in Channels, NEW on \in Launches, NoteOn(<<c, on.note>>, on.layers, on.mult)
      PROVE  Sound' /\ Bounded
  <2>1. /\ <<c, on.note>> \in Keys /\ on.layers \in Regions /\ on.mult \in Nat \ {0}
    BY LaunchesAssumption DEF Keys, Regions
  <2>2. PICK r \in LaunchVoiceGroup(pool, <<c, on.note>>, on.layers, on.mult) :
           pool' = Settled(r.pool) /\ born' = r.born
    BY <1>2 DEF NoteOn
  <2>3. Done(r, room, S, T)
    BY <1>1, <2>1, <2>2, LaunchVoiceGroupFacts
  <2>4. Ready(pool', room, S, T) /\ Idle(pool') /\ born' \subseteq In(pool', "Active")
    BY <2>2, <2>3, SettledDone
  <2>5. sustain' = S /\ sostenuto' = T
    BY <1>2 DEF NoteOn, S, T
  <2>6. Ready(pool', RoomOf(pool'), S, T) /\ Bounded
    BY <1>1, <1>a, <2>1, <2>4
  <2> QED BY <1>1, <2>4, <2>5, <2>6 DEF Sound, Idle, In
<1>3. ASSUME NEW key \in Keys, NEW count \in 1 .. 2, NEW newest \in BOOLEAN,
             NoteOff(key, count, newest)
      PROVE  Sound' /\ Bounded
  <2>1. PICK q \in NoteOffs(pool, key, count, key[1] \in sustain, newest) : pool' = Settled(q)
    BY <1>3 DEF NoteOff
  <2> DEFINE down == key[1] \in sustain
  <2>2. count \in Nat /\ down \in BOOLEAN /\ (down => key[1] \in S)
    BY DEF S
  <2> HIDE DEF down
  <2>3. Ready(q, room, S, T)
    BY <1>1, <2>1, <2>2, NoteOffsFacts DEF down
  <2>4. Ready(pool', room, S, T) /\ Idle(pool')
    BY <2>1, <2>3, SettledFacts
  <2>5. sustain' = S /\ sostenuto' = T /\ born' = {}
    BY <1>3 DEF NoteOff, S, T
  <2>6. Ready(pool', RoomOf(pool'), S, T) /\ Bounded
    BY <1>1, <1>a, <2>1, <2>4
  <2> QED BY <1>1, <2>4, <2>5, <2>6 DEF Sound, Idle
<1>4. ASSUME NEW c \in Channels, NEW down \in BOOLEAN, SustainPedal(c, down)
      PROVE  Sound' /\ Bounded
  <2>1. /\ sustain' = IF down THEN S \union {c} ELSE S \ {c}
        /\ pool' = IF down THEN pool ELSE ReleaseSustain(pool, c)
        /\ born' = {} /\ sostenuto' = T
    BY <1>4 DEF SustainPedal, S, T
  <2>2. Ready(pool', room, sustain', T) /\ Idle(pool')
    <3>1. CASE down
      BY <1>1, <2>1, <3>1, PedalDown
    <3>2. CASE ~ down
      BY <1>1, <2>1, <3>2, ReleaseSustainFacts
    <3> QED BY <3>1, <3>2
  <2>3. Ready(pool', RoomOf(pool'), sustain', T) /\ Bounded /\ sustain' \subseteq Channels
    BY <1>1, <1>a, <2>1, <2>2
  <2> QED BY <1>1, <2>1, <2>2, <2>3 DEF Sound, Idle
<1>5. ASSUME NEW c \in Channels, NEW down \in BOOLEAN, SostenutoPedal(c, down)
      PROVE  Sound' /\ Bounded
  <2>1. /\ sostenuto' = IF down THEN T \union {c} ELSE T \ {c}
        /\ down /\ c \notin T => pool' = CaptureSostenuto(pool, c)
        /\ ~ down /\ c \in T => pool' = ReleaseSostenuto(pool, c)
        /\ (down <=> c \in T) => pool' = pool
        /\ born' = {} /\ sustain' = S
    <3>1. /\ sostenuto' = IF down THEN T \union {c} ELSE T \ {c}
          /\ pool' = CASE down /\ c \notin T -> CaptureSostenuto(pool, c)
                       [] ~down /\ c \in T -> ReleaseSostenuto(pool, c)
                       [] OTHER -> pool
          /\ born' = {} /\ sustain' = S
      BY <1>5 DEF SostenutoPedal, S, T
    <3> QED BY <3>1
  <2>2. Ready(pool', room, S, sostenuto') /\ Idle(pool')
    <3>1. CASE down /\ c \notin T
      BY <1>1, <2>1, <3>1, CaptureSostenutoFacts
    <3>2. CASE ~ down /\ c \in T
      BY <1>1, <2>1, <3>2, ReleaseSostenutoFacts
    <3>3. CASE down <=> c \in T
      <4>1. pool' = pool /\ sostenuto' = T
        BY <2>1, <3>3
      <4> QED BY <1>1, <4>1
    <3> QED BY <3>1, <3>2, <3>3
  <2>3. Ready(pool', RoomOf(pool'), S, sostenuto') /\ Bounded /\ sostenuto' \subseteq Channels
    BY <1>1, <1>a, <2>1, <2>2
  <2> QED BY <1>1, <2>1, <2>2, <2>3 DEF Sound, Idle
<1>6. ASSUME NEW c \in Channels, ResetControllers(c) PROVE Sound' /\ Bounded
  <2> DEFINE p == IF c \in S THEN ReleaseSustain(pool, c) ELSE pool
  <2>1. /\ pool' = IF c \in T THEN ReleaseSostenuto(p, c) ELSE p
        /\ sustain' = S \ {c} /\ sostenuto' = T \ {c} /\ born' = {}
    BY <1>6 DEF ResetControllers, S, T
  <2>2. Ready(p, room, S \ {c}, T) /\ Idle(p)
    <3>1. CASE c \in S
      BY <1>1, <3>1, ReleaseSustainFacts
    <3>2. CASE c \notin S
      <4>1. S \ {c} = S /\ p = pool
        BY <3>2
      <4> QED BY <1>1, <4>1
    <3> QED BY <3>1, <3>2
  <2> HIDE DEF p
  <2>3. Ready(pool', room, sustain', sostenuto') /\ Idle(pool')
    <3>1. CASE c \in T
      BY <2>1, <2>2, <3>1, ReleaseSostenutoFacts
    <3>2. CASE c \notin T
      <4>1. T \ {c} = T /\ pool' = p
        BY <2>1, <3>2
      <4> QED BY <2>1, <2>2, <4>1
    <3> QED BY <3>1, <3>2
  <2>4. /\ Ready(pool', RoomOf(pool'), sustain', sostenuto') /\ Bounded
        /\ sustain' \subseteq Channels /\ sostenuto' \subseteq Channels
    BY <1>1, <1>a, <2>1, <2>3
  <2> QED BY <2>1, <2>3, <2>4 DEF Sound, Idle
<1>7. ASSUME NEW c \in Channels, AllSoundOff(c) PROVE Sound' /\ Bounded
  <2> DEFINE s == Reverse(InOrder(pool, OfChannel(pool, c)))
  <2>1. pool' = Settled(RetiredAll(pool, s)) /\ sustain' = S /\ sostenuto' = T /\ born' = {}
    BY <1>7 DEF AllSoundOff, RetiredAll, S, T
  <2>2. s \in Seq(Handles)
    BY <1>1, InOrderFacts, ReverseFacts
  <2> HIDE DEF s
  <2>3. Ready(RetiredAll(pool, s), room, S, T)
    BY <1>1, <2>2, RetiredAllFacts
  <2>4. Ready(pool', room, S, T) /\ Idle(pool')
    BY <2>1, <2>3, SettledFacts
  <2>5. Ready(pool', RoomOf(pool'), S, T) /\ Bounded
    BY <1>1, <1>a, <2>1, <2>4
  <2> QED BY <1>1, <2>1, <2>4, <2>5 DEF Sound, Idle
<1>8. ASSUME NEW c \in Channels, AllNotesOff(c) PROVE Sound' /\ Bounded
  <2>1. /\ pool' = ReleaseAll(pool, OfChannel(pool, c))
        /\ sustain' = S /\ sostenuto' = T /\ born' = {}
    BY <1>8 DEF AllNotesOff, S, T
  <2>2. Ready(pool', room, S, T) /\ Idle(pool')
    BY <1>1, <2>1, ReleaseAllIdle
  <2>3. Ready(pool', RoomOf(pool'), S, T) /\ Bounded
    BY <1>1, <1>a, <2>1, <2>2
  <2> QED BY <1>1, <2>1, <2>2, <2>3 DEF Sound, Idle
<1>9. ASSUME NEW h \in Handles, RetireRendered(h) PROVE Sound' /\ Bounded
  <2>1. /\ pool' = Settled(RetireVoice(pool, h))
        /\ sustain' = S /\ sostenuto' = T /\ born' = {}
    BY <1>9 DEF RetireRendered, S, T
  <2>2. Ready(pool', room, S, T) /\ Idle(pool')
    BY <1>1, <2>1, RetireFacts, SettledFacts
  <2>3. Ready(pool', RoomOf(pool'), S, T) /\ Bounded
    BY <1>1, <1>a, <2>1, <2>2
  <2> QED BY <1>1, <2>1, <2>2, <2>3 DEF Sound, Idle
<1>10. ASSUME NEW n \in Limits, ApplyRuntimeVoiceLimit(n) PROVE Sound' /\ Bounded
  <2> DEFINE p == [pool EXCEPT !.limit = n]
  <2>1. /\ pool' = p \/ pool' \in EnforceVoiceLimit(p)
        /\ sustain' = S /\ sostenuto' = T /\ born' = {}
    BY <1>10 DEF ApplyRuntimeVoiceLimit, S, T
  <2>2. /\ Ready(p, RoomOf(p), S, T) /\ Idle(p) /\ p.limit = n
        /\ RoomOf(p).most = Len(pool.active)
    <3>1. p.active = pool.active
      BY <1>1 DEF Pools
    <3> HIDE DEF p
    <3> QED BY <1>1, <3>1, LimitsAssumption, LimitFacts DEF RoomOf, p
  <2> HIDE DEF p
  <2>3. Ready(pool', RoomOf(p), S, T) /\ Idle(pool')
    BY <2>1, <2>2, EnforceFacts
  <2>4. Ready(pool', RoomOf(pool'), S, T) /\ Bounded
    BY <2>2, <2>3, ReadyAgain DEF Bounded
  <2> QED BY <1>1, <2>1, <2>3, <2>4 DEF Sound, Idle, S, T
<1>11. CASE Reset
  <2>1. pool' = EmptyPool(room.limit) /\ sustain' = {} /\ sostenuto' = {} /\ born' = {}
    BY <1>1, <1>11 DEF Reset
  <2>2. Ready(pool', room, {}, {}) /\ Idle(pool')
    <3>1. room.limit \in Nat \ {0} /\ room.most \in Nat
      BY <1>1 DEF Pools
    <3>2. Ready(EmptyPool(room.limit), room, {}, {}) /\ Idle(EmptyPool(room.limit))
      BY <3>1, EmptyFacts
    <3> QED BY <2>1, <3>2
  <2>3. Ready(pool', RoomOf(pool'), {}, {}) /\ Bounded
    BY <1>1, <1>a, <2>1, <2>2
  <2> QED BY <2>1, <2>2, <2>3 DEF Sound, Idle
<1>12. CASE UNCHANGED vars
  <2>1. pool' = pool /\ born' = born /\ sustain' = sustain /\ sostenuto' = sostenuto
    BY <1>12 DEF vars
  <2>2. Len(pool.active) \in Nat
    BY <1>1 DEF Pools
  <2> QED BY <2>1, <2>2 DEF Sound, Idle, In, Bounded
<1> QED
  BY <1>2, <1>3, <1>4, <1>5, <1>6, <1>7, <1>8, <1>9, <1>10, <1>11, <1>12 DEF Next

\* The invariant is inductive.
THEOREM SoundStep == Sound /\ [Next]_vars => Sound'
BY EventFacts

\* The inductive invariant of the pool holds after every event.
THEOREM SoundAlways == Spec => []Sound
BY SoundInit, SoundStep, PTL DEF Spec

\* The invariant contains the types and the agreement of the lists.
LEMMA SoundTyped == Sound => TypeOK
<1> SUFFICES ASSUME Sound PROVE TypeOK
  OBVIOUS
<1>1. /\ pool \in Pools /\ Shape(pool) /\ Chained(pool)
      /\ born \subseteq In(pool, "Active")
      /\ sustain \subseteq Channels /\ sostenuto \subseteq Channels
  BY DEF Sound, Ready, Body
<1>2. Len(pool.active) = Cardinality(Live(pool))
  <2>1. pool.active \in Seq(Handles) /\ Distinct(pool.active) /\ ToSet(pool.active) = Live(pool)
    BY <1>1 DEF Pools, Shape
  <2> QED BY <2>1, DistinctCount
<1>3. ASSUME NEW k \in Keys
      PROVE  /\ ToSet(pool.chain[k]) \subseteq {h \in In(pool, "Active") : pool.voice[h].key = k}
             /\ Len(pool.chain[k]) = Cardinality(ToSet(pool.chain[k]))
  <2>1. pool.chain[k] \in Seq(Handles) /\ Distinct(pool.chain[k])
    BY <1>1 DEF Pools, Chained
  <2>2. ToSet(pool.chain[k]) \subseteq Handles
    BY <2>1, InToSet
  <2> QED BY <1>1, <2>1, <2>2, DistinctCount DEF Chained, In
<1>4. pool.voice \in [Handles -> VoiceType] /\ pool.limit \in Nat \ {0}
  BY <1>1 DEF Pools
<1> QED BY <1>1, <1>2, <1>3, <1>4 DEF TypeOK, Shape

\* The rows of the pool keep their types, and the active list, the free stack and
\* the chains of the keys agree on which slots sound, after every event.
THEOREM TypeCorrect == Spec => []TypeOK
BY SoundAlways, SoundTyped, PTL

\* The invariant contains the steal index.
LEMMA SoundIndexed == Sound => IndexCurrent
<1> SUFFICES ASSUME Sound PROVE IndexCurrent
  OBVIOUS
<1>1. pool \in Pools /\ Shape(pool) /\ Keyed(pool, {}, {}) /\ pool.deferred = {}
  BY DEF Sound, Ready, Body
<1>2. pool.valid =>
         \A h \in Handles : pool.leaf[h] = IF h \in In(pool, "Active") THEN Position(pool, h) ELSE 0
  <2> SUFFICES ASSUME pool.valid, NEW h \in Handles
               PROVE  pool.leaf[h] = IF h \in In(pool, "Active") THEN Position(pool, h) ELSE 0
    OBVIOUS
  <2>1. /\ pool.leaf[h] # 0 => pool.voice[h].state = "Active" /\ pool.leaf[h] = Position(pool, h)
        /\ pool.voice[h].state = "Active" => pool.leaf[h] # 0
    BY <1>1 DEF Keyed
  <2> QED BY <2>1 DEF In
<1> QED BY <1>1, <1>2 DEF IndexCurrent, Keyed

\* After every event each Active voice is in the steal index under the position it
\* has now on the active list, nothing else is, and no launch is half committed.
THEOREM IndexStaysCurrent == Spec => []IndexCurrent
BY SoundAlways, SoundIndexed, PTL

\* The invariant contains what keeps a voice sounding.
LEMMA SoundHeld == Sound => NoHungNotes
<1> SUFFICES ASSUME Sound, NEW h \in In(pool, "Active")
             PROVE  \/ Waits(pool, h)
                    \/ "sustain" \in pool.voice[h].held /\ pool.voice[h].key[1] \in sustain
                    \/ "sostenuto" \in pool.voice[h].held /\ pool.voice[h].key[1] \in sostenuto
  BY DEF NoHungNotes
<1>1. pool \in Pools /\ Kept(pool, {}) /\ Pedals(pool, sustain, sostenuto)
  BY DEF Sound, Ready, Body
<1>2. h \in Handles /\ pool.voice[h].state = "Active"
  BY DEF In
<1>3. pool.voice[h].held \in SUBSET {"sustain", "sostenuto"}
  BY <1>1, <1>2 DEF Pools, VoiceType
<1>4. Waits(pool, h) \/ pool.voice[h].held # {}
  BY <1>1, <1>2 DEF Kept
<1>5. \/ Waits(pool, h)
      \/ "sustain" \in pool.voice[h].held
      \/ "sostenuto" \in pool.voice[h].held
  BY <1>3, <1>4
<1> QED BY <1>1, <1>2, <1>5 DEF Pedals

\* No note hangs: after every event each Active voice waits for its note-off on
\* its key's chain, or is held by a pedal that is down.
THEOREM NoNoteHangs == Spec => []NoHungNotes
BY SoundAlways, SoundHeld, PTL

\* The pool grows no further than its limit, whatever an event needs slots for, and
\* not at all while it is above a lowered limit.
THEOREM PoolWithinLimit == Spec => LimitKept
<1>1. Sound /\ [Next]_vars => Bounded
  BY EventFacts
<1>2. Sound /\ [Next]_vars =>
         [\/ Len(pool'.active) <= pool'.limit
          \/ Len(pool'.active) <= Len(pool.active)]_vars
  BY <1>1 DEF Bounded
<1> QED BY <1>2, SoundAlways, PTL DEF Spec, LimitKept

=============================================================================
