--------------------------- MODULE RingArithmetic ---------------------------
(***************************************************************************)
(* Positions and the cells they fall on: what `position & capacityMask_'   *)
(* and `tail & mask_' need to be right for the rings of MPSCQueue.h.       *)
(***************************************************************************)
EXTENDS Integers, TLAPS

\* A position falls on one of the C cells of the ring.
LEMMA ModRange ==
    ASSUME NEW C \in Nat, C >= 1, NEW a \in Nat
    PROVE  a % C \in 0 .. C - 1
    BY Z3

\* Quotient and remainder determine a position.
LEMMA ModDiv ==
    ASSUME NEW C \in Nat, C >= 1, NEW a \in Nat
    PROVE  a = C * (a \div C) + (a % C) /\ a \div C \in Nat
    BY Z3

\* Two different laps of the ring are at least C positions apart.
LEMMA LapGap ==
    ASSUME NEW C \in Nat, C >= 1, NEW x \in Nat, NEW y \in Nat, x < y
    PROVE  C * x + C <= C * y
    BY SMTT(30)

LEMMA LapNat ==
    ASSUME NEW C \in Nat, NEW x \in Nat
    PROVE  C * x \in Nat
    BY SMT

\* Positions less than a lap apart fall on different cells: no two of the C
\* live positions share one.
LEMMA ModDistinct ==
    ASSUME NEW C \in Nat, C >= 1, NEW a \in Nat, NEW b \in Nat, a < b, b < a + C
    PROVE  a % C # b % C
<1> DEFINE x == a \div C  y == b \div C  r == a % C  s == b % C
           X == C * x     Y == C * y
<1>1. a = X + r /\ x \in Nat /\ r \in Int  BY ModDiv, ModRange
<1>2. b = Y + s /\ y \in Nat /\ s \in Int  BY ModDiv, ModRange
<1>3. X \in Nat /\ Y \in Nat               BY <1>1, <1>2, LapNat
<1>4. x < y => X + C <= Y                  BY <1>1, <1>2, LapGap
<1>5. y < x => Y + C <= X                  BY <1>1, <1>2, LapGap
<1>6. x = y => X = Y                       OBVIOUS
<1>7. x < y \/ y < x \/ x = y              BY <1>1, <1>2
<1> HIDE DEF x, y, r, s, X, Y
<1>8. SUFFICES ASSUME r = s PROVE FALSE    BY DEF r, s
<1> QED BY <1>1, <1>2, <1>3, <1>4, <1>5, <1>6, <1>7, <1>8

\* A position and the one a lap later fall on the same cell.
LEMMA ModPeriod ==
    ASSUME NEW C \in Nat, C >= 1, NEW a \in Nat
    PROVE  (a + C) % C = a % C
<1> DEFINE b == a + C
           x == a \div C  y == b \div C  r == a % C  s == b % C
           X == C * x     Y == C * y     Z == C * (x + 1)
<1>0. b \in Nat /\ b = a + C               OBVIOUS
<1> HIDE DEF b
<1>1. a = X + r /\ x \in Nat /\ r \in 0 .. C - 1  BY ModDiv, ModRange
<1>2. b = Y + s /\ y \in Nat /\ s \in 0 .. C - 1  BY <1>0, ModDiv, ModRange
<1> HIDE DEF x, y, r, s
<1>3. X \in Nat /\ Y \in Nat /\ Z = X + C         BY <1>1, <1>2, LapNat
<1>4. x + 1 < y => Z + C <= Y              BY <1>1, <1>2, LapGap
<1>5. y < x + 1 => Y + C <= Z              BY <1>1, <1>2, LapGap
<1>6. x + 1 = y => Z = Y                   OBVIOUS
<1>7. x + 1 < y \/ y < x + 1 \/ x + 1 = y  BY <1>1, <1>2
<1> HIDE DEF X, Y, Z
<1>9. s = r  BY <1>0, <1>1, <1>2, <1>3, <1>4, <1>5, <1>6, <1>7
<1> QED BY <1>9 DEF r, s, b

\* Every cell is that of one of any C consecutive positions.
LEMMA ModWindow ==
    ASSUME NEW C \in Nat, C >= 1, NEW R \in Nat, NEW c \in 0 .. C - 1
    PROVE  \E q \in R .. R + C - 1 : q % C = c
<1> DEFINE x == R \div C  r == R % C  X == C * x
           q == IF c >= r THEN X + c ELSE X + C + c
           y == q \div C  s == q % C  Y == C * y  Z == C * (x + 1)
<1>1. R = X + r /\ x \in Nat /\ r \in 0 .. C - 1  BY ModDiv, ModRange
<1>2. X \in Nat  BY <1>1, LapNat
<1> HIDE DEF x, r
<1>3. Z = X + C  BY <1>1
<1> HIDE DEF X
<1>4. q \in R .. R + C - 1 /\ q \in Nat  BY <1>1, <1>2
<1>5. (q = X + c /\ c >= r) \/ (q = Z + c /\ c < r)  BY <1>1, <1>3
<1> HIDE DEF q
<1>6. q = Y + s /\ y \in Nat /\ s \in 0 .. C - 1  BY <1>4, ModDiv, ModRange
<1> HIDE DEF y, s
<1>7. Y \in Nat  BY <1>6, LapNat
<1>8. ASSUME NEW z \in Nat, q = C * z + c PROVE s = c
  <2> DEFINE W == C * z
  <2>1. W \in Nat /\ q = W + c  BY <1>8, LapNat
  <2>2. z < y => W + C <= Y  BY <1>6, LapGap
  <2>3. y < z => Y + C <= W  BY <1>6, LapGap
  <2>4. z = y => W = Y       OBVIOUS
  <2>5. z < y \/ y < z \/ z = y  BY <1>6
  <2> HIDE DEF W, Y
  <2> QED BY <1>6, <1>7, <2>1, <2>2, <2>3, <2>4, <2>5
<1>9. s = c
  <2>1. CASE q = X + c  BY <2>1, <1>1, <1>8 DEF X
  <2>2. CASE q = Z + c  BY <2>2, <1>1, <1>8
  <2> QED BY <1>5, <2>1, <2>2
<1> QED BY <1>4, <1>9 DEF s

\* A position within the ring is its own cell.
LEMMA ModSmall ==
    ASSUME NEW C \in Nat, C >= 1, NEW a \in 0 .. C - 1
    PROVE  a % C = a
    BY Z3
=============================================================================
