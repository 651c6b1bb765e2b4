-------------------------- MODULE TimestampsProofs --------------------------
(***************************************************************************)
(* What the arithmetic of Timestamps.tla promises for every width, every   *)
(* span, every depth and every time: a PTS lifted from its low bits stays  *)
(* in its width and is the nearest with those bits, and one pass of swaps  *)
(* puts the reorder buffer back in order.                                  *)
(***************************************************************************)
EXTENDS Timestamps, WellFoundedInduction, TLAPS

-----------------------------------------------------------------------------
(* A set of natural numbers has a least.                                   *)
LEMMA LeastOf ==
  ASSUME NEW T, T \subseteq Nat, T # {}
  PROVE  \E x \in T : \A y \in T : x <= y
<1> DEFINE R == OpToRel(<, Nat)
<1>1. \A a, b \in Nat : a < b => <<a, b>> \in R
  BY DEF OpToRel
<1>2. \E x \in T : \A y \in T : ~(<<y, x>> \in R)
  <2>1. IsWellFoundedOn(R, Nat)
    BY NatLessThanWellFounded
  <2> HIDE DEF R
  <2>2. QED
    BY <2>1, WFMin
<1> HIDE DEF R
<1>3. PICK x \in T : \A y \in T : ~(<<y, x>> \in R)
  BY <1>2
<1>4. ASSUME NEW y \in T PROVE x <= y
  <2>1. ~(y < x)
    BY <1>1, <1>3
  <2>2. QED
    BY <2>1
<1>5. QED
  BY <1>4

(* Euclidean division, as % and \div do it.                                *)
LEMMA ModRange ==
  ASSUME NEW a \in Int, NEW n \in Nat \ {0}
  PROVE  a % n \in 0 .. n - 1
OBVIOUS

LEMMA DivMod ==
  ASSUME NEW a \in Int, NEW n \in Nat \ {0}
  PROVE  a \div n \in Int /\ a = n * (a \div n) + (a % n)
<1>1. a \div n \in Int
  OBVIOUS
<1>2. a = n * (a \div n) + (a % n)
  OBVIOUS
<1>3. QED
  BY <1>1, <1>2

LEMMA ModUnique ==
  ASSUME NEW q \in Int, NEW n \in Nat \ {0}, NEW r \in 0 .. n - 1
  PROVE  (n * q + r) % n = r
OBVIOUS

LEMMA Halved ==
  ASSUME NEW n \in Nat
  PROVE  n \div 2 \in Nat /\ 2 * (n \div 2) <= n /\ n <= 2 * (n \div 2) + 1
OBVIOUS

(* Low bits lifted above any place are still the low bits.                 *)
LEMMA ModOfLifted ==
  ASSUME NEW a \in Int, NEW low \in Int, NEW n \in Nat \ {0}, a \in 0 .. n - 1
  PROVE  (((a - low) % n) + low) % n = a
<1> DEFINE q == (a - low) \div n
           r == (a - low) % n
<1>1. q \in Int /\ a - low = n * q + r
  BY DivMod
<1>2. r \in Int
  BY ModRange
<1>3. r + low = n * (-q) + a
  <2> HIDE DEF q, r
  <2>1. n * (-q) = -(n * q) /\ n * q \in Int
    BY <1>1
  <2>2. QED
    BY <1>1, <1>2, <2>1
<1>4. -q \in Int
  BY <1>1
<1>5. (n * (-q) + a) % n = a
  <2> HIDE DEF q, r
  <2>1. QED
    BY <1>4, ModUnique
<1>6. QED
  BY <1>3, <1>5

-----------------------------------------------------------------------------
(* Two's complement keeps to its width, and changes nothing in it.         *)
LEMMA WrappedInTicks ==
  ASSUME NEW x \in Int
  PROVE  Wrapped(x, MaxTick) \in Ticks
<1> DEFINE n == 2 * MaxTick + 2
<1>1. n \in Nat \ {0} /\ x + MaxTick + 1 \in Int
  BY MaxTickAssumption
<1>2. (x + MaxTick + 1) % n \in 0 .. n - 1
  <2> HIDE DEF n
  <2>1. QED
    BY <1>1, ModRange
<1>3. QED
  BY <1>2, MaxTickAssumption DEF Wrapped, Ticks, MinTick

LEMMA WrappedSame ==
  ASSUME NEW max \in Nat, NEW x \in -max - 1 .. max
  PROVE  Wrapped(x, max) = x
<1> DEFINE n == 2 * max + 2
           r == x + max + 1
<1>1. n \in Nat \ {0} /\ r \in 0 .. n - 1
  OBVIOUS
<1>2. (n * 0 + r) % n = r /\ n * 0 + r = r
  <2> HIDE DEF n, r
  <2>1. QED
    BY <1>1, ModUnique
<1>3. QED
  BY <1>1, <1>2 DEF Wrapped

LEMMA WrappedTick ==
  ASSUME NEW x \in Ticks
  PROVE  Wrapped(x, MaxTick) = x
BY WrappedSame, MaxTickAssumption DEF Ticks, MinTick

(* A coded PTS that decode_pts does not refuse is one an i64 holds.        *)
LEMMA CodedPtsType ==
  ASSUME NEW span \in Nat \ {0}, NEW last \in Ticks, NEW coded \in Nat,
         ~CodedPtsRefused(span, coded)
  PROVE  CodedPts(span, last, coded) \in Ticks
<1>1. CASE coded >= span
  <2>1. coded - span \in 0 .. MaxTick
    BY <1>1, MaxTickAssumption DEF CodedPtsRefused
  <2>2. QED
    BY <1>1, <2>1, MaxTickAssumption DEF CodedPts, Ticks, MinTick
<1>2. CASE ~(coded >= span)
  <2>1. last \in Int /\ (span - 1) \div 2 \in Int
    BY Halved, MaxTickAssumption DEF Ticks, MinTick
  <2>2. LiftFrom(span, last) \in Int
    BY <2>1 DEF LiftFrom
  <2>3. (coded - LiftFrom(span, last)) % span \in Int
    BY <2>2, ModRange
  <2>4. Lifted(span, last, coded) \in Int
    BY <2>2, <2>3 DEF Lifted
  <2>5. QED
    BY <1>2, <2>4, WrappedInTicks DEF CodedPts
<1>3. QED
  BY <1>1, <1>2

(* The low bits are lifted to the nearest PTS that has them: at most half  *)
(* a span from the last one.                                               *)
LEMMA LiftedNearest ==
  ASSUME NEW span \in Nat \ {0}, NEW last \in Ticks, NEW coded \in 0 .. span - 1
  PROVE  /\ Lifted(span, last, coded) % span = coded
         /\ 2 * (Lifted(span, last, coded) - last) <= span
         /\ -2 * (Lifted(span, last, coded) - last) <= span
<1> DEFINE low  == LiftFrom(span, last)
           rest == (coded - low) % span
           half == (span - 1) \div 2
<1>1. half \in Nat /\ 2 * half <= span - 1 /\ span - 1 <= 2 * half + 1
  BY Halved
<1>2. last \in Int
  BY MaxTickAssumption DEF Ticks, MinTick
<1>3. low = last - half /\ low \in Int
  BY <1>1, <1>2 DEF LiftFrom
<1> HIDE DEF low
<1>4. rest \in 0 .. span - 1
  <2>1. coded - low \in Int
    BY <1>3
  <2>2. QED
    BY <2>1, ModRange
<1>5. Lifted(span, last, coded) = rest + low
  BY DEF Lifted, low
<1>6. (rest + low) % span = coded
  <2>1. coded \in Int
    OBVIOUS
  <2>2. QED
    BY <1>3, <2>1, ModOfLifted DEF rest
<1> HIDE DEF rest, half
<1>7. 2 * (rest + low - last) <= span /\ -2 * (rest + low - last) <= span
  BY <1>1, <1>2, <1>3, <1>4
<1>8. Lifted(span, last, coded) % span = coded
  BY <1>5, <1>6
<1>9. 2 * (Lifted(span, last, coded) - last) <= span
  BY <1>2, <1>3, <1>4, <1>5, <1>7
<1>10. -2 * (Lifted(span, last, coded) - last) <= span
  BY <1>2, <1>3, <1>4, <1>5, <1>7
<1>11. QED
  BY <1>8, <1>9, <1>10

-----------------------------------------------------------------------------
(* Of order and products, by a positive number.                            *)
LEMMA TimesPositive ==
  ASSUME NEW x \in Int, NEW y \in Int, NEW k \in Nat \ {0}
  PROVE  k * x < k * y <=> x < y
OBVIOUS

(* Truncating division is off by less than one.                            *)
LEMMA TruncDivNear ==
  ASSUME NEW x \in Int, NEW y \in Nat \ {0}
  PROVE  /\ TruncDiv(x, y) \in Int
         /\ y * TruncDiv(x, y) - x < y
         /\ x - y * TruncDiv(x, y) < y
<1>1. CASE x >= 0
  <2> DEFINE q == x \div y
             r == x % y
  <2>1. q \in Int /\ x = y * q + r /\ r \in 0 .. y - 1
    BY DivMod, ModRange
  <2>2. TruncDiv(x, y) = q
    BY <1>1 DEF TruncDiv
  <2> HIDE DEF q, r
  <2>3. y * q \in Int
    BY <2>1
  <2>4. QED
    BY <2>1, <2>2, <2>3
<1>2. CASE x < 0
  <2> DEFINE q == (-x) \div y
             r == (-x) % y
  <2>1. q \in Int /\ -x = y * q + r /\ r \in 0 .. y - 1
    BY DivMod, ModRange
  <2>2. TruncDiv(x, y) = -q
    BY <1>2 DEF TruncDiv
  <2> HIDE DEF q, r
  <2>3. y * q \in Int /\ y * (-q) = -(y * q)
    BY <2>1
  <2>4. QED
    BY <2>1, <2>2, <2>3
<1>3. QED
  BY <1>1, <1>2

LEMMA WideTicksWide == MaxWide \in Nat
<1> DEFINE m == MaxTick + 1
<1>1. m \in Nat \ {0}
  BY MaxTickAssumption
<1> HIDE DEF m
<1>2. 2 * m * m - 1 \in Nat
  BY <1>1
<1>3. QED
  BY <1>2 DEF MaxWide, m

(* Two times carried from one, R / f, each to within a tick of its own base*)
LEMMA CarriedTogether ==
  ASSUME NEW r \in Int, NEW s \in Int, NEW R \in Int, NEW f \in Nat \ {0},
         NEW a1 \in Nat \ {0}, NEW a2 \in Nat \ {0}, NEW b1 \in Nat \ {0}, NEW b2 \in Nat \ {0},
         (f * a1) * r - R * a2 < f * a1, 
         R * b2 - (f * b1) * s < f * b1
  PROVE  r * a1 * b2 - s * b1 * a2 < a1 * b2 + b1 * a2
<1> DEFINE A == r * a1
           B == s * b1
           S == R * a2 * b2
<1>1. A \in Int /\ B \in Int /\ S \in Int
  OBVIOUS
<1>2. b2 * ((f * a1) * r - R * a2) < b2 * (f * a1)
  <2>1. (f * a1) * r - R * a2 \in Int /\ f * a1 \in Int
    OBVIOUS
  <2>2. QED
    BY <2>1, TimesPositive
<1>3. a2 * (R * b2 - (f * b1) * s) < a2 * (f * b1)
  <2>1. R * b2 - (f * b1) * s \in Int /\ f * b1 \in Int
    OBVIOUS
  <2>2. QED
    BY <2>1, TimesPositive
<1>4. b2 * ((f * a1) * r - R * a2) = f * (A * b2) - S
  OBVIOUS
<1>5. a2 * (R * b2 - (f * b1) * s) = S - f * (B * a2)
  OBVIOUS
<1>6. b2 * (f * a1) = f * (a1 * b2) /\ a2 * (f * b1) = f * (b1 * a2)
  OBVIOUS
<1>7. A * b2 \in Int /\ B * a2 \in Int /\ a1 * b2 \in Int /\ b1 * a2 \in Int
  BY <1>1
<1> DEFINE p == A * b2
           q == B * a2
           u == a1 * b2
           v == b1 * a2
<1> HIDE DEF A, B, S, p, q, u, v
<1>8. f * p - S < f * u /\ S - f * q < f * v
  BY <1>2, <1>3, <1>4, <1>5, <1>6 DEF p, q, u, v
<1>9. p \in Int /\ q \in Int /\ u \in Int /\ v \in Int
  BY <1>7 DEF p, q, u, v
<1>10. f * (p - q) = f * p - f * q /\ f * (u + v) = f * u + f * v
       /\ f * p \in Int /\ f * q \in Int /\ f * u \in Int /\ f * v \in Int
  BY <1>9
<1>11. f * (p - q) < f * (u + v)
  BY <1>1, <1>8, <1>10
<1>12. p - q < u + v
  BY <1>9, <1>11, TimesPositive
<1>13. QED
  BY <1>12 DEF p, q, u, v, A, B

(* Carrying a time from one base to another, where a checked build lets    *)
(* it, is off by less than a tick of the base it is carried to.            *)
LEMMA RescaledNear ==
  ASSUME NEW ticks \in Int, NEW f1 \in Nat \ {0}, NEW f2 \in Nat \ {0},
         NEW t1 \in Nat \ {0}, NEW t2 \in Nat \ {0},
         OverflowChecks, ~RescalePanics(ticks, <<f1, f2>>, <<t1, t2>>)
  PROVE  /\ Rescaled(ticks, <<f1, f2>>, <<t1, t2>>) \in Int
         /\ (f2 * t1) * Rescaled(ticks, <<f1, f2>>, <<t1, t2>>) - (ticks * f1) * t2 < f2 * t1
         /\ (ticks * f1) * t2 - (f2 * t1) * Rescaled(ticks, <<f1, f2>>, <<t1, t2>>) < f2 * t1
<1> DEFINE up   == (ticks * f1) * t2
           down == f2 * t1
           r    == Rescaled(ticks, <<f1, f2>>, <<t1, t2>>)
<1>1. up \in Int /\ down \in Nat \ {0}
  OBVIOUS
<1>2. ScaleUp(ticks, <<f1, f2>>, <<t1, t2>>) = up /\ ScaleDown(<<f1, f2>>, <<t1, t2>>) = down
  BY DEF ScaleUp, ScaleDown
<1> HIDE DEF up, down
<1>3. up \in WideTicks /\ down \in WideTicks
  BY <1>2 DEF RescalePanics
<1>4. Wrapped(up, MaxWide) = up /\ Wrapped(down, MaxWide) = down
  BY <1>3, WideTicksWide, WrappedSame DEF WideTicks
<1>5. r = TruncDiv(up, down)
  BY <1>2, <1>4 DEF Rescaled
<1> HIDE DEF r
<1>6. r \in Int /\ down * r - up < down /\ up - down * r < down
  BY <1>1, <1>5, TruncDivNear
<1>7. QED
  BY <1>6 DEF up, down, r

-----------------------------------------------------------------------------
(* A buffer of some depth, in order.                                       *)
InOrder(b, d) == \A i, j \in 1 .. d + 1 : i <= j => b[i] <= b[j]

LEMMA TimesAreIntegers ==
  /\ Times \subseteq Int
  /\ NoTime \in Times
  /\ Ticks \subseteq Times
  /\ \A t \in Ticks : NoTime < t
BY MaxTickAssumption DEF Times, Ticks, NoTime, MinTick

(* Landing keeps the shape of the buffer.                                  *)
LEMMA LandPtsType ==
  ASSUME NEW d \in Nat, NEW b \in [1 .. d + 1 -> Times], NEW pts \in Ticks
  PROVE  LandPts(b, pts) \in [1 .. d + 1 -> Times]
<1>1. Len(b) = d + 1
  OBVIOUS
<1>2. ASSUME NEW i \in 1 .. d + 1
      PROVE  /\ i < Len(b) => b[i + 1] \in Times
             /\ b[i] \in Times
  BY <1>1
<1>3. QED
  BY <1>1, <1>2, TimesAreIntegers DEF LandPts

(* In a buffer in order, the PTS reaches a slot exactly when what the slot *)
(* holds is below it.                                                      *)
LEMMA ReachesInOrder ==
  ASSUME NEW d \in Nat, NEW b \in [1 .. d + 1 -> Times], NEW pts \in Ticks,
         InOrder(b, d), NEW i \in 2 .. d + 1
  PROVE  Reaches(b, pts, i) <=> b[i] < pts
<1>1. ASSUME Reaches(b, pts, i) PROVE b[i] < pts
  BY <1>1 DEF Reaches
<1>2. ASSUME b[i] < pts, NEW j \in 2 .. i PROVE b[j] < pts
  <2>1. i \in 1 .. d + 1 /\ j \in 1 .. d + 1 /\ j <= i
    OBVIOUS
  <2>2. b[j] <= b[i]
    BY <2>1 DEF InOrder
  <2>3. b[j] \in Int /\ b[i] \in Int /\ pts \in Int
    BY <2>1, TimesAreIntegers
  <2>4. QED
    BY <1>2, <2>2, <2>3
<1>3. QED
  BY <1>1, <1>2 DEF Reaches

(* So every slot takes the next entry while that is below the PTS, the     *)
(* first slot after that the PTS, and the others stay.                     *)
LEMMA LandPtsAt ==
  ASSUME NEW d \in Nat, NEW b \in [1 .. d + 1 -> Times], NEW pts \in Ticks,
         InOrder(b, d), NEW i \in 1 .. d + 1
  PROVE  LandPts(b, pts)[i] =
           IF i < d + 1 /\ b[i + 1] < pts THEN b[i + 1]
           ELSE IF i = 1 \/ b[i] < pts THEN pts
           ELSE b[i]
<1>1. Len(b) = d + 1
  OBVIOUS
<1>2. Reaches(b, pts, 1)
  BY DEF Reaches
<1>3. i # 1 => (Reaches(b, pts, i) <=> b[i] < pts)
  BY ReachesInOrder
<1>4. i < d + 1 => (Reaches(b, pts, i + 1) <=> b[i + 1] < pts)
  BY ReachesInOrder
<1>5. QED
  BY <1>1, <1>2, <1>3, <1>4 DEF LandPts

(* Landing a PTS leaves the buffer in order.                               *)
LEMMA LandPtsInOrder ==
  ASSUME NEW d \in Nat, NEW b \in [1 .. d + 1 -> Times], NEW pts \in Ticks,
         InOrder(b, d)
  PROVE  InOrder(LandPts(b, pts), d)
<1> DEFINE L == LandPts(b, pts)
<1> SUFFICES ASSUME NEW i \in 1 .. d + 1, NEW j \in 1 .. d + 1, i <= j
             PROVE  L[i] <= L[j]
  BY DEF InOrder
<1>1. pts \in Int /\ \A k \in 1 .. d + 1 : b[k] \in Int
  BY TimesAreIntegers
<1>2. \A k, m \in 1 .. d + 1 : k <= m => b[k] <= b[m]
  BY DEF InOrder
<1>3. L[i] = IF i < d + 1 /\ b[i + 1] < pts THEN b[i + 1]
             ELSE IF i = 1 \/ b[i] < pts THEN pts ELSE b[i]
  BY LandPtsAt
<1>4. L[j] = IF j < d + 1 /\ b[j + 1] < pts THEN b[j + 1]
             ELSE IF j = 1 \/ b[j] < pts THEN pts ELSE b[j]
  BY LandPtsAt
<1> HIDE DEF L
<1>5. CASE i = j
  BY <1>1, <1>3, <1>5
<1>6. CASE i < j
  <2>1. i + 1 \in 1 .. d + 1 /\ i + 1 <= j
    BY <1>6
  <2>2. b[i + 1] <= b[j] /\ b[i] <= b[j]
    BY <1>2, <2>1
  <2>3. j < d + 1 => b[j] <= b[j + 1] /\ j + 1 \in 1 .. d + 1
    BY <1>2
  <2>4. QED
    BY <1>1, <1>3, <1>4, <1>6, <2>1, <2>2, <2>3
<1>7. QED
  BY <1>5, <1>6

(* The DTS is at most the PTS it is the answer to, and at most the entries *)
(* the buffer keeps.                                                       *)
LEMMA DtsAtMostPts ==
  ASSUME NEW d \in Nat, NEW b \in [1 .. d + 1 -> Times], NEW pts \in Ticks,
         InOrder(b, d)
  PROVE  Dts(b, pts) \in Times /\ Dts(b, pts) <= pts
<1>1. 1 \in 1 .. d + 1
  OBVIOUS
<1>2. Dts(b, pts) = IF 1 < d + 1 /\ b[2] < pts THEN b[2] ELSE pts
  BY <1>1, LandPtsAt DEF Dts
<1>3. pts \in Times /\ pts \in Int
  BY TimesAreIntegers
<1>4. CASE 1 < d + 1 /\ b[2] < pts
  <2>1. 2 \in 1 .. d + 1
    BY <1>4
  <2>2. b[2] \in Times
    BY <2>1
  <2>3. b[2] \in Int
    BY <2>2, TimesAreIntegers
  <2>4. QED
    BY <1>2, <1>3, <1>4, <2>2, <2>3
<1>5. CASE ~(1 < d + 1 /\ b[2] < pts)
  BY <1>2, <1>3, <1>5
<1>6. QED
  BY <1>4, <1>5
=============================================================================
