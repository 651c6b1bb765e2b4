------------------------ MODULE ReorderBufferProofs ------------------------
(***************************************************************************)
(* What decode_dts promises for every depth, every length of stream and    *)
(* every PTS: the buffer is in order after each frame, and a DTS is never  *)
(* after its PTS.                                                          *)
(***************************************************************************)
EXTENDS ReorderBuffer, TimestampsProofs, FiniteSetTheorems

-----------------------------------------------------------------------------
(* What the buffer holds, counted from a time on.                          *)

From(b, d, t) == {i \in 2 .. d + 1 : b[i] >= t}
Later(s, t)   == {k \in DOMAIN s : s[k] >= t}
UpTo(s, k, t) == {j \in 1 .. k : s[j] <= t}
Over(s, k)    == {j \in 1 .. k - 1 : s[j] > s[k]}

(* Of a buffer in order these are the last entries.                        *)
LEMMA FromSuffix ==
  ASSUME NEW d \in Nat, NEW b \in [1 .. d + 1 -> Times], InOrder(b, d), NEW t \in Int
  PROVE  \E m \in 2 .. d + 2 : From(b, d, t) = m .. d + 1
<1>1. \A i \in 1 .. d + 1 : b[i] \in Int
  BY TimesAreIntegers
<1>2. CASE From(b, d, t) = {}
  <2>1. d + 2 \in 2 .. d + 2 /\ (d + 2) .. d + 1 = {}
    OBVIOUS
  <2>2. QED
    BY <1>2, <2>1
<1>3. CASE From(b, d, t) # {}
  <2>1. From(b, d, t) \subseteq Nat
    BY DEF From
  <2>2. PICK m \in From(b, d, t) : \A i \in From(b, d, t) : m <= i
    BY <1>3, <2>1, LeastOf
  <2>3. m \in 2 .. d + 2 /\ m \in 2 .. d + 1 /\ b[m] >= t
    BY <2>2 DEF From
  <2>4. ASSUME NEW i \in m .. d + 1 PROVE i \in From(b, d, t)
    <3>1. i \in 2 .. d + 1 /\ m \in 1 .. d + 1 /\ i \in 1 .. d + 1 /\ m <= i
      BY <2>3
    <3>2. b[m] <= b[i]
      BY <3>1 DEF InOrder
    <3>3. b[i] >= t
      BY <1>1, <2>3, <3>1, <3>2
    <3>4. QED
      BY <3>1, <3>3 DEF From
  <2>5. ASSUME NEW i \in From(b, d, t) PROVE i \in m .. d + 1
    BY <2>2, <2>3 DEF From
  <2>6. QED
    BY <2>3, <2>4, <2>5
<1>4. QED
  BY <1>2, <1>3

LEMMA FromFinite ==
  ASSUME NEW d \in Nat, NEW b, NEW t
  PROVE  /\ IsFiniteSet(From(b, d, t))
         /\ Cardinality(From(b, d, t)) \in 0 .. d
         /\ Cardinality(From(b, d, t)) = d <=> From(b, d, t) = 2 .. d + 1
<1>1. IsFiniteSet(2 .. d + 1) /\ Cardinality(2 .. d + 1) = d
  BY FS_Interval
<1>2. From(b, d, t) \in SUBSET (2 .. d + 1)
  BY DEF From
<1>3. IsFiniteSet(From(b, d, t)) /\ Cardinality(From(b, d, t)) <= d
  BY <1>1, <1>2, FS_Subset
<1>4. Cardinality(From(b, d, t)) \in Nat
  BY <1>3, FS_CardinalityType
<1>5. Cardinality(From(b, d, t)) = d => From(b, d, t) = 2 .. d + 1
  BY <1>1, <1>2, FS_Subset
<1>6. QED
  BY <1>1, <1>3, <1>4, <1>5

(* A PTS from then on takes the place in front of them, unless all are.    *)
LEMMA LandedFrom ==
  ASSUME NEW d \in Nat, NEW b \in [1 .. d + 1 -> Times], InOrder(b, d),
         NEW pts \in Ticks, NEW t \in Int
  PROVE  Cardinality(From(LandPts(b, pts), d, t)) =
           IF pts >= t /\ Cardinality(From(b, d, t)) < d THEN Cardinality(From(b, d, t)) + 1
                                                        ELSE Cardinality(From(b, d, t))
<1> DEFINE A == From(b, d, t)
           v == LandPts(b, pts)
           B == From(v, d, t)
<1>1. \A i \in 1 .. d + 1 : b[i] \in Int
  BY TimesAreIntegers
<1>2. pts \in Int
  BY TimesAreIntegers
<1>3. PICK m \in 2 .. d + 2 : A = m .. d + 1
  BY FromSuffix
<1>4. \A i \in 1 .. d + 1 :
        v[i] = IF i < d + 1 /\ b[i + 1] < pts THEN b[i + 1]
               ELSE IF i = 1 \/ b[i] < pts THEN pts
               ELSE b[i]
  BY LandPtsAt
<1>5. \A i \in 2 .. d + 1 : b[i] >= t <=> m <= i
  BY <1>3 DEF From
<1>6. A \in SUBSET (2 .. d + 1) /\ IsFiniteSet(A) /\ Cardinality(A) \in 0 .. d
      /\ (Cardinality(A) = d <=> A = 2 .. d + 1)
  BY FromFinite DEF From
<1>7. B = {i \in 2 .. d + 1 : v[i] >= t}
  BY DEF From
<1> HIDE DEF A, v, B
<1>8. CASE pts < t
  <2>1. ASSUME NEW i \in 2 .. d + 1 PROVE v[i] >= t <=> b[i] >= t
    <3>1. i \in 1 .. d + 1 /\ b[i] \in Int /\ i # 1
      BY <1>1
    <3>2. CASE i < d + 1 /\ b[i + 1] < pts
      <4>1. i + 1 \in 1 .. d + 1 /\ b[i] <= b[i + 1] /\ b[i + 1] \in Int
        BY <1>1, <3>1, <3>2 DEF InOrder
      <4>2. v[i] = b[i + 1]
        BY <1>4, <3>1, <3>2
      <4>3. QED
        BY <1>2, <1>8, <3>1, <3>2, <4>1, <4>2
    <3>3. CASE ~(i < d + 1 /\ b[i + 1] < pts)
      <4>1. v[i] = IF b[i] < pts THEN pts ELSE b[i]
        BY <1>4, <3>1, <3>3
      <4>2. QED
        BY <1>2, <1>8, <3>1, <4>1
    <3>4. QED
      BY <3>2, <3>3
  <2>2. B = A
    BY <1>7, <2>1 DEF A, From
  <2>3. ~(pts >= t)
    BY <1>2, <1>8
  <2>4. QED
    BY <2>2, <2>3 DEF A, B, v
<1>9. CASE pts >= t
  <2>1. ASSUME NEW i \in 2 .. d + 1 PROVE v[i] >= t <=> m <= i + 1
    <3>1. i \in 1 .. d + 1 /\ b[i] \in Int /\ i # 1
      BY <1>1
    <3>2. CASE i < d + 1 /\ b[i + 1] < pts
      <4>1. i + 1 \in 2 .. d + 1 /\ v[i] = b[i + 1]
        BY <1>4, <3>1, <3>2
      <4>2. QED
        BY <1>5, <4>1
    <3>3. CASE ~(i < d + 1 /\ b[i + 1] < pts)
      <4>1. v[i] = IF b[i] < pts THEN pts ELSE b[i]
        BY <1>4, <3>1, <3>3
      <4>2. v[i] >= t
        BY <1>2, <1>9, <3>1, <4>1
      <4>3. m <= i + 1
        <5>1. CASE i = d + 1
          BY <5>1
        <5>2. CASE i < d + 1
          <6>1. i + 1 \in 2 .. d + 1 /\ b[i + 1] \in Int
            BY <1>1, <5>2
          <6>2. b[i + 1] >= t
            BY <1>2, <1>9, <3>3, <5>2, <6>1
          <6>3. QED
            BY <1>5, <6>1, <6>2
        <5>3. QED
          BY <5>1, <5>2
      <4>4. QED
        BY <4>2, <4>3
    <3>4. QED
      BY <3>2, <3>3
  <2>2. CASE m = 2
    <3>1. A = 2 .. d + 1
      BY <1>3, <2>2
    <3>2. B = A
      BY <1>7, <2>1, <2>2, <3>1
    <3>3. QED
      BY <1>6, <1>9, <3>1, <3>2 DEF A, B, v
  <2>3. CASE m # 2
    <3>1. m - 1 \in 2 .. d + 1 /\ m - 1 \notin A
      BY <1>3, <2>3
    <3>2. B = A \cup {m - 1}
      BY <1>3, <1>7, <2>1, <3>1
    <3>3. Cardinality(B) = Cardinality(A) + 1
      BY <1>6, <3>1, <3>2, FS_AddElement
    <3>4. Cardinality(A) < d
      BY <1>6, <3>1
    <3>5. QED
      BY <1>9, <3>3, <3>4 DEF A, B, v
  <2>4. QED
    BY <2>2, <2>3
<1>10. QED
  BY <1>2, <1>8, <1>9

LEMMA LaterFinite ==
  ASSUME NEW s \in Seq(Ticks), NEW t
  PROVE  IsFiniteSet(Later(s, t)) /\ Cardinality(Later(s, t)) \in 0 .. Len(s)
<1>1. IsFiniteSet(1 .. Len(s)) /\ Cardinality(1 .. Len(s)) = Len(s) /\ Len(s) \in Nat
  <2>1. Len(s) \in Nat
    OBVIOUS
  <2>2. QED
    BY <2>1, FS_Interval
<1>2. Later(s, t) \in SUBSET (1 .. Len(s))
  BY DEF Later
<1>3. IsFiniteSet(Later(s, t)) /\ Cardinality(Later(s, t)) <= Len(s)
  BY <1>1, <1>2, FS_Subset
<1>4. QED
  BY <1>1, <1>3, FS_CardinalityType

LEMMA LaterAppended ==
  ASSUME NEW s \in Seq(Ticks), NEW pts \in Ticks, NEW t \in Int
  PROVE  Cardinality(Later(Append(s, pts), t)) =
           IF pts >= t THEN Cardinality(Later(s, t)) + 1 ELSE Cardinality(Later(s, t))
<1> DEFINE n == Len(s)
           v == Append(s, pts)
           A == Later(s, t)
           B == Later(v, t)
<1>1. /\ n \in Nat /\ DOMAIN s = 1 .. n /\ DOMAIN v = 1 .. n + 1
      /\ \A k \in 1 .. n : v[k] = s[k]
      /\ v[n + 1] = pts
  OBVIOUS
<1>2. IsFiniteSet(A)
  BY LaterFinite
<1>3. A = {k \in 1 .. n : s[k] >= t} /\ B = {k \in 1 .. n + 1 : v[k] >= t}
  BY <1>1 DEF Later
<1> HIDE DEF n, v, A, B
<1>4. n + 1 \notin A
  BY <1>1, <1>3
<1>5. CASE pts >= t
  <2>1. B = A \cup {n + 1}
    BY <1>1, <1>3, <1>5
  <2>2. Cardinality(B) = Cardinality(A) + 1
    BY <1>2, <1>4, <2>1, FS_AddElement
  <2>3. QED
    BY <1>5, <2>2 DEF A, B, v
<1>6. CASE ~(pts >= t)
  <2>1. B = A
    BY <1>1, <1>3, <1>6
  <2>2. QED
    BY <1>6, <2>1 DEF A, B, v
<1>7. QED
  BY <1>5, <1>6

(* The PTS up to a time are those that are not after it.                   *)
LEMMA UpToCount ==
  ASSUME NEW s \in Seq(Ticks), NEW t \in Int
  PROVE  Cardinality(UpTo(s, Len(s), t)) = Len(s) - Cardinality(Later(s, t + 1))
<1> DEFINE n == Len(s)
           S == 1 .. n
           A == UpTo(s, n, t)
           B == Later(s, t + 1)
<1>1. n \in Nat /\ DOMAIN s = 1 .. n
  OBVIOUS
<1>2. \A j \in 1 .. n : s[j] \in Int
  <2>1. \A j \in 1 .. n : s[j] \in Ticks
    BY <1>1
  <2>2. Ticks \subseteq Int
    BY TimesAreIntegers
  <2>3. QED
    BY <2>1, <2>2
<1>3. B \subseteq S /\ A = S \ B
  BY <1>1, <1>2 DEF Later, UpTo
<1>4. IsFiniteSet(S) /\ Cardinality(S) = n
  BY <1>1, FS_Interval
<1> HIDE DEF n, A, B, S
<1>5. S \cap B = B
  BY <1>3
<1>6. Cardinality(S \ B) = Cardinality(S) - Cardinality(S \cap B)
  BY <1>4, FS_Difference
<1>7. Cardinality(A) = n - Cardinality(B)
  BY <1>3, <1>4, <1>5, <1>6
<1>8. QED
  BY <1>7 DEF n, A, B

-----------------------------------------------------------------------------
(* TypeOK and Sorted are inductive together: that a PTS finds its slot in  *)
(* one pass needs the order of the buffer before it. DtsNotAfterPts needs  *)
(* both of the step that appends to the history.                           *)
Inv == TypeOK /\ Sorted /\ DtsNotAfterPts

LEMMA InitInv == Init => Inv
<1> SUFFICES ASSUME Init PROVE Inv
  OBVIOUS
<1>1. delay \in Nat /\ delay \in 0 .. MaxDelay
  BY DelayAssumption DEF Init
<1>2. buffer \in [1 .. delay + 1 -> Times] /\ \A i \in 1 .. delay + 1 : buffer[i] = NoTime
  BY TimesAreIntegers DEF Init, EmptyBuffer
<1>3. TypeOK
  BY <1>1, <1>2 DEF Init, TypeOK
<1>4. Sorted
  BY <1>2, TimesAreIntegers DEF Sorted
<1>5. DtsNotAfterPts
  BY DEF Init, DtsNotAfterPts
<1>6. QED
  BY <1>3, <1>4, <1>5 DEF Inv

LEMMA NextInv == Inv /\ [Next]_vars => Inv'
<1> SUFFICES ASSUME Inv, [Next]_vars PROVE Inv'
  OBVIOUS
<1>1. ASSUME NEW pts \in Ticks, DecodeFrame(pts) PROVE Inv'
  <2>1. delay \in Nat /\ delay' = delay
    BY <1>1, DelayAssumption DEF Inv, TypeOK, DecodeFrame
  <2>2. buffer \in [1 .. delay + 1 -> Times] /\ InOrder(buffer, delay)
    BY DEF Inv, TypeOK, Sorted, InOrder
  <2>3. Dts(buffer, pts) \in Times /\ Dts(buffer, pts) <= pts
    BY <2>1, <2>2, DtsAtMostPts
  <2>4. buffer' \in [1 .. delay + 1 -> Times]
    BY <1>1, <2>1, <2>2, LandPtsType DEF DecodeFrame
  <2>5. TypeOK'
    BY <1>1, <2>1, <2>3, <2>4 DEF Inv, TypeOK, DecodeFrame
  <2>6. InOrder(buffer', delay)
    BY <1>1, <2>1, <2>2, LandPtsInOrder DEF DecodeFrame
  <2>7. Sorted'
    BY <2>1, <2>6 DEF Sorted, InOrder
  <2>8. DtsNotAfterPts'
    BY <1>1, <2>3 DEF Inv, TypeOK, DtsNotAfterPts, DecodeFrame
  <2>9. QED
    BY <2>5, <2>7, <2>8 DEF Inv
<1>2. CASE UNCHANGED vars
  BY <1>2 DEF Inv, TypeOK, Sorted, DtsNotAfterPts, vars
<1>3. QED
  BY <1>1, <1>2 DEF Next

(* The types of the buffer and its history, of any depth it may have.      *)
THEOREM ReorderTypeCorrect == Spec => []TypeOK
<1>1. Inv => TypeOK
  BY DEF Inv
<1>2. QED
  BY InitInv, NextInv, <1>1, PTL DEF Spec

(* decode_dts restores the order of the buffer with one pass of swaps,     *)
(* whatever the PTS and the order frames come in.                          *)
THEOREM BufferSorted == Spec => []Sorted
<1>1. Inv => Sorted
  BY DEF Inv
<1>2. QED
  BY InitInv, NextInv, <1>1, PTL DEF Spec

(* decode_dts never answers a DTS after the frame's PTS, even for a stream *)
(* that breaks the delay it declared.                                      *)
THEOREM DtsNeverAfterPts == Spec => []DtsNotAfterPts
<1>1. Inv => DtsNotAfterPts
  BY DEF Inv
<1>2. QED
  BY InitInv, NextInv, <1>1, PTL DEF Spec

-----------------------------------------------------------------------------
(* That the entries behind the first are the largest of what was seen is   *)
(* kept by each landing for each time, those no PTS can be included.       *)
HoldsLargest ==
  \A t \in Int :
    MinTick <= t =>
      Cardinality(From(buffer, delay, t)) = FewerOf(delay, Cardinality(Later(seen, t)))

LEMMA InitHoldsLargest == Init => HoldsLargest
<1> SUFFICES ASSUME Init, NEW t \in Int, MinTick <= t
             PROVE  Cardinality(From(buffer, delay, t)) = FewerOf(delay, Cardinality(Later(seen, t)))
  BY DEF HoldsLargest
<1>1. delay \in Nat /\ seen = <<>> /\ \A i \in 1 .. delay + 1 : buffer[i] = NoTime
  BY DelayAssumption DEF Init, EmptyBuffer
<1>2. NoTime < t
  BY MaxTickAssumption DEF NoTime, MinTick
<1>3. NoTime \in Int
  BY TimesAreIntegers
<1>4. From(buffer, delay, t) = {} /\ Later(seen, t) = {}
  BY <1>1, <1>2, <1>3 DEF From, Later
<1>5. QED
  BY <1>1, <1>4, FS_EmptySet DEF FewerOf

LEMMA LandingHoldsLargest ==
  ASSUME Inv, HoldsLargest, NEW pts \in Ticks, DecodeFrame(pts)
  PROVE  HoldsLargest'
<1>1. /\ delay \in Nat /\ delay' = delay /\ seen \in Seq(Ticks)
      /\ buffer \in [1 .. delay + 1 -> Times] /\ InOrder(buffer, delay)
  BY DelayAssumption DEF DecodeFrame, Inv, TypeOK, Sorted, InOrder
<1>2. buffer' = LandPts(buffer, pts) /\ seen' = Append(seen, pts)
  BY DEF DecodeFrame
<1>3. ASSUME NEW t \in Int, MinTick <= t
      PROVE  Cardinality(From(buffer', delay', t)) = FewerOf(delay', Cardinality(Later(seen', t)))
  <2> DEFINE a == Cardinality(From(buffer, delay, t))
             c == Cardinality(Later(seen, t))
             a2 == Cardinality(From(buffer', delay', t))
             c2 == Cardinality(Later(seen', t))
  <2>1. a = FewerOf(delay, c)
    BY <1>3 DEF HoldsLargest
  <2>2. a2 = IF pts >= t /\ a < delay THEN a + 1 ELSE a
    BY <1>1, <1>2, LandedFrom
  <2>3. c2 = IF pts >= t THEN c + 1 ELSE c
    BY <1>1, <1>2, LaterAppended
  <2>4. c \in Nat
    BY <1>1, LaterFinite
  <2> HIDE DEF a, c, a2, c2
  <2>5. a2 = FewerOf(delay, c2)
    <3>1. CASE pts >= t
      BY <1>1, <2>1, <2>2, <2>3, <2>4, <3>1 DEF FewerOf
    <3>2. CASE ~(pts >= t)
      BY <2>1, <2>2, <2>3, <3>2
    <3>3. QED
      BY <3>1, <3>2
  <2>6. QED
    BY <1>1, <2>5 DEF a2, c2
<1>4. QED
  BY <1>3 DEF HoldsLargest

(* What the first frames of a stream say of its order, more do not undo.   *)
LEMMA EarlierInDecodeOrder ==
  ASSUME Inv, NEW pts \in Ticks, DecodeFrame(pts), InDecodeOrder'
  PROVE  InDecodeOrder
<1> DEFINE n == Len(seen)
<1>1. /\ delay' = delay /\ n \in Nat /\ DOMAIN seen = 1 .. n /\ DOMAIN seen' = 1 .. n + 1
      /\ \A k \in 1 .. n : seen'[k] = seen[k]
  BY DEF DecodeFrame, Inv, TypeOK
<1> HIDE DEF n
<1>2. ASSUME NEW k \in 1 .. n PROVE Cardinality(Over(seen, k)) <= delay
  <2>1. Over(seen', k) = Over(seen, k)
    BY <1>1 DEF Over
  <2>2. \A h \in DOMAIN seen' : Cardinality(Over(seen', h)) <= delay
    BY <1>1 DEF InDecodeOrder, Over
  <2>3. k \in DOMAIN seen'
    BY <1>1
  <2>4. QED
    BY <2>1, <2>2, <2>3
<1>3. QED
  BY <1>1, <1>2 DEF InDecodeOrder, Over

(* What is counted of the buffer and of its history before and after.      *)
LEMMA Counted ==
  ASSUME Inv, HoldsLargest, NEW pts \in Ticks, seen' = Append(seen, pts),
         NEW t \in Int, MinTick <= t,
         NEW a, a = Cardinality(From(buffer, delay, t)),
         NEW c, c = Cardinality(Later(seen, t))
  PROVE  /\ c \in Nat
         /\ a \in Nat /\ a <= delay
         /\ a = delay <=> From(buffer, delay, t) = 2 .. delay + 1
         /\ c < delay => a = c
         /\ c >= delay => a = delay
         /\ Cardinality(Later(seen', t)) = IF pts >= t THEN c + 1 ELSE c
<1>1. delay \in Nat /\ seen \in Seq(Ticks)
  BY DelayAssumption DEF Inv, TypeOK
<1>2. c \in Nat
  BY <1>1, LaterFinite
<1>3. /\ a \in 0 .. delay
      /\ a = delay <=> From(buffer, delay, t) = 2 .. delay + 1
  BY <1>1, FromFinite
<1>4. a = FewerOf(delay, c)
  BY DEF HoldsLargest
<1>5. c < delay => a = c
  BY <1>1, <1>2, <1>4 DEF FewerOf
<1>6. c >= delay => a = delay
  BY <1>1, <1>2, <1>4 DEF FewerOf
<1>7. Cardinality(Later(seen', t)) = IF pts >= t THEN c + 1 ELSE c
  BY <1>1, LaterAppended
<1>8. QED
  BY <1>1, <1>2, <1>3, <1>5, <1>6, <1>7

(* The DTS of a frame that comes in decode order is the next of the PTS:   *)
(* no more than delay of those seen are after it, and more than delay are  *)
(* not before it.                                                          *)
LEMMA NextDts ==
  ASSUME Inv, HoldsLargest, NEW pts \in Ticks, DecodeFrame(pts), InDecodeOrder',
         Len(seen) >= delay,
         NEW D, D = Dts(buffer, pts)
  PROVE  /\ D \in Int
         /\ Cardinality(Later(seen', D + 1)) <= delay
         /\ Cardinality(Later(seen', D)) > delay
<1> DEFINE n == Len(seen)
<1>1. /\ delay \in Nat /\ delay' = delay /\ seen \in Seq(Ticks) /\ n \in Nat /\ n >= delay
      /\ buffer \in [1 .. delay + 1 -> Times] /\ InOrder(buffer, delay)
      /\ seen' = Append(seen, pts) /\ DOMAIN seen = 1 .. n
  BY DelayAssumption DEF DecodeFrame, Inv, TypeOK, Sorted, InOrder
<1>2. pts \in Int /\ MinTick \in Int /\ MinTick <= pts
  BY MaxTickAssumption DEF Ticks, MinTick
<1>3. \A i \in 1 .. delay + 1 : buffer[i] \in Int
  BY <1>1, TimesAreIntegers
<1>4. D = IF 1 < delay + 1 /\ buffer[2] < pts THEN buffer[2] ELSE pts
  <2>1. 1 \in 1 .. delay + 1
    BY <1>1
  <2>2. LandPts(buffer, pts)[1] = IF 1 < delay + 1 /\ buffer[2] < pts THEN buffer[2] ELSE pts
    BY <1>1, <2>1, LandPtsAt
  <2>3. QED
    BY <2>2 DEF Dts
<1>5. D \in Int /\ D \in Times /\ D <= pts
  BY <1>1, DtsAtMostPts, TimesAreIntegers
<1> HIDE DEF n
<1>6. Cardinality(Later(seen', D + 1)) <= delay
  <2>1. CASE D = pts
    <3> DEFINE k == n + 1
    <3>1. /\ DOMAIN seen' = 1 .. k /\ k \in 1 .. k /\ seen'[k] = pts
          /\ \A j \in 1 .. n : seen'[j] = seen[j]
      BY <1>1 DEF n
    <3>2. \A j \in 1 .. n : seen'[j] \in Int
      <4>1. \A j \in 1 .. n : seen[j] \in Ticks
        BY <1>1
      <4>2. Ticks \subseteq Int
        BY TimesAreIntegers
      <4>3. QED
        BY <3>1, <4>1, <4>2
    <3>3. Later(seen', pts + 1) = Over(seen', k)
      BY <1>1, <1>2, <3>1, <3>2 DEF Later, Over
    <3>4. \A h \in DOMAIN seen' : Cardinality(Over(seen', h)) <= delay
      BY <1>1 DEF InDecodeOrder, Over
    <3>5. QED
      BY <2>1, <3>1, <3>3, <3>4
  <2>2. CASE D # pts
    <3>1. delay >= 1 /\ D = buffer[2] /\ 2 \in 2 .. delay + 1
      BY <1>1, <1>4, <2>2
    <3>2. From(buffer, delay, D + 1) # 2 .. delay + 1
      BY <1>5, <3>1 DEF From
    <3>3. D + 1 \in Int /\ MinTick <= D + 1
      BY <1>2, <1>5, MaxTickAssumption DEF Times, Ticks, NoTime
    <3> DEFINE a == Cardinality(From(buffer, delay, D + 1))
               c == Cardinality(Later(seen, D + 1))
               e == D + 1
               c2 == Cardinality(Later(seen', D + 1))
    <3>4. /\ c \in Nat
          /\ a \in Nat /\ a <= delay
          /\ a # delay
          /\ c >= delay => a = delay
          /\ c2 = IF pts >= e THEN c + 1 ELSE c
      <4>1. e \in Int /\ MinTick <= e
        BY <3>3
      <4>2. From(buffer, delay, e) # 2 .. delay + 1
        BY <3>2
      <4> HIDE DEF e
      <4>3. /\ Cardinality(Later(seen, e)) \in Nat
            /\ Cardinality(From(buffer, delay, e)) \in Nat
            /\ Cardinality(From(buffer, delay, e)) <= delay
            /\ Cardinality(From(buffer, delay, e)) # delay
            /\ Cardinality(Later(seen, e)) >= delay => Cardinality(From(buffer, delay, e)) = delay
            /\ Cardinality(Later(seen', e))
                 = IF pts >= e THEN Cardinality(Later(seen, e)) + 1 ELSE Cardinality(Later(seen, e))
        BY <1>1, <4>1, <4>2, Counted
      <4>4. QED
        BY <4>3 DEF e
    <3> HIDE DEF a, c, e, c2
    <3>5. c2 <= delay
      BY <1>1, <3>4
    <3>6. QED
      BY <3>5 DEF c2
  <2>3. QED
    BY <2>1, <2>2
<1>7. delay >= 1 => MinTick <= buffer[2]
  <2> HAVE delay >= 1
  <2>1. Later(seen, MinTick) = 1 .. n
    <3>1. \A k \in 1 .. n : seen[k] >= MinTick
      BY <1>1, MaxTickAssumption DEF Ticks, MinTick, n
    <3>2. QED
      BY <1>1, <3>1 DEF Later
  <2>2. Cardinality(Later(seen, MinTick)) = n
    BY <1>1, <2>1, FS_Interval
  <2>3. MinTick <= MinTick
    BY <1>2
  <2>4. Cardinality(From(buffer, delay, MinTick)) = delay
    BY <1>1, <1>2, <2>2, <2>3, Counted
  <2>5. From(buffer, delay, MinTick) = 2 .. delay + 1
    BY <1>1, <1>2, <2>3, <2>4, Counted
  <2>6. 2 \in From(buffer, delay, MinTick)
    BY <1>1, <2>5
  <2>7. buffer[2] >= MinTick /\ buffer[2] \in Int
    BY <1>1, <1>3, <2>6 DEF From
  <2>8. QED
    BY <1>2, <2>7
<1>8. MinTick <= D
  BY <1>1, <1>2, <1>3, <1>4, <1>7
<1>9. From(buffer, delay, D) = 2 .. delay + 1
  <2>1. ASSUME NEW i \in 2 .. delay + 1 PROVE buffer[i] >= D
    <3>1. delay >= 1 /\ 2 \in 1 .. delay + 1 /\ i \in 1 .. delay + 1 /\ 2 <= i
      BY <1>1
    <3>2. buffer[2] <= buffer[i]
      BY <1>1, <3>1 DEF InOrder
    <3>3. D <= buffer[2]
      BY <1>1, <1>2, <1>3, <1>4, <3>1
    <3>4. QED
      BY <1>3, <1>5, <3>1, <3>2, <3>3
  <2>2. QED
    BY <2>1 DEF From
<1>10. Cardinality(Later(seen', D)) > delay
  <2> DEFINE a == Cardinality(From(buffer, delay, D))
             c == Cardinality(Later(seen, D))
             c2 == Cardinality(Later(seen', D))
  <2>1. /\ c \in Nat
        /\ a = delay
        /\ c < delay => a = c
        /\ c2 = IF pts >= D THEN c + 1 ELSE c
    BY <1>1, <1>5, <1>8, <1>9, Counted
  <2> HIDE DEF a, c, c2
  <2>2. c2 > delay
    BY <1>1, <1>2, <1>5, <2>1
  <2>3. QED
    BY <2>2 DEF c2
<1>11. QED
  BY <1>5, <1>6, <1>10

LEMMA DtsStayInOrder ==
  ASSUME Inv, HoldsLargest, DtsIsPtsInOrder, NEW pts \in Ticks, DecodeFrame(pts)
  PROVE  DtsIsPtsInOrder'
<1> SUFFICES ASSUME InDecodeOrder', NEW k \in delay' + 1 .. Len(dts')
             PROVE  /\ Cardinality(UpTo(seen', k, dts'[k])) >= k - delay'
                    /\ Cardinality(UpTo(seen', k, dts'[k] - 1)) < k - delay'
  BY DEF DtsIsPtsInOrder, Shown, UpTo
<1> DEFINE n == Len(seen)
           D == Dts(buffer, pts)
<1>1. /\ delay \in Nat /\ delay' = delay /\ n \in Nat /\ Len(dts) = n
      /\ seen \in Seq(Ticks) /\ seen' \in Seq(Ticks) /\ Len(seen') = n + 1
      /\ \A j \in 1 .. n : seen'[j] = seen[j]
  BY DelayAssumption DEF DecodeFrame, Inv, TypeOK
<1>2. /\ Len(dts') = n + 1 /\ dts'[n + 1] = D
      /\ \A j \in 1 .. n : dts'[j] = dts[j]
  BY <1>1 DEF DecodeFrame, Inv, TypeOK
<1>3. InDecodeOrder
  BY EarlierInDecodeOrder
<1>4. n >= delay => /\ D \in Int
                    /\ Cardinality(Later(seen', D + 1)) <= delay
                    /\ Cardinality(Later(seen', D)) > delay
  BY NextDts
<1> HIDE DEF n, D
<1>5. k \in delay + 1 .. n + 1
  BY <1>1, <1>2
<1>6. CASE k \in delay + 1 .. n
  <2>1. k \in 1 .. n /\ dts'[k] = dts[k] /\ \A j \in 1 .. k : seen'[j] = seen[j]
    BY <1>1, <1>2, <1>6
  <2>2. \A t : UpTo(seen', k, t) = UpTo(seen, k, t)
    BY <2>1 DEF UpTo
  <2>3. /\ Cardinality(UpTo(seen, k, dts[k])) >= k - delay
        /\ Cardinality(UpTo(seen, k, dts[k] - 1)) < k - delay
    BY <1>1, <1>3, <1>6 DEF DtsIsPtsInOrder, Shown, UpTo
  <2>4. QED
    BY <1>1, <2>1, <2>2, <2>3
<1>7. CASE k = n + 1
  <2>1. /\ D \in Int
        /\ Cardinality(Later(seen', D + 1)) <= delay
        /\ Cardinality(Later(seen', D)) > delay
    BY <1>1, <1>4, <1>5, <1>7
  <2>2. /\ Cardinality(Later(seen', D + 1)) \in Nat
        /\ Cardinality(Later(seen', D)) \in Nat
    BY <1>1, LaterFinite
  <2>3. Cardinality(UpTo(seen', k, D)) = n + 1 - Cardinality(Later(seen', D + 1))
    <3>1. Cardinality(UpTo(seen', Len(seen'), D)) = Len(seen') - Cardinality(Later(seen', D + 1))
      BY <1>1, <2>1, UpToCount
    <3>2. k = Len(seen')
      BY <1>1, <1>7
    <3>3. QED
      BY <1>1, <2>2, <3>1, <3>2
  <2>4. Cardinality(UpTo(seen', k, D - 1)) = n + 1 - Cardinality(Later(seen', D))
    <3> DEFINE e == D - 1
    <3>1. e \in Int /\ e + 1 = D
      BY <2>1
    <3> HIDE DEF e
    <3>2. Cardinality(UpTo(seen', Len(seen'), e)) = Len(seen') - Cardinality(Later(seen', e + 1))
      BY <1>1, <3>1, UpToCount
    <3>3. k = Len(seen')
      BY <1>1, <1>7
    <3>4. Cardinality(UpTo(seen', k, e)) = n + 1 - Cardinality(Later(seen', D))
      BY <1>1, <2>2, <3>1, <3>2, <3>3
    <3>5. QED
      BY <3>4 DEF e
  <2>5. /\ Cardinality(UpTo(seen', k, D)) >= k - delay
        /\ Cardinality(UpTo(seen', k, D - 1)) < k - delay
    BY <1>1, <1>7, <2>1, <2>2, <2>3, <2>4
  <2>6. QED
    BY <1>1, <1>2, <1>7, <2>5
<1>8. QED
  BY <1>5, <1>6, <1>7, <1>1

FullInv == Inv /\ HoldsLargest /\ DtsIsPtsInOrder

LEMMA ReorderInvariant == Spec => []FullInv
<1>1. Init => FullInv
  <2>1. Init => DtsIsPtsInOrder
    BY DelayAssumption DEF Init, DtsIsPtsInOrder
  <2>2. QED
    BY <2>1, InitInv, InitHoldsLargest DEF FullInv
<1>2. FullInv /\ [Next]_vars => FullInv'
  <2> SUFFICES ASSUME FullInv, [Next]_vars PROVE FullInv'
    OBVIOUS
  <2>1. Inv'
    BY NextInv DEF FullInv
  <2>2. ASSUME NEW pts \in Ticks, DecodeFrame(pts) PROVE FullInv'
    BY <2>1, <2>2, LandingHoldsLargest, DtsStayInOrder DEF FullInv
  <2>3. CASE UNCHANGED vars
    BY <2>1, <2>3 DEF FullInv, HoldsLargest, DtsIsPtsInOrder, InDecodeOrder, Shown, vars
  <2>4. QED
    BY <2>2, <2>3 DEF Next
<1>3. QED
  BY <1>1, <1>2, PTL DEF Spec

(* Behind the DTS it last gave out the buffer of decode_dts holds the      *)
(* largest PTS of all it was given, as many as it is deep, whatever order  *)
(* they came in.                                                           *)
THEOREM BufferHoldsLargest == Spec => []TailHoldsLargest
<1>1. FullInv => TailHoldsLargest
  <2>1. \A t \in Ticks : t \in Int /\ MinTick <= t
    BY MaxTickAssumption DEF Ticks, MinTick
  <2>2. QED
    BY <2>1 DEF FullInv, HoldsLargest, TailHoldsLargest, From, Later
<1>2. QED
  BY <1>1, ReorderInvariant, PTL

(* Of a stream that keeps to its decode_delay, the DTS from the first full *)
(* buffer on are the PTS in order: none is skipped, none comes twice.      *)
THEOREM DtsArePtsInOrder == Spec => []DtsIsPtsInOrder
<1>1. FullInv => DtsIsPtsInOrder
  BY DEF FullInv
<1>2. QED
  BY <1>1, ReorderInvariant, PTL
=============================================================================
