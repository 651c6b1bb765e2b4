----------------------------- MODULE Timestamps -----------------------------
(***************************************************************************)
(* The arithmetic the demuxer does on timestamps (src/demux.rs): lifting a *)
(* PTS that coded only its low bits, carrying a syncpoint from one time    *)
(* base to another, and the reorder buffer a DTS falls out of.             *)
(*                                                                         *)
(* Integers keep the code's widths, scaled down: an i64 is a member of     *)
(* Ticks, a u64 a member of Words, an i128 a member of WideTicks.          *)
(***************************************************************************)
EXTENDS Integers, Sequences

CONSTANTS
  MaxTick,         (* i64::MAX.                                            *)
  OverflowChecks   (* Whether the build checks integer overflow: a checked *)
                   (* build panics where an unchecked one wraps.           *)

ASSUME MaxTickAssumption == MaxTick \in Nat \ {0}
ASSUME OverflowChecksAssumption == OverflowChecks \in BOOLEAN

MinTick == -MaxTick - 1
Ticks   == MinTick .. MaxTick

MaxWord == 2 * MaxTick + 1
Words   == 0 .. MaxWord

MaxWide   == 2 * (MaxTick + 1) * (MaxTick + 1) - 1
WideTicks == -MaxWide - 1 .. MaxWide

(* Option::None among timestamps: the derived order puts it below Some(t). *)
NoTime == MinTick - 1
Times  == Ticks \cup {NoTime}

(* What two's complement makes of x in the width whose largest value is    *)
(* max.                                                                    *)
Wrapped(x, max) == ((x + max + 1) % (2 * max + 2)) - max - 1

-----------------------------------------------------------------------------
(***************************************************************************)
(* decode_pts: `coded' is the whole PTS offset by span = 1 << msb_pts_shift*)
(* when it reaches span, and the PTS's low bits below that. The low bits   *)
(* are lifted onto `last', the last PTS seen on the stream.                *)
(***************************************************************************)
LiftFrom(span, last) == last - (span - 1) \div 2

(* A mutation: the low bits are lifted onto the last PTS from below only.  *)
LiftedFromBelow(span, last, coded) == ((coded - last) % span) + last

Lifted(span, last, coded) ==
  ((coded - LiftFrom(span, last)) % span) + LiftFrom(span, last)

LiftOverflows(span, last, coded) ==
  \/ LiftFrom(span, last) \notin Ticks
  \/ coded - LiftFrom(span, last) \notin Ticks
  \/ Lifted(span, last, coded) \notin Ticks

CodedPtsRefused(span, coded) == coded >= span /\ coded - span > MaxTick

CodedPtsPanics(span, last, coded) ==
  OverflowChecks /\ coded < span /\ LiftOverflows(span, last, coded)

CodedPts(span, last, coded) ==
  IF coded >= span THEN coded - span
                   ELSE Wrapped(Lifted(span, last, coded), MaxTick)

-----------------------------------------------------------------------------
(***************************************************************************)
(* read_syncpoint: the field is ticks * count + index, read back as signed,*)
(* and the ticks are carried from time base `from' into time base `to',    *)
(* in 128 bits, truncating towards zero. A time base is <<num, den>>.      *)
(***************************************************************************)
SyncTicks(coded, count) == coded \div count
SyncBase(coded, count)  == (coded % count) + 1

TruncDiv(a, b) ==
  LET quotient(m, n) == IF m >= 0 THEN m \div n ELSE -((-m) \div n)
  IN  IF b > 0 THEN quotient(a, b) ELSE quotient(-a, -b)

(* A mutation: the two time bases are swapped.                             *)
ScaleUpSwapped(ticks, from, to) == ticks * to[1] * from[2]

ScaleUp(ticks, from, to) == ticks * from[1] * to[2]
ScaleDown(from, to)      == from[2] * to[1]

RescalePanics(ticks, from, to) ==
  /\ OverflowChecks
  /\ \/ ScaleUp(ticks, from, to) \notin WideTicks
     \/ ScaleDown(from, to) \notin WideTicks

Rescaled(ticks, from, to) ==
  TruncDiv(Wrapped(ScaleUp(ticks, from, to), MaxWide),
           Wrapped(ScaleDown(from, to), MaxWide))

RescaleRefused(ticks, from, to) == Rescaled(ticks, from, to) \notin Ticks

-----------------------------------------------------------------------------
(***************************************************************************)
(* decode_dts: the PTS lands over the smallest entry of the buffer, which  *)
(* is the DTS already spent, and bubbles up past every entry below it. The *)
(* smallest entry left is the frame's DTS.                                 *)
(***************************************************************************)
(* A mutation: it is one entry short.                                      *)
EmptyBufferShort(delay) == [i \in 1 .. delay |-> NoTime]

EmptyBuffer(delay) == [i \in 1 .. delay + 1 |-> NoTime]

(* The PTS bubbles as far as slot i: every entry on the way is below it.   *)
Reaches(buffer, pts, i) == \A j \in 2 .. i : buffer[j] < pts

(* Mutations: the PTS is swapped up once at most; it lands over the largest*)
(* entry.                                                                  *)
LandPtsOneSwap(buffer, pts) ==
  [i \in 1 .. Len(buffer) |->
     IF Len(buffer) = 1 THEN pts
     ELSE IF buffer[2] < pts THEN (IF i = 1 THEN buffer[2] ELSE IF i = 2 THEN pts ELSE buffer[i])
     ELSE IF i = 1 THEN pts ELSE buffer[i]]

LandPtsOverLargest(buffer, pts) ==
  [i \in 1 .. Len(buffer) |->
     IF i < Len(buffer) THEN (IF buffer[i] < pts THEN buffer[i]
                              ELSE IF i = 1 \/ buffer[i - 1] < pts THEN pts ELSE buffer[i - 1])
     ELSE IF i = 1 \/ buffer[i - 1] < pts THEN pts ELSE buffer[i - 1]]

LandPts(buffer, pts) ==
  [i \in 1 .. Len(buffer) |->
     IF i < Len(buffer) /\ Reaches(buffer, pts, i + 1) THEN buffer[i + 1]
     ELSE IF Reaches(buffer, pts, i) THEN pts
     ELSE buffer[i]]

(* Mutations: the largest entry answers; the entry already spent does.     *)
DtsLargest(buffer, pts) == LandPts(buffer, pts)[Len(buffer)]
DtsSpent(buffer, pts)   == buffer[1]

Dts(buffer, pts) == LandPts(buffer, pts)[1]
=============================================================================
