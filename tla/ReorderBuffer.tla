--------------------------- MODULE ReorderBuffer ---------------------------
(***************************************************************************)
(* The reorder buffer one stream's DTS falls out of (decode_dts of         *)
(* src/demux.rs), fed one frame after another.  `seen' and `dts' are its   *)
(* history: the PTS of every frame, and the DTS each was answered.         *)
(***************************************************************************)
EXTENDS Timestamps, FiniteSets

CONSTANTS
  MaxDelay,    (* MAX_DECODE_DELAY: the deepest a stream may reorder.      *)
  MaxFrames    (* How many frames a stream has: a bound for model checking.*)

ASSUME DelayAssumption == MaxDelay \in Nat /\ MaxFrames \in Nat

VARIABLES
  delay,       (* decode_delay of the stream's header.                     *)
  buffer,      (* Clock::pts_buffer                                        *)
  seen,
  dts

vars == <<delay, buffer, seen, dts>>

Init ==
  /\ delay \in 0 .. MaxDelay
  /\ buffer = EmptyBuffer(delay)
  /\ seen = <<>>
  /\ dts = <<>>

(* The PTS lands, and the smallest entry left is the frame's DTS.          *)
DecodeFrame(pts) ==
  /\ Len(seen) < MaxFrames
  /\ buffer' = LandPts(buffer, pts)
  /\ seen' = Append(seen, pts)
  /\ dts' = Append(dts, Dts(buffer, pts))
  /\ UNCHANGED delay

Next == \E pts \in Ticks : DecodeFrame(pts)

Spec == Init /\ [][Next]_vars

-----------------------------------------------------------------------------
TypeOK ==
  /\ delay \in 0 .. MaxDelay
  /\ buffer \in [1 .. delay + 1 -> Times]
  /\ seen \in Seq(Ticks)
  /\ dts \in Seq(Times)
  /\ Len(dts) = Len(seen)

(* One pass of swaps puts the buffer back in order, wherever a PTS lands.  *)
Sorted == \A i, j \in 1 .. delay + 1 : i <= j => buffer[i] <= buffer[j]

(* No frame is to be decoded after it is shown, in whatever order the      *)
(* stream's frames come.                                                   *)
DtsNotAfterPts == \A k \in DOMAIN dts : dts[k] <= seen[k]

(* Over the spent DTS the buffer holds the largest of all PTS seen, as     *)
(* many as the delay is, seeds aside.                                      *)
FewerOf(m, n) == IF m <= n THEN m ELSE n

TailHoldsLargest ==
  \A t \in Ticks :
    Cardinality({i \in 2 .. delay + 1 : buffer[i] >= t}) =
      FewerOf(delay, Cardinality({k \in DOMAIN seen : seen[k] >= t}))

(* An encoder that declared this delay holds to it: a frame comes after at *)
(* most that many frames which are shown after it.                         *)
InDecodeOrder ==
  \A k \in DOMAIN seen : Cardinality({j \in 1 .. k - 1 : seen[j] > seen[k]}) <= delay

(* Of a stream in decode order, there is a DTS for every frame after the   *)
(* first delay ones, and they are its PTS put in order: each frame takes   *)
(* the next smallest of those seen.                                        *)
Shown(k, t) == {j \in 1 .. k : seen[j] <= t}

DtsIsPtsInOrder ==
  InDecodeOrder =>
    \A k \in delay + 1 .. Len(dts) :
      /\ Cardinality(Shown(k, dts[k])) >= k - delay
      /\ Cardinality(Shown(k, dts[k] - 1)) < k - delay
=============================================================================
