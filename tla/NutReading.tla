----------------------------- MODULE NutReading -----------------------------
(***************************************************************************)
(* What reading a NUT stream means, whatever the pieces its bytes arrive   *)
(* in: the stream is a row of units, each is read whole where the one      *)
(* before it ended, and the events a caller gets are what the units say.   *)
(* There is no buffer here, no byte waits for another, and no answer asks  *)
(* for more.  PushDemuxer implements it.                                   *)
(***************************************************************************)
EXTENDS NutContext

CONSTANTS Wires, FileIdLen, MaxBuffered, CeilingChoices

VARIABLES
  wire,       (* The stream.                                               *)
  place,      (* Where in it the reading is.                               *)
  stage,      (* "opening", "reading", "ended", or the error that ended it.*)
  ctx,        (* What the headers and clocks say so far.                   *)
  ceilings,   (* What the caller allows each stream.                       *)
  hand,       (* What is begun and not ended: none, a Skipped, or the event*)
              (* of a frame.                                               *)
  log         (* The events so far.                                        *)

vars == <<wire, place, stage, ctx, ceilings, hand, log>>

Unit    == UnitAt(wire, place)
Left    == wire.end - place
Skipped == [kind |-> "Skipped"]

Init ==
  /\ wire \in Wires
  /\ place = 0
  /\ stage = "opening"
  /\ ctx = NewContext
  /\ ceilings = <<>>
  /\ hand = <<>>
  /\ log = <<>>

Open ==
  /\ stage = "opening"
  /\ FileIdLen <= wire.end
  /\ wire.nut
  /\ stage' = "reading"
  /\ place' = FileIdLen
  /\ UNCHANGED <<wire, ctx, ceilings, hand, log>>

(* A unit starts here and all of its head, at least, is on the wire.       *)
AtUnit == stage = "reading" /\ hand = <<>> /\ Left >= Unit.head

ReadPacket ==
  /\ AtUnit
  /\ Unit.kind # "frame"
  /\ Left >= Unit.head + Unit.body
  /\ ~LengthRefused(Unit)
  /\ ~SteppedOver(Unit)
  /\ ~BodyRefused(ctx, Unit)
  /\ ~BodyPanics(ctx, Unit)
  /\ place' = place + Unit.head + Unit.body
  /\ ctx' = PacketRead(ctx, Unit)
  /\ log' = log \o PacketEvent(Unit) \o PendingAfter(ctx, Unit)
  /\ UNCHANGED <<wire, stage, ceilings, hand>>

BeginSkip ==
  /\ AtUnit
  /\ Unit.kind # "frame"
  /\ ~LengthRefused(Unit)
  /\ SteppedOver(Unit)
  /\ place' = place + Unit.head + Unit.body
  /\ hand' = <<Skipped>>
  /\ UNCHANGED <<wire, stage, ctx, ceilings, log>>

(* The headers are over at the first frame there is, if not before.        *)
CloseHeaders ==
  /\ stage = "reading"
  /\ hand = <<>>
  /\ Left > 0
  /\ Unit.kind = "frame"
  /\ HeadersDue(ctx)
  /\ ctx' = HeadersClosed(ctx)
  /\ log' = Append(log, EndOfHeaders)
  /\ UNCHANGED <<wire, place, stage, ceilings, hand>>

(* The whole frame, as its sender had it: what its header elides, and what *)
(* the wire carries after that header.                                     *)
WholeFrame ==
  Elided(ctx, Unit) \o [i \in 1 .. OnWire(ctx, Unit) |-> place + Unit.head + i - 1]

BeginFrame ==
  /\ AtUnit
  /\ Unit.kind = "frame"
  /\ ~HeadersDue(ctx)
  /\ FrameReads(ctx, Unit, Left, Ceiling(ceilings, Unit.stream))
  /\ place' = place + Unit.head + OnWire(ctx, Unit)
  /\ ctx' = FrameRead(ctx, Unit)
  /\ hand' = IF Unit.eor THEN <<Skipped>>
             ELSE <<FrameEvent(Packet(ctx, Unit), WholeFrame)>>
  /\ UNCHANGED <<wire, stage, ceilings, log>>

(* What is in hand ends, where the wire has all of it.                     *)
EndUnit ==
  /\ stage = "reading"
  /\ hand # <<>>
  /\ place <= wire.end
  /\ log' = IF hand[1] = Skipped THEN log ELSE log \o hand
  /\ hand' = <<>>
  /\ UNCHANGED <<wire, place, stage, ctx, ceilings>>

SetStreamLimit(stream, limit) ==
  /\ stage \notin Errors
  /\ ceilings' = WithCeiling(ceilings, stream, limit)
  /\ UNCHANGED <<wire, place, stage, ctx, hand, log>>

-----------------------------------------------------------------------------
(* The sender stops: between two units it is the end of the input.         *)

EndInput ==
  /\ stage = "reading"
  /\ hand = <<>>
  /\ stage' = "ended"
  /\ ctx' = HeadersClosed(ctx)
  /\ log' = Append(log, IF HeadersDue(ctx) THEN EndOfHeaders ELSE EndOfInput)
  /\ UNCHANGED <<wire, place, ceilings, hand>>

LastWord ==
  /\ stage = "ended"
  /\ log[Len(log)] # EndOfInput
  /\ log' = Append(log, EndOfInput)
  /\ UNCHANGED <<wire, place, stage, ctx, ceilings, hand>>

(* Inside the identifier, a unit or what is in hand it is an error.        *)
Truncate ==
  /\ \/ stage = "opening"
     \/ stage = "reading" /\ hand # <<>>
     \/ stage = "reading" /\ Left > 0 /\ Unit.kind # "frame" /\ Unit.head + Unit.body > 1
     \/ stage = "reading" /\ Left > 0 /\ Unit.kind = "frame" /\ Unit.head > 1
  /\ stage' = "truncated"
  /\ UNCHANGED <<wire, place, ctx, ceilings, hand, log>>

(* A reader with little room gives up on what it would have to hold whole. *)
GiveUp ==
  /\ \/ stage = "opening" /\ FileIdLen > MaxBuffered + 1
     \/ /\ stage = "reading"
        /\ hand = <<>>
        /\ Unit.head + (IF Unit.kind = "frame" THEN 0 ELSE Unit.body) > MaxBuffered + 1
  /\ stage' = "overfull"
  /\ UNCHANGED <<wire, place, ctx, ceilings, hand, log>>

RefuseInput == stage = "opening" /\ ~wire.nut /\ UNCHANGED ctx

RefusePacket ==
  /\ AtUnit
  /\ Unit.kind # "frame"
  /\ \/ LengthRefused(Unit) /\ UNCHANGED ctx
     \/ /\ ~SteppedOver(Unit)
        /\ BodyRefused(ctx, Unit)
        /\ ctx' = BodyRefusedLeaves(ctx, Unit)

RefuseFrame ==
  /\ stage = "reading"
  /\ hand = <<>>
  /\ Left > 0
  /\ Unit.kind = "frame"
  /\ FrameRefused(ctx, Unit, Left, Ceiling(ceilings, Unit.stream))
  /\ UNCHANGED ctx

Refuse ==
  /\ RefuseInput \/ RefusePacket \/ RefuseFrame
  /\ stage' = "refused"
  /\ UNCHANGED <<wire, place, ceilings, hand, log>>

Panic ==
  /\ stage = "reading"
  /\ hand = <<>>
  /\ Left > 0
  /\ \/ Unit.kind = "frame" /\ FramePanics(ctx, Unit, Left) /\ UNCHANGED ctx
     \/ Unit.kind # "frame" /\ BodyPanics(ctx, Unit) /\ ctx' = BodyRefusedLeaves(ctx, Unit)
  /\ stage' = "panic"
  /\ UNCHANGED <<wire, place, ceilings, hand, log>>

Next ==
  \/ Open \/ ReadPacket \/ BeginSkip \/ CloseHeaders \/ BeginFrame \/ EndUnit
  \/ \E stream \in 1 .. MaxStreams, limit \in CeilingChoices : SetStreamLimit(stream, limit)
  \/ EndInput \/ LastWord \/ Truncate \/ GiveUp \/ Refuse \/ Panic

Spec == Init /\ [][Next]_vars
=============================================================================
