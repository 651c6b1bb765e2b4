----------------------------- MODULE MuxedPipe -----------------------------
(***************************************************************************)
(* A Muxer and a demuxer at the two ends of a pipe.  The demuxer takes the *)
(* wire a unit at a time, each once the pipe has brought all of it: that   *)
(* PushDemuxer reads so, however the bytes come, is what NutReading says   *)
(* of it.  A writer that has gone leaves what it had not passed on to be   *)
(* passed on, and then the end of the input.                               *)
(***************************************************************************)
EXTENDS Muxer

CONSTANT Chunks   (* How many bytes the writer passes on of its own accord.*)

ASSUME ChunksAssumption == Chunks \subseteq Nat \ {0}

(* A packet's body ends with its checksum, whatever it says.               *)
ASSUME BodiesAssumption ==
  /\ ChecksumLen <= FieldsLen
  /\ \A o \in Openings : \A i \in DOMAIN o.streams : ChecksumLen <= o.streams[i].header

VARIABLES
  closed,   (* The muxer is gone.                                          *)
  place,    (* Where in the wire the demuxer is.                           *)
  ctx,      (* What it has learnt.                                         *)
  stage,    (* "reading", "ended", or the error that ended it.             *)
  frames    (* The frames it has handed on.                                *)

reader == <<place, ctx, stage, frames>>
vars   == <<muxer, closed, reader>>

Init ==
  /\ MuxerInit
  /\ closed = FALSE
  /\ place = 0
  /\ ctx = NewContext
  /\ stage = "reading"
  /\ frames = <<>>

Write == ~closed /\ MuxerStep /\ UNCHANGED <<closed, reader>>

Close ==
  /\ ~closed
  /\ closed' = TRUE
  /\ UNCHANGED <<muxer, reader>>

Pass == \E n \in Chunks : Spill(n) /\ UNCHANGED <<closed, reader>>

(* Whoever drops the writer has it pass on what is left.                   *)
Drop == closed /\ sent < wire.end /\ Spill(wire.end - sent) /\ UNCHANGED <<closed, reader>>

-----------------------------------------------------------------------------
Here == UnitAt(wire, place)

ReadIdentifier ==
  /\ stage = "reading"
  /\ place = 0
  /\ sent >= FileIdLen
  /\ place' = FileIdLen
  /\ UNCHANGED <<muxer, closed, ctx, stage, frames>>

UnitArrived == stage = "reading" /\ place > 0 /\ place < sent /\ place + WidthOf(Here) <= sent

Stops(what) == stage' = what /\ UNCHANGED <<muxer, closed, place, ctx, frames>>

ReadPacket ==
  /\ UnitArrived
  /\ Here.kind # "frame"
  /\ IF LengthRefused(Here) \/ (~SteppedOver(Here) /\ BodyRefused(ctx, Here))
       THEN Stops("refused")
     ELSE IF BodyPanics(ctx, Here) THEN Stops("panic")
     ELSE /\ ctx' = IF SteppedOver(Here) THEN ctx ELSE PacketRead(ctx, Here)
          /\ place' = place + WidthOf(Here)
          /\ UNCHANGED <<muxer, closed, stage, frames>>

(* The headers are closed by the syncpoint before the first frame.         *)
ReadFrame ==
  /\ UnitArrived
  /\ Here.kind = "frame"
  /\ IF FramePanics(ctx, Here, Here.head) THEN Stops("panic")
     ELSE IF FrameRefused(ctx, Here, Here.head, MaxFrame) THEN Stops("refused")
     ELSE /\ ctx' = FrameRead(HeadersClosed(ctx), Here)
          /\ place' = place + WidthOf(Here)
          /\ frames' = Append(frames,
               [stream |-> Here.stream, pts |-> FramePts(ctx, Here), key |-> Here.key,
                from |-> place + Here.head, size |-> Here.size])
          /\ UNCHANGED <<muxer, closed, stage>>

(* A mutation: the end of the input is its end wherever it comes.          *)
EndsWithin(at) == at = 0
EndsInside(at) == at = 0 \/ at < sent

ReadEnd ==
  /\ stage = "reading"
  /\ closed
  /\ sent = wire.end
  /\ IF place = 0 THEN sent < FileIdLen ELSE place = sent \/ ~UnitArrived
  /\ stage' = IF EndsInside(place) THEN "truncated" ELSE "ended"
  /\ UNCHANGED <<muxer, closed, place, ctx, frames>>

Read == ReadIdentifier \/ ReadPacket \/ ReadFrame \/ ReadEnd

(* The reader has no more to do: ended, or stopped by an error.            *)
Over == stage # "reading" /\ closed /\ sent = wire.end /\ UNCHANGED vars

Next == Write \/ Close \/ Pass \/ Drop \/ Read \/ Over

(* The demuxer reads what has come, and a writer that has gone passes on   *)
(* what it holds. No one has to write, flush or go.                        *)
Spec == Init /\ [][Next]_vars /\ WF_vars(Read) /\ WF_vars(Drop)

-----------------------------------------------------------------------------
(* A demuxer hands on the frames a muxer was handed, in their order: the   *)
(* streams, PTS, keyframe flags and bytes that went in. Also where its     *)
(* clocks are wrong, because a frame never depends on how far a reader got.*)
FramesAsWritten ==
  /\ Len(frames) <= Len(written)
  /\ \A i \in DOMAIN frames : frames[i] = written[i]

(* A muxer writes nothing its own demuxer refuses, as long as the times are*)
(* ones a syncpoint can say in every time base of the wire.                *)
Sayable(pts, of) ==
  /\ FitsSyncpoint(pts)
  /\ \A k \in DOMAIN timeBases :
       ~RescalePanics(pts, of, timeBases[k]) /\ ~RescaleRefused(pts, of, timeBases[k])

WithinLimits ==
  /\ Len(streams) + Len(annotations) <= MaxStreams
  /\ FieldsLen <= MaxHeader
  /\ \A i \in DOMAIN written : written[i].size <= MaxFrame
  /\ \A i \in DOMAIN streams : streams[i].header <= MaxHeader
  /\ \A i \in DOMAIN marks :
       Sayable(marks[i].pts, streams[Media(marks[i].stream)].base)

NothingRefused == WithinLimits => stage \notin {"refused", "panic"}

(* A reader knows each stream's frame rate by the first frame of any: one  *)
(* that learnt it later has already handed out packets without it.         *)
RatesKnownAtFrames ==
  frames # <<>> => \A i \in DOMAIN streams : Header(ctx, i).rate = streams[i].rate

(* Opening a muxer is enough for the other side to know every stream,      *)
(* before there is a frame and with nothing more flushed.                  *)
HeadersArrive ==
  opened = "yes" /\ WithinLimits ~> HeadersComplete(ctx) \/ ~WithinLimits

(* Once the muxer is gone, or none came of it, the other side has all that *)
(* was written, and the end of the input after it: as a cut if a writer    *)
(* failed inside a unit, whose frame nobody was told was written, and only *)
(* then.                                                                   *)
EverythingArrives ==
  closed ~>
    \/ /\ frames = written
       /\ stage = (IF Torn \/ wire.end < FileIdLen THEN "truncated" ELSE "ended")
    \/ ~WithinLimits
=============================================================================
