--------------------------- MODULE AnnotatedPipe ---------------------------
(***************************************************************************)
(* A Muxer with an annotation stream and a Demuxer that asks for it, at    *)
(* the two ends of a pipe, as src/lib.rs has them: rows are written just   *)
(* before the frame they belong to, those of no frame once and last, and a *)
(* reader takes a frame's rows when it has the frame.                      *)
(***************************************************************************)
EXTENDS Muxer

LOCAL INSTANCE SequencesExt

CONSTANTS
  Sources,       (* What may be muxed: what a muxer is opened with, what   *)
                 (* its stream's header says, its frames' size and what    *)
                 (* they say.                                              *)
  RowsFor(_),    (* The rows a caller may have beside the frame at a PTS.  *)
  Trailings,     (* The rows it may have beside none.                      *)
  MaxBuffered, MaxAnnotation, MaxUnclaimed

VARIABLES
  (* The writing side, beside the muxer.                                   *)
  source,
  contents,      (* What each of the frames written says, and whether it   *)
                 (* was written as rows of no frame.                       *)
  closed,
  (* The reading side: see Demuxer.                                        *)
  place, stage, ctx, ceilings, hand, log,
  call, asked, opening, handled, readerOpened, readAnswer, failures,
  stream, firstPacket, stripAdts, unclaimed, trailing, out, claimed, trailed

(* What has come of the wire, and what is in it.                           *)
Come == [nut |-> TRUE, unit |-> wire.unit, end |-> sent]

AnnotationHeader == [media |-> "data", tag |-> "FRWD", config |-> <<>>]

SaidAt(p) ==
  LET u == wire.unit[p]
  IN  CASE u.kind = "stream" -> IF u.stream = 1 THEN source.header ELSE AnnotationHeader
        [] u.kind = "frame"  ->
             contents[CHOOSE i \in DOMAIN written : written[i].from = p + u.head]
        [] OTHER             -> [nothing |-> TRUE]

D == INSTANCE Demuxer
       WITH Inputs <- {}, MaxFailures <- 0, wire <- Come,
            says <- [p \in DOMAIN wire.unit |-> SaidAt(p)],
            opened <- readerOpened, answer <- readAnswer

writer == <<muxer, source, contents, closed>>
reader == <<place, stage, ctx, ceilings, hand, log, call, asked, opening, handled,
            readerOpened, readAnswer, failures, stream, firstPacket, stripAdts,
            unclaimed, trailing, out, claimed, trailed>>
vars   == <<writer, reader>>

Init ==
  /\ MuxerInit
  /\ source \in Sources
  /\ contents = <<>>
  /\ closed = FALSE
  /\ place = 0
  /\ stage = "opening"
  /\ ctx = NewContext
  /\ ceilings = <<>>
  /\ hand = <<>>
  /\ log = <<>>
  /\ D!DemuxerInit

-----------------------------------------------------------------------------
(* The writing side.                                                       *)

Of(id) == SelectSeq(written, LAMBDA f : f.stream = id)

(* The rows of no frame have been written, and there is no more to write;  *)
(* rows have been written whose frame is still to come.                    *)
OfNone(i) == written[i].stream = 2 /\ contents[i].last
Finished  == written # <<>> /\ OfNone(Len(written))

RowsPending == written # <<>> /\ written[Len(written)].stream = 2 /\ ~Finished

Says(said) ==
  contents' = IF Len(written') > Len(written) THEN Append(contents, said) ELSE contents

OpenMuxer == Open(source.opening) /\ UNCHANGED contents

WriteRowsFor(pts, lines) ==
  /\ ~RowsPending
  /\ ~Finished
  /\ pts \notin {written[i].pts : i \in DOMAIN written}
  /\ WriteRows(pts, 1)
  /\ Says([utf8 |-> TRUE, text |-> lines, last |-> FALSE])

WriteTheFrame(pts) ==
  /\ ~Finished
  /\ IF RowsPending THEN pts = written[Len(written)].pts
                    ELSE pts \notin {written[i].pts : i \in DOMAIN written}
  /\ IF streams[1].raw THEN WriteFrame(1, pts, source.size)
                       ELSE WriteCoded(1, pts, TRUE, source.size)
  /\ Says(source.frame)

WriteTrailing(rows) ==
  /\ Of(1) # <<>>
  /\ ~RowsPending
  /\ ~Finished
  /\ WriteRows(Of(1)[Len(Of(1))].pts, 1)
  /\ Says([utf8 |-> TRUE, text |-> <<D!Record(rows)>>, last |-> TRUE])

Write ==
  /\ ~closed
  /\ \/ OpenMuxer
     \/ opened = "yes" /\ \E pts \in Stamps :
          WriteTheFrame(pts) \/ \E lines \in RowsFor(pts) : WriteRowsFor(pts, lines)
     \/ opened = "yes" /\ \E rows \in Trailings : WriteTrailing(rows)
     \/ Flush /\ UNCHANGED contents
  /\ UNCHANGED <<source, closed, reader>>

Close ==
  /\ ~closed
  /\ ~RowsPending
  /\ closed' = TRUE
  /\ UNCHANGED <<muxer, source, contents, reader>>

Drop ==
  /\ closed
  /\ sent < wire.end
  /\ Spill(wire.end - sent)
  /\ UNCHANGED <<source, contents, closed, reader>>

-----------------------------------------------------------------------------
(* The reading side. The input ends where the writer has gone and all that *)
(* it wrote has come: between two units, or where there never was one.     *)

OpenReader ==
  /\ UNCHANGED writer
  /\ D!CallOpen(TRUE)

Pump ==
  /\ UNCHANGED writer
  /\ D!Pump
  /\ stage' = "truncated" => closed /\ wire.end = 0
  /\ stage = "reading" /\ stage' = "ended" => closed /\ place = wire.end

Work == UNCHANGED writer /\ D!Works

(* A packet's rows are taken when there is the packet.                     *)
RowsAtHand == readAnswer = "packet" /\ out[Len(out)].packet.pts \in DOMAIN unclaimed

TakeRows ==
  /\ UNCHANGED writer
  /\ RowsAtHand
  /\ D!TakeRows(out[Len(out)].packet.pts)

ReadOn ==
  /\ UNCHANGED writer
  /\ ~RowsAtHand
  /\ readAnswer # "end"
  /\ D!CallRead

TakeTrailing == UNCHANGED writer /\ readAnswer = "end" /\ D!TakeTrailing

Read == OpenReader \/ Pump \/ Work \/ TakeRows \/ ReadOn \/ TakeTrailing

Next == Write \/ Close \/ Drop \/ Read

(* A caller of the Demuxer reads on to the end, and a writer that has gone *)
(* passes on what it holds. Nobody has to write, flush or go.              *)
Spec == Init /\ [][Next]_vars /\ WF_vars(Read) /\ WF_vars(Drop)

-----------------------------------------------------------------------------
(* The rows that were written beside the frame at a PTS, and beside none.  *)
Beside(pts) ==
  FlattenSeq([i \in DOMAIN contents |->
    IF written[i].stream = 2 /\ written[i].pts = pts /\ ~OfNone(i)
      THEN D!Solid(contents[i].text) ELSE <<>>])

BesideNone == IF Finished THEN contents[Len(contents)].text[1].rows ELSE <<>>

Had(pts) == D!At(claimed, pts) \o D!At(unclaimed, pts)

(* Whoever is handed a packet has the rows written beside it, all of them  *)
(* and no others, and the packets are those that were written.             *)
RowsWithTheirFrame ==
  \A i \in DOMAIN out :
    /\ out[i].packet.pts = Of(1)[i].pts
    /\ Had(out[i].packet.pts) = Beside(out[i].packet.pts)

(* What src/lib.rs says of the record of the rows beside none: that it is  *)
(* told from a frame's rows.                                               *)
ToldApart == trailed \o trailing \in {<<>>, BesideNone}

(* A reader has opened its stream once a frame of it has been flushed, the *)
(* first packet of aac and the rows in front of it read.                   *)
OpensOnFlush == Of(1) # <<>> /\ sent = wire.end ~> readerOpened = "yes"

(* All of it comes back, and the end.                                      *)
AllComesBack ==
  closed /\ opened = "yes" ~>
    /\ readAnswer = "end"
    /\ Len(out) = Len(Of(1))
    /\ trailed = BesideNone
=============================================================================
