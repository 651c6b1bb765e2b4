------------------------------ MODULE Demuxer ------------------------------
(***************************************************************************)
(* Demuxer of src/read.rs: one media stream, and the annotation stream     *)
(* where a caller asked for it, read off something that blocks.  Beneath   *)
(* it is the reading of a wire that NutReading describes and PushDemuxer   *)
(* implements; it goes on only while a method of the Demuxer runs, and no  *)
(* further than the event that method looks at next.                       *)
(*                                                                         *)
(* Stream 1 here is the media stream, the code's stream 0.                 *)
(***************************************************************************)
EXTENDS NutContext, Adts, Codecs, FiniteSets

CONSTANTS
  Inputs,         (* What is read: a wire, and what its units say.         *)
  FileIdLen, MaxBuffered,
  MaxAnnotation,  (* MAX_ANNOTATION_BYTES                                  *)
  MaxUnclaimed,   (* MAX_UNCLAIMED_ROWS                                    *)
  MaxFailures     (* How often the source fails: a bound for checking.     *)

ASSUME DemuxerAssumption ==
  {FileIdLen, MaxBuffered, MaxAnnotation, MaxUnclaimed, MaxFailures} \subseteq Nat

Seqs == INSTANCE SequencesExt

AnnotationStream == 2

(* A line of an annotation packet's text: a row of JSON, blank, or the     *)
(* record of the rows it has. A row is a number.                           *)
Lines        == [record : BOOLEAN, rows : Seq(Nat)]
Blank        == [record |-> FALSE, rows |-> <<>>]
Row(n)       == [record |-> FALSE, rows |-> <<n>>]
Record(some) == [record |-> TRUE, rows |-> some]

(* A wire's units lie behind the identifier, one behind the other. Each of *)
(* the media stream's frames begins with bytes that say something as an    *)
(* ADTS header, and each of the annotation stream's is lines of text.      *)
Width(u) == u.head + (IF u.kind = "frame" THEN u.size ELSE u.body)

InLine(w) ==
  \A p \in DOMAIN w.unit :
    /\ FileIdLen <= p
    /\ \A q \in DOMAIN w.unit : p < q => p + Width(w.unit[p]) <= q

MediaFrame(u) == u.kind = "frame" /\ u.stream = 1
NoteFrame(u)  == u.kind = "frame" /\ u.stream = AnnotationStream

ASSUME InputsAssumption ==
  \A input \in Inputs :
    /\ IsWire(input.wire)
    /\ InLine(input.wire)
    /\ \A p \in DOMAIN input.wire.unit :
         /\ MediaFrame(input.wire.unit[p]) => input.says[p] \in AdtsHeaders
         /\ NoteFrame(input.wire.unit[p]) => input.says[p].text \in Seq(Lines)

VARIABLES
  wire, place, stage, ctx, ceilings, hand, log,   (* See NutReading.       *)
  says,         (* What is inside the unit that starts somewhere: a stream *)
                (* header's media, tag and config; a packet's ADTS header; *)
                (* an annotation packet's lines.                           *)
  (* The call.                                                             *)
  call,         (* "open", its "first" read ahead, "read", or "none".      *)
  asked,        (* Whether for the annotation stream.                      *)
  opening,      (* The locals of read_headers.                             *)
  handled,      (* How many events it has looked at.                       *)
  opened,       (* "no", "yes", or "failed": there is no Demuxer.          *)
  answer,       (* What the last read answered.                            *)
  failures,
  (* The Demuxer's fields.                                                 *)
  stream, firstPacket, stripAdts, unclaimed, trailing,
  (* What its caller has had of it.                                        *)
  out, claimed, trailed

core    == <<wire, place, stage, ctx, ceilings, hand, log>>
calls   == <<call, handled, opened, answer, failures>>
rows    == <<unclaimed, trailing>>
taken   == <<out, claimed, trailed>>
demuxer == <<calls, asked, opening, stream, firstPacket, stripAdts, rows, taken>>
vars    == <<core, says, demuxer>>

Wires == {input.wire : input \in Inputs}

Core == INSTANCE NutReading WITH CeilingChoices <- {}

DemuxerInit ==
  /\ call = "none"
  /\ asked = FALSE
  /\ opening = [declared |-> 0, headers |-> 0, media |-> <<>>, annotations |-> FALSE]
  /\ handled = 0
  /\ opened = "no"
  /\ answer = "none"
  /\ failures = 0
  /\ stream = <<>>
  /\ firstPacket = <<>>
  /\ stripAdts = FALSE
  /\ unclaimed = <<>>
  /\ trailing = <<>>
  /\ out = <<>>
  /\ claimed = <<>>
  /\ trailed = <<>>

Init ==
  /\ \E input \in Inputs : wire = input.wire /\ says = input.says
  /\ Core!Init
  /\ DemuxerInit

-----------------------------------------------------------------------------
(* pump: the reading goes on as far as the next event, the source fails it *)
(* while it waits for bytes, or it ends in an error of its own.            *)

EventCame ==
  \/ handled < Len(log)
  \/ stage = "ended" /\ log[Len(log)] = EndOfInput

Event == IF handled < Len(log) THEN log[handled + 1] ELSE EndOfInput

Pump ==
  /\ call # "none"
  /\ handled = Len(log)
  /\ Core!Next
  /\ UNCHANGED <<ceilings, says, demuxer>>

(* What a method ends with when it fails. A Demuxer that failed to open is *)
(* none: its caller has neither it nor the reader it was given.            *)
Fails(what) ==
  /\ call' = "none"
  /\ IF call = "read" THEN answer' = what /\ UNCHANGED opened
                      ELSE opened' = "failed" /\ UNCHANGED answer

CoreFails ==
  /\ call # "none"
  /\ handled = Len(log)
  /\ stage \in Errors
  /\ Fails("refused")
  /\ UNCHANGED <<core, says, asked, opening, handled, failures, stream, firstPacket,
                 stripAdts, rows, taken>>

SourceFails ==
  /\ call # "none"
  /\ handled = Len(log)
  /\ stage \in {"opening", "reading"}
  /\ failures < MaxFailures
  /\ failures' = failures + 1
  /\ Fails("failed")
  /\ UNCHANGED <<core, says, asked, opening, handled, stream, firstPacket, stripAdts,
                 rows, taken>>

Looks(method, kind) ==
  /\ call = method
  /\ EventCame
  /\ Event.kind = kind
  /\ handled' = IF handled < Len(log) THEN handled + 1 ELSE handled

(* What the unit said whose reading made this event.                       *)
Started == {p \in DOMAIN wire.unit : p < place}

Just == CHOOSE p \in Started : \A q \in Started : q <= p
Said == says[Just]

-----------------------------------------------------------------------------
(* read_headers                                                            *)

CallOpen(annotated) ==
  /\ call = "none"
  /\ opened = "no"
  /\ call' = "open"
  /\ asked' = annotated
  /\ IF annotated THEN Core!SetStreamLimit(AnnotationStream, MaxAnnotation)
                  ELSE UNCHANGED core
  /\ UNCHANGED <<says, opening, handled, opened, answer, failures, stream, firstPacket,
                 stripAdts, rows, taken>>

(* check_media and check_annotations                                       *)
MediaFits(s) == s.media \in {"video", "audio"} \/ IsJson(s)

CountFits(count) == IF asked THEN count <= 2 ELSE count = 1

OpenMain ==
  /\ Looks("open", "MainHeader")
  /\ IF opening.declared # 0 \/ ~CountFits(Event.count)
       THEN Fails("refused") /\ UNCHANGED opening
       ELSE opening' = [opening EXCEPT !.declared = Event.count]
            /\ UNCHANGED <<call, opened, answer>>
  /\ UNCHANGED <<core, says, asked, failures, stream, firstPacket, stripAdts, rows, taken>>

(* A mutation: a stream header restated is taken for the first of it.      *)
StreamFitsAgain ==
  /\ opening.headers < opening.declared
  /\ IF Event.stream = 1 THEN MediaFits(Said) ELSE IsAnnotations(Said)

StreamFits ==
  /\ opening.headers < opening.declared
  /\ IF Event.stream = 1 THEN opening.media = <<>> /\ MediaFits(Said)
                         ELSE IsAnnotations(Said)

OpenStream ==
  /\ Looks("open", "StreamHeader")
  /\ IF ~StreamFits THEN Fails("refused") /\ UNCHANGED opening
     ELSE /\ opening' = IF Event.stream = 1
                          THEN [opening EXCEPT !.headers = @ + 1, !.media = <<Said>>]
                          ELSE [opening EXCEPT !.headers = @ + 1, !.annotations = TRUE]
          /\ UNCHANGED <<call, opened, answer>>
  /\ UNCHANGED <<core, says, asked, failures, stream, firstPacket, stripAdts, rows, taken>>

OpenIgnores ==
  /\ \E kind \in {"Syncpoint", "Info"} : Looks("open", kind)
  /\ UNCHANGED <<core, says, call, opened, answer, failures, asked, opening, stream,
                 firstPacket, stripAdts, rows, taken>>

OpenEndsEarly ==
  /\ Looks("open", "EndOfInput")
  /\ opening.media = <<>>
  /\ Fails("refused")
  /\ UNCHANGED <<core, says, asked, opening, failures, stream, firstPacket, stripAdts,
                 rows, taken>>

(* detect_adts: an aac stream without a config has its first packet read.  *)
Configless(s) == CodecName(s) = "aac" /\ s.config = <<>>

OpenEnds ==
  /\ \/ Looks("open", "EndOfHeaders")
     \/ Looks("open", "EndOfInput") /\ opening.media # <<>>
  /\ stream' = <<[header |-> Header(ctx, 1), config |-> opening.media[1].config,
                  annotations |-> opening.annotations]>>
  /\ IF Configless(opening.media[1]) THEN call' = "first" /\ UNCHANGED opened
                                     ELSE call' = "none" /\ opened' = "yes"
  /\ UNCHANGED <<core, says, answer, failures, asked, opening, firstPacket, stripAdts,
                 rows, taken>>

-----------------------------------------------------------------------------
(* read_packet, and the read ahead of it. The caller stops at an error     *)
(* that is about the stream, and may try again after one of the source.    *)

(* A mutation: the packet read ahead stays for the next call.              *)
ReadKeepsFirst ==
  /\ call = "none"
  /\ opened = "yes"
  /\ answer # "refused"
  /\ IF firstPacket # <<>>
       THEN answer' = "packet" /\ out' = out \o firstPacket /\ UNCHANGED <<firstPacket, call>>
       ELSE call' = "read" /\ UNCHANGED <<answer, out, firstPacket>>
  /\ UNCHANGED <<core, says, asked, opening, handled, opened, failures, stream, stripAdts,
                 rows, claimed, trailed>>

CallRead ==
  /\ call = "none"
  /\ opened = "yes"
  /\ answer # "refused"
  /\ IF firstPacket # <<>>
       THEN /\ answer' = "packet"
            /\ out' = out \o firstPacket
            /\ firstPacket' = <<>>
            /\ UNCHANGED call
       ELSE call' = "read" /\ UNCHANGED <<answer, out, firstPacket>>
  /\ UNCHANGED <<core, says, asked, opening, handled, opened, failures, stream, stripAdts,
                 rows, claimed, trailed>>

Reads(kind) == Looks("first", kind) \/ Looks("read", kind)

ReadsFrame(of) == Reads("Frame") /\ Event.packet.stream = of

ReadIgnores ==
  /\ \E kind \in {"Syncpoint", "Info", "EndOfHeaders"} : Reads(kind)
  /\ UNCHANGED <<core, says, call, opened, answer, failures, asked, opening, stream,
                 firstPacket, stripAdts, rows, taken>>

(* A mutation: headers are ignored like the rest of what is not a frame.   *)
ReadRestatedIgnored ==
  /\ \E kind \in {"MainHeader", "StreamHeader"} : Reads(kind)
  /\ UNCHANGED <<core, says, call, opened, answer, failures, asked, opening, stream,
                 firstPacket, stripAdts, rows, taken>>

ReadRestated ==
  /\ \E kind \in {"MainHeader", "StreamHeader"} : Reads(kind)
  /\ Fails("refused")
  /\ UNCHANGED <<core, says, failures, asked, opening, stream, firstPacket, stripAdts,
                 rows, taken>>

(* A mutation: the read ahead takes no packet for a reason to go on.       *)
ReadEndsOnlyReads ==
  /\ Reads("EndOfInput")
  /\ IF call = "read" THEN answer' = "end" /\ call' = "none"
                      ELSE UNCHANGED <<answer, call>>
  /\ UNCHANGED <<core, says, opened, failures, asked, opening, stream, firstPacket,
                 stripAdts, rows, taken>>

ReadEnds ==
  /\ Reads("EndOfInput")
  /\ call' = "none"
  /\ IF call = "read" THEN answer' = "end" /\ UNCHANGED opened
                      ELSE opened' = "yes" /\ UNCHANGED answer
  /\ UNCHANGED <<core, says, failures, asked, opening, stream, firstPacket, stripAdts,
                 rows, taken>>

Arrived ==
  [packet |-> Event.packet, unit |-> Just, size |-> Len(Event.data), from |-> 0,
   under |-> Header(ctx, 1)]

Stripped(p) == [p EXCEPT !.from = HeaderLen(says[p.unit])]

StripRefused == ~Strips(Said, Len(Event.data))

FirstPacket ==
  /\ ReadsFrame(1)
  /\ call = "first"
  /\ IF ~Parses(Said, Len(Event.data))
       THEN firstPacket' = <<Arrived>> /\ opened' = "yes" /\ UNCHANGED <<stream, stripAdts>>
     ELSE IF StripRefused
       THEN opened' = "failed" /\ UNCHANGED <<firstPacket, stream, stripAdts>>
     ELSE /\ stream' = [stream EXCEPT ![1].config = AudioSpecificConfig(Said)]
          /\ stripAdts' = TRUE
          /\ firstPacket' = <<Stripped(Arrived)>>
          /\ opened' = "yes"
  /\ call' = "none"
  /\ UNCHANGED <<core, says, answer, failures, asked, opening, rows, taken>>

NextPacket ==
  /\ ReadsFrame(1)
  /\ call = "read"
  /\ call' = "none"
  /\ IF stripAdts /\ StripRefused THEN answer' = "refused" /\ UNCHANGED out
     ELSE /\ answer' = "packet"
          /\ out' = Append(out, IF stripAdts THEN Stripped(Arrived) ELSE Arrived)
  /\ UNCHANGED <<core, says, opened, failures, asked, opening, stream, firstPacket,
                 stripAdts, rows, claimed, trailed>>

-----------------------------------------------------------------------------
(* read_annotation: the lines of its text that are not blank.              *)

Solid(text) ==
  Seqs!FlattenSeq([i \in DOMAIN text |-> IF text[i] = Blank THEN <<>> ELSE <<text[i]>>])

IsRecord(text) == Len(Solid(text)) = 1 /\ Solid(text)[1].record

At(held, pts) == IF pts \in DOMAIN held THEN held[pts] ELSE <<>>

Extended(held, pts, more) == [p \in DOMAIN held \cup {pts} |->
  IF p = pts THEN At(held, p) \o more ELSE held[p]]

(* A mutation: a second record takes the place of the first.               *)
AnnotationRefusedNoSecond ==
  \/ Cardinality(DOMAIN unclaimed) >= MaxUnclaimed
  \/ ~Said.utf8

AnnotationRefused ==
  \/ Cardinality(DOMAIN unclaimed) >= MaxUnclaimed
  \/ ~Said.utf8
  \/ IsRecord(Said.text) /\ trailing # <<>>

RefuseAnnotation ==
  /\ ReadsFrame(AnnotationStream)
  /\ AnnotationRefused
  /\ Fails("refused")
  /\ UNCHANGED <<core, says, failures, asked, opening, stream, firstPacket, stripAdts,
                 rows, taken>>

(* A mutation: rows replace those that wait at their PTS.                  *)
ReadAnnotationOver ==
  /\ ReadsFrame(AnnotationStream)
  /\ ~AnnotationRefused
  /\ IF IsRecord(Said.text)
       THEN trailing' = Solid(Said.text)[1].rows /\ UNCHANGED unclaimed
       ELSE unclaimed' = (Event.packet.pts :> Solid(Said.text)) @@ unclaimed
            /\ UNCHANGED trailing
  /\ UNCHANGED <<core, says, call, opened, answer, failures, asked, opening, stream,
                 firstPacket, stripAdts, taken>>

ReadAnnotation ==
  /\ ReadsFrame(AnnotationStream)
  /\ ~AnnotationRefused
  /\ IF IsRecord(Said.text)
       THEN trailing' = Solid(Said.text)[1].rows /\ UNCHANGED unclaimed
       ELSE unclaimed' = Extended(unclaimed, Event.packet.pts, Solid(Said.text))
            /\ UNCHANGED trailing
  /\ UNCHANGED <<core, says, call, opened, answer, failures, asked, opening, stream,
                 firstPacket, stripAdts, taken>>

(* A mutation: what has been taken is still there, with nothing in it.     *)
TakeRowsKeeps(pts) ==
  /\ call = "none"
  /\ opened = "yes"
  /\ pts \in DOMAIN unclaimed
  /\ claimed' = Extended(claimed, pts, unclaimed[pts])
  /\ unclaimed' = [unclaimed EXCEPT ![pts] = <<>>]
  /\ UNCHANGED <<core, says, calls, asked, opening, stream, firstPacket, stripAdts,
                 trailing, out, trailed>>

(* take_rows, and take_trailing where there is something to take.          *)
TakeRows(pts) ==
  /\ call = "none"
  /\ opened = "yes"
  /\ pts \in DOMAIN unclaimed
  /\ claimed' = Extended(claimed, pts, unclaimed[pts])
  /\ unclaimed' = [p \in DOMAIN unclaimed \ {pts} |-> unclaimed[p]]
  /\ UNCHANGED <<core, says, calls, asked, opening, stream, firstPacket, stripAdts,
                 trailing, out, trailed>>

TakeTrailing ==
  /\ call = "none"
  /\ opened = "yes"
  /\ trailing # <<>>
  /\ trailed' = trailed \o trailing
  /\ trailing' = <<>>
  /\ UNCHANGED <<core, says, calls, asked, opening, stream, firstPacket, stripAdts,
                 unclaimed, out, claimed>>
-----------------------------------------------------------------------------
Works ==
  \/ CoreFails
  \/ OpenMain \/ OpenStream \/ OpenIgnores \/ OpenEndsEarly \/ OpenEnds
  \/ ReadIgnores \/ ReadRestated \/ ReadEnds \/ FirstPacket \/ NextPacket
  \/ RefuseAnnotation \/ ReadAnnotation

Caller ==
  \/ \E annotated \in BOOLEAN : CallOpen(annotated)
  \/ CallRead
  \/ \E pts \in DOMAIN unclaimed : TakeRows(pts)
  \/ TakeTrailing

Next == Pump \/ Works \/ SourceFails \/ Caller

(* A source that blocks answers in the end: bytes, the end of them, or an  *)
(* error. Nobody has to call anything.                                     *)
Spec == Init /\ [][Next]_vars /\ WF_vars(Pump \/ Works)

-----------------------------------------------------------------------------
(* What the properties compare with: the events that have been looked at,  *)
(* in their order, and the units of the wire that they came of, whatever   *)
(* the Demuxer made of them.                                               *)

Told(kind)     == {j \in 1 .. handled : log[j].kind = kind}
FramesTold(of) == {j \in Told("Frame") : log[j].packet.stream = of}

(* The last unit that was begun is behind once no event of it is to come.  *)
OfNoUnit == {"EndOfHeaders", "EndOfInput"}

Ahead == hand # <<>> \/ \E j \in handled + 1 .. Len(log) : log[j].kind \notin OfNoUnit

Behind == {p \in Started : Ahead => \E q \in Started : p < q}

UnitsBehind(kind, of) ==
  {p \in Behind : wire.unit[p].kind = kind /\ wire.unit[p].stream = of}

FramesBehind(of) == {p \in UnitsBehind("frame", of) : ~wire.unit[p].eor}

(* How many of a set of numbers come no later than this one.               *)
Nth(of, n) == Cardinality({k \in of : k <= n})

Whole == opened # "failed" /\ answer # "refused"

Delivered == out \o firstPacket

(* Every media frame of the wire is handed out once, in the wire's order   *)
(* and as it was read, whether it was read ahead or not and wherever the   *)
(* source failed between.                                                  *)
PacketsInOrder ==
  Whole =>
    /\ {Delivered[i].unit : i \in DOMAIN Delivered} = FramesBehind(1)
    /\ \A i, j \in DOMAIN Delivered : i < j => Delivered[i].unit < Delivered[j].unit
    /\ Len(Delivered) = Cardinality(FramesTold(1))
    /\ \A j \in FramesTold(1) : Delivered[Nth(FramesTold(1), j)].packet = log[j].packet

(* All packets lose their ADTS header or none does, no packet loses it     *)
(* twice, and the config a caller is told came out of the first header     *)
(* exactly then. Without a config, the first packet has no such header.    *)
FramingAgrees ==
  opened = "yes" =>
    LET told    == stream[1].config
        derived == told # opening.media[1].config
    IN  /\ \A i \in DOMAIN Delivered :
             Delivered[i].from =
               IF derived THEN HeaderLen(says[Delivered[i].unit]) ELSE 0
        /\ Configless(opening.media[1]) /\ Delivered # <<>> =>
             LET first == says[Delivered[1].unit]
             IN  IF derived
                   THEN <<ConfigObject(told), ConfigRate(told), ConfigChannels(told)>>
                          = <<first.profile + 1, first.rate, first.channels>>
                   ELSE ~Parses(first, Delivered[1].size)

(* A packet was read by the header its caller was told at opening: in its  *)
(* time base, its coding of PTS and its depth of reordering.               *)
UnderOneHeader ==
  \A i \in DOMAIN Delivered :
    [Delivered[i].under EXCEPT !.rate = 0] = [stream[1].header EXCEPT !.rate = 0]

(* A Demuxer there is has read one main header, its media stream's header  *)
(* once, and the annotation stream's only if it was asked for it: whatever *)
(* the order the headers come in, and whatever comes of them later.        *)
OneSetOfHeaders ==
  opened = "yes" /\ answer # "refused" =>
    LET headers(i)   == {j \in Told("StreamHeader") : log[j].stream = i}
        described(i) == {says[p] : p \in UnitsBehind("stream", i)}
    IN  /\ \E j \in 1 .. handled :
             Told("MainHeader") = {j} /\ log[j].count <= IF asked THEN 2 ELSE 1
        /\ \E j \in 1 .. handled : headers(1) = {j}
        /\ \A s \in described(1) : MediaFits(s)
        /\ stream[1].annotations <=> headers(2) # {}
        /\ headers(2) # {} => asked /\ \A s \in described(2) : IsAnnotations(s)

(* The unit that an event came of: as many came before the one as the      *)
(* other.                                                                  *)
UnitOf(of, j) ==
  CHOOSE p \in FramesBehind(of) : Nth(FramesBehind(of), p) = Nth(FramesTold(of), j)

TextOf(j) == says[UnitOf(AnnotationStream, j)].text

(* The rows that each event brought, at a PTS and to no frame.             *)
RowsBrought(pts) ==
  [j \in 1 .. handled |->
    IF j \in FramesTold(AnnotationStream) /\ log[j].packet.pts = pts /\ ~IsRecord(TextOf(j))
      THEN Solid(TextOf(j)) ELSE <<>>]

TrailingBrought ==
  [j \in 1 .. handled |->
    IF j \in FramesTold(AnnotationStream) /\ IsRecord(TextOf(j))
      THEN Solid(TextOf(j))[1].rows ELSE <<>>]

(* No row is lost, doubled or moved to another PTS: those that have been   *)
(* taken and those that wait are those the wire brought, in its order.     *)
RowsKept ==
  Whole =>
    \A pts \in {log[j].packet.pts : j \in FramesTold(AnnotationStream)}
               \cup DOMAIN claimed \cup DOMAIN unclaimed :
      At(claimed, pts) \o At(unclaimed, pts) = Seqs!FlattenSeq(RowsBrought(pts))

(* The same of the rows that belong to no frame.                           *)
TrailingKept == Whole => trailed \o trailing = Seqs!FlattenSeq(TrailingBrought)

(* A call returns, whatever is on the wire and wherever the source fails.  *)
CallReturns == call # "none" ~> call = "none"
=============================================================================
