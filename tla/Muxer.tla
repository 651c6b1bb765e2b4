------------------------------- MODULE Muxer -------------------------------
(***************************************************************************)
(* Muxer of src/mux.rs and the writer underneath it.  What it writes is    *)
(* the wire its readers know: units, each where the one before ends.  A    *)
(* method is one action: it takes &mut self and returns, and what it wrote *)
(* waits in the writer until that passes it on.                            *)
(*                                                                         *)
(* Streams and time bases count from 1 where the code counts from 0, and   *)
(* the fields of a packet have a fixed width in place of `put_v' ones.     *)
(***************************************************************************)
EXTENDS NutContext

CONSTANTS
  Openings,     (* What a muxer may be opened with.                        *)
  Stamps,       (* The PTS a caller may hand it.                           *)
  DataSizes,    (* The bytes of a frame, or of the rows beside one.        *)
  MaxWritten,   (* How many frames a caller writes: a bound for checking.  *)
  FileIdLen,    (* FILE_ID_LEN: 25.                                        *)
  PacketHead,   (* A startcode and a length.                               *)
  FieldsLen,    (* The body of a packet whose fields are all short.        *)
  FrameHead,    (* A framecode, the coded fields and their checksum.       *)
  Tears,        (* After how many of its bytes a call's writing may fail;  *)
                (* none, and nothing fails.                                *)
  MaxDistance,  (* MAX_DISTANCE                                            *)
  MaxPacket     (* HEADER_CHECKSUM_THRESHOLD                               *)

(* A stream as a caller describes it: span is 1 << msb_pts_shift, rate is 0*)
(* without a frame rate, header is how long its header's body comes to.    *)
Described ==
  [base: Rationals, span: Nat \ {0}, delay: Nat, rate: Nat, raw: BOOLEAN, header: Nat]

ASSUME MuxerAssumption ==
  /\ \A o \in Openings : o.streams \in Seq(Described) /\ o.annotated \in BOOLEAN
  /\ Stamps \subseteq Ticks
  /\ DataSizes \cup Tears \subseteq Nat
  /\ {FileIdLen, PacketHead, FieldsLen, FrameHead, MaxDistance} \subseteq Nat \ {0}
  /\ {MaxWritten, MaxPacket} \subseteq Nat
  /\ PacketHead + FieldsLen < MaxDistance

VARIABLES
  (* The muxer's fields. pos is wire.end, as long as no unit is torn.      *)
  opened,         (* "no", "yes", or "refused": the constructor's answer.  *)
  streams, timeBases, annotations, lastSyncpoint,
  (* The writer underneath.                                                *)
  wire,           (* Every byte it was handed.                             *)
  sent,           (* How many it has passed on to the other side.          *)
  (* History.                                                              *)
  answer,         (* What the last method answered.                        *)
  written,        (* The frames that were written.                         *)
  marks           (* The syncpoints: where each is, its back_ptr_div16, and*)
                  (* the stream and PTS of the frame it was written for.   *)

fields == <<opened, streams, timeBases, annotations>>
muxer  == <<fields, lastSyncpoint, wire, sent, answer, written, marks>>

MuxerInit ==
  /\ opened = "no"
  /\ streams = <<>>
  /\ timeBases = <<>>
  /\ annotations = <<>>
  /\ lastSyncpoint = <<>>
  /\ wire = [nut |-> FALSE, unit |-> <<>>, end |-> 0]
  /\ sent = 0
  /\ answer = "ok"
  /\ written = <<>>
  /\ marks = <<>>

-----------------------------------------------------------------------------
(* write_bytes and write_packet.                                           *)

WidthOf(u) == u.head + (IF u.kind = "frame" THEN u.size ELSE u.body)

Laid(w, u) ==
  [w EXCEPT !.unit = [p \in DOMAIN w.unit \cup {w.end} |-> IF p = w.end THEN u ELSE w.unit[p]],
            !.end = @ + WidthOf(u)]

LaidAll(w, units) ==
  LET after[n \in 0 .. Len(units)] == IF n = 0 THEN w ELSE Laid(after[n - 1], units[n])
  IN  after[Len(units)]

(* A write fails after some of its bytes: what is left ends inside a unit, *)
(* unless it was the first of that unit's that failed.                     *)
CutAt(w, end) ==
  [w EXCEPT !.unit = [p \in {q \in DOMAIN w.unit : q < end} |-> w.unit[p]], !.end = end]

(* Where a call may leave the wire that would leave it so.                 *)
Ends(whole) ==
  {whole.end} \cup {end \in {wire.end + n : n \in Tears} : end < whole.end}

Flushes == IF Tears = {} THEN {TRUE} ELSE BOOLEAN

Torn ==
  \/ wire.nut /\ wire.end \in 1 .. FileIdLen - 1
  \/ \E p \in DOMAIN wire.unit : p + WidthOf(wire.unit[p]) > wire.end

(* A packet too wide is refused, and those before it have been written.    *)
TooWide(units)       == {i \in DOMAIN units : units[i].body > MaxPacket}
FirstTooWide(units)  == CHOOSE i \in TooWide(units) : \A j \in TooWide(units) : i <= j
BeforeTooWide(units) ==
  IF TooWide(units) = {} THEN units ELSE SubSeq(units, 1, FirstTooWide(units) - 1)

-----------------------------------------------------------------------------
(* open: each time base once, in the order the streams first name them.    *)

Named(bases, stream) ==
  IF \E k \in DOMAIN bases : bases[k] = stream.base THEN bases
                                                   ELSE Append(bases, stream.base)

TimeBasesOf(described) ==
  LET named[n \in 0 .. Len(described)] ==
        IF n = 0 THEN <<>> ELSE Named(named[n - 1], described[n])
  IN  named[Len(described)]

(* A mutation: the index is off by one.                                    *)
BaseOfNext(bases, stream) == (CHOOSE k \in DOMAIN bases : bases[k] = stream.base) + 1

BaseOf(bases, stream) == CHOOSE k \in DOMAIN bases : bases[k] = stream.base

MainUnit(bases, count) ==
  [kind |-> "main", head |-> PacketHead, body |-> FieldsLen, ok |-> TRUE,
   count |-> count, bases |-> bases, elision |-> <<>>]

StreamUnit(bases, described, i) ==
  [kind |-> "stream", head |-> PacketHead, body |-> described[i].header, ok |-> TRUE,
   stream |-> i, base |-> BaseOf(bases, described[i]), span |-> described[i].span,
   delay |-> described[i].delay]

(* A mutation: it has a coding of PTS of its own.                          *)
AnnotationUnitWider(bases, described) ==
  [StreamUnit(bases, described, 1) EXCEPT
     !.body = FieldsLen, !.stream = Len(described) + 1, !.delay = 0, !.span = 2 * @]

(* The annotation stream counts as the first stream does and never reorders*)
AnnotationUnit(bases, described) ==
  [StreamUnit(bases, described, 1) EXCEPT
     !.body = FieldsLen, !.stream = Len(described) + 1, !.delay = 0]

RateUnit(i, rate) ==
  [kind |-> "info", head |-> PacketHead, body |-> FieldsLen, ok |-> TRUE,
   readable |-> TRUE, about |-> i, rate |-> rate, tags |-> <<(<<0, rate>>)>>]

RateUnits(described) ==
  LET rates[n \in 0 .. Len(described)] ==
        IF n = 0 THEN <<>>
        ELSE IF described[n].rate = 0 THEN rates[n - 1]
        ELSE Append(rates[n - 1], RateUnit(n, described[n].rate))
  IN  rates[Len(described)]

(* Mutations: a stream's rate goes out ahead of its header; the annotation *)
(* stream is counted and has no header.                                    *)
HeaderUnitsOneShort(o) ==
  LET bases == TimeBasesOf(o.streams)
  IN  <<MainUnit(bases, Len(o.streams) + (IF o.annotated THEN 1 ELSE 0))>>
      \o [i \in DOMAIN o.streams |-> StreamUnit(bases, o.streams, i)]
      \o RateUnits(o.streams)

HeaderUnitsRatesFirst(o) ==
  LET bases == TimeBasesOf(o.streams)
  IN  <<MainUnit(bases, Len(o.streams) + (IF o.annotated THEN 1 ELSE 0))>>
      \o RateUnits(o.streams)
      \o [i \in DOMAIN o.streams |-> StreamUnit(bases, o.streams, i)]
      \o (IF o.annotated THEN <<AnnotationUnit(bases, o.streams)>> ELSE <<>>)

HeaderUnits(o) ==
  LET bases == TimeBasesOf(o.streams)
  IN  <<MainUnit(bases, Len(o.streams) + (IF o.annotated THEN 1 ELSE 0))>>
      \o [i \in DOMAIN o.streams |-> StreamUnit(bases, o.streams, i)]
      \o (IF o.annotated THEN <<AnnotationUnit(bases, o.streams)>> ELSE <<>>)
      \o RateUnits(o.streams)

(* msb_pts_shift >= 63                                                     *)
ShiftRefused(stream) == stream.span > MaxTick

Unopenable(o) == o.streams = <<>> \/ \E i \in DOMAIN o.streams : ShiftRefused(o.streams[i])

OpenRefused(o) ==
  /\ opened = "no"
  /\ Unopenable(o)
  /\ opened' = "refused"
  /\ UNCHANGED <<streams, timeBases, annotations, lastSyncpoint, wire, sent, answer,
                 written, marks>>

OpenWire == [nut |-> TRUE, unit |-> <<>>, end |-> FileIdLen]

(* A mutation: the headers are not flushed.                                *)
FlushedWhereNever(end) == sent

FlushedWhere(end) == end

(* The headers are flushed, so that the other side has them before a frame.*)
(* Where anything fails there is no muxer.                                 *)
Open(o) ==
  LET fit   == TooWide(HeaderUnits(o)) = {}
      whole == LaidAll(OpenWire, BeforeTooWide(HeaderUnits(o)))
  IN  /\ opened = "no"
      /\ ~Unopenable(o)
      /\ \E end \in Ends(whole), flushed \in Flushes :
           /\ wire' = CutAt(whole, end)
           /\ IF fit /\ end = whole.end /\ flushed
                THEN opened' = "yes" /\ sent' = FlushedWhere(end)
                ELSE opened' = "refused" /\ UNCHANGED sent
      /\ streams' = o.streams
      /\ timeBases' = TimeBasesOf(o.streams)
      /\ annotations' = IF o.annotated THEN <<Len(o.streams) + 1>> ELSE <<>>
      /\ UNCHANGED <<lastSyncpoint, answer, written, marks>>

-----------------------------------------------------------------------------
(* write_packet_for: a syncpoint first, if none is near enough, in the     *)
(* frame's own time base; then the frame, whose PTS is coded whole.        *)

(* The stream whose time base and PTS coding a frame has.                  *)
Media(id) == IF id \in DOMAIN streams THEN id ELSE 1

(* Mutations: a syncpoint on the first frame only; the time base is that of*)
(* the first stream.                                                       *)
SyncpointDueOnce(at) == lastSyncpoint = <<>>
MediaBaseFirst(id)   == 1

SyncpointDue(at) == \A i \in DOMAIN lastSyncpoint : at - lastSyncpoint[i] >= MaxDistance
MediaBase(id)    == BaseOf(timeBases, streams[Media(id)])

(* pts.wrapping_mul(count) + index                                         *)
SyncpointField(pts, base) == ((pts * Len(timeBases)) % (MaxWord + 1)) + base - 1
SyncpointOverflows(pts, base) == OverflowChecks /\ SyncpointField(pts, base) \notin Words

SyncpointUnit(pts, base) ==
  [kind |-> "syncpoint", head |-> PacketHead, body |-> FieldsLen, ok |-> TRUE,
   coded |-> Wrapped(SyncpointField(pts, base), MaxTick)]

BackPtr(at) == IF lastSyncpoint = <<>> THEN 0 ELSE (at - lastSyncpoint[1]) \div 16

(* A mutation: the PTS is not offset past its low bits.                    *)
CodedWholeNoOffset(id, pts) == pts
CodedWhole(id, pts) == pts + streams[Media(id)].span

FrameUnit(id, pts, key, size) ==
  [kind |-> "frame", head |-> FrameHead, ok |-> TRUE, valid |-> TRUE, streamAt |-> 1,
   ptsAt |-> FrameHead, stream |-> id, coded |-> TRUE, pts |-> CodedWhole(id, pts),
   size |-> size, header |-> 0, key |-> key, eor |-> FALSE]

WriteRefused == answer' = "refused" /\ UNCHANGED <<lastSyncpoint, wire, written, marks>>

(* Mutations: a syncpoint is remembered by where it ends; it is remembered *)
(* though it was not written.                                              *)
RememberedEnd(from, to, end) == IF end >= to THEN <<to>> ELSE lastSyncpoint
RememberedEarly(from, to, end) == <<from>>

Remembered(from, to, end) == IF end >= to THEN <<from>> ELSE lastSyncpoint

Written(id, pts, key, size) ==
  LET due    == SyncpointDue(wire.end)
      synced == IF due THEN Laid(wire, SyncpointUnit(pts, MediaBase(id))) ELSE wire
      whole  == Laid(synced, FrameUnit(id, pts, key, size))
      mark   == [at |-> wire.end, back |-> BackPtr(wire.end), stream |-> id, pts |-> pts]
      frame  == [stream |-> id, pts |-> pts, key |-> key,
                 from |-> synced.end + FrameHead, size |-> size]
  IN  \E end \in Ends(whole) :
        /\ wire' = CutAt(whole, end)
        /\ lastSyncpoint' = IF due THEN Remembered(wire.end, synced.end, end)
                            ELSE lastSyncpoint
        /\ marks' = IF due /\ end >= synced.end THEN Append(marks, mark) ELSE marks
        /\ IF end = whole.end THEN answer' = "ok" /\ written' = Append(written, frame)
                              ELSE answer' = "failed" /\ UNCHANGED written

(* A caller may try again where nothing, or only a syncpoint, was written; *)
(* there is no going on from inside a unit.                                *)
Ready == opened = "yes" /\ answer # "panic" /\ Len(written) < MaxWritten /\ ~Torn

WritePacketFor(id, pts, key, size) ==
  \/ pts < 0 /\ WriteRefused
  \/ /\ pts >= 0
     /\ SyncpointDue(wire.end) /\ SyncpointOverflows(pts, MediaBase(id))
     /\ answer' = "panic"
     /\ UNCHANGED <<lastSyncpoint, wire, written, marks>>
  \/ /\ pts >= 0
     /\ ~(SyncpointDue(wire.end) /\ SyncpointOverflows(pts, MediaBase(id)))
     /\ Written(id, pts, key, size)

(* write_frame_to, and write_frame on the first stream. Raw frames are all *)
(* keyframes.                                                              *)
WriteFrame(id, pts, size) ==
  /\ Ready
  /\ IF id \notin DOMAIN streams \/ ~streams[id].raw THEN WriteRefused
     ELSE WritePacketFor(id, pts, TRUE, size)
  /\ UNCHANGED <<fields, sent>>

(* write_coded_to, and write_coded on the first stream.                    *)
WriteCoded(id, pts, key, size) ==
  /\ Ready
  /\ IF id \notin DOMAIN streams \/ streams[id].raw THEN WriteRefused
     ELSE WritePacketFor(id, pts, key, size)
  /\ UNCHANGED <<fields, sent>>

(* write_rows and write_trailing, of rows that come to size bytes (one row *)
(* may be empty); of no rows at all; and of rows that are not JSON, which  *)
(* only a trailing record cannot carry.                                    *)
WriteRows(pts, size) ==
  /\ Ready
  /\ IF annotations = <<>> THEN WriteRefused
     ELSE WritePacketFor(annotations[1], pts, TRUE, size)
  /\ UNCHANGED <<fields, sent>>

WriteNoRows ==
  /\ Ready
  /\ annotations # <<>>
  /\ answer' = "ok"
  /\ UNCHANGED <<fields, sent, lastSyncpoint, wire, written, marks>>

WriteTrailingNotJson ==
  /\ Ready
  /\ annotations # <<>>
  /\ WriteRefused
  /\ UNCHANGED <<fields, sent>>

(* flush and finish.                                                       *)
Flush ==
  /\ opened = "yes"
  /\ answer # "panic"
  /\ \E flushed \in Flushes :
       /\ sent' = IF flushed THEN wire.end ELSE sent
       /\ answer' = IF flushed THEN "ok" ELSE "failed"
  /\ UNCHANGED <<fields, lastSyncpoint, wire, written, marks>>

(* The writer underneath passes on what it likes, before it is flushed and *)
(* after the muxer is gone.                                                *)
Spill(n) ==
  /\ sent + n <= wire.end
  /\ sent' = sent + n
  /\ UNCHANGED <<fields, lastSyncpoint, wire, answer, written, marks>>

MuxerStep ==
  \/ \E o \in Openings : OpenRefused(o) \/ Open(o)
  \/ \E id \in 1 .. MaxStreams + 1, pts \in Stamps, size \in DataSizes :
       \/ WriteFrame(id, pts, size)
       \/ \E key \in BOOLEAN : WriteCoded(id, pts, key, size)
  \/ \E pts \in Stamps, size \in DataSizes : WriteRows(pts, size)
  \/ WriteNoRows
  \/ WriteTrailingNotJson
  \/ Flush

MuxerSpec == MuxerInit /\ [][MuxerStep]_muxer

-----------------------------------------------------------------------------
Starts(kind) == {p \in DOMAIN wire.unit : wire.unit[p].kind = kind}

(* A reader that comes upon any frame has passed a syncpoint not long      *)
(* before it, whatever streams' frames the bytes between are.              *)
FramesNearSyncpoint ==
  \A p \in Starts("frame") :
    \E s \in Starts("syncpoint") :
      s < p /\ p - s < MaxDistance

(* A syncpoint's back pointer, which says how far in units of 16 bytes,    *)
(* leads to the syncpoint before it and to no other.                       *)
BackPointersLead ==
  \A i \in 2 .. Len(marks) :
    LET led == marks[i].at - 16 * marks[i].back
    IN  Starts("syncpoint") \cap (led - 15 .. led) = {marks[i - 1].at}

(* A syncpoint tells the time of the frame it was written for: taken apart *)
(* as readers do, its field is that frame's PTS in that frame's time base, *)
(* where 64 bits hold it.                                                  *)
FitsSyncpoint(pts) == pts * Len(timeBases) + Len(timeBases) - 1 <= MaxTick

SyncpointsTellTheTime ==
  \A i \in DOMAIN marks :
    LET coded == wire.unit[marks[i].at].coded
    IN  FitsSyncpoint(marks[i].pts) =>
          /\ SyncTicks(coded, Len(timeBases)) = marks[i].pts
          /\ timeBases[SyncBase(coded, Len(timeBases))] = streams[Media(marks[i].stream)].base

(* What src/lib.rs says of MAX_DISTANCE: how far apart syncpoints may be.  *)
SyncpointsWithinDistance ==
  \A i \in 2 .. Len(marks) : marks[i].at - marks[i - 1].at <= MaxDistance
=============================================================================
