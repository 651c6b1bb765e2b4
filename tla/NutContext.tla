----------------------------- MODULE NutContext -----------------------------
(***************************************************************************)
(* What the demuxer of src/demux.rs has learnt from the stream, and what   *)
(* each unit of the wire does to it.  The context is a record:             *)
(*                                                                         *)
(*   bases     time bases of the main header, <<num, den>>; empty without  *)
(*             a main header (`main' is None)                              *)
(*   elision   its elision headers, the empty one first                    *)
(*   streams   one Option per declared stream: <<>> until its header comes *)
(*   clocks    one per declared stream: last (last_pts), buffer            *)
(*             (pts_buffer)                                                *)
(*   tags      string fields stated about each stream, <<name, value>>     *)
(*   fileTags  the same about the whole file                               *)
(*   done      headers_done                                                *)
(*                                                                         *)
(* Streams and time bases count from 1 where the code counts from 0.       *)
(*                                                                         *)
(* A unit is a record too.  `head' is how many bytes come before a packet's*)
(* body or a frame's payload.  Its `ok' is false when the unit's own bytes *)
(* make it refused, whatever the context: a checksum that does not match,  *)
(* a field that runs off the body, a value no stream may carry.            *)
(***************************************************************************)
EXTENDS Timestamps

CONSTANTS
  MaxStreams,   (* Limits::max_streams                                     *)
  MaxTags,      (* MAX_TAGS                                                *)
  MaxHeader,    (* Limits::max_header                                      *)
  MaxFrame,     (* Limits::max_frame                                       *)
  ChecksumLen   (* The bytes of the checksum a packet's body ends with: 4. *)

ASSUME LimitsAssumption ==
  /\ MaxStreams \in Nat \ {0}
  /\ {MaxTags, MaxHeader, MaxFrame, ChecksumLen} \subseteq Nat

(* The bytes of an elision header, told apart from those of the wire and   *)
(* from a byte not yet written.                                            *)
ElidedBytes == {b \in Int : b < -1}

Rationals == (Nat \ {0}) \X (Nat \ {0})

MainUnits ==
  [kind: {"main"}, head: Nat \ {0}, body: Nat, ok: BOOLEAN,
   count: Nat, bases: Seq(Rationals) \ {<<>>}, elision: Seq(Seq(ElidedBytes))]

StreamUnits ==
  [kind: {"stream"}, head: Nat \ {0}, body: Nat, ok: BOOLEAN,
   stream: Nat \ {0}, base: Nat, span: Nat \ {0}, delay: Nat]

SyncUnits ==
  [kind: {"syncpoint"}, head: Nat \ {0}, body: Nat, ok: BOOLEAN, coded: Ticks]

(* `about' is 0 for the whole file; `rate' is 0 where no field states one; *)
(* `readable' is false for a body read_info makes nothing of.              *)
InfoUnits ==
  [kind: {"info"}, head: Nat \ {0}, body: Nat, ok: BOOLEAN,
   readable: BOOLEAN, about: Nat, rate: Nat, tags: Seq(Nat \X Nat)]

(* An index packet, or any startcode this crate does not know.             *)
OtherUnits == [kind: {"other"}, head: Nat \ {0}, body: Nat, ok: BOOLEAN]

(* `valid' is false for a framecode the main header does not define. The   *)
(* stream is known once streamAt bytes of the header are here, the PTS     *)
(* once ptsAt are. `pts' is the coded field, which has no sign, or the     *)
(* framecode's pts_delta, which has one.                                   *)
FrameUnits ==
  {u \in [kind: {"frame"}, head: Nat \ {0}, ok: BOOLEAN, valid: BOOLEAN,
           streamAt: Nat, ptsAt: Nat, stream: Nat \ {0}, coded: BOOLEAN, pts: Int,
           size: Nat, header: Nat, key: BOOLEAN, eor: BOOLEAN] :
     u.streamAt <= u.ptsAt /\ u.ptsAt <= u.head /\ (u.coded => u.pts \in Nat)}

Packets == MainUnits \cup StreamUnits \cup SyncUnits \cup InfoUnits \cup OtherUnits
Units   == Packets \cup FrameUnits

(* A stream as its sender sends it. nut: whether it opens with the NUT     *)
(* identifier. unit: what starts where. end: how many bytes it has.        *)
IsWire(w) ==
  /\ w.nut \in BOOLEAN
  /\ w.end \in Nat
  /\ DOMAIN w.unit \subseteq Nat
  /\ \A p \in DOMAIN w.unit : w.unit[p] \in Units

(* Where no unit of the wire starts, the parser reads a framecode that the *)
(* main header does not define.                                            *)
NoUnit ==
  [kind |-> "frame", head |-> 1, ok |-> FALSE, valid |-> FALSE, streamAt |-> 1,
   ptsAt |-> 1, stream |-> 1, coded |-> FALSE, pts |-> 0, size |-> 0,
   header |-> 0, key |-> FALSE, eor |-> FALSE]

UnitAt(w, p) == IF p \in DOMAIN w.unit THEN w.unit[p] ELSE NoUnit

(* The errors a reading ends with. The code has one Error; which of them a *)
(* model tells apart is where it came from: a short input, max_buffered, a *)
(* unit that is refused, arithmetic that overflows in a checked build.     *)
Errors == {"truncated", "overfull", "refused", "panic"}

-----------------------------------------------------------------------------
(* What the context says.                                                  *)

NewContext ==
  [bases |-> <<>>, elision |-> <<>>, streams |-> <<>>, clocks |-> <<>>,
   tags |-> <<>>, fileTags |-> <<>>, done |-> FALSE]

(* What reading frames counts on: the elision headers are bytes.           *)
IsContext(ctx) ==
  /\ ctx = [bases |-> ctx.bases, elision |-> ctx.elision, streams |-> ctx.streams,
            clocks |-> ctx.clocks, tags |-> ctx.tags, fileTags |-> ctx.fileTags,
            done |-> ctx.done]
  /\ ctx.elision \in Seq(Seq(ElidedBytes))

Declared(ctx)  == DOMAIN ctx.streams
Known(ctx)     == {i \in Declared(ctx) : ctx.streams[i] # <<>>}
Header(ctx, i) == ctx.streams[i][1]
HasMain(ctx)   == ctx.bases # <<>>

HeadersComplete(ctx) == HasMain(ctx) /\ Known(ctx) = Declared(ctx)

(* Event::EndOfHeaders is owed: end_of_headers answers with it.            *)
HeadersDue(ctx)    == ~ctx.done /\ HeadersComplete(ctx)
HeadersClosed(ctx) == [ctx EXCEPT !.done = @ \/ HeadersComplete(ctx)]

-----------------------------------------------------------------------------
(* read_main: the tables are taken as read; the streams are forgotten only *)
(* when another number of them is declared.                                *)

MainRefused(u) == u.count \notin 1 .. MaxStreams

(* A mutation: the header section is not started again.                    *)
ReadMainStillDone(ctx, u) ==
  LET every(value) == [i \in 1 .. u.count |-> value]
      tables == [ctx EXCEPT !.bases = u.bases, !.elision = <<(<<>>)>> \o u.elision]
  IN  IF Len(ctx.streams) = u.count THEN tables
      ELSE [tables EXCEPT
              !.streams  = every(<<>>),
              !.clocks   = every([last |-> 0, buffer |-> EmptyBuffer(0)]),
              !.tags     = every(<<>>),
              !.fileTags = <<>>]

ReadMain(ctx, u) ==
  LET tables == [ctx EXCEPT !.bases = u.bases, !.elision = <<(<<>>)>> \o u.elision]
      every(value) == [i \in 1 .. u.count |-> value]
  IN  IF Len(ctx.streams) = u.count THEN tables
      ELSE [tables EXCEPT
              !.streams  = every(<<>>),
              !.clocks   = every([last |-> 0, buffer |-> EmptyBuffer(0)]),
              !.tags     = every(<<>>),
              !.fileTags = <<>>,
              !.done     = FALSE]

(* read_stream: the clock survives a restated header, the reorder buffer   *)
(* only where its depth is the same, the frame rate never.                 *)

StreamRefused(ctx, u) ==
  \/ ~HasMain(ctx)
  \/ u.stream \notin Declared(ctx)
  \/ u.base \notin DOMAIN ctx.bases

(* A mutation: the reorder buffer survives a header that changes its depth.*)
ReadStreamSameBuffer(ctx, u) ==
  [ctx EXCEPT
     !.streams[u.stream] =
        <<[base |-> ctx.bases[u.base], span |-> u.span, delay |-> u.delay, rate |-> 0]>>]

ReadStream(ctx, u) ==
  [ctx EXCEPT
     !.streams[u.stream] =
        <<[base |-> ctx.bases[u.base], span |-> u.span, delay |-> u.delay, rate |-> 0]>>,
     !.clocks[u.stream].buffer =
        IF Len(@) = u.delay + 1 THEN @ ELSE EmptyBuffer(u.delay)]

-----------------------------------------------------------------------------
(* read_syncpoint: the clock of every stream whose header is here, in the  *)
(* order of the streams and as far as the first that cannot be carried.    *)

SyncFrom(ctx, u) == ctx.bases[SyncBase(u.coded, Len(ctx.bases))]
SyncTime(ctx, u) == SyncTicks(u.coded, Len(ctx.bases))

SyncedPts(ctx, u, i) == Rescaled(SyncTime(ctx, u), SyncFrom(ctx, u), Header(ctx, i).base)

SyncPanicsAt(ctx, u, i) ==
  RescalePanics(SyncTime(ctx, u), SyncFrom(ctx, u), Header(ctx, i).base)

SyncRefusedAt(ctx, u, i) ==
  /\ ~SyncPanicsAt(ctx, u, i)
  /\ RescaleRefused(SyncTime(ctx, u), SyncFrom(ctx, u), Header(ctx, i).base)

SyncStopsAt(ctx, u) ==
  {i \in Known(ctx) : SyncPanicsAt(ctx, u, i) \/ SyncRefusedAt(ctx, u, i)}

(* The first stream the syncpoint cannot be carried to decides how it ends.*)
SyncStop(ctx, u) ==
  {i \in SyncStopsAt(ctx, u) : \A j \in SyncStopsAt(ctx, u) : i <= j}

SyncPanics(ctx, u)  == \E i \in SyncStop(ctx, u) : SyncPanicsAt(ctx, u, i)
SyncRefused(ctx, u) == ~HasMain(ctx) \/ \E i \in SyncStop(ctx, u) : SyncRefusedAt(ctx, u, i)

ReadSyncpoint(ctx, u) ==
  [ctx EXCEPT !.clocks = [i \in DOMAIN @ |->
     IF i \in Known(ctx) /\ \A j \in SyncStopsAt(ctx, u) : i < j
       THEN [@[i] EXCEPT !.last = SyncedPts(ctx, u, i)]
       ELSE @[i]]]

-----------------------------------------------------------------------------
(* apply_info and apply_tags. A name stated again takes its new value; a   *)
(* new one is kept while fewer than MaxTags are held.                      *)

Rated(header, rate) == IF rate = 0 THEN header ELSE [header EXCEPT !.rate = rate]

ApplyInfo(ctx, u) ==
  [ctx EXCEPT !.streams = [i \in DOMAIN @ |->
     IF i \in Known(ctx) /\ u.about \in {0, i} THEN <<Rated(Header(ctx, i), u.rate)>>
                                               ELSE @[i]]]

(* A mutation: a name stated again is held again.                          *)
HoldTagAgain(held, tag) == IF Len(held) < MaxTags THEN Append(held, tag) ELSE held

HoldTag(held, tag) ==
  LET at == {i \in DOMAIN held : held[i][1] = tag[1]}
  IN  IF at # {} THEN [i \in DOMAIN held |-> IF i \in at THEN tag ELSE held[i]]
      ELSE IF Len(held) < MaxTags THEN Append(held, tag)
      ELSE held

HoldTags(held, tags) ==
  LET after[n \in 0 .. Len(tags)] ==
        IF n = 0 THEN held ELSE HoldTag(after[n - 1], tags[n])
  IN  after[Len(tags)]

ApplyTags(ctx, u) ==
  IF u.about = 0 THEN [ctx EXCEPT !.fileTags = HoldTags(@, u.tags)]
  ELSE IF u.about \in Declared(ctx) THEN [ctx EXCEPT !.tags[u.about] = HoldTags(@, u.tags)]
  ELSE ctx

-----------------------------------------------------------------------------
(* packet: which bodies are read, which are stepped over, which refused.   *)

Held(u) == u.kind \in {"main", "stream", "syncpoint"}

(* Known from the packet's head alone.                                     *)
LengthRefused(u) == u.body < ChecksumLen \/ (Held(u) /\ u.body > MaxHeader)
SteppedOver(u)   == u.kind = "other" \/ (u.kind = "info" /\ u.body > MaxHeader)

BodyRefused(ctx, u) ==
  \/ ~u.ok
  \/ u.kind = "main" /\ MainRefused(u)
  \/ u.kind = "stream" /\ StreamRefused(ctx, u)
  \/ u.kind = "syncpoint" /\ SyncRefused(ctx, u)

BodyPanics(ctx, u) == u.ok /\ u.kind = "syncpoint" /\ SyncPanics(ctx, u)

(* A syncpoint that stops half way has set the clocks before that.         *)
BodyRefusedLeaves(ctx, u) ==
  IF u.kind = "syncpoint" /\ u.ok /\ HasMain(ctx) THEN ReadSyncpoint(ctx, u) ELSE ctx

(* What reading the body leaves behind. A syncpoint closes the headers.    *)
PacketRead(ctx, u) ==
  CASE u.kind = "main"      -> ReadMain(ctx, u)
    [] u.kind = "stream"    -> ReadStream(ctx, u)
    [] u.kind = "syncpoint" -> HeadersClosed(ReadSyncpoint(ctx, u))
    [] u.kind = "info"      -> IF u.readable THEN ApplyInfo(ApplyTags(ctx, u), u) ELSE ctx

(* The events it makes, in order; read_info may make none of a body.       *)
EndOfHeaders == [kind |-> "EndOfHeaders"]
EndOfInput   == [kind |-> "EndOfInput"]

PacketEvent(u) ==
  CASE u.kind = "main"      -> <<[kind |-> "MainHeader", count |-> u.count]>>
    [] u.kind = "stream"    -> <<[kind |-> "StreamHeader", stream |-> u.stream]>>
    [] u.kind = "syncpoint" -> <<[kind |-> "Syncpoint"]>>
    [] u.kind = "info"      -> IF u.readable
                                 THEN <<[kind |-> "Info", about |-> u.about, rate |-> u.rate]>>
                                 ELSE <<>>

PendingAfter(ctx, u) ==
  IF u.kind = "syncpoint" /\ HeadersDue(ReadSyncpoint(ctx, u)) THEN <<EndOfHeaders>> ELSE <<>>

-----------------------------------------------------------------------------
(* set_stream_limit and ceiling: the list grows to hold the stream it is   *)
(* set on, and a stream with none has the limit they all share.            *)

NoCeiling == -1

WithCeiling(ceilings, stream, limit) ==
  [i \in DOMAIN ceilings \cup 1 .. stream |->
     IF i = stream THEN limit ELSE IF i \in DOMAIN ceilings THEN ceilings[i] ELSE NoCeiling]

Ceiling(ceilings, stream) ==
  IF stream \in DOMAIN ceilings /\ ceilings[stream] # NoCeiling THEN ceilings[stream]
                                                               ELSE MaxFrame

-----------------------------------------------------------------------------
(* frame: the header is read field by field, so what refuses it may be     *)
(* seen with `have' bytes of it here and the rest still to come.           *)

FrameSpan(ctx, u) == Header(ctx, u.stream).span
FrameLast(ctx, u) == ctx.clocks[u.stream].last

PtsPanics(ctx, u) == u.coded /\ CodedPtsPanics(FrameSpan(ctx, u), FrameLast(ctx, u), u.pts)

PtsRefused(ctx, u) ==
  IF u.coded THEN CodedPtsRefused(FrameSpan(ctx, u), u.pts)
             ELSE FrameLast(ctx, u) + u.pts \notin Ticks

FramePts(ctx, u) ==
  IF u.coded THEN CodedPts(FrameSpan(ctx, u), FrameLast(ctx, u), u.pts)
             ELSE FrameLast(ctx, u) + u.pts

Elided(ctx, u) == ctx.elision[u.header + 1]
OnWire(ctx, u) == u.size - Len(Elided(ctx, u))

StreamSeen(ctx, u, have) ==
  HeadersComplete(ctx) /\ u.valid /\ have >= u.streamAt /\ u.stream \in Declared(ctx)

PtsSeen(ctx, u, have) == StreamSeen(ctx, u, have) /\ have >= u.ptsAt

HeadSeen(ctx, u, have) ==
  PtsSeen(ctx, u, have) /\ ~PtsPanics(ctx, u) /\ ~PtsRefused(ctx, u) /\ have >= u.head

FramePanics(ctx, u, have) == PtsSeen(ctx, u, have) /\ PtsPanics(ctx, u)

(* A mutation: the ceiling is held against what the wire carries.          *)
FrameRefusedOnWire(ctx, u, have, ceiling) ==
  \/ ~HeadersComplete(ctx)
  \/ ~u.valid
  \/ have >= u.streamAt /\ u.stream \notin Declared(ctx)
  \/ PtsSeen(ctx, u, have) /\ ~PtsPanics(ctx, u) /\ PtsRefused(ctx, u)
  \/ /\ HeadSeen(ctx, u, have)
     /\ \/ ~u.ok
        \/ u.header + 1 \notin DOMAIN ctx.elision
        \/ OnWire(ctx, u) \notin 0 .. ceiling

FrameRefused(ctx, u, have, ceiling) ==
  \/ ~HeadersComplete(ctx)
  \/ ~u.valid
  \/ have >= u.streamAt /\ u.stream \notin Declared(ctx)
  \/ PtsSeen(ctx, u, have) /\ ~PtsPanics(ctx, u) /\ PtsRefused(ctx, u)
  \/ /\ HeadSeen(ctx, u, have)
     /\ \/ ~u.ok
        \/ u.header + 1 \notin DOMAIN ctx.elision
        \/ Len(Elided(ctx, u)) > u.size
        \/ u.size > ceiling

FrameReads(ctx, u, have, ceiling) ==
  HeadSeen(ctx, u, have) /\ ~FrameRefused(ctx, u, have, ceiling)

(* The clock moves with the cursor; a frame that ends relevance leaves the *)
(* reorder buffer alone.                                                   *)
FrameRead(ctx, u) ==
  [ctx EXCEPT !.clocks[u.stream] =
     [last   |-> FramePts(ctx, u),
      buffer |-> IF u.eor THEN @.buffer ELSE LandPts(@.buffer, FramePts(ctx, u))]]

Packet(ctx, u) ==
  [stream |-> u.stream, pts |-> FramePts(ctx, u), key |-> u.key,
   dts |-> Dts(ctx.clocks[u.stream].buffer, FramePts(ctx, u))]

FrameEvent(packet, data) == [kind |-> "Frame", packet |-> packet, data |-> data]
=============================================================================
