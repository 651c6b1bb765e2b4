--------------------------- MODULE DemuxerProofs ---------------------------
(***************************************************************************)
(* What a Demuxer hands out, for every wire, wherever its source fails and *)
(* however often its caller tries again.                                   *)
(***************************************************************************)
EXTENDS Demuxer, NutContextProofs, FiniteSetTheorems

-----------------------------------------------------------------------------
(* The instance of NutReading brings the operators of NutContext along.    *)
(* They are the same operators.                                            *)

LEMMA SameHeaders ==
  ASSUME NEW c
  PROVE  /\ Core!NewContext = NewContext
         /\ Core!EndOfHeaders = EndOfHeaders
         /\ Core!EndOfInput = EndOfInput
         /\ Core!Errors = Errors
         /\ Core!HeadersDue(c) <=> HeadersDue(c)
         /\ Core!HeadersClosed(c) = HeadersClosed(c)
BY DEF NewContext, Core!NewContext, EndOfHeaders, Core!EndOfHeaders,
       EndOfInput, Core!EndOfInput, Errors, Core!Errors,
       HeadersDue, Core!HeadersDue, HeadersClosed, Core!HeadersClosed,
       HeadersComplete, Core!HeadersComplete, HasMain, Core!HasMain,
       Known, Core!Known, Declared, Core!Declared

LEMMA SameUnits ==
  ASSUME NEW w, NEW p
  PROVE  Core!UnitAt(w, p) = UnitAt(w, p)
BY DEF UnitAt, Core!UnitAt, NoUnit, Core!NoUnit

LEMMA SamePackets ==
  ASSUME NEW c, NEW u
  PROVE  /\ Core!LengthRefused(u) <=> LengthRefused(u)
         /\ Core!SteppedOver(u) <=> SteppedOver(u)
         /\ Core!BodyRefused(c, u) <=> BodyRefused(c, u)
         /\ Core!BodyPanics(c, u) <=> BodyPanics(c, u)
         /\ Core!BodyRefusedLeaves(c, u) = BodyRefusedLeaves(c, u)
         /\ Core!PacketRead(c, u) = PacketRead(c, u)
         /\ Core!PacketEvent(u) = PacketEvent(u)
         /\ Core!PendingAfter(c, u) = PendingAfter(c, u)
<1> USE DEF Declared, Core!Declared, Known, Core!Known, Header, Core!Header,
       HasMain, Core!HasMain, HeadersComplete, Core!HeadersComplete,
       HeadersDue, Core!HeadersDue, HeadersClosed, Core!HeadersClosed,
       Held, Core!Held, EndOfHeaders, Core!EndOfHeaders,
       MinTick, Core!MinTick, Ticks, Core!Ticks, NoTime, Core!NoTime,
       MaxWide, Core!MaxWide, WideTicks, Core!WideTicks, Wrapped, Core!Wrapped,
       TruncDiv, Core!TruncDiv, ScaleUp, Core!ScaleUp, ScaleDown, Core!ScaleDown,
       RescalePanics, Core!RescalePanics, Rescaled, Core!Rescaled,
       RescaleRefused, Core!RescaleRefused, EmptyBuffer, Core!EmptyBuffer,
       SyncTicks, Core!SyncTicks, SyncBase, Core!SyncBase,
       SyncFrom, Core!SyncFrom, SyncTime, Core!SyncTime, SyncedPts, Core!SyncedPts,
       SyncPanicsAt, Core!SyncPanicsAt, SyncRefusedAt, Core!SyncRefusedAt,
       SyncStopsAt, Core!SyncStopsAt, SyncStop, Core!SyncStop,
       SyncPanics, Core!SyncPanics, SyncRefused, Core!SyncRefused,
       ReadSyncpoint, Core!ReadSyncpoint
<1>1. /\ Core!LengthRefused(u) <=> LengthRefused(u)
      /\ Core!SteppedOver(u) <=> SteppedOver(u)
  BY DEF LengthRefused, Core!LengthRefused, SteppedOver, Core!SteppedOver
<1>2. Core!BodyRefused(c, u) <=> BodyRefused(c, u)
  BY DEF BodyRefused, Core!BodyRefused, MainRefused, Core!MainRefused,
         StreamRefused, Core!StreamRefused
<1>3. /\ Core!BodyPanics(c, u) <=> BodyPanics(c, u)
      /\ Core!BodyRefusedLeaves(c, u) = BodyRefusedLeaves(c, u)
  BY DEF BodyPanics, Core!BodyPanics, BodyRefusedLeaves, Core!BodyRefusedLeaves
<1>4. Core!PacketRead(c, u) = PacketRead(c, u)
  BY DEF PacketRead, Core!PacketRead, ReadMain, Core!ReadMain,
         ReadStream, Core!ReadStream, Rated, Core!Rated, ApplyInfo, Core!ApplyInfo,
         HoldTag, Core!HoldTag, HoldTags, Core!HoldTags, ApplyTags, Core!ApplyTags
<1>5. Core!PacketEvent(u) = PacketEvent(u)
  BY DEF PacketEvent, Core!PacketEvent
<1>6. Core!PendingAfter(c, u) = PendingAfter(c, u)
  BY DEF PendingAfter, Core!PendingAfter
<1>7. QED
  BY <1>1, <1>2, <1>3, <1>4, <1>5, <1>6

LEMMA SameFrames ==
  ASSUME NEW c, NEW u, NEW have, NEW ceiling
  PROVE  /\ Core!FrameRefused(c, u, have, ceiling) <=> FrameRefused(c, u, have, ceiling)
         /\ Core!FrameReads(c, u, have, ceiling) <=> FrameReads(c, u, have, ceiling)
         /\ Core!FramePanics(c, u, have) <=> FramePanics(c, u, have)
         /\ Core!Elided(c, u) = Elided(c, u)
         /\ Core!OnWire(c, u) = OnWire(c, u)
         /\ Core!FrameRead(c, u) = FrameRead(c, u)
         /\ Core!Packet(c, u) = Packet(c, u)
<1> USE DEF Declared, Core!Declared, Known, Core!Known, Header, Core!Header,
       HasMain, Core!HasMain, HeadersComplete, Core!HeadersComplete,
       MinTick, Core!MinTick, Ticks, Core!Ticks, Wrapped, Core!Wrapped,
       LiftFrom, Core!LiftFrom, Lifted, Core!Lifted,
       LiftOverflows, Core!LiftOverflows, CodedPtsRefused, Core!CodedPtsRefused,
       CodedPtsPanics, Core!CodedPtsPanics, CodedPts, Core!CodedPts,
       FrameSpan, Core!FrameSpan, FrameLast, Core!FrameLast,
       PtsPanics, Core!PtsPanics, PtsRefused, Core!PtsRefused,
       FramePts, Core!FramePts, Elided, Core!Elided, OnWire, Core!OnWire,
       StreamSeen, Core!StreamSeen, PtsSeen, Core!PtsSeen, HeadSeen, Core!HeadSeen
<1>1. Core!FrameRefused(c, u, have, ceiling) <=> FrameRefused(c, u, have, ceiling)
  BY DEF FrameRefused, Core!FrameRefused
<1>2. Core!FrameReads(c, u, have, ceiling) <=> FrameReads(c, u, have, ceiling)
  BY DEF FrameReads, Core!FrameReads, FrameRefused, Core!FrameRefused
<1>3. Core!FramePanics(c, u, have) <=> FramePanics(c, u, have)
  BY DEF FramePanics, Core!FramePanics
<1>4. Core!Elided(c, u) = Elided(c, u) /\ Core!OnWire(c, u) = OnWire(c, u)
  OBVIOUS
<1>5. Core!FrameRead(c, u) = FrameRead(c, u)
  BY DEF FrameRead, Core!FrameRead, LandPts, Core!LandPts, Reaches, Core!Reaches
<1>6. Core!Packet(c, u) = Packet(c, u)
  BY DEF Packet, Core!Packet, Dts, Core!Dts, LandPts, Core!LandPts,
         Reaches, Core!Reaches
<1>7. QED
  BY <1>1, <1>2, <1>3, <1>4, <1>5, <1>6

LEMMA SameFrameEvents ==
  ASSUME NEW packet, NEW data
  PROVE  Core!FrameEvent(packet, data) = FrameEvent(packet, data)
BY DEF FrameEvent, Core!FrameEvent

-----------------------------------------------------------------------------
(* What a unit leaves of the first stream's header, but for the frame rate *)
(* that info packets state.                                                *)

Timeless(header) == [header EXCEPT !.rate = 0]

(* A main header declares one stream at least.                             *)
MainFirst(c) == HasMain(c) => 1 \in Declared(c)

FirstKept(c, d) ==
  /\ HasMain(c) => HasMain(d)
  /\ 1 \in Declared(c) => Timeless(Header(d, 1)) = Timeless(Header(c, 1))

ContextKept(c, d) == ContextOK(d) /\ MainFirst(d) /\ FirstKept(c, d)

LEMMA SameStreams ==
  ASSUME NEW c, NEW d, MainFirst(c), d.streams = c.streams, d.bases = c.bases
  PROVE  MainFirst(d) /\ FirstKept(c, d)
BY DEF MainFirst, FirstKept, HasMain, Declared, Header

LEMMA HeadersClosedStreams ==
  ASSUME NEW c, ContextOK(c), MainFirst(c)
  PROVE  ContextKept(c, HeadersClosed(c))
<1>1. HeadersClosed(c).streams = c.streams /\ HeadersClosed(c).bases = c.bases
  BY DEF ContextOK, IsContext, HeadersClosed
<1>2. QED
  BY <1>1, SameStreams, HeadersClosedKeeps DEF ContextKept

LEMMA ReadSyncpointStreams ==
  ASSUME NEW c, ContextOK(c), MainFirst(c), NEW u
  PROVE  ContextKept(c, ReadSyncpoint(c, u))
<1>1. ReadSyncpoint(c, u).streams = c.streams /\ ReadSyncpoint(c, u).bases = c.bases
  BY DEF ContextOK, IsContext, ReadSyncpoint
<1>2. QED
  BY <1>1, SameStreams, ReadSyncpointKeeps DEF ContextKept

LEMMA BodyRefusedStreams ==
  ASSUME NEW c, ContextOK(c), MainFirst(c), NEW u
  PROVE  ContextKept(c, BodyRefusedLeaves(c, u))
<1>1. ContextKept(c, c)
  BY DEF ContextKept, FirstKept
<1>2. QED
  BY <1>1, ReadSyncpointStreams DEF BodyRefusedLeaves

LEMMA FrameReadStreams ==
  ASSUME NEW c, ContextOK(c), MainFirst(c), NEW u \in FrameUnits, u.stream \in Known(c),
         ~PtsRefused(c, u)
  PROVE  ContextKept(c, FrameRead(c, u))
<1>1. FrameRead(c, u).streams = c.streams /\ FrameRead(c, u).bases = c.bases
  BY DEF ContextOK, IsContext, FrameRead
<1>2. QED
  BY <1>1, SameStreams, FrameReadKeeps DEF ContextKept

LEMMA RatedTimeless ==
  ASSUME NEW header \in Headers, NEW rate
  PROVE  Timeless(Rated(header, rate)) = Timeless(header)
BY DEF Timeless, Rated, Headers

LEMMA ApplyInfoStreams ==
  ASSUME NEW c, ContextOK(c), MainFirst(c), NEW u \in InfoUnits
  PROVE  ContextKept(c, ApplyInfo(c, u))
<1> DEFINE d == ApplyInfo(c, u)
<1>1. /\ d.bases = c.bases
      /\ d.streams = [i \in DOMAIN c.streams |->
                        IF i \in Known(c) /\ u.about \in {0, i}
                          THEN <<Rated(Header(c, i), u.rate)>> ELSE c.streams[i]]
  BY DEF ContextOK, IsContext, ApplyInfo
<1>2. ContextOK(d)
  BY ApplyInfoKeeps
<1> HIDE DEF d
<1>3. MainFirst(d) /\ (HasMain(c) => HasMain(d))
  BY <1>1 DEF MainFirst, HasMain, Declared
<1>4. ASSUME 1 \in Declared(c) PROVE Timeless(Header(d, 1)) = Timeless(Header(c, 1))
  <2>1. CASE 1 \in Known(c) /\ u.about \in {0, 1}
    <3>1. Header(c, 1) \in Headers
      BY <2>1, KnownHeader
    <3>2. Header(d, 1) = Rated(Header(c, 1), u.rate)
      BY <1>1, <1>4, <2>1 DEF Header, Declared
    <3>3. QED
      BY <3>1, <3>2, RatedTimeless
  <2>2. CASE ~(1 \in Known(c) /\ u.about \in {0, 1})
    <3>1. d.streams[1] = c.streams[1]
      BY <1>1, <1>4, <2>2 DEF Declared
    <3>2. QED
      BY <3>1 DEF Header
  <2>3. QED
    BY <2>1, <2>2
<1>5. QED
  BY <1>2, <1>3, <1>4 DEF ContextKept, FirstKept, d

LEMMA ApplyTagsStreams ==
  ASSUME NEW c, ContextOK(c), MainFirst(c), NEW u \in InfoUnits
  PROVE  ContextKept(c, ApplyTags(c, u))
<1>1. ApplyTags(c, u).streams = c.streams /\ ApplyTags(c, u).bases = c.bases
  BY DEF ContextOK, IsContext, ApplyTags
<1>2. QED
  BY <1>1, SameStreams, ApplyTagsKeeps DEF ContextKept

LEMMA ContextKeptOn ==
  ASSUME NEW c, NEW d, NEW e, ContextKept(c, d), ContextKept(d, e),
         1 \in Declared(c) => 1 \in Declared(d)
  PROVE  ContextKept(c, e)
BY DEF ContextKept, FirstKept

(* Headers alone tell of another first stream, and the event says so.      *)
LEMMA PacketReadStreams ==
  ASSUME NEW c, ContextOK(c), MainFirst(c), NEW u \in Units,
         u.kind \in {"main", "stream", "syncpoint", "info"}, ~BodyRefused(c, u)
  PROVE  /\ ContextOK(PacketRead(c, u)) /\ MainFirst(PacketRead(c, u))
         /\ HasMain(c) => HasMain(PacketRead(c, u))
         /\ u.kind = "stream" => HasMain(PacketRead(c, u))
         /\ u.kind \in {"syncpoint", "info"} => FirstKept(c, PacketRead(c, u))
<1>1. ContextOK(PacketRead(c, u))
  BY PacketReadKeeps
<1>2. CASE u.kind = "main"
  <2>1. u \in MainUnits /\ u.count \in 1 .. MaxStreams /\ MaxStreams \in Nat
    BY <1>2, UnitKinds, LimitsAssumption DEF BodyRefused, MainRefused
  <2>2. u.bases # <<>>
    BY <2>1 DEF MainUnits
  <2>3. PacketRead(c, u) = ReadMain(c, u)
    BY <1>2 DEF PacketRead
  <2>4. ReadMain(c, u).bases = u.bases /\ Len(ReadMain(c, u).streams) = u.count
    BY <2>1 DEF ContextOK, IsContext, ReadMain
  <2>5. ReadMain(c, u).streams \in Seq(Options)
    BY <1>1, <2>3 DEF ContextOK
  <2>6. 1 \in DOMAIN ReadMain(c, u).streams
    BY <2>1, <2>4, <2>5
  <2>7. QED
    BY <1>1, <1>2, <2>2, <2>3, <2>4, <2>6 DEF MainFirst, HasMain, Declared
<1>3. CASE u.kind = "stream"
  <2>1. PacketRead(c, u) = ReadStream(c, u) /\ HasMain(c)
    BY <1>3 DEF PacketRead, BodyRefused, StreamRefused
  <2>2. ReadStream(c, u).bases = c.bases
        /\ DOMAIN ReadStream(c, u).streams = DOMAIN c.streams
    BY DEF ContextOK, IsContext, ReadStream
  <2>3. QED
    BY <1>1, <1>3, <2>1, <2>2 DEF MainFirst, HasMain, Declared
<1>4. CASE u.kind = "syncpoint"
  <2> DEFINE d == ReadSyncpoint(c, u)
  <2>1. PacketRead(c, u) = HeadersClosed(d)
    BY <1>4 DEF PacketRead
  <2>2. ContextKept(c, d) /\ d.streams = c.streams
    BY ReadSyncpointStreams DEF ContextOK, IsContext, ReadSyncpoint
  <2> HIDE DEF d
  <2>3. ContextKept(d, HeadersClosed(d))
    BY <2>2, HeadersClosedStreams DEF ContextKept
  <2>4. ContextKept(c, HeadersClosed(d))
    BY <2>2, <2>3, ContextKeptOn DEF Declared
  <2>5. QED
    BY <1>4, <2>1, <2>4 DEF ContextKept, FirstKept
<1>5. CASE u.kind = "info"
  <2> DEFINE d == ApplyTags(c, u)
  <2>1. u \in InfoUnits
    BY <1>5, UnitKinds
  <2>2. ContextKept(c, d) /\ d.streams = c.streams
    BY <2>1, ApplyTagsStreams DEF ContextOK, IsContext, ApplyTags
  <2>3. PacketRead(c, u) = IF u.readable THEN ApplyInfo(d, u) ELSE c
    BY <1>5 DEF PacketRead
  <2> HIDE DEF d
  <2>4. ContextKept(d, ApplyInfo(d, u))
    BY <2>1, <2>2, ApplyInfoStreams DEF ContextKept
  <2>5. ContextKept(c, ApplyInfo(d, u)) /\ ContextKept(c, c)
    BY <2>2, <2>4, ContextKeptOn DEF Declared, ContextKept, FirstKept
  <2>6. ContextKept(c, PacketRead(c, u))
    BY <2>3, <2>5
  <2>7. QED
    BY <1>5, <2>6 DEF ContextKept, FirstKept
<1>6. QED
  BY <1>2, <1>3, <1>4, <1>5
-----------------------------------------------------------------------------
(* The reading beneath. What it has told of headers its context has, and   *)
(* the end of the input is the last thing it tells.                        *)

(* Units that make the events which properties are about, and whether a    *)
(* unit makes this one.                                                    *)
Speaks(u) == u.kind = "stream" \/ (u.kind = "frame" /\ ~u.eor)

Makes(u, e) ==
  /\ e.kind = "StreamHeader" => u.kind = "stream" /\ u.stream = e.stream
  /\ e.kind = "Frame" => u.kind = "frame" /\ u.stream = e.packet.stream /\ ~u.eor
  /\ e.kind \notin {"StreamHeader", "Frame"} => ~Speaks(u)

LastStarted(p) == p \in Started /\ \A q \in Started : q <= p

LastMakes(e) == e.kind \notin OfNoUnit => \E p : LastStarted(p) /\ Makes(wire.unit[p], e)
LastIsMute   == \E p : LastStarted(p) /\ ~Speaks(wire.unit[p])

EventSaid(j) ==
  /\ log[j].kind \in {"StreamHeader", "EndOfHeaders"} => HasMain(ctx)
  /\ log[j].kind = "EndOfInput" => log[j] = EndOfInput /\ j = Len(log) /\ stage = "ended"

EventInHand(h) == h = <<h[1]>> /\ h[1].kind = "Frame"

HandOK ==
  \/ hand = <<>>
  \/ hand = <<Core!Skipped>> /\ LastIsMute
  \/ EventInHand(hand) /\ LastMakes(hand[1])

ReadingOK ==
  /\ IsWire(wire) /\ InLine(wire)
  /\ place \in Nat
  /\ stage = "opening" => place = 0
  /\ stage = "ended" => hand = <<>>
  /\ ContextOK(ctx) /\ MainFirst(ctx)
  /\ HandOK
  /\ IsRow(log)
  /\ \A j \in 1 .. Len(log) : EventSaid(j)

(* A step tells nothing, or events of some kinds.                          *)
Tells(kinds) ==
  /\ IsRow(log')
  /\ Len(log) <= Len(log')
  /\ \A j \in 1 .. Len(log) : log'[j] = log[j]
  /\ \A j \in Len(log) + 1 .. Len(log') : log'[j].kind \in kinds
  /\ "EndOfInput" \in kinds => Len(log') = Len(log) + 1 /\ log'[Len(log')] = EndOfInput

LEMMA TellsNothing ==
  ASSUME IsRow(log), log' = log
  PROVE  Tells({})
BY DEF Tells, IsRow

LEMMA TellsOne ==
  ASSUME IsRow(log), NEW e, log' = Append(log, e), e.kind = "EndOfInput" => e = EndOfInput
  PROVE  Tells({e.kind}) /\ Len(log') = Len(log) + 1 /\ log'[Len(log) + 1] = e
<1>1. /\ Len(log) \in Nat /\ Len(log') = Len(log) + 1
      /\ \A i \in 1 .. Len(log) : log'[i] = log[i]
      /\ log'[Len(log) + 1] = e
  BY Appended
<1>2. IsRow(log')
  BY RowAppend
<1>3. QED
  BY <1>1, <1>2 DEF Tells

LEMMA TellsTwo ==
  ASSUME IsRow(log), NEW e, NEW f, log' = Append(Append(log, e), f),
         "EndOfInput" \notin {e.kind, f.kind}
  PROVE  Tells({e.kind, f.kind})
<1> DEFINE l == Append(log, e)
<1>1. /\ Len(log) \in Nat /\ Len(l) = Len(log) + 1 /\ IsRow(l)
      /\ \A i \in 1 .. Len(log) : l[i] = log[i]
      /\ l[Len(log) + 1] = e
  BY Appended, RowAppend
<1> HIDE DEF l
<1>2. log' = Append(l, f)
  BY DEF l
<1>3. /\ Len(log') = Len(l) + 1 /\ IsRow(log')
      /\ \A i \in 1 .. Len(l) : log'[i] = l[i]
      /\ log'[Len(l) + 1] = f
  BY <1>1, <1>2, Appended, RowAppend
<1>4. QED
  BY <1>1, <1>3 DEF Tells

(* What it tells is of the last unit begun, or of none.                    *)
TellsLast ==
  /\ \A j \in Len(log) + 1 .. Len(log') : LastMakes(log[j])'
  /\ \A j \in Len(log) + 2 .. Len(log') : log'[j].kind \in OfNoUnit
  /\ Len(log) < Len(log') => hand' = <<>>

(* Of the units behind, those whose events matter are those from before:   *)
(* the last unit is not behind while it is in hand or its event is new.    *)
Awaits == hand' # <<>> \/ \E j \in Len(log) + 1 .. Len(log') : log'[j].kind \notin OfNoUnit

SpokenKept ==
  {p \in Started : Speaks(wire.unit[p]) /\ (hand # <<>> => \E q \in Started : p < q)}
  = {p \in Started' : Speaks(wire'.unit[p]) /\ (Awaits => \E q \in Started' : p < q)}

(* What a step of the reading makes of its context and tells of it.        *)
Stepped(kinds) ==
  /\ UNCHANGED wire
  /\ place' \in Nat /\ place <= place'
  /\ stage' = "opening" => place' = 0
  /\ stage' = "ended" => hand' = <<>>
  /\ ContextOK(ctx') /\ MainFirst(ctx')
  /\ HasMain(ctx) => HasMain(ctx')
  /\ HandOK'
  /\ Tells(kinds)
  /\ TellsLast /\ SpokenKept
  /\ kinds \cap {"StreamHeader", "EndOfHeaders"} # {} => HasMain(ctx')
  /\ "EndOfInput" \in kinds \/ stage = "ended" => stage' = "ended"
  /\ stage = "ended" => kinds = {"EndOfInput"}

Restates ==
  Len(log') = Len(log) + 1 /\ log'[Len(log')].kind \in {"MainHeader", "StreamHeader"}

StepOK == \E kinds : Stepped(kinds) /\ (FirstKept(ctx, ctx') \/ Restates)

LEMMA LastStays ==
  ASSUME UNCHANGED <<wire, place>>
  PROVE  /\ \A e : LastMakes(e) <=> LastMakes(e)'
         /\ LastIsMute <=> LastIsMute'
BY DEF LastMakes, LastIsMute, LastStarted, Started

LEMMA TellsNothingLast ==
  ASSUME IsRow(log), log' = log
  PROVE  TellsLast
BY DEF TellsLast, IsRow

LEMMA TellsOneLast ==
  ASSUME IsRow(log), NEW e, log' = Append(log, e), hand' = <<>>,
         e.kind \notin OfNoUnit => \E p : LastStarted(p)' /\ Makes(wire'.unit[p], e)
  PROVE  TellsLast
<1>1. /\ Len(log) \in Nat /\ Len(log') = Len(log) + 1 /\ log'[Len(log) + 1] = e
  BY Appended
<1>2. ASSUME NEW j \in Len(log) + 1 .. Len(log')
      PROVE  LastMakes(log[j])'
  <2>1. j = Len(log) + 1
    BY <1>1
  <2>2. log'[j] = e
    BY <1>1, <2>1
  <2>3. QED
    BY <2>2 DEF LastMakes
<1>3. QED
  BY <1>1, <1>2 DEF TellsLast

(* Steps that tell nothing and leave no other context, or that of a packet *)
(* refused.                                                                *)
LEMMA QuietStep ==
  ASSUME ReadingOK, stage # "ended", stage' # "ended", UNCHANGED <<wire, log>>,
         place' \in Nat, place <= place', stage' = "opening" => place' = 0,
         \/ hand' = <<>>
         \/ hand' = <<Core!Skipped>> /\ LastIsMute'
         \/ UNCHANGED <<hand, place>>,
         SpokenKept,
         \/ ctx' = ctx
         \/ \E u : ctx' = BodyRefusedLeaves(ctx, u)
  PROVE  StepOK
<1>1. ContextKept(ctx, ctx')
  BY BodyRefusedStreams DEF ReadingOK, ContextKept, FirstKept
<1>2. Tells({})
  BY TellsNothing DEF ReadingOK
<1>3. HandOK'
  <2>1. CASE UNCHANGED <<hand, place>>
    BY <2>1 DEF ReadingOK, HandOK, EventInHand, LastMakes, LastIsMute, LastStarted, Started
  <2>2. CASE hand' = <<>> \/ (hand' = <<Core!Skipped>> /\ LastIsMute')
    BY <2>2 DEF HandOK
  <2>3. QED
    BY <2>1, <2>2
<1>4. Stepped({})
  <2>1. TellsLast
    BY TellsNothingLast DEF ReadingOK
  <2>2. QED
    BY <1>1, <1>2, <1>3, <2>1 DEF Stepped, ContextKept, FirstKept
<1>5. QED
  BY <1>1, <1>4 DEF StepOK, ContextKept

LEMMA UnitThere ==
  ASSUME ReadingOK
  PROVE  /\ Core!Unit = UnitAt(wire, place)
         /\ Core!Unit \in Units
         /\ Core!Unit.kind # "frame" =>
              /\ Core!Unit.head \in Nat \ {0} /\ Core!Unit.body \in Nat
              /\ place \in DOMAIN wire.unit /\ wire.unit[place] = Core!Unit
<1>1. Core!Unit = UnitAt(wire, place) /\ Core!Unit \in Units
  BY SameUnits, UnitsEverywhere DEF ReadingOK, Core!Unit
<1>2. Core!Unit.kind # "frame" => place \in DOMAIN wire.unit /\ wire.unit[place] = Core!Unit
  BY <1>1 DEF UnitAt, NoUnit
<1>3. QED
  BY <1>1, <1>2, PacketFields

(* A unit that is begun is the last one.                                   *)
LEMMA BeginsUnit ==
  ASSUME ReadingOK, UNCHANGED wire, place \in DOMAIN wire.unit,
         NEW n \in Nat \ {0}, n <= Width(wire.unit[place]), place' = place + n
  PROVE  /\ Started' = Started \cup {place}
         /\ \A q \in Started : q < place
         /\ \A q \in Started' : q <= place
<1> DEFINE wide == Width(wire.unit[place])
<1>1. place \in Nat /\ DOMAIN wire.unit \subseteq Nat
  BY DEF ReadingOK, IsWire
<1>2. \A q \in DOMAIN wire.unit : place < q => place + wide <= q
  BY DEF ReadingOK, InLine
<1>3. wide \in Nat
  BY UnitsEverywhere, PacketFields, FrameFields DEF ReadingOK, IsWire, Width
<1>4. n <= wide
  OBVIOUS
<1> HIDE DEF wide
<1>5. ASSUME NEW q \in DOMAIN wire.unit, q < place + n
      PROVE  q <= place
  <2>1. q \in Nat
    BY <1>1
  <2>2. ~(place < q)
    BY <1>1, <1>2, <1>3, <1>4, <1>5, <2>1
  <2>3. QED
    BY <1>1, <2>1, <2>2
<1>6. QED
  BY <1>1, <1>5 DEF Started

LEMMA SpokenByNewUnit ==
  ASSUME ReadingOK, UNCHANGED wire, hand = <<>>, place \in DOMAIN wire.unit,
         NEW n \in Nat \ {0}, n <= Width(wire.unit[place]), place' = place + n,
         ~Speaks(wire.unit[place]) \/ Awaits
  PROVE  SpokenKept
<1>1. /\ Started' = Started \cup {place}
      /\ \A q \in Started : q < place
      /\ \A q \in Started' : q <= place
  BY BeginsUnit
<1>2. Started' \subseteq Nat /\ place \in Nat
  BY DEF ReadingOK, IsWire, Started
<1>3. ~\E q \in Started' : place < q
  BY <1>1, <1>2
<1>4. \A p \in Started : \E q \in Started' : p < q
  BY <1>1
<1>5. QED
  BY <1>1, <1>3, <1>4 DEF SpokenKept

LEMMA SpokenBySame ==
  ASSUME UNCHANGED <<wire, place>>, Awaits <=> hand # <<>>
  PROVE  SpokenKept
BY DEF SpokenKept, Started

(* What is in hand is no event, or becomes the one that is told.           *)
LEMMA SpokenByMute ==
  ASSUME ReadingOK, UNCHANGED <<wire, place>>, LastIsMute, ~Awaits
  PROVE  SpokenKept
<1>1. PICK last : LastStarted(last) /\ ~Speaks(wire.unit[last])
  BY DEF LastIsMute
<1>2. Started \subseteq Nat /\ last \in Started /\ \A q \in Started : q <= last
  BY <1>1 DEF ReadingOK, IsWire, Started, LastStarted
<1>3. ASSUME NEW p \in Started, Speaks(wire.unit[p])
      PROVE  \E q \in Started : p < q
  <2>1. p # last /\ p <= last /\ p \in Nat /\ last \in Nat
    BY <1>1, <1>2, <1>3
  <2>2. p < last
    BY <2>1
  <2>3. QED
    BY <1>2, <2>2
<1>4. Started' = Started
  BY DEF Started
<1>5. QED
  BY <1>3, <1>4 DEF SpokenKept

LEMMA AwaitsOne ==
  ASSUME IsRow(log), NEW e, log' = Append(log, e), hand' = <<>>
  PROVE  Awaits <=> e.kind \notin OfNoUnit
<1>1. /\ Len(log) \in Nat /\ Len(log') = Len(log) + 1 /\ log'[Len(log) + 1] = e
  BY Appended
<1>2. Len(log) + 1 .. Len(log') = {Len(log) + 1}
  BY <1>1
<1>3. QED
  BY <1>1, <1>2 DEF Awaits

LEMMA TellsTwoLast ==
  ASSUME IsRow(log), NEW e, NEW f, log' = Append(Append(log, e), f), hand' = <<>>,
         e.kind \notin OfNoUnit, f.kind \in OfNoUnit,
         \E p : LastStarted(p)' /\ Makes(wire'.unit[p], e)
  PROVE  TellsLast /\ Awaits
<1> DEFINE l == Append(log, e)
<1>1. /\ Len(log) \in Nat /\ Len(l) = Len(log) + 1 /\ IsRow(l)
      /\ l[Len(log) + 1] = e
  BY Appended, RowAppend
<1> HIDE DEF l
<1>2. log' = Append(l, f)
  BY DEF l
<1>3. /\ Len(log') = Len(log) + 2
      /\ log'[Len(log) + 1] = e /\ log'[Len(log) + 2] = f
  BY <1>1, <1>2, Appended
<1>4. ASSUME NEW j \in Len(log) + 1 .. Len(log')
      PROVE  LastMakes(log[j])'
  <2>1. j = Len(log) + 1 \/ j = Len(log) + 2
    BY <1>1, <1>3
  <2>2. log'[j] = e \/ log'[j] = f
    BY <1>3, <2>1
  <2>3. QED
    BY <2>2 DEF LastMakes
<1>5. \A j \in Len(log) + 2 .. Len(log') : j = Len(log) + 2
  BY <1>1, <1>3
<1>6. Len(log) + 1 \in Len(log) + 1 .. Len(log')
  BY <1>1, <1>3
<1>7. QED
  BY <1>3, <1>4, <1>5, <1>6 DEF TellsLast, Awaits

LEMMA AwaitsSame ==
  ASSUME IsRow(log), log' = log
  PROVE  Awaits <=> hand' # <<>>
BY DEF Awaits, IsRow

LEMMA QuietSteps ==
  ASSUME ReadingOK,
         Core!Open \/ Core!BeginSkip \/ Core!Truncate \/ Core!GiveUp \/ Core!Refuse \/ Core!Panic
  PROVE  StepOK
<1> USE DEF Core!AtUnit
<1>1. place \in Nat /\ (stage = "opening" => place = 0)
  BY DEF ReadingOK
<1>2. CASE Core!Open
  <2>1. /\ stage = "opening" /\ stage' = "reading" /\ place = 0 /\ place' \in Nat
        /\ UNCHANGED <<wire, ctx, hand, log>>
    BY <1>1, <1>2, DemuxerAssumption DEF Core!Open
  <2>2. Started = {} /\ Started' = {}
    BY <1>2, <2>1 DEF ReadingOK, IsWire, InLine, Started, Core!Open
  <2>3. hand = <<>>
    BY <2>2 DEF ReadingOK, HandOK, EventInHand, LastMakes, LastIsMute, LastStarted, OfNoUnit
  <2>4. SpokenKept
    BY <2>2 DEF SpokenKept
  <2>5. QED
    BY <2>1, <2>3, <2>4, QuietStep
<1>3. CASE Core!BeginSkip
  <2> DEFINE u == Core!Unit
             n == u.head + u.body
  <2>1. /\ u.head \in Nat \ {0} /\ u.body \in Nat /\ u.kind # "frame" /\ SteppedOver(u)
        /\ place \in DOMAIN wire.unit /\ wire.unit[place] = u
    BY <1>3, UnitThere, SamePackets DEF Core!BeginSkip
  <2>2. /\ stage = "reading" /\ UNCHANGED <<wire, stage, ctx, log>> /\ hand = <<>>
        /\ hand' = <<Core!Skipped>> /\ place' = place + u.head + u.body
    BY <1>3 DEF Core!BeginSkip
  <2> HIDE DEF u
  <2>3. /\ place' \in Nat /\ place <= place' /\ place' = place + n
        /\ n \in Nat \ {0} /\ n <= Width(wire.unit[place])
    BY <1>1, <2>1, <2>2 DEF Width
  <2>4. ~Speaks(wire.unit[place])
    BY <2>1 DEF SteppedOver, Speaks
  <2> HIDE DEF n
  <2>5. SpokenKept
    BY <2>1, <2>2, <2>3, <2>4, SpokenByNewUnit
  <2>6. LastIsMute'
    <3>1. place \in Started' /\ \A q \in Started' : q <= place
      BY <2>1, <2>2, <2>3, BeginsUnit
    <3>2. QED
      BY <2>2, <2>4, <3>1 DEF LastIsMute, LastStarted
  <2>7. QED
    BY <2>2, <2>3, <2>5, <2>6, QuietStep
<1>4. CASE Core!Truncate \/ Core!GiveUp
  <2>1. /\ stage # "ended" /\ stage' \notin {"opening", "ended"}
        /\ UNCHANGED <<wire, place, ctx, hand, log>>
    BY <1>4 DEF Core!Truncate, Core!GiveUp
  <2>2. SpokenKept
    BY <2>1, AwaitsSame, SpokenBySame DEF ReadingOK
  <2>3. QED
    BY <1>1, <2>1, <2>2, QuietStep
<1>5. CASE Core!Refuse \/ Core!Panic
  <2> DEFINE u == Core!Unit
  <2>1. /\ stage # "ended" /\ stage' \notin {"opening", "ended"}
        /\ UNCHANGED <<wire, place, hand, log>>
        /\ ctx' = ctx \/ ctx' = Core!BodyRefusedLeaves(ctx, u)
    BY <1>5 DEF Core!Refuse, Core!RefuseInput, Core!RefusePacket, Core!RefuseFrame, Core!Panic
  <2> HIDE DEF u
  <2>2. Core!BodyRefusedLeaves(ctx, u) = BodyRefusedLeaves(ctx, u)
    BY SamePackets
  <2>3. SpokenKept
    BY <2>1, AwaitsSame, SpokenBySame DEF ReadingOK
  <2>4. QED
    BY <1>1, <2>1, <2>2, <2>3, QuietStep
<1>6. QED
  BY <1>2, <1>3, <1>4, <1>5

LEMMA ReadPacketStep ==
  ASSUME ReadingOK, Core!ReadPacket
  PROVE  StepOK
<1> DEFINE u == Core!Unit
<1>1. /\ ReadingOK /\ IsRow(log) /\ ContextOK(ctx) /\ MainFirst(ctx) /\ place \in Nat
      /\ IsWire(wire)
  BY DEF ReadingOK
<1>2. u \in Units /\ u.kind # "frame" /\ u.head \in Nat /\ u.body \in Nat
  BY UnitThere DEF Core!ReadPacket
<1>3. /\ stage = "reading" /\ stage' = stage /\ hand = <<>> /\ UNCHANGED <<wire, hand>>
      /\ place' = place + u.head + u.body
      /\ ~SteppedOver(u) /\ ~BodyRefused(ctx, u) /\ ctx' = PacketRead(ctx, u)
      /\ log' = log \o PacketEvent(u) \o PendingAfter(ctx, u)
  BY SamePackets DEF Core!ReadPacket, Core!AtUnit
<1> HIDE DEF u
<1>4. u.kind \in {"main", "stream", "syncpoint", "info"}
  BY <1>2, <1>3, PacketKinds
<1>5. /\ ContextOK(ctx') /\ MainFirst(ctx') /\ (HasMain(ctx) => HasMain(ctx'))
      /\ u.kind = "stream" => HasMain(ctx')
      /\ u.kind \in {"syncpoint", "info"} => FirstKept(ctx, ctx')
  BY <1>1, <1>2, <1>3, <1>4, PacketReadStreams
<1>6. HandOK'
  BY <1>3 DEF HandOK
<1>7. /\ place' \in Nat /\ place <= place'
      /\ \E p : LastStarted(p)' /\ wire'.unit[p] = u
      /\ ~Speaks(u) \/ Awaits => SpokenKept
  <2> DEFINE n == u.head + u.body
  <2>1. place \in DOMAIN wire.unit /\ wire.unit[place] = u /\ u.head \in Nat \ {0}
    BY <1>2, UnitThere DEF u
  <2>2. n \in Nat \ {0} /\ n <= Width(wire.unit[place]) /\ place' = place + n
    BY <1>1, <1>2, <1>3, <2>1 DEF Width
  <2> HIDE DEF n
  <2>3. place \in Started' /\ \A q \in Started' : q <= place
    BY <1>1, <1>3, <2>1, <2>2, BeginsUnit
  <2>4. ~Speaks(u) \/ Awaits => SpokenKept
    BY <1>1, <1>3, <2>1, <2>2, SpokenByNewUnit
  <2>5. \E p : LastStarted(p)' /\ wire'.unit[p] = u
    BY <1>3, <2>1, <2>3 DEF LastStarted
  <2>6. QED
    BY <1>1, <1>2, <1>3, <2>1, <2>4, <2>5
<1>8. ASSUME NEW kinds, Tells(kinds), TellsLast, SpokenKept, "EndOfInput" \notin kinds,
             kinds \cap {"StreamHeader", "EndOfHeaders"} # {} => HasMain(ctx')
      PROVE  Stepped(kinds)
  BY <1>3, <1>5, <1>6, <1>7, <1>8 DEF Stepped
<1>9. ASSUME NEW e, PacketEvent(u) = <<e>>, PendingAfter(ctx, u) = <<>>, Makes(u, e),
             e.kind \notin {"Frame", "EndOfInput", "EndOfHeaders"},
             e.kind = "StreamHeader" => HasMain(ctx')
      PROVE  Stepped({e.kind}) /\ Len(log') = Len(log) + 1 /\ log'[Len(log) + 1] = e
  <2>1. log' = Append(log, e)
    <3>1. IsRow(Append(log, e)) /\ log \o <<e>> = Append(log, e)
      BY <1>1, RowAppend, RowJoin
    <3>2. Append(log, e) \o <<>> = Append(log, e)
      BY <3>1, RowJoin
    <3>3. QED
      BY <1>3, <1>9, <3>1, <3>2
  <2>2. Tells({e.kind}) /\ Len(log') = Len(log) + 1 /\ log'[Len(log) + 1] = e
    BY <1>1, <1>9, <2>1, TellsOne
  <2>3. hand' = <<>>
    BY <1>3
  <2>4. TellsLast
    BY <1>1, <1>7, <1>9, <2>1, <2>3, TellsOneLast
  <2>5. Awaits
    BY <1>1, <1>9, <2>1, <2>3, AwaitsOne DEF OfNoUnit
  <2>6. QED
    BY <1>7, <1>8, <1>9, <2>2, <2>4, <2>5
<1>10. CASE u.kind \in {"main", "stream"}
  <2>1. PICK e : PacketEvent(u) = <<e>> /\ e.kind \in {"MainHeader", "StreamHeader"}
                 /\ (u.kind = "main" => e.kind = "MainHeader") /\ Makes(u, e)
    BY <1>10 DEF PacketEvent, Makes, Speaks
  <2>2. PendingAfter(ctx, u) = <<>>
    BY <1>10 DEF PendingAfter
  <2>3. e.kind = "StreamHeader" => HasMain(ctx')
    BY <1>5, <1>10, <2>1
  <2>4. QED
    BY <1>9, <2>1, <2>2, <2>3 DEF StepOK, Restates
<1>11. CASE u.kind = "info"
  <2>1. PendingAfter(ctx, u) = <<>>
    BY <1>11 DEF PendingAfter
  <2>2. CASE u.readable
    <3>1. PICK e : PacketEvent(u) = <<e>> /\ e.kind = "Info" /\ Makes(u, e)
      BY <1>11, <2>2 DEF PacketEvent, Makes, Speaks
    <3>2. QED
      BY <1>5, <1>9, <1>11, <2>1, <3>1 DEF StepOK
  <2>3. CASE ~u.readable
    <3>1. PacketEvent(u) = <<>>
      BY <1>11, <2>3 DEF PacketEvent
    <3>2. log' = log
      BY <1>1, <1>3, <2>1, <3>1, RowJoin
    <3>3. Tells({})
      BY <1>1, <3>2, TellsNothing
    <3>4. TellsLast
      BY <1>1, <3>2, TellsNothingLast
    <3>5. SpokenKept
      BY <1>7, <1>11 DEF Speaks
    <3>6. QED
      BY <1>5, <1>8, <1>11, <3>3, <3>4, <3>5 DEF StepOK
  <2>4. QED
    BY <2>2, <2>3
<1>12. CASE u.kind = "syncpoint"
  <2>1. PICK e : PacketEvent(u) = <<e>> /\ e.kind = "Syncpoint" /\ Makes(u, e)
    BY <1>12 DEF PacketEvent, Makes, Speaks
  <2>2. CASE PendingAfter(ctx, u) = <<>>
    BY <1>5, <1>9, <1>12, <2>1, <2>2 DEF StepOK
  <2>3. CASE PendingAfter(ctx, u) # <<>>
    <3>1. PendingAfter(ctx, u) = <<EndOfHeaders>> /\ HasMain(ReadSyncpoint(ctx, u))
      BY <1>12, <2>3 DEF PendingAfter, HeadersDue, HeadersComplete
    <3>2. HasMain(ctx')
      <4>1. ContextKept(ReadSyncpoint(ctx, u), HeadersClosed(ReadSyncpoint(ctx, u)))
        BY <1>1, ReadSyncpointStreams, HeadersClosedStreams DEF ContextKept
      <4>2. ctx' = HeadersClosed(ReadSyncpoint(ctx, u))
        BY <1>3, <1>12 DEF PacketRead
      <4>3. QED
        BY <3>1, <4>1, <4>2 DEF ContextKept, FirstKept
    <3>3. log' = Append(Append(log, e), EndOfHeaders)
      <4>1. IsRow(Append(log, e)) /\ log \o <<e>> = Append(log, e)
        BY <1>1, RowAppend, RowJoin
      <4>2. Append(log, e) \o <<EndOfHeaders>> = Append(Append(log, e), EndOfHeaders)
        BY <4>1, RowJoin
      <4>3. QED
        BY <1>3, <2>1, <3>1, <4>1, <4>2
    <3>4. EndOfHeaders.kind = "EndOfHeaders"
      BY DEF EndOfHeaders
    <3>5. Tells({e.kind, EndOfHeaders.kind})
      BY <1>1, <2>1, <3>3, <3>4, TellsTwo
    <3>6. TellsLast
      <4>1. hand' = <<>> /\ e.kind \notin OfNoUnit /\ EndOfHeaders.kind \in OfNoUnit
        BY <1>3, <2>1, <3>4 DEF OfNoUnit
      <4>2. QED
        BY <1>1, <1>7, <2>1, <3>3, <4>1, TellsTwoLast
    <3>7. SpokenKept
      BY <1>7, <1>12 DEF Speaks
    <3>8. QED
      BY <1>5, <1>8, <1>12, <2>1, <3>2, <3>4, <3>5, <3>6, <3>7 DEF StepOK
  <2>4. QED
    BY <2>2, <2>3
<1>13. QED
  BY <1>4, <1>10, <1>11, <1>12

LEMMA BeginFrameStep ==
  ASSUME ReadingOK, Core!BeginFrame
  PROVE  StepOK
<1> DEFINE u       == Core!Unit
           ceiling == Core!Ceiling(ceilings, u.stream)
<1>1. /\ IsRow(log) /\ ContextOK(ctx) /\ MainFirst(ctx) /\ place \in Nat /\ IsWire(wire)
  BY DEF ReadingOK
<1>2. u \in Units /\ u.kind = "frame" /\ u = UnitAt(wire, place)
  BY UnitThere DEF Core!BeginFrame
<1>3. /\ stage = "reading" /\ stage' = stage /\ UNCHANGED <<wire, log>>
      /\ FrameReads(ctx, u, Core!Left, ceiling)
      /\ place' = place + u.head + OnWire(ctx, u)
      /\ ctx' = FrameRead(ctx, u)
      /\ hand = <<>>
      /\ \/ u.eor /\ hand' = <<Core!Skipped>>
         \/ ~u.eor /\ \E d : hand' = <<FrameEvent(Packet(ctx, u), d)>>
  <2>1. FrameRead(ctx, u) = Core!FrameRead(ctx, u) /\ OnWire(ctx, u) = Core!OnWire(ctx, u)
        /\ (FrameReads(ctx, u, Core!Left, ceiling) <=> Core!FrameReads(ctx, u, Core!Left, ceiling))
        /\ Core!Packet(ctx, u) = Packet(ctx, u)
    BY SameFrames
  <2>2. \A p, d : Core!FrameEvent(p, d) = FrameEvent(p, d)
    BY SameFrameEvents
  <2>3. QED
    BY <2>1, <2>2 DEF Core!BeginFrame, Core!AtUnit
<1> HIDE DEF u, ceiling
<1>4. u \in FrameUnits /\ u.head \in Nat \ {0}
  BY <1>2, UnitKinds, FrameFields
<1>5. u.stream \in Known(ctx) /\ ~PtsRefused(ctx, u)
  BY <1>3, FrameReadsKnown
<1>6. OnWire(ctx, u) \in Nat
  BY <1>1, <1>2, <1>3, FrameOnWire DEF ContextOK
<1>7. place' \in Nat /\ place < place'
  BY <1>1, <1>3, <1>4, <1>6
<1>8. place \in DOMAIN wire.unit
  <2>1. u.valid
    BY <1>3 DEF FrameReads, FrameRefused
  <2>2. ~NoUnit.valid
    BY DEF NoUnit
  <2>3. QED
    BY <1>2, <2>1, <2>2 DEF UnitAt
<1>9. /\ wire.unit[place] = u
      /\ \E n \in Nat \ {0} : n <= Width(wire.unit[place]) /\ place' = place + n
  <2>1. u = wire.unit[place] /\ Width(u) = u.head + u.size /\ u.size \in Nat
    BY <1>2, <1>8, FrameFields DEF UnitAt, Width
  <2>2. OnWire(ctx, u) <= u.size
    BY <1>1, <1>2, <1>3, <2>1, FrameOnWire DEF ContextOK, OnWire
  <2> DEFINE n == u.head + OnWire(ctx, u)
  <2>3. n \in Nat \ {0} /\ n <= Width(u)
    BY <1>4, <1>6, <2>1, <2>2
  <2>4. place' = place + n
    BY <1>1, <1>3, <1>4, <1>6
  <2> HIDE DEF n
  <2>5. QED
    BY <2>1, <2>3, <2>4
<1>10. HandOK' /\ SpokenKept
  <2>1. PICK n \in Nat \ {0} : n <= Width(wire.unit[place]) /\ place' = place + n
    BY <1>9
  <2>2. PICK p : LastStarted(p)' /\ wire'.unit[p] = u
    <3>1. place \in Started' /\ \A q \in Started' : q <= place
      BY <1>3, <1>8, <2>1, BeginsUnit
    <3>2. QED
      BY <1>3, <1>9, <3>1 DEF LastStarted
  <2>3. Awaits
    BY <1>3 DEF Awaits
  <2>4. SpokenKept
    BY <1>3, <1>8, <2>1, <2>3, SpokenByNewUnit
  <2>5. CASE u.eor
    <3>1. LastIsMute'
      BY <1>2, <2>2, <2>5 DEF LastIsMute, Speaks
    <3>2. QED
      BY <1>3, <2>4, <2>5, <3>1 DEF HandOK
  <2>6. CASE ~u.eor
    <3>1. hand' = <<hand'[1]>> /\ hand'[1].kind = "Frame" /\ hand'[1].packet.stream = u.stream
      BY <1>3, <2>6 DEF FrameEvent, Packet
    <3>2. Makes(u, hand'[1])
      BY <1>2, <2>6, <3>1 DEF Makes
    <3>3. LastMakes(hand[1])'
      BY <2>2, <3>2 DEF LastMakes
    <3>4. QED
      BY <2>4, <3>1, <3>3 DEF HandOK, EventInHand
  <2>7. QED
    BY <2>5, <2>6
<1>11. ContextKept(ctx, ctx')
  BY <1>1, <1>3, <1>4, <1>5, FrameReadStreams
<1>12. Tells({})
  BY <1>1, <1>3, TellsNothing
<1>13. TellsLast
  BY <1>1, <1>3, TellsNothingLast
<1>14. Stepped({})
  BY <1>1, <1>3, <1>7, <1>10, <1>11, <1>12, <1>13 DEF Stepped, ContextKept, FirstKept
<1>15. QED
  BY <1>11, <1>14 DEF StepOK, ContextKept

LEMMA TellingSteps ==
  ASSUME ReadingOK, Core!CloseHeaders \/ Core!EndUnit \/ Core!EndInput \/ Core!LastWord
  PROVE  StepOK
<1>1. /\ IsRow(log) /\ ContextOK(ctx) /\ MainFirst(ctx) /\ place \in Nat /\ IsWire(wire)
      /\ HandOK
  BY DEF ReadingOK
<1>2. /\ EndOfHeaders.kind = "EndOfHeaders" /\ EndOfInput.kind = "EndOfInput"
      /\ EndOfHeaders.kind \in OfNoUnit /\ EndOfInput.kind \in OfNoUnit
  BY DEF EndOfHeaders, EndOfInput, OfNoUnit
<1>3. ContextKept(ctx, HeadersClosed(ctx)) /\ ContextKept(ctx, ctx)
  BY <1>1, HeadersClosedStreams DEF ContextKept, FirstKept
<1>4. ASSUME NEW kinds, Tells(kinds), UNCHANGED <<wire, place>>, HandOK',
             ContextKept(ctx, ctx'),
             stage' # "opening", stage' = "ended" => hand' = <<>>,
             TellsLast, SpokenKept,
             "EndOfHeaders" \in kinds => HasMain(ctx'),
             "StreamHeader" \notin kinds,
             "EndOfInput" \in kinds \/ stage = "ended" => stage' = "ended",
             stage = "ended" => kinds = {"EndOfInput"}
      PROVE  StepOK
  <2>1. Stepped(kinds)
    BY <1>1, <1>4 DEF Stepped, ContextKept, FirstKept
  <2>2. QED
    BY <1>4, <2>1 DEF StepOK, ContextKept
<1>5. ASSUME NEW e, log' = Append(log, e), hand = <<>>, UNCHANGED <<wire, place, hand>>,
             e.kind \in OfNoUnit
      PROVE  HandOK' /\ TellsLast /\ SpokenKept
  <2>1. hand' = <<>> /\ HandOK'
    BY <1>5 DEF HandOK
  <2>2. TellsLast
    BY <1>1, <1>5, <2>1, TellsOneLast
  <2>3. Awaits <=> hand # <<>>
    BY <1>1, <1>5, <2>1, AwaitsOne
  <2>4. SpokenKept
    BY <1>5, <2>3, SpokenBySame
  <2>5. QED
    BY <2>1, <2>2, <2>4
<1>6. CASE Core!CloseHeaders
  <2>1. /\ stage = "reading" /\ hand = <<>> /\ UNCHANGED <<wire, place, stage, hand>>
        /\ HeadersDue(ctx) /\ ctx' = HeadersClosed(ctx) /\ log' = Append(log, EndOfHeaders)
    BY <1>6, SameHeaders DEF Core!CloseHeaders
  <2>2. Tells({"EndOfHeaders"})
    BY <1>1, <1>2, <2>1, TellsOne
  <2>3. HasMain(ctx')
    BY <1>3, <2>1 DEF HeadersDue, HeadersComplete, ContextKept, FirstKept
  <2>4. HandOK' /\ TellsLast /\ SpokenKept
    BY <1>2, <1>5, <2>1
  <2>5. QED
    BY <1>3, <1>4, <2>1, <2>2, <2>3, <2>4
<1>7. CASE Core!EndUnit
  <2>1. /\ stage = "reading" /\ hand # <<>> /\ UNCHANGED <<wire, place, stage, ctx>>
        /\ hand' = <<>> /\ log' = IF hand[1] = Core!Skipped THEN log ELSE log \o hand
    BY <1>7 DEF Core!EndUnit
  <2>2. HandOK'
    BY <2>1 DEF HandOK
  <2>3. CASE hand[1] = Core!Skipped
    <3>1. Tells({}) /\ TellsLast
      BY <1>1, <2>1, <2>3, TellsNothing, TellsNothingLast
    <3>2. LastIsMute
      BY <1>1, <2>1, <2>3 DEF HandOK, EventInHand, Core!Skipped
    <3>3. ~Awaits
      BY <1>1, <2>1, <2>3, AwaitsSame
    <3>4. SpokenKept
      BY <2>1, <3>2, <3>3, SpokenByMute
    <3>5. QED
      BY <1>3, <1>4, <2>1, <2>2, <3>1, <3>4
  <2>4. CASE hand[1] # Core!Skipped
    <3> DEFINE e == hand[1]
    <3>1. hand = <<e>> /\ e.kind = "Frame" /\ LastMakes(e)
      BY <1>1, <2>1, <2>4 DEF HandOK, EventInHand
    <3> HIDE DEF e
    <3>2. log' = Append(log, e)
      BY <1>1, <2>1, <2>4, <3>1, RowJoin
    <3>3. Tells({"Frame"})
      BY <1>1, <3>1, <3>2, TellsOne
    <3>4. e.kind \notin OfNoUnit
      BY <3>1 DEF OfNoUnit
    <3>5. \E p : LastStarted(p)' /\ Makes(wire'.unit[p], e)
      BY <2>1, <3>1, <3>4 DEF LastMakes, LastStarted, Started
    <3>6. TellsLast
      BY <1>1, <2>1, <3>2, <3>5, TellsOneLast
    <3>7. Awaits <=> hand # <<>>
      BY <1>1, <2>1, <3>2, <3>4, AwaitsOne
    <3>8. SpokenKept
      BY <2>1, <3>7, SpokenBySame
    <3>9. QED
      BY <1>3, <1>4, <2>1, <2>2, <3>3, <3>6, <3>8
  <2>5. QED
    BY <2>3, <2>4
<1>8. CASE Core!EndInput
  <2>1. /\ stage = "reading" /\ stage' = "ended" /\ hand = <<>>
        /\ UNCHANGED <<wire, place, hand>> /\ ctx' = HeadersClosed(ctx)
        /\ log' = Append(log, IF HeadersDue(ctx) THEN EndOfHeaders ELSE EndOfInput)
    BY <1>8, SameHeaders DEF Core!EndInput
  <2>2. HandOK' /\ TellsLast /\ SpokenKept
    BY <1>2, <1>5, <2>1
  <2>3. CASE HeadersDue(ctx)
    <3>1. Tells({"EndOfHeaders"})
      BY <1>1, <1>2, <2>1, <2>3, TellsOne
    <3>2. HasMain(ctx')
      BY <1>3, <2>1, <2>3 DEF HeadersDue, HeadersComplete, ContextKept, FirstKept
    <3>3. QED
      BY <1>3, <1>4, <2>1, <2>2, <3>1, <3>2
  <2>4. CASE ~HeadersDue(ctx)
    <3>1. Tells({"EndOfInput"})
      BY <1>1, <1>2, <2>1, <2>4, TellsOne
    <3>2. QED
      BY <1>3, <1>4, <2>1, <2>2, <3>1
  <2>5. QED
    BY <2>3, <2>4
<1>9. CASE Core!LastWord
  <2>1. /\ stage = "ended" /\ UNCHANGED <<wire, place, stage, ctx, hand>>
        /\ log' = Append(log, EndOfInput)
    BY <1>9, SameHeaders DEF Core!LastWord
  <2>2. HandOK' /\ TellsLast /\ SpokenKept
    BY <1>2, <1>5, <2>1 DEF ReadingOK
  <2>3. Tells({"EndOfInput"})
    BY <1>1, <1>2, <2>1, TellsOne
  <2>4. hand' = <<>>
    BY <2>1 DEF ReadingOK
  <2>5. QED
    BY <1>3, <1>4, <2>1, <2>2, <2>3, <2>4
<1>10. QED
  BY <1>6, <1>7, <1>8, <1>9

LEMMA ReadingSteps ==
  ASSUME ReadingOK, Core!Next
  PROVE  StepOK
<1>1. ~\E index \in 1 .. MaxStreams, limit \in {} : Core!SetStreamLimit(index, limit)
  OBVIOUS
<1>2. QED
  BY <1>1, QuietSteps, ReadPacketStep, BeginFrameStep, TellingSteps DEF Core!Next

(* Nothing comes after the end of the input.                               *)
LEMMA EndStands ==
  ASSUME stage = "ended", log[Len(log)] = EndOfInput
  PROVE  ~Core!Next
<1> SUFFICES ASSUME Core!Next PROVE FALSE
  OBVIOUS
<1>1. Core!LastWord
  BY DEF Core!Next, Core!Open, Core!ReadPacket, Core!BeginSkip, Core!CloseHeaders,
         Core!BeginFrame, Core!EndUnit, Core!EndInput, Core!Truncate, Core!GiveUp,
         Core!Refuse, Core!RefuseInput, Core!RefusePacket, Core!RefuseFrame,
         Core!Panic, Core!AtUnit
<1>2. QED
  BY <1>1, SameHeaders DEF Core!LastWord

(* What the reading has told stands.                                       *)
LEMMA NextReadingOK ==
  ASSUME ReadingOK, Core!Next
  PROVE  ReadingOK'
<1>1. PICK kinds : Stepped(kinds)
  BY ReadingSteps DEF StepOK
<1>2. Len(log) \in Nat /\ Len(log') \in Nat /\ IsRow(log')
  BY <1>1 DEF Stepped, Tells, ReadingOK, IsRow
<1>3. ASSUME NEW j \in 1 .. Len(log') PROVE EventSaid(j)'
  <2>1. CASE j \in 1 .. Len(log)
    <3>1. EventSaid(j) /\ log'[j] = log[j]
      BY <1>1, <2>1 DEF ReadingOK, Stepped, Tells
    <3>2. log[j].kind # "EndOfInput"
      BY <3>1, EndStands DEF EventSaid
    <3>3. QED
      BY <1>1, <3>1, <3>2 DEF EventSaid, Stepped
  <2>2. CASE j \in Len(log) + 1 .. Len(log')
    <3>1. log'[j].kind \in kinds
      BY <1>1, <2>2 DEF Stepped, Tells
    <3>2. log'[j].kind = "EndOfInput" => log'[j] = EndOfInput /\ j = Len(log')
      BY <1>1, <1>2, <2>2, <3>1 DEF Stepped, Tells
    <3>3. QED
      BY <1>1, <3>1, <3>2 DEF EventSaid, Stepped
  <2>3. QED
    BY <1>2, <2>1, <2>2
<1>4. IsWire(wire') /\ InLine(wire')
  BY <1>1 DEF Stepped, ReadingOK
<1>5. QED
  BY <1>1, <1>2, <1>3, <1>4 DEF ReadingOK, Stepped

LEMMA InitReadingOK == Init => ReadingOK
<1> SUFFICES ASSUME Init PROVE ReadingOK
  OBVIOUS
<1>1. IsWire(wire) /\ InLine(wire)
  BY InputsAssumption DEF Init
<1>2. place = 0 /\ ctx = NewContext /\ hand = <<>> /\ log = <<>>
  BY SameHeaders DEF Init, Core!Init
<1>3. MainFirst(NewContext)
  BY DEF MainFirst, HasMain, NewContext
<1>4. IsRow(log) /\ Len(log) = 0
  BY <1>2 DEF IsRow
<1>5. QED
  BY <1>1, <1>2, <1>3, <1>4, NewContextOK DEF ReadingOK, HandOK

-----------------------------------------------------------------------------
(* The call. There is no Demuxer before opening ends, and none after it    *)
(* failed; a read that was refused is the last; and the reading is at most *)
(* a step ahead of what the method has looked at.                          *)

CallOK ==
  /\ call \in {"none", "open", "first", "read"}
  /\ opened \in {"no", "yes", "failed"}
  /\ call \in {"open", "first"} => opened = "no"
  /\ call = "read" => opened = "yes" /\ answer # "refused" /\ firstPacket = <<>>
  /\ opened # "yes" => answer # "refused"
  /\ opened = "no" /\ call # "first" => stream = <<>>
  /\ opened = "yes" \/ call = "first" => stream # <<>>
  /\ stream = <<>> => out = <<>> /\ firstPacket = <<>>
  /\ call = "first" => out = <<>> /\ firstPacket = <<>>

Fields(s) == [header |-> s.header, config |-> s.config, annotations |-> s.annotations]
OneOrNone(s) == s = <<>> \/ s = <<s[1]>>

FieldsOK ==
  /\ stream = <<>> \/ stream = <<Fields(stream[1])>>
  /\ opening = [declared |-> opening.declared, headers |-> opening.headers,
                media |-> opening.media, annotations |-> opening.annotations]
  /\ stream # <<>> \/ opening.media # <<>> => HasMain(ctx)
  /\ IsRow(out) /\ OneOrNone(firstPacket)
  /\ handled \in Nat /\ handled <= Len(log)

(* What the first stream's header says now is what the caller was told, or *)
(* the event to be looked at next tells otherwise and ends the reading.    *)
Agreed   == Timeless(Header(ctx, 1)) = Timeless(stream[1].header)
Restated == handled < Len(log) /\ log[handled + 1].kind \in {"MainHeader", "StreamHeader"}

Alike(p) == Timeless(p.under) = Timeless(stream[1].header)

OneHeader ==
  /\ stream # <<>> => Agreed \/ Restated \/ opened = "failed" \/ answer = "refused"
  /\ \A i \in 1 .. Len(out) : Alike(out[i])
  /\ firstPacket # <<>> => Alike(firstPacket[1])

DInv == ReadingOK /\ CallOK /\ FieldsOK /\ OneHeader

LEMMA InitDInv == Init => DInv
<1> SUFFICES ASSUME Init PROVE DInv
  OBVIOUS
<1>1. ReadingOK
  BY InitReadingOK
<1>2. log = <<>> /\ IsRow(<<>>) /\ Len(<<>>) = 0
  BY DEF Init, Core!Init, IsRow
<1>3. CallOK
  BY DEF Init, DemuxerInit, CallOK
<1>4. FieldsOK
  BY <1>2 DEF Init, DemuxerInit, FieldsOK, OneOrNone
<1>5. OneHeader
  BY <1>2 DEF Init, DemuxerInit, OneHeader
<1>6. QED
  BY <1>1, <1>3, <1>4, <1>5 DEF DInv

(* The event a method looks at is told already; the end of the input comes *)
(* after all the others.                                                   *)
LEMMA LooksAt ==
  ASSUME ReadingOK, FieldsOK, NEW method, NEW kind, Looks(method, kind)
  PROVE  /\ call = method
         /\ handled' \in Nat /\ handled <= handled' /\ handled' <= Len(log)
         /\ Event.kind = kind
         /\ kind # "EndOfInput" =>
              /\ handled < Len(log) /\ handled' = handled + 1 /\ Event = log[handled + 1]
              /\ EventSaid(handled + 1)
         /\ kind = "EndOfInput" => stage = "ended" /\ handled' = Len(log)
<1>1. /\ call = method /\ EventCame /\ Event.kind = kind
      /\ handled' = IF handled < Len(log) THEN handled + 1 ELSE handled
  BY DEF Looks
<1>2. handled \in Nat /\ handled <= Len(log) /\ Len(log) \in Nat
  BY DEF FieldsOK, ReadingOK, IsRow
<1>3. EndOfInput.kind = "EndOfInput"
  BY DEF EndOfInput
<1>4. CASE handled < Len(log)
  <2>1. Event = log[handled + 1] /\ handled' = handled + 1 /\ handled + 1 \in 1 .. Len(log)
    BY <1>1, <1>2, <1>4 DEF Event
  <2>2. EventSaid(handled + 1)
    BY <2>1 DEF ReadingOK
  <2>3. QED
    BY <1>1, <1>2, <1>4, <2>1, <2>2 DEF EventSaid
<1>5. CASE handled = Len(log)
  <2>1. Event = EndOfInput /\ handled' = handled
    BY <1>1, <1>2, <1>5 DEF Event
  <2>2. stage = "ended"
    BY <1>1, <1>2, <1>5 DEF EventCame
  <2>3. QED
    BY <1>1, <1>2, <1>3, <1>5, <2>1, <2>2
<1>6. QED
  BY <1>2, <1>4, <1>5

LEMMA PumpKeeps ==
  ASSUME DInv, Pump
  PROVE  DInv'
<1>1. ReadingOK /\ CallOK /\ FieldsOK /\ OneHeader /\ StepOK /\ ReadingOK'
  BY ReadingSteps, NextReadingOK DEF DInv, Pump
<1>2. handled = Len(log) /\ UNCHANGED demuxer
  BY DEF Pump
<1>3. CallOK'
  BY <1>1, <1>2 DEF CallOK, demuxer, calls, taken
<1>4. PICK kinds : Stepped(kinds) /\ (FirstKept(ctx, ctx') \/ Restates)
  BY <1>1 DEF StepOK
<1>5. Len(log) \in Nat /\ Len(log') \in Nat /\ Len(log) <= Len(log')
  BY <1>1, <1>4 DEF Stepped, Tells, ReadingOK, IsRow
<1>6. HasMain(ctx) => HasMain(ctx')
  BY <1>4 DEF Stepped
<1>7. FieldsOK'
  BY <1>1, <1>2, <1>5, <1>6 DEF FieldsOK, Fields, OneOrNone, demuxer, calls, taken
<1>8. ASSUME stream # <<>>, Agreed
      PROVE  Agreed' \/ Restated'
  <2>1. CASE FirstKept(ctx, ctx')
    <3>1. 1 \in Declared(ctx)
      BY <1>1, <1>8 DEF FieldsOK, ReadingOK, MainFirst
    <3>2. QED
      BY <1>2, <1>8, <2>1, <3>1 DEF FirstKept, Agreed, demuxer
  <2>2. CASE Restates
    BY <1>2, <1>5, <2>2 DEF Restates, Restated, demuxer, calls
  <2>3. QED
    BY <1>4, <2>1, <2>2
<1>9. ~Restated
  BY <1>2, <1>5 DEF Restated
<1>10. OneHeader'
  BY <1>1, <1>2, <1>8, <1>9 DEF OneHeader, Alike, demuxer, calls, taken
<1>11. QED
  BY <1>1, <1>3, <1>7, <1>10 DEF DInv

(* An action of a call or a caller leaves the reading where it is.         *)
LEMMA ReadingStays ==
  ASSUME ReadingOK, UNCHANGED <<wire, place, stage, ctx, hand, log>>
  PROVE  ReadingOK'
<1>1. \A j \in 1 .. Len(log) : EventSaid(j) => EventSaid(j)'
  BY DEF EventSaid
<1>2. QED
  BY <1>1, LastStays DEF ReadingOK, HandOK

(* Nothing is handed out, and what is looked at is not another header.     *)
LEMMA NothingHandedOut ==
  ASSUME DInv, UNCHANGED <<wire, place, stage, ctx, hand, log, stream, firstPacket, out>>,
         \/ handled' = handled
         \/ handled < Len(log) /\ log[handled + 1].kind \notin {"MainHeader", "StreamHeader"}
         \/ stream = <<>>
         \/ opened' = "failed"
         \/ answer' = "refused",
         answer = "refused" => answer' = "refused",
         opened = "failed" => opened' = "failed"
  PROVE  ReadingOK' /\ OneHeader'
<1>1. ReadingOK' /\ OneHeader
  BY ReadingStays DEF DInv
<1>2. Agreed <=> Agreed'
  BY DEF Agreed
<1>3. handled' = handled => (Restated <=> Restated')
  BY DEF Restated
<1>4. QED
  BY <1>1, <1>2, <1>3 DEF OneHeader, Alike, Restated

LEMMA FailuresKeep ==
  ASSUME DInv, CoreFails \/ SourceFails
  PROVE  DInv'
<1>1. /\ UNCHANGED <<wire, place, stage, ctx, hand, log, stream, firstPacket, out>>
      /\ UNCHANGED <<opening, handled>>
      /\ call # "none" /\ call' = "none"
      /\ IF call = "read" THEN answer' \in {"refused", "failed"} /\ opened' = opened
                          ELSE opened' = "failed" /\ answer' = answer
  BY DEF CoreFails, SourceFails, Fails, core, taken
<1>2. CallOK /\ FieldsOK
  BY DEF DInv
<1>3. CallOK'
  BY <1>1, <1>2 DEF CallOK
<1>4. FieldsOK'
  BY <1>1, <1>2 DEF FieldsOK, Fields, OneOrNone
<1>5. ReadingOK' /\ OneHeader'
  BY <1>1, <1>2, NothingHandedOut DEF CallOK
<1>6. QED
  BY <1>3, <1>4, <1>5 DEF DInv

LEMMA OpeningKeeps ==
  ASSUME DInv, OpenMain \/ OpenStream \/ OpenIgnores \/ OpenEndsEarly
  PROVE  DInv'
<1>1. /\ UNCHANGED <<wire, place, stage, ctx, hand, log, stream, firstPacket, out, answer>>
      /\ call = "open"
      /\ \/ call' = call /\ opened' = opened
         \/ call' = "none" /\ opened' = "failed"
  BY DEF OpenMain, OpenStream, OpenIgnores, OpenEndsEarly, Looks, Fails, core, taken, calls
<1>2. CallOK /\ FieldsOK /\ ReadingOK
  BY DEF DInv
<1>3. handled' \in Nat /\ handled' <= Len(log)
  BY <1>2, LooksAt DEF OpenMain, OpenStream, OpenIgnores, OpenEndsEarly
<1>4. CallOK' /\ stream = <<>>
  BY <1>1, <1>2 DEF CallOK
<1>5. \/ opening' = opening
      \/ \E n : opening' = [opening EXCEPT !.declared = n]
      \/ OpenStream /\ \E n, m, a : opening' = [declared |-> opening.declared, headers |-> n,
                                                media |-> m, annotations |-> a]
  <2>1. CASE OpenMain \/ OpenIgnores \/ OpenEndsEarly
    BY <2>1 DEF OpenMain, OpenIgnores, OpenEndsEarly
  <2>2. CASE OpenStream
    <3>1. \/ opening' = opening
          \/ opening' = [opening EXCEPT !.headers = @ + 1, !.media = <<Said>>]
          \/ opening' = [opening EXCEPT !.headers = @ + 1, !.annotations = TRUE]
      BY <2>2 DEF OpenStream
    <3>2. QED
      BY <1>2, <2>2, <3>1 DEF FieldsOK
  <2>3. QED
    BY <2>1, <2>2
<1>6. opening'.media # <<>> => HasMain(ctx)
  <2>1. CASE OpenStream
    <3>1. EventSaid(handled + 1) /\ log[handled + 1].kind = "StreamHeader"
      BY <1>2, <2>1, LooksAt DEF OpenStream
    <3>2. QED
      BY <3>1 DEF EventSaid
  <2>2. CASE ~OpenStream
    BY <1>2, <1>5, <2>2 DEF FieldsOK
  <2>3. QED
    BY <2>1, <2>2
<1>7. FieldsOK'
  <2>1. opening' = [declared |-> opening'.declared, headers |-> opening'.headers,
                    media |-> opening'.media, annotations |-> opening'.annotations]
    BY <1>2, <1>5 DEF FieldsOK
  <2>2. HasMain(ctx)' <=> HasMain(ctx)
    BY <1>1 DEF HasMain
  <2>3. QED
    BY <1>1, <1>2, <1>3, <1>4, <1>6, <2>1, <2>2 DEF FieldsOK, Fields, OneOrNone
<1>8. ReadingOK' /\ OneHeader'
  <2>1. answer = "refused" => answer' = "refused"
    BY <1>1
  <2>2. opened = "failed" => opened' = "failed"
    BY <1>1
  <2>3. QED
    BY <1>1, <1>4, <2>1, <2>2, NothingHandedOut
<1>9. QED
  BY <1>4, <1>7, <1>8 DEF DInv

LEMMA OpenEndsKeeps ==
  ASSUME DInv, OpenEnds
  PROVE  DInv'
<1>1. /\ UNCHANGED <<wire, place, stage, ctx, hand, log, firstPacket, out, answer, opening>>
      /\ call = "open"
      /\ stream' = <<[header |-> Header(ctx, 1), config |-> opening.media[1].config,
                      annotations |-> opening.annotations]>>
      /\ \/ call' = "first" /\ opened' = opened
         \/ call' = "none" /\ opened' = "yes"
  BY DEF OpenEnds, Looks, core, taken
<1>2. CallOK /\ FieldsOK /\ ReadingOK
  BY DEF DInv
<1>3. handled' \in Nat /\ handled' <= Len(log)
  BY <1>2, LooksAt DEF OpenEnds
<1>4. CallOK' /\ stream = <<>> /\ out = <<>> /\ firstPacket = <<>>
  BY <1>1, <1>2 DEF CallOK
<1>5. HasMain(ctx)
  <2>1. CASE Looks("open", "EndOfHeaders")
    <3>1. EventSaid(handled + 1) /\ log[handled + 1].kind = "EndOfHeaders"
      BY <1>2, <2>1, LooksAt
    <3>2. QED
      BY <3>1 DEF EventSaid
  <2>2. CASE opening.media # <<>>
    BY <1>2, <2>2 DEF FieldsOK
  <2>3. QED
    BY <2>1, <2>2 DEF OpenEnds
<1>6. FieldsOK'
  <2>1. HasMain(ctx)'
    BY <1>1, <1>5 DEF HasMain
  <2>2. stream' = <<Fields(stream'[1])>>
    BY <1>1 DEF Fields
  <2>3. QED
    BY <1>1, <1>2, <1>3, <2>1, <2>2 DEF FieldsOK, OneOrNone
<1>7. OneHeader'
  <2>1. Agreed'
    BY <1>1 DEF Agreed
  <2>2. Len(out') = 0 /\ firstPacket' = <<>>
    BY <1>1, <1>4
  <2>3. QED
    BY <2>1, <2>2 DEF OneHeader
<1>8. ReadingOK'
  BY <1>1, <1>2, ReadingStays
<1>9. QED
  BY <1>4, <1>6, <1>7, <1>8 DEF DInv

LEMMA ReadingOnKeeps ==
  ASSUME DInv,
         ReadIgnores \/ ReadRestated \/ ReadEnds \/ RefuseAnnotation \/ ReadAnnotation
  PROVE  DInv'
<1>1. UNCHANGED <<wire, place, stage, ctx, hand, log, stream, firstPacket, out, opening>>
  BY DEF ReadIgnores, ReadRestated, ReadEnds, RefuseAnnotation, ReadAnnotation, core, taken
<1>2. CallOK /\ FieldsOK /\ ReadingOK
  BY DEF DInv
<1>3. /\ call \in {"first", "read"}
      /\ handled' \in Nat /\ handled' <= Len(log)
      /\ \/ handled' = handled
         \/ handled < Len(log) /\ Event = log[handled + 1]
  <2>1. PICK kind : Reads(kind)
    BY DEF ReadIgnores, ReadRestated, ReadEnds, RefuseAnnotation, ReadAnnotation, ReadsFrame
  <2>2. PICK method \in {"first", "read"} : Looks(method, kind)
    BY <2>1 DEF Reads
  <2>3. handled' = handled \/ handled < Len(log)
    BY <2>2 DEF Looks
  <2>4. QED
    BY <1>2, <2>2, <2>3, LooksAt DEF Event
<1>4. \/ call' = call /\ opened' = opened /\ answer' = answer
      \/ call' = "none" /\ call = "read" /\ opened' = opened /\ answer' \in {"end", "refused"}
      \/ call' = "none" /\ call = "first" /\ opened' \in {"yes", "failed"} /\ answer' = answer
  BY <1>3 DEF ReadIgnores, ReadRestated, ReadEnds, RefuseAnnotation, ReadAnnotation, Fails
<1>5. CallOK'
  BY <1>1, <1>2, <1>4 DEF CallOK
<1>6. FieldsOK'
  BY <1>1, <1>2, <1>3 DEF FieldsOK, Fields, OneOrNone, HasMain
<1>7. \/ handled' = handled
      \/ handled < Len(log) /\ log[handled + 1].kind \notin {"MainHeader", "StreamHeader"}
      \/ opened' = "failed"
      \/ answer' = "refused"
  <2>1. CASE ReadRestated
    BY <2>1 DEF ReadRestated, Fails
  <2>2. CASE ~ReadRestated
    <3>1. Event.kind \in {"Syncpoint", "Info", "EndOfHeaders", "EndOfInput", "Frame"}
      BY <2>2 DEF ReadIgnores, ReadEnds, RefuseAnnotation, ReadAnnotation, ReadsFrame,
                  Reads, Looks
    <3>2. QED
      BY <1>3, <3>1
  <2>3. QED
    BY <2>1, <2>2
<1>8. opened = "failed" => opened' = "failed"
  BY <1>2, <1>3 DEF CallOK
<1>9. answer = "refused" => answer' = "refused"
  BY <1>2, <1>3 DEF CallOK
<1>10. ReadingOK' /\ OneHeader'
  BY <1>1, <1>7, <1>8, <1>9, NothingHandedOut
<1>11. QED
  BY <1>5, <1>6, <1>10 DEF DInv

(* A frame that is looked at was read by the header the caller was told.   *)
LEMMA FrameAlike ==
  ASSUME DInv, ReadsFrame(1)
  PROVE  /\ call \in {"first", "read"} /\ stream # <<>>
         /\ handled' \in Nat /\ handled' <= Len(log)
         /\ Agreed /\ Alike(Arrived) /\ Alike(Stripped(Arrived))
<1>1. ReadingOK /\ CallOK /\ FieldsOK /\ OneHeader
  BY DEF DInv
<1>2. PICK method \in {"first", "read"} : Looks(method, "Frame")
  BY DEF ReadsFrame, Reads
<1>3. /\ call = method /\ handled' \in Nat /\ handled' <= Len(log)
      /\ Event = log[handled + 1] /\ Event.kind = "Frame"
  BY <1>1, <1>2, LooksAt
<1>4. stream # <<>> /\ opened # "failed" /\ answer # "refused"
  BY <1>1, <1>2, <1>3 DEF CallOK
<1>5. ~Restated
  BY <1>3 DEF Restated
<1>6. Agreed
  BY <1>1, <1>4, <1>5 DEF OneHeader
<1>7. Arrived.under = Header(ctx, 1) /\ Stripped(Arrived).under = Header(ctx, 1)
  BY DEF Arrived, Stripped
<1>8. QED
  BY <1>2, <1>3, <1>4, <1>6, <1>7 DEF Agreed, Alike

LEMMA FirstPacketKeeps ==
  ASSUME DInv, FirstPacket
  PROVE  DInv'
<1>1. /\ UNCHANGED <<wire, place, stage, ctx, hand, log, out, answer, opening>>
      /\ call = "first" /\ call' = "none"
      /\ \/ opened' = "failed" /\ UNCHANGED <<stream, firstPacket>>
         \/ /\ opened' = "yes"
            /\ firstPacket' \in {<<Arrived>>, <<Stripped(Arrived)>>}
            /\ stream' = stream \/ \E c : stream' = [stream EXCEPT ![1].config = c]
  <2>1. /\ UNCHANGED <<wire, place, stage, ctx, hand, log, out, answer, opening>>
        /\ call = "first" /\ call' = "none"
    BY DEF FirstPacket, core, taken
  <2>2. CASE ~Parses(Said, Len(Event.data))
    BY <2>1, <2>2 DEF FirstPacket
  <2>3. CASE Parses(Said, Len(Event.data)) /\ StripRefused
    BY <2>1, <2>3 DEF FirstPacket
  <2>4. CASE Parses(Said, Len(Event.data)) /\ ~StripRefused
    <3>1. /\ stream' = [stream EXCEPT ![1].config = AudioSpecificConfig(Said)]
          /\ firstPacket' = <<Stripped(Arrived)>> /\ opened' = "yes"
      BY <2>4 DEF FirstPacket
    <3>2. QED
      BY <2>1, <3>1
  <2>5. QED
    BY <2>2, <2>3, <2>4
<1>2. ReadingOK /\ CallOK /\ FieldsOK /\ OneHeader
  BY DEF DInv
<1>3. /\ stream # <<>> /\ handled' \in Nat /\ handled' <= Len(log)
      /\ Agreed /\ Alike(Arrived) /\ Alike(Stripped(Arrived))
  BY FrameAlike DEF FirstPacket
<1>4. stream' = <<Fields(stream'[1])>> /\ stream'[1].header = stream[1].header
  BY <1>1, <1>2, <1>3 DEF FieldsOK, Fields
<1>5. CallOK'
  BY <1>1, <1>2, <1>3, <1>4 DEF CallOK
<1>6. FieldsOK'
  BY <1>1, <1>2, <1>3, <1>4 DEF FieldsOK, OneOrNone, HasMain
<1>7. OneHeader'
  <2>1. Agreed'
    BY <1>1, <1>3, <1>4 DEF Agreed
  <2>2. \A p : Alike(p) => Timeless(p.under) = Timeless(stream'[1].header)
    BY <1>4 DEF Alike
  <2>3. firstPacket' # <<>> => Timeless(firstPacket'[1].under) = Timeless(stream'[1].header)
    BY <1>1, <1>2, <1>3, <2>2 DEF OneHeader
  <2>4. QED
    BY <1>1, <1>2, <2>1, <2>2, <2>3 DEF OneHeader, Alike
<1>8. ReadingOK'
  BY <1>1, <1>2, ReadingStays
<1>9. QED
  BY <1>5, <1>6, <1>7, <1>8 DEF DInv

LEMMA NextPacketKeeps ==
  ASSUME DInv, NextPacket
  PROVE  DInv'
<1>1. /\ UNCHANGED <<wire, place, stage, ctx, hand, log, opened, opening, stream, firstPacket>>
      /\ call = "read" /\ call' = "none"
      /\ \/ answer' = "refused" /\ out' = out
         \/ answer' = "packet" /\ \E p \in {Arrived, Stripped(Arrived)} : out' = Append(out, p)
  BY DEF NextPacket, core
<1>2. ReadingOK /\ CallOK /\ FieldsOK /\ OneHeader
  BY DEF DInv
<1>3. /\ stream # <<>> /\ handled' \in Nat /\ handled' <= Len(log)
      /\ Agreed /\ Alike(Arrived) /\ Alike(Stripped(Arrived))
  BY FrameAlike DEF NextPacket
<1>4. CallOK'
  BY <1>1, <1>2, <1>3 DEF CallOK
<1>5. IsRow(out') /\ \A i \in 1 .. Len(out') : Alike(out'[i])
  <2>1. CASE out' = out
    BY <1>2, <2>1 DEF FieldsOK, OneHeader
  <2>2. CASE \E p \in {Arrived, Stripped(Arrived)} : out' = Append(out, p)
    <3>1. PICK p : out' = Append(out, p) /\ Alike(p)
      BY <1>3, <2>2
    <3>2. /\ Len(out) \in Nat /\ Len(out') = Len(out) + 1 /\ IsRow(out')
          /\ \A i \in 1 .. Len(out) : out'[i] = out[i]
          /\ out'[Len(out) + 1] = p
      BY <1>2, <3>1, Appended, RowAppend DEF FieldsOK
    <3>3. QED
      BY <1>2, <3>1, <3>2 DEF OneHeader
  <2>3. QED
    BY <1>1, <2>1, <2>2
<1>6. FieldsOK'
  BY <1>1, <1>2, <1>3, <1>5 DEF FieldsOK, Fields, OneOrNone, HasMain
<1>7. OneHeader'
  BY <1>1, <1>2, <1>3, <1>5 DEF OneHeader, Agreed, Alike
<1>8. ReadingOK'
  BY <1>1, <1>2, ReadingStays
<1>9. QED
  BY <1>4, <1>6, <1>7, <1>8 DEF DInv

LEMMA CallerKeeps ==
  ASSUME DInv, Caller
  PROVE  DInv'
<1>1. ReadingOK /\ CallOK /\ FieldsOK /\ OneHeader
  BY DEF DInv
<1>2. CASE \E annotated \in BOOLEAN : CallOpen(annotated)
  <2>1. /\ UNCHANGED <<wire, place, stage, ctx, hand, log, opening, handled, opened, answer,
                       stream, firstPacket, out>>
        /\ call = "none" /\ opened = "no" /\ call' = "open"
    BY <1>2 DEF CallOpen, Core!SetStreamLimit, core, taken
  <2>2. CallOK'
    BY <1>1, <2>1 DEF CallOK
  <2>3. FieldsOK'
    BY <1>1, <2>1 DEF FieldsOK, Fields, OneOrNone, HasMain
  <2>4. QED
    BY <2>1, <2>2, <2>3, NothingHandedOut DEF DInv
<1>3. CASE CallRead
  <2>1. /\ UNCHANGED <<wire, place, stage, ctx, hand, log, opening, handled, opened, stream>>
        /\ call = "none" /\ opened = "yes" /\ answer # "refused"
        /\ \/ /\ firstPacket # <<>> /\ firstPacket' = <<>> /\ call' = call
              /\ answer' = "packet" /\ out' = out \o firstPacket
           \/ /\ firstPacket = <<>> /\ call' = "read" /\ UNCHANGED <<answer, out, firstPacket>>
    BY <1>3 DEF CallRead, core
  <2>2. CallOK'
    BY <1>1, <2>1 DEF CallOK
  <2>3. IsRow(out') /\ \A i \in 1 .. Len(out') : Alike(out'[i])
    <3>1. CASE firstPacket = <<>>
      BY <1>1, <2>1, <3>1 DEF FieldsOK, OneHeader
    <3>2. CASE firstPacket # <<>>
      <4> DEFINE p == firstPacket[1]
      <4>1. firstPacket = <<p>> /\ Alike(p)
        BY <1>1, <3>2 DEF FieldsOK, OneOrNone, OneHeader
      <4> HIDE DEF p
      <4>2. out' = Append(out, p)
        BY <1>1, <2>1, <3>2, <4>1, RowJoin DEF FieldsOK
      <4>3. /\ Len(out) \in Nat /\ Len(out') = Len(out) + 1 /\ IsRow(out')
            /\ \A i \in 1 .. Len(out) : out'[i] = out[i]
            /\ out'[Len(out) + 1] = p
        BY <1>1, <4>2, Appended, RowAppend DEF FieldsOK
      <4>4. QED
        BY <1>1, <4>1, <4>3 DEF OneHeader
    <3>3. QED
      BY <3>1, <3>2
  <2>4. FieldsOK'
    BY <1>1, <2>1, <2>3 DEF FieldsOK, Fields, OneOrNone, HasMain
  <2>5. OneHeader'
    BY <1>1, <2>1, <2>3 DEF OneHeader, Agreed, Restated, Alike
  <2>6. ReadingOK'
    BY <1>1, <2>1, ReadingStays
  <2>7. QED
    BY <2>2, <2>4, <2>5, <2>6 DEF DInv
<1>4. CASE (\E pts \in DOMAIN unclaimed : TakeRows(pts)) \/ TakeTrailing
  <2>1. /\ UNCHANGED <<wire, place, stage, ctx, hand, log, opening, handled, opened, answer,
                       call, stream, firstPacket, out>>
    BY <1>4 DEF TakeRows, TakeTrailing, core, calls
  <2>2. CallOK'
    BY <1>1, <2>1 DEF CallOK
  <2>3. FieldsOK'
    BY <1>1, <2>1 DEF FieldsOK, Fields, OneOrNone, HasMain
  <2>4. QED
    BY <2>1, <2>2, <2>3, NothingHandedOut DEF DInv
<1>5. QED
  BY <1>2, <1>3, <1>4 DEF Caller

LEMMA NextDInv == DInv /\ [Next]_vars => DInv'
<1> SUFFICES ASSUME DInv, [Next]_vars PROVE DInv'
  OBVIOUS
<1>1. CASE Next
  BY <1>1, PumpKeeps, FailuresKeep, OpeningKeeps, OpenEndsKeeps, ReadingOnKeeps,
     FirstPacketKeeps, NextPacketKeeps, CallerKeeps DEF Next, Works
<1>2. CASE UNCHANGED vars
  <2>1. UNCHANGED <<wire, place, stage, ctx, hand, log, opening, handled, opened, answer,
                    call, stream, firstPacket, out>>
    BY <1>2 DEF vars, core, demuxer, calls, taken
  <2>2. CallOK'
    BY <2>1 DEF DInv, CallOK
  <2>3. FieldsOK'
    BY <2>1 DEF DInv, FieldsOK, Fields, OneOrNone, HasMain
  <2>4. QED
    BY <2>1, <2>2, <2>3, NothingHandedOut DEF DInv
<1>3. QED
  BY <1>1, <1>2

-----------------------------------------------------------------------------
LEMMA DeliveredForms ==
  ASSUME FieldsOK
  PROVE  /\ IsRow(Delivered)
         /\ firstPacket = <<>> => Delivered = out
         /\ firstPacket # <<>> => Delivered = Append(out, firstPacket[1])
<1>1. IsRow(out) /\ OneOrNone(firstPacket)
  BY DEF FieldsOK
<1>2. CASE firstPacket = <<>>
  BY <1>1, <1>2, RowJoin DEF Delivered
<1>3. CASE firstPacket # <<>>
  <2> DEFINE p == firstPacket[1]
  <2>1. firstPacket = <<p>>
    BY <1>1, <1>3 DEF OneOrNone
  <2> HIDE DEF p
  <2>2. Delivered = Append(out, p) /\ IsRow(Append(out, p))
    BY <1>1, <2>1, RowJoin, RowAppend DEF Delivered
  <2>3. QED
    BY <1>3, <2>2 DEF p
<1>4. QED
  BY <1>2, <1>3

(* Every packet read_packet answers with, one read ahead included, was     *)
(* read by the header its caller was told of at opening, whatever headers  *)
(* the wire restates and wherever the source fails.                        *)
THEOREM ReadUnderOneHeader == Spec => []UnderOneHeader
<1>1. DInv => UnderOneHeader
  <2> SUFFICES ASSUME DInv, NEW i \in DOMAIN Delivered
               PROVE  Timeless(Delivered[i].under) = Timeless(stream[1].header)
    BY DEF UnderOneHeader, Timeless
  <2>1. FieldsOK /\ OneHeader /\ IsRow(out)
    BY DEF DInv, FieldsOK
  <2>2. CASE firstPacket = <<>>
    <3>1. Delivered = out /\ DOMAIN out = 1 .. Len(out)
      BY <2>1, <2>2, DeliveredForms DEF IsRow
    <3>2. QED
      BY <2>1, <3>1 DEF OneHeader, Alike
  <2>3. CASE firstPacket # <<>>
    <3> DEFINE p == firstPacket[1]
    <3>1. Delivered = Append(out, p) /\ IsRow(Delivered) /\ Alike(p)
      BY <2>1, <2>3, DeliveredForms DEF OneHeader
    <3> HIDE DEF p
    <3>2. /\ Len(out) \in Nat /\ Len(Delivered) = Len(out) + 1
          /\ \A j \in 1 .. Len(out) : Delivered[j] = out[j]
          /\ Delivered[Len(out) + 1] = p
      BY <2>1, <3>1, Appended
    <3>3. DOMAIN Delivered = 1 .. Len(Delivered)
      BY <3>1 DEF IsRow
    <3>4. QED
      BY <2>1, <3>1, <3>2, <3>3 DEF OneHeader, Alike
  <2>4. QED
    BY <2>2, <2>3
<1>2. QED
  BY InitDInv, NextDInv, <1>1, PTL DEF Spec

-----------------------------------------------------------------------------
(* The events to be looked at. The unit that one came of is the last that  *)
(* was begun, because its method lets nothing be read on.                  *)

PendingOK ==
  /\ \A j \in handled + 1 .. Len(log) : LastMakes(log[j])
  /\ \A j \in handled + 2 .. Len(log) : log[j].kind \in OfNoUnit
  /\ handled < Len(log) => hand = <<>>

SaysOK == \A p \in DOMAIN wire.unit : MediaFrame(wire.unit[p]) => says[p] \in AdtsHeaders

LastSaid == PendingOK /\ SaysOK

LEMMA JustIsLast ==
  ASSUME ReadingOK, NEW e, LastMakes(e), e.kind \notin OfNoUnit
  PROVE  LastStarted(Just) /\ Makes(wire.unit[Just], e)
<1>1. PICK p : LastStarted(p) /\ Makes(wire.unit[p], e)
  BY DEF LastMakes
<1>2. LastStarted(Just)
  BY <1>1 DEF Just, LastStarted
<1>3. p \in Nat /\ Just \in Nat /\ p <= Just /\ Just <= p
  BY <1>1, <1>2 DEF ReadingOK, IsWire, Started, LastStarted
<1>4. Just = p
  BY <1>3
<1>5. QED
  BY <1>1, <1>4

LEMMA InitLastSaid == Init => LastSaid
<1> SUFFICES ASSUME Init PROVE LastSaid
  OBVIOUS
<1>1. log = <<>> /\ handled = 0 /\ Len(<<>>) = 0
  BY DEF Init, Core!Init, DemuxerInit
<1>2. SaysOK
  BY InputsAssumption DEF Init, SaysOK
<1>3. QED
  BY <1>1, <1>2 DEF LastSaid, PendingOK

(* All that a step of the Demuxer leaves alone.                            *)
LEMMA ReadingLeftAlone ==
  ASSUME [Next]_vars, ~Pump
  PROVE  /\ UNCHANGED <<wire, place, stage, ctx, hand, log, says>>
         /\ handled' \in {handled, IF handled < Len(log) THEN handled + 1 ELSE handled}
<1>1. CASE UNCHANGED vars
  BY <1>1 DEF vars, core, demuxer, calls
<1>2. CASE CoreFails \/ SourceFails
  BY <1>2 DEF CoreFails, SourceFails, core
<1>3. CASE OpenMain \/ OpenStream \/ OpenIgnores \/ OpenEndsEarly \/ OpenEnds
  BY <1>3 DEF OpenMain, OpenStream, OpenIgnores, OpenEndsEarly, OpenEnds, Looks, core
<1>4. CASE ReadIgnores \/ ReadRestated \/ ReadEnds \/ FirstPacket \/ NextPacket
  BY <1>4 DEF ReadIgnores, ReadRestated, ReadEnds, FirstPacket, NextPacket, ReadsFrame, Reads,
              Looks, core
<1>5. CASE RefuseAnnotation \/ ReadAnnotation
  BY <1>5 DEF RefuseAnnotation, ReadAnnotation, ReadsFrame, Reads, Looks, core
<1>6. CASE Caller
  BY <1>6 DEF Caller, CallOpen, CallRead, TakeRows, TakeTrailing, Core!SetStreamLimit, core, calls
<1>7. QED
  BY <1>1, <1>2, <1>3, <1>4, <1>5, <1>6 DEF Next, Works

LEMMA NextLastSaid ==
  ASSUME DInv, LastSaid, [Next]_vars
  PROVE  LastSaid'
<1>1. ReadingOK /\ FieldsOK /\ handled \in Nat /\ handled <= Len(log) /\ Len(log) \in Nat
  BY DEF DInv, FieldsOK, ReadingOK, IsRow
<1>2. CASE Pump
  <2>1. handled = Len(log) /\ handled' = handled /\ UNCHANGED says
    BY <1>2 DEF Pump, demuxer, calls
  <2>2. UNCHANGED wire /\ TellsLast
    BY <1>1, <1>2, ReadingSteps DEF Pump, StepOK, Stepped
  <2>3. PendingOK'
    BY <2>1, <2>2 DEF PendingOK, TellsLast
  <2>4. QED
    BY <2>1, <2>2, <2>3 DEF LastSaid, SaysOK
<1>3. CASE ~Pump
  <2>1. UNCHANGED <<wire, place, hand, log, says>> /\ handled <= handled' /\ handled' \in Nat
    BY <1>1, <1>3, ReadingLeftAlone
  <2>2. PendingOK'
    <3>1. \A j : LastMakes(log[j]) => LastMakes(log[j])'
      BY <2>1 DEF LastMakes, LastStarted, Started
    <3>2. /\ handled' + 1 .. Len(log) \subseteq handled + 1 .. Len(log)
          /\ handled' + 2 .. Len(log) \subseteq handled + 2 .. Len(log)
          /\ handled' < Len(log) => handled < Len(log)
      BY <1>1, <2>1
    <3>3. QED
      BY <2>1, <3>1, <3>2 DEF PendingOK, LastSaid
  <2>3. QED
    BY <2>1, <2>2 DEF LastSaid, SaysOK
<1>4. QED
  BY <1>2, <1>3

-----------------------------------------------------------------------------
(* The framing of packets. All are framed as the first of them was, which  *)
(* is the one that opening read ahead, if any came.                        *)

Framed(p) ==
  /\ says[p.unit] \in AdtsHeaders
  /\ p.from = IF stripAdts THEN HeaderLen(says[p.unit]) ELSE 0

FirstAgrees(p) ==
  IF stripAdts THEN stream[1].config = AudioSpecificConfig(says[p.unit])
               ELSE ~Parses(says[p.unit], p.size)

AtEnd == stage = "ended" /\ handled = Len(log) /\ log[Len(log)] = EndOfInput

FirstOK ==
  \/ firstPacket # <<>> /\ out = <<>> /\ FirstAgrees(firstPacket[1])
  \/ firstPacket = <<>> /\ out # <<>> /\ FirstAgrees(out[1])
  \/ firstPacket = <<>> /\ out = <<>> /\ ~stripAdts /\ AtEnd

FramingOK ==
  /\ \A i \in 1 .. Len(out) : Framed(out[i])
  /\ firstPacket # <<>> => Framed(firstPacket[1])
  /\ opened # "yes" => ~stripAdts
  /\ stream # <<>> /\ ~stripAdts => stream[1].config = opening.media[1].config
  /\ call = "first" \/ stripAdts => Configless(opening.media[1])
  /\ opened = "yes" /\ Configless(opening.media[1]) => FirstOK

LEMMA InitFramingOK == Init => FramingOK
BY DEF Init, DemuxerInit, FramingOK

LEMMA AtEndStays ==
  ASSUME DInv, [Next]_vars, AtEnd
  PROVE  AtEnd'
<1>1. ~Pump
  BY EndStands DEF Pump, AtEnd
<1>2. QED
  BY <1>1, ReadingLeftAlone DEF AtEnd

(* Steps that hand nothing out and settle nothing of the framing.          *)
LEMMA FramingStays ==
  ASSUME DInv, [Next]_vars, FramingOK,
         UNCHANGED <<says, out, firstPacket, stripAdts, stream>>,
         opening'.media = opening.media,
         opened' = opened \/ (opened # "yes" /\ opened' # "yes"),
         call' = "first" => call = "first"
  PROVE  FramingOK'
<1>1. \A p : (Framed(p) <=> Framed(p)') /\ (FirstAgrees(p) <=> FirstAgrees(p)')
  BY DEF Framed, FirstAgrees
<1>2. FirstOK => FirstOK'
  BY <1>1, AtEndStays DEF FirstOK
<1>3. QED
  BY <1>1, <1>2 DEF FramingOK

LEMMA OpenStreamFraming ==
  ASSUME DInv, FramingOK, OpenStream
  PROVE  FramingOK'
<1>1. /\ call = "open" /\ UNCHANGED <<says, out, firstPacket, stripAdts, stream>>
      /\ \/ call' = call /\ opened' = opened
         \/ call' = "none" /\ opened' = "failed"
  BY DEF OpenStream, Looks, Fails, taken
<1>2. /\ opened = "no" /\ stream = <<>> /\ out = <<>> /\ firstPacket = <<>> /\ Len(out) = 0
      /\ ~stripAdts
  BY <1>1 DEF DInv, CallOK, FramingOK
<1>3. QED
  BY <1>1, <1>2 DEF FramingOK

LEMMA OpenEndsFraming ==
  ASSUME DInv, FramingOK, OpenEnds
  PROVE  FramingOK'
<1>1. /\ call = "open" /\ UNCHANGED <<says, out, firstPacket, stripAdts, opening>>
      /\ stream'[1].config = opening.media[1].config
      /\ IF Configless(opening.media[1]) THEN call' = "first" /\ opened' = opened
                                         ELSE call' = "none" /\ opened' = "yes"
  BY DEF OpenEnds, Looks, taken
<1>2. /\ opened = "no" /\ out = <<>> /\ firstPacket = <<>> /\ Len(out) = 0 /\ ~stripAdts
  BY <1>1 DEF DInv, CallOK, FramingOK
<1>3. QED
  BY <1>1, <1>2 DEF FramingOK

LEMMA ReadEndsFraming ==
  ASSUME DInv, FramingOK, ReadEnds, call = "first"
  PROVE  FramingOK'
<1>1. /\ call' = "none" /\ opened' = "yes" /\ answer' = answer
      /\ UNCHANGED <<stage, log, says, out, firstPacket, stripAdts, stream, opening>>
  BY DEF ReadEnds, core, taken
<1>2. /\ opened = "no" /\ out = <<>> /\ firstPacket = <<>> /\ Len(out) = 0 /\ ~stripAdts
      /\ ReadingOK /\ FieldsOK
  BY DEF DInv, CallOK, FramingOK
<1>3. Looks("first", "EndOfInput")
  BY DEF ReadEnds, Reads, Looks
<1>4. stage = "ended" /\ handled' = Len(log)
  BY <1>2, <1>3, LooksAt
<1>5. log[Len(log)] = EndOfInput
  <2>1. CASE handled < Len(log)
    <3>1. Event = log[handled + 1] /\ Event.kind = "EndOfInput" /\ handled + 1 \in 1 .. Len(log)
      BY <1>2, <1>3, <2>1 DEF Looks, Event, FieldsOK, ReadingOK, IsRow
    <3>2. EventSaid(handled + 1)
      BY <1>2, <3>1 DEF ReadingOK
    <3>3. QED
      BY <3>1, <3>2 DEF EventSaid
  <2>2. CASE ~(handled < Len(log))
    BY <1>3, <2>2 DEF Looks, EventCame
  <2>3. QED
    BY <2>1, <2>2
<1>6. AtEnd'
  BY <1>1, <1>4, <1>5 DEF AtEnd
<1>7. FirstOK'
  BY <1>1, <1>2, <1>6 DEF FirstOK
<1>8. QED
  BY <1>1, <1>2, <1>7 DEF FramingOK

(* A packet that comes is one of the media stream, whatever its framing.   *)
LEMMA ArrivedOK ==
  ASSUME DInv, LastSaid, ReadsFrame(1)
  PROVE  /\ Said \in AdtsHeaders
         /\ Arrived.unit = Just /\ Arrived.size = Len(Event.data) /\ Arrived.from = 0
         /\ Stripped(Arrived).unit = Just /\ Stripped(Arrived).from = HeaderLen(Said)
         /\ ~AtEnd
<1>1. ReadingOK /\ FieldsOK
  BY DEF DInv
<1>2. PICK method : Looks(method, "Frame")
  BY DEF ReadsFrame, Reads
<1>3. /\ handled < Len(log) /\ Event = log[handled + 1] /\ Event.kind = "Frame"
      /\ Event.packet.stream = 1
  BY <1>1, <1>2, LooksAt DEF ReadsFrame
<1>4. handled + 1 \in 1 .. Len(log) /\ handled < handled + 1
  BY <1>1, <1>3 DEF FieldsOK, ReadingOK, IsRow
<1>5. LastMakes(Event) /\ Event.kind \notin OfNoUnit
  BY <1>3, <1>4 DEF LastSaid, PendingOK, OfNoUnit
<1>6. Just \in Started /\ MediaFrame(wire.unit[Just])
  BY <1>1, <1>3, <1>5, JustIsLast DEF MediaFrame, LastStarted, Makes
<1>7. Said \in AdtsHeaders
  BY <1>6 DEF LastSaid, SaysOK, Started, Said
<1>8. ~AtEnd
  BY <1>3, <1>4 DEF AtEnd
<1>9. QED
  BY <1>7, <1>8 DEF Arrived, Stripped, Said

LEMMA FirstPacketFraming ==
  ASSUME DInv, LastSaid, FramingOK, FirstPacket
  PROVE  FramingOK'
<1>1. /\ call = "first" /\ call' = "none" /\ UNCHANGED <<says, out, opening>>
  BY DEF FirstPacket, taken
<1>2. /\ opened = "no" /\ stream # <<>> /\ out = <<>> /\ firstPacket = <<>> /\ Len(out) = 0
      /\ ~stripAdts /\ Configless(opening.media[1])
      /\ stream[1].config = opening.media[1].config
      /\ FieldsOK
  BY <1>1 DEF DInv, CallOK, FramingOK
<1>3. /\ Said \in AdtsHeaders
      /\ Arrived.unit = Just /\ Arrived.size = Len(Event.data) /\ Arrived.from = 0
      /\ Stripped(Arrived).unit = Just /\ Stripped(Arrived).from = HeaderLen(Said)
  BY ArrivedOK DEF FirstPacket
<1>4. CASE ~Parses(Said, Len(Event.data))
  <2>1. firstPacket' = <<Arrived>> /\ opened' = "yes" /\ UNCHANGED <<stream, stripAdts>>
    BY <1>4 DEF FirstPacket
  <2>2. Framed(firstPacket[1])' /\ FirstAgrees(firstPacket[1])'
    BY <1>1, <1>2, <1>3, <1>4, <2>1 DEF Framed, FirstAgrees, Said
  <2>3. QED
    BY <1>1, <1>2, <2>1, <2>2 DEF FramingOK, FirstOK
<1>5. CASE Parses(Said, Len(Event.data)) /\ StripRefused
  <2>1. opened' = "failed" /\ UNCHANGED <<firstPacket, stream, stripAdts>>
    BY <1>5 DEF FirstPacket
  <2>2. QED
    BY <1>1, <1>2, <2>1 DEF FramingOK
<1>6. CASE Parses(Said, Len(Event.data)) /\ ~StripRefused
  <2>1. /\ stream' = [stream EXCEPT ![1].config = AudioSpecificConfig(Said)]
        /\ stripAdts' = TRUE /\ firstPacket' = <<Stripped(Arrived)>> /\ opened' = "yes"
    BY <1>6 DEF FirstPacket
  <2>2. stream'[1].config = AudioSpecificConfig(Said)
    BY <1>2, <2>1 DEF FieldsOK, Fields
  <2>3. Framed(firstPacket[1])' /\ FirstAgrees(firstPacket[1])'
    BY <1>1, <1>3, <2>1, <2>2 DEF Framed, FirstAgrees, Said
  <2>4. QED
    BY <1>1, <1>2, <2>1, <2>3 DEF FramingOK, FirstOK
<1>7. QED
  BY <1>4, <1>5, <1>6

LEMMA NextPacketFraming ==
  ASSUME DInv, LastSaid, FramingOK, NextPacket
  PROVE  FramingOK'
<1>1. /\ call = "read" /\ call' = "none"
      /\ UNCHANGED <<says, opened, opening, stream, firstPacket, stripAdts>>
  BY DEF NextPacket
<1>2. opened = "yes" /\ firstPacket = <<>> /\ IsRow(out)
  BY <1>1 DEF DInv, CallOK, FieldsOK
<1>3. \A p : (Framed(p) <=> Framed(p)') /\ (FirstAgrees(p) <=> FirstAgrees(p)')
  BY <1>1 DEF Framed, FirstAgrees
<1>4. ~AtEnd
  BY ArrivedOK DEF NextPacket
<1>5. CASE out' = out
  BY <1>1, <1>2, <1>3, <1>4, <1>5 DEF FramingOK, FirstOK
<1>6. CASE out' = Append(out, IF stripAdts THEN Stripped(Arrived) ELSE Arrived)
  <2>1. PICK p : out' = Append(out, p) /\ Framed(p)
    <3>1. /\ Said \in AdtsHeaders
          /\ Arrived.unit = Just /\ Arrived.from = 0
          /\ Stripped(Arrived).unit = Just /\ Stripped(Arrived).from = HeaderLen(Said)
      BY ArrivedOK DEF NextPacket
    <3>2. QED
      BY <1>6, <3>1 DEF Framed, Said
  <2>2. /\ Len(out) \in Nat /\ Len(out') = Len(out) + 1
        /\ \A i \in 1 .. Len(out) : out'[i] = out[i]
        /\ out'[Len(out) + 1] = p /\ out' # <<>>
    BY <1>2, <2>1, Appended
  <2>3. \A i \in 1 .. Len(out') : Framed(out[i])'
    BY <1>3, <2>1, <2>2 DEF FramingOK
  <2>4. FirstOK => FirstOK'
    <3>1. out # <<>> => out'[1] = out[1]
      BY <1>2, <2>2 DEF IsRow
    <3>2. QED
      BY <1>1, <1>2, <1>3, <1>4, <2>2, <3>1 DEF FirstOK
  <2>5. QED
    BY <1>1, <1>2, <2>3, <2>4 DEF FramingOK
<1>7. QED
  BY <1>5, <1>6 DEF NextPacket

LEMMA CallReadFraming ==
  ASSUME DInv, FramingOK, CallRead, firstPacket # <<>>
  PROVE  FramingOK'
<1> DEFINE p == firstPacket[1]
<1>1. /\ out' = out \o firstPacket /\ firstPacket' = <<>>
      /\ UNCHANGED <<says, call, opened, opening, stream, stripAdts>>
  BY DEF CallRead
<1>2. IsRow(out) /\ firstPacket = <<p>> /\ out \o <<p>> = Append(out, p)
  BY RowJoin DEF DInv, FieldsOK, OneOrNone
<1>3. Framed(p)
  BY DEF FramingOK
<1>4. opened = "yes" /\ Configless(opening.media[1]) => out = <<>> /\ FirstAgrees(p)
  BY DEF FramingOK, FirstOK
<1> HIDE DEF p
<1>5. \A q : (Framed(q) <=> Framed(q)') /\ (FirstAgrees(q) <=> FirstAgrees(q)')
  BY <1>1 DEF Framed, FirstAgrees
<1>6. /\ Len(out) \in Nat /\ Len(out') = Len(out) + 1
      /\ \A i \in 1 .. Len(out) : out'[i] = out[i]
      /\ out'[Len(out) + 1] = p /\ out' # <<>>
  BY <1>1, <1>2, Appended
<1>7. \A i \in 1 .. Len(out') : Framed(out[i])'
  BY <1>3, <1>5, <1>6 DEF FramingOK
<1>8. opened' = "yes" /\ Configless(opening'.media[1]) => FirstOK'
  <2> SUFFICES ASSUME opened = "yes", Configless(opening.media[1]) PROVE FirstOK'
    BY <1>1
  <2>1. out = <<>> /\ FirstAgrees(p)
    BY <1>4
  <2>2. out'[1] = p
    BY <1>6, <2>1
  <2>3. FirstAgrees(out[1])'
    BY <1>5, <2>1, <2>2
  <2>4. QED
    BY <1>1, <1>6, <2>3 DEF FirstOK
<1>9. QED
  BY <1>1, <1>7, <1>8 DEF FramingOK

LEMMA NextFramingOK ==
  ASSUME DInv, LastSaid, FramingOK, [Next]_vars
  PROVE  FramingOK'
<1>1. CASE OpenStream
  BY <1>1, OpenStreamFraming
<1>2. CASE OpenEnds
  BY <1>2, OpenEndsFraming
<1>3. CASE FirstPacket
  BY <1>3, FirstPacketFraming
<1>4. CASE NextPacket
  BY <1>4, NextPacketFraming
<1>5. CASE UNCHANGED vars \/ Pump
  <2>1. UNCHANGED <<says, out, firstPacket, stripAdts, stream, opening, opened, call>>
    BY <1>5 DEF Pump, vars, demuxer, calls, taken
  <2>2. QED
    BY <2>1, FramingStays
<1>6. CASE CoreFails \/ SourceFails
  <2>1. /\ UNCHANGED <<says, out, firstPacket, stripAdts, stream, opening>>
        /\ call # "none" /\ call' = "none"
        /\ IF call = "read" THEN opened' = opened ELSE opened' = "failed"
    BY <1>6 DEF CoreFails, SourceFails, Fails, taken
  <2>2. opened' = opened \/ (opened # "yes" /\ opened' # "yes")
    BY <2>1 DEF DInv, CallOK
  <2>3. QED
    BY <2>1, <2>2, FramingStays
<1>7. CASE OpenMain \/ OpenIgnores \/ OpenEndsEarly
  <2>1. /\ UNCHANGED <<says, out, firstPacket, stripAdts, stream>>
        /\ call = "open"
        /\ \/ call' = call /\ opened' = opened
           \/ call' = "none" /\ opened' = "failed"
        /\ opening' = opening \/ opening' = [opening EXCEPT !.declared = Event.count]
    BY <1>7 DEF OpenMain, OpenIgnores, OpenEndsEarly, Looks, Fails, taken
  <2>2. opening'.media = opening.media
    BY <2>1 DEF DInv, FieldsOK
  <2>3. opened = "no"
    BY <2>1 DEF DInv, CallOK
  <2>4. QED
    BY <2>1, <2>2, <2>3, FramingStays
<1>8. CASE ReadEnds /\ call = "first"
  BY <1>8, ReadEndsFraming
<1>9. CASE \/ ReadIgnores \/ ReadRestated \/ RefuseAnnotation \/ ReadAnnotation
           \/ ReadEnds /\ call # "first"
  <2>1. /\ UNCHANGED <<says, out, firstPacket, stripAdts, stream, opening>>
        /\ call \in {"first", "read"}
        /\ \/ call' = call /\ opened' = opened
           \/ call' = "none" /\ opened' = opened
           \/ call' = "none" /\ opened' = "failed" /\ call = "first"
    BY <1>9 DEF ReadIgnores, ReadRestated, RefuseAnnotation, ReadAnnotation, ReadEnds,
                ReadsFrame, Reads, Looks, Fails, taken
  <2>2. call = "first" => opened = "no"
    BY DEF DInv, CallOK
  <2>3. QED
    BY <2>1, <2>2, FramingStays
<1>10. CASE CallRead /\ firstPacket # <<>>
  BY <1>10, CallReadFraming
<1>11. CASE \/ CallRead /\ firstPacket = <<>>
            \/ \E annotated \in BOOLEAN : CallOpen(annotated)
            \/ \E pts \in DOMAIN unclaimed : TakeRows(pts)
            \/ TakeTrailing
  <2>1. /\ UNCHANGED <<says, out, firstPacket, stripAdts, stream, opening, opened>>
        /\ call' \in {call, "open", "read"}
    BY <1>11 DEF CallRead, CallOpen, TakeRows, TakeTrailing, calls, taken
  <2>2. QED
    BY <2>1, FramingStays
<1>12. QED
  BY <1>1, <1>2, <1>3, <1>4, <1>5, <1>6, <1>7, <1>8, <1>9, <1>10, <1>11 DEF Next, Works, Caller

(* A decoder reads of the config what the ADTS header said.                *)
LEMMA ConfigSays ==
  ASSUME NEW h \in AdtsHeaders
  PROVE  /\ ConfigObject(AudioSpecificConfig(h)) = h.profile + 1
         /\ ConfigRate(AudioSpecificConfig(h)) = h.rate
         /\ ConfigChannels(AudioSpecificConfig(h)) = h.channels
         /\ AudioSpecificConfig(h) # <<>>
<1> DEFINE high == (h.profile + 1) * 8 + h.rate \div 2
           low  == (h.rate % 2) * 128 + h.channels * 8
<1>1. h.profile \in 0 .. 3 /\ h.rate \in 0 .. 15 /\ h.channels \in 0 .. 7
  BY DEF AdtsHeaders
<1>2. /\ AudioSpecificConfig(h) # <<>>
      /\ AudioSpecificConfig(h)[1] = high /\ AudioSpecificConfig(h)[2] = low
  BY DEF AudioSpecificConfig
<1>3. /\ h.rate = 2 * (h.rate \div 2) + (h.rate % 2)
      /\ h.rate \div 2 \in 0 .. 7 /\ h.rate % 2 \in 0 .. 1
  <2>1. \A n \in 0 .. 15 : n = 2 * (n \div 2) + (n % 2) /\ n \div 2 \in 0 .. 7 /\ n % 2 \in 0 .. 1
    OBVIOUS
  <2>2. QED
    BY <1>1, <2>1
<1>4. high \div 8 = h.profile + 1 /\ high % 8 = h.rate \div 2
  BY <1>1, <1>3
<1>5. low \div 128 = h.rate % 2 /\ low % 128 = h.channels * 8
  BY <1>1, <1>3
<1>6. (h.channels * 8) \div 8 = h.channels
  BY <1>1
<1> HIDE DEF high, low
<1>7. QED
  BY <1>1, <1>2, <1>3, <1>4, <1>5, <1>6 DEF ConfigObject, ConfigRate, ConfigChannels

(* Whatever frames the wire has and wherever it fails or ends: packets are *)
(* stripped all or none, from where their own header ends, and the config  *)
(* that Demuxer::open tells is made of the first packet's header exactly   *)
(* if they are.                                                            *)
THEOREM FramingAlwaysAgrees == Spec => []FramingAgrees
<1>1. DInv /\ LastSaid /\ FramingOK => FramingAgrees
  <2> SUFFICES ASSUME DInv, LastSaid, FramingOK, opened = "yes"
               PROVE  FramingAgrees
    BY DEF FramingAgrees
  <2> DEFINE told    == stream[1].config
             derived == told # opening.media[1].config
             media   == opening.media[1]
  <2>1. FieldsOK /\ stream # <<>> /\ IsRow(out)
    BY DEF DInv, FieldsOK, CallOK
  <2>2. /\ IsRow(Delivered) /\ DOMAIN Delivered = 1 .. Len(Delivered)
        /\ \A i \in 1 .. Len(Delivered) : Framed(Delivered[i])
        /\ Configless(media) /\ Delivered # <<>> => FirstAgrees(Delivered[1])
        /\ Configless(media) /\ Delivered = <<>> => ~stripAdts
        /\ Delivered # <<>> => 1 \in 1 .. Len(Delivered)
    <3>1. CASE firstPacket = <<>>
      <4>1. Delivered = out
        BY <2>1, <3>1, DeliveredForms
      <4>2. QED
        BY <2>1, <3>1, <4>1 DEF FramingOK, FirstOK, IsRow
    <3>2. CASE firstPacket # <<>>
      <4> DEFINE p == firstPacket[1]
      <4>1. Delivered = Append(out, p) /\ IsRow(Delivered) /\ Framed(p)
        BY <2>1, <3>2, DeliveredForms DEF FramingOK
      <4>2. Configless(media) => out = <<>> /\ FirstAgrees(p)
        BY <3>2 DEF FramingOK, FirstOK
      <4> HIDE DEF p
      <4>3. /\ Len(out) \in Nat /\ Len(Delivered) = Len(out) + 1
            /\ \A i \in 1 .. Len(out) : Delivered[i] = out[i]
            /\ Delivered[Len(out) + 1] = p
        BY <2>1, <4>1, Appended
      <4>4. \A i \in 1 .. Len(Delivered) : Framed(Delivered[i])
        BY <4>1, <4>3 DEF FramingOK
      <4>5. Configless(media) => Delivered[1] = p
        BY <4>2, <4>3
      <4>6. DOMAIN Delivered = 1 .. Len(Delivered) /\ Delivered # <<>>
        BY <4>1, <4>3 DEF IsRow
      <4>7. QED
        BY <4>1, <4>2, <4>3, <4>4, <4>5, <4>6
    <3>3. QED
      BY <3>1, <3>2
  <2>3. stripAdts => Configless(media)
    BY DEF FramingOK
  <2>4. derived <=> stripAdts
    <3>1. CASE ~stripAdts
      BY <2>1, <3>1 DEF FramingOK
    <3>2. CASE stripAdts
      <4>1. /\ media.config = <<>>
            /\ told = AudioSpecificConfig(says[Delivered[1].unit])
            /\ says[Delivered[1].unit] \in AdtsHeaders
        BY <2>2, <2>3, <3>2 DEF Configless, FirstAgrees, Framed
      <4>2. told # <<>>
        BY <4>1, ConfigSays
      <4>3. QED
        BY <3>2, <4>1, <4>2
    <3>3. QED
      BY <3>1, <3>2
  <2>5. \A i \in DOMAIN Delivered :
          Delivered[i].from = IF derived THEN HeaderLen(says[Delivered[i].unit]) ELSE 0
    BY <2>2, <2>4 DEF Framed
  <2>6. ASSUME Configless(media), Delivered # <<>>
        PROVE  LET first == says[Delivered[1].unit]
               IN  IF derived
                     THEN <<ConfigObject(told), ConfigRate(told), ConfigChannels(told)>>
                            = <<first.profile + 1, first.rate, first.channels>>
                     ELSE ~Parses(first, Delivered[1].size)
    <3>1. says[Delivered[1].unit] \in AdtsHeaders /\ FirstAgrees(Delivered[1])
      BY <2>2, <2>6 DEF Framed
    <3>2. CASE stripAdts
      <4>1. told = AudioSpecificConfig(says[Delivered[1].unit])
        BY <3>1, <3>2 DEF FirstAgrees
      <4> HIDE DEF told
      <4>2. /\ ConfigObject(told) = says[Delivered[1].unit].profile + 1
            /\ ConfigRate(told) = says[Delivered[1].unit].rate
            /\ ConfigChannels(told) = says[Delivered[1].unit].channels
        BY <3>1, <4>1, ConfigSays
      <4>3. QED
        BY <2>4, <3>2, <4>2
    <3>3. CASE ~stripAdts
      BY <2>4, <3>1, <3>3 DEF FirstAgrees
    <3>4. QED
      BY <3>2, <3>3
  <2>7. QED
    BY <2>5, <2>6 DEF FramingAgrees
<1>2. DInv /\ LastSaid /\ FramingOK /\ [Next]_vars => (DInv /\ LastSaid /\ FramingOK)'
  BY NextDInv, NextLastSaid, NextFramingOK
<1>3. QED
  BY InitDInv, InitLastSaid, InitFramingOK, <1>1, <1>2, PTL DEF Spec

-----------------------------------------------------------------------------
(* What is behind. Looking at an event puts the unit behind that made it,  *)
(* the last one begun; reading on leaves behind what was.                  *)

LEMMA BehindThen ==
  ASSUME ReadingOK, FieldsOK, LastSaid, NEW method, NEW kind, Looks(method, kind),
         UNCHANGED <<wire, place, hand, log>>
  PROVE  IF kind \in OfNoUnit THEN Behind' = Behind
         ELSE /\ Behind' = Behind \cup {Just}
              /\ LastStarted(Just) /\ Makes(wire.unit[Just], Event)
              /\ \A p \in Behind : p < Just
<1>1. /\ handled \in Nat /\ handled <= Len(log) /\ Len(log) \in Nat
      /\ Started \subseteq Nat /\ Started' = Started
  BY DEF FieldsOK, ReadingOK, IsRow, IsWire, Started
<1>2. /\ Event.kind = kind
      /\ handled' = IF handled < Len(log) THEN handled + 1 ELSE handled
      /\ kind # "EndOfInput" =>
           handled < Len(log) /\ handled' = handled + 1 /\ Event = log[handled + 1]
  BY LooksAt DEF Looks
<1>3. \A j \in handled + 2 .. Len(log) : log[j].kind \in OfNoUnit
  BY DEF LastSaid, PendingOK
<1>4. CASE kind \in OfNoUnit
  <2>1. handled < Len(log) => Event = log[handled + 1] /\ handled + 1 \in handled + 1 .. Len(log)
    BY <1>1 DEF Event
  <2>2. \A j \in handled + 1 .. Len(log) : log[j].kind \in OfNoUnit
    <3>1. \A j \in handled + 1 .. Len(log) :
            handled < Len(log) /\ (j = handled + 1 \/ j \in handled + 2 .. Len(log))
      BY <1>1
    <3>2. QED
      BY <1>2, <1>3, <1>4, <2>1, <3>1
  <2>3. handled' + 1 .. Len(log) \subseteq handled + 1 .. Len(log)
    BY <1>1, <1>2
  <2>4. Ahead <=> Ahead'
    BY <2>2, <2>3 DEF Ahead
  <2>5. QED
    BY <1>1, <1>4, <2>4 DEF Behind
<1>5. CASE kind \notin OfNoUnit
  <2>1. /\ handled < Len(log) /\ handled' = handled + 1 /\ Event = log[handled + 1]
        /\ handled + 1 \in handled + 1 .. Len(log)
    BY <1>1, <1>2, <1>5 DEF OfNoUnit
  <2>2. hand = <<>> /\ LastMakes(Event)
    BY <2>1 DEF LastSaid, PendingOK
  <2>3. LastStarted(Just) /\ Makes(wire.unit[Just], Event)
    BY <1>2, <1>5, <2>2, JustIsLast
  <2>4. Ahead
    BY <1>2, <1>5, <2>1 DEF Ahead
  <2>5. ~Ahead'
    <3>1. handled' + 1 .. Len(log) = handled + 2 .. Len(log)
      BY <1>1, <2>1
    <3>2. QED
      BY <1>3, <2>2, <3>1 DEF Ahead
  <2>6. Behind' = Started /\ Behind = {p \in Started : \E q \in Started : p < q}
    BY <1>1, <2>4, <2>5 DEF Behind
  <2>7. Just \in Started /\ \A p \in Started : p \in Nat /\ Just \in Nat /\ p <= Just
    BY <1>1, <2>3 DEF LastStarted
  <2>8. \A p \in Started : p < Just \/ p = Just
    BY <2>7
  <2>9. \A p \in Behind : p < Just
    BY <2>6, <2>7
  <2>10. Behind' = Behind \cup {Just}
    BY <2>6, <2>7, <2>8
  <2>11. QED
    BY <1>5, <2>3, <2>9, <2>10
<1>6. QED
  BY <1>4, <1>5

LEMMA FramesLookedAt ==
  ASSUME ReadingOK, FieldsOK, LastSaid, NEW method, NEW kind, Looks(method, kind),
         UNCHANGED <<wire, place, hand, log>>, NEW of
  PROVE  IF kind = "Frame" /\ Event.packet.stream = of
         THEN /\ FramesBehind(of)' = FramesBehind(of) \cup {Just}
              /\ \A p \in FramesBehind(of) : p < Just
              /\ FramesTold(of)' = FramesTold(of) \cup {handled + 1}
              /\ Event = log[handled + 1]
         ELSE /\ FramesBehind(of)' = FramesBehind(of)
              /\ FramesTold(of)' = FramesTold(of)
<1>1. /\ handled \in Nat /\ handled <= Len(log) /\ Len(log) \in Nat
  BY DEF FieldsOK, ReadingOK, IsRow
<1>2. /\ Event.kind = kind
      /\ handled' = IF handled < Len(log) THEN handled + 1 ELSE handled
      /\ kind # "EndOfInput" =>
           handled < Len(log) /\ handled' = handled + 1 /\ Event = log[handled + 1]
      /\ handled < Len(log) => Event = log[handled + 1]
  BY LooksAt DEF Looks, Event
<1>3. /\ FramesBehind(of) = {p \in Behind : wire.unit[p].kind = "frame"
                               /\ wire.unit[p].stream = of /\ ~wire.unit[p].eor}
      /\ FramesBehind(of)' = {p \in Behind' : wire.unit[p].kind = "frame"
                               /\ wire.unit[p].stream = of /\ ~wire.unit[p].eor}
  BY DEF FramesBehind, UnitsBehind
<1>4. /\ FramesTold(of) = {j \in 1 .. handled : log[j].kind = "Frame" /\ log[j].packet.stream = of}
      /\ FramesTold(of)' = {j \in 1 .. handled' : log[j].kind = "Frame" /\ log[j].packet.stream = of}
  BY DEF FramesTold, Told
<1>5. 1 .. handled' = 1 .. handled \/ 1 .. handled' = (1 .. handled) \cup {handled + 1}
  BY <1>1, <1>2
<1>6. CASE kind = "Frame" /\ Event.packet.stream = of
  <2>1. kind \notin OfNoUnit
    BY <1>6 DEF OfNoUnit
  <2>2. /\ Behind' = Behind \cup {Just} /\ Makes(wire.unit[Just], Event)
        /\ \A p \in Behind : p < Just
    BY <2>1, BehindThen
  <2>3. /\ wire.unit[Just].kind = "frame" /\ wire.unit[Just].stream = of
        /\ ~wire.unit[Just].eor
    BY <1>2, <1>6, <2>2 DEF Makes
  <2>4. 1 .. handled' = (1 .. handled) \cup {handled + 1} /\ Event = log[handled + 1]
    BY <1>1, <1>2, <1>6
  <2>5. FramesBehind(of)' = FramesBehind(of) \cup {Just}
    BY <1>3, <2>2, <2>3
  <2>6. FramesTold(of)' = FramesTold(of) \cup {handled + 1}
    BY <1>2, <1>4, <1>6, <2>4
  <2>7. QED
    BY <1>3, <1>6, <2>2, <2>4, <2>5, <2>6
<1>7. CASE ~(kind = "Frame" /\ Event.packet.stream = of)
  <2>1. FramesTold(of)' = FramesTold(of)
    <3>1. handled' = handled \/ (1 .. handled' = (1 .. handled) \cup {handled + 1}
                                 /\ Event = log[handled + 1])
      BY <1>1, <1>2
    <3>2. QED
      BY <1>2, <1>4, <1>7, <3>1
  <2>2. CASE kind \in OfNoUnit
    <3>1. Behind' = Behind
      BY <2>2, BehindThen
    <3>2. QED
      BY <1>3, <1>7, <2>1, <3>1
  <2>3. CASE kind \notin OfNoUnit
    <3>1. Behind' = Behind \cup {Just} /\ Makes(wire.unit[Just], Event)
      BY <2>3, BehindThen
    <3>2. ~(/\ wire.unit[Just].kind = "frame" /\ wire.unit[Just].stream = of
            /\ ~wire.unit[Just].eor)
      BY <1>2, <1>7, <3>1 DEF Makes, Speaks
    <3>3. FramesBehind(of)' = FramesBehind(of)
      BY <1>3, <3>1, <3>2
    <3>4. QED
      BY <1>7, <2>1, <3>3
  <2>4. QED
    BY <2>2, <2>3
<1>8. QED
  BY <1>6, <1>7

LEMMA FramesReadOn ==
  ASSUME DInv, Pump, NEW of
  PROVE  /\ FramesBehind(of)' = FramesBehind(of)
         /\ FramesTold(of)' = FramesTold(of)
         /\ \A j \in FramesTold(of) : log'[j] = log[j]
<1>1. PICK kinds : Stepped(kinds)
  BY ReadingSteps DEF DInv, Pump, StepOK
<1>2. /\ handled = Len(log) /\ handled' = handled /\ Len(log) \in Nat
      /\ UNCHANGED wire /\ SpokenKept
      /\ \A j \in 1 .. Len(log) : log'[j] = log[j]
  BY <1>1 DEF Stepped, Tells, Pump, demuxer, calls, DInv, ReadingOK, IsRow
<1>3. Ahead <=> hand # <<>>
  BY <1>2 DEF Ahead
<1>4. Ahead' <=> Awaits
  BY <1>2 DEF Ahead, Awaits
<1> DEFINE IsFrame(p) == /\ wire.unit[p].kind = "frame" /\ wire.unit[p].stream = of
                         /\ ~wire.unit[p].eor
<1>5. /\ FramesBehind(of) =
           {p \in Started : (Ahead => \E q \in Started : p < q) /\ IsFrame(p)}
      /\ FramesBehind(of)' =
           {p \in Started' : (Ahead' => \E q \in Started' : p < q) /\ IsFrame(p)}
  BY <1>2 DEF FramesBehind, UnitsBehind, Behind
<1>6. \A p : IsFrame(p) => Speaks(wire.unit[p])
  BY DEF Speaks
<1> HIDE DEF IsFrame
<1>7. FramesBehind(of)' = FramesBehind(of)
  BY <1>2, <1>3, <1>4, <1>5, <1>6 DEF SpokenKept
<1>8. FramesTold(of)' = FramesTold(of)
  BY <1>2 DEF FramesTold, Told
<1>9. QED
  BY <1>2, <1>7, <1>8 DEF FramesTold, Told

LEMMA FramesStay ==
  ASSUME UNCHANGED <<wire, place, hand, log, handled>>, NEW of
  PROVE  FramesBehind(of)' = FramesBehind(of) /\ FramesTold(of)' = FramesTold(of)
BY DEF FramesBehind, UnitsBehind, Behind, Ahead, Started, FramesTold, Told

(* What failed stays so.                                                   *)
LEMMA WholeBefore ==
  ASSUME DInv, [Next]_vars, Whole'
  PROVE  Whole
<1>1. CallOK
  BY DEF DInv
<1>2. SUFFICES ASSUME call # "none" \/ CallRead PROVE opened # "failed" /\ answer # "refused"
  <2>1. CASE call # "none" \/ CallRead
    BY <1>2, <2>1 DEF Whole
  <2>2. CASE UNCHANGED vars \/ (Caller /\ ~CallRead)
    <3>1. UNCHANGED <<opened, answer>>
      BY <2>2 DEF vars, demuxer, calls, Caller, CallOpen, TakeRows, TakeTrailing
    <3>2. QED
      BY <3>1 DEF Whole
  <2>3. call # "none" \/ UNCHANGED vars \/ Caller
    BY DEF Next, Works, Pump, CoreFails, SourceFails, OpenMain, OpenStream, OpenIgnores,
           OpenEndsEarly, OpenEnds, ReadIgnores, ReadRestated, ReadEnds, FirstPacket,
           NextPacket, RefuseAnnotation, ReadAnnotation, ReadsFrame, Reads, Looks
  <2>4. QED
    BY <2>1, <2>2, <2>3
<1>3. CASE CallRead
  BY <1>3 DEF CallRead
<1>4. CASE call # "none"
  BY <1>1, <1>4 DEF CallOK
<1>5. QED
  BY <1>2, <1>3, <1>4

-----------------------------------------------------------------------------
(* The packets. One is handed out for each frame of the media stream that  *)
(* a method looks at, and is of the last unit begun.                       *)

PacketsStand ==
  /\ {Delivered[i].unit : i \in DOMAIN Delivered} = FramesBehind(1)
  /\ \A i, j \in DOMAIN Delivered : i < j => Delivered[i].unit < Delivered[j].unit
  /\ Len(Delivered) = Cardinality(FramesTold(1))
  /\ \A j \in FramesTold(1) : Delivered[Nth(FramesTold(1), j)].packet = log[j].packet

LEMMA PacketsStay ==
  ASSUME PacketsStand, Delivered' = Delivered,
         FramesBehind(1)' = FramesBehind(1), FramesTold(1)' = FramesTold(1),
         \A j \in FramesTold(1) : log'[j] = log[j]
  PROVE  PacketsStand'
BY DEF PacketsStand, Nth

LEMMA NthThen ==
  ASSUME NEW n \in Nat, NEW S \in SUBSET (1 .. n)
  PROVE  /\ IsFiniteSet(S) /\ Cardinality(S) \in Nat
         /\ Cardinality(S \cup {n + 1}) = Cardinality(S) + 1
         /\ Nth(S \cup {n + 1}, n + 1) = Cardinality(S) + 1
         /\ \A j \in S : /\ Nth(S \cup {n + 1}, j) = Nth(S, j)
                         /\ Nth(S, j) \in 1 .. Cardinality(S)
<1>1. IsFiniteSet(S) /\ Cardinality(S) \in Nat
  <2>1. IsFiniteSet(1 .. n)
    BY FS_Interval
  <2>2. IsFiniteSet(S)
    BY <2>1, FS_Subset
  <2>3. QED
    BY <2>2, FS_CardinalityType
<1>2. Cardinality(S \cup {n + 1}) = Cardinality(S) + 1
  BY <1>1, FS_AddElement
<1>3. {k \in S \cup {n + 1} : k <= n + 1} = S \cup {n + 1}
  <2>1. \A k \in S : k \in 1 .. n
    OBVIOUS
  <2>2. \A k \in S \cup {n + 1} : k <= n + 1
    BY <2>1
  <2>3. QED
    BY <2>2
<1>4. ASSUME NEW j \in S
      PROVE  Nth(S \cup {n + 1}, j) = Nth(S, j) /\ Nth(S, j) \in 1 .. Cardinality(S)
  <2> DEFINE T == {k \in S : k <= j}
  <2>1. {k \in S \cup {n + 1} : k <= j} = T
    OBVIOUS
  <2>2. T \in SUBSET S /\ j \in T
    OBVIOUS
  <2> HIDE DEF T
  <2>3. IsFiniteSet(T) /\ Cardinality(T) <= Cardinality(S) /\ Cardinality(T) \in Nat
    BY <1>1, <2>2, FS_Subset, FS_CardinalityType
  <2>4. Cardinality(T) # 0
    BY <2>2, <2>3, FS_EmptySet
  <2>5. Nth(S \cup {n + 1}, j) = Cardinality(T) /\ Nth(S, j) = Cardinality(T)
    BY <2>1 DEF Nth, T
  <2>6. QED
    BY <1>1, <2>3, <2>4, <2>5
<1>5. QED
  BY <1>1, <1>2, <1>3, <1>4 DEF Nth

LEMMA PacketComes ==
  ASSUME DInv, LastSaid, PacketsStand, ReadsFrame(1), UNCHANGED <<wire, place, hand, log>>,
         NEW p, Delivered' = Append(Delivered, p), p.unit = Just, p.packet = Event.packet
  PROVE  PacketsStand'
<1> DEFINE told   == FramesTold(1)
           behind == FramesBehind(1)
           n      == Len(Delivered)
<1>1. ReadingOK /\ FieldsOK /\ handled \in Nat
  BY DEF DInv, FieldsOK
<1>2. PICK method : Looks(method, "Frame") /\ Event.packet.stream = 1
  BY DEF ReadsFrame, Reads
<1>3. /\ behind' = behind \cup {Just} /\ \A q \in behind : q < Just
      /\ told' = told \cup {handled + 1} /\ Event = log[handled + 1]
  BY <1>1, <1>2, FramesLookedAt
<1>4. told \in SUBSET (1 .. handled)
  BY DEF FramesTold, Told
<1>5. /\ IsRow(Delivered) /\ n \in Nat /\ Len(Delivered') = n + 1 /\ IsRow(Delivered')
      /\ \A i \in 1 .. n : Delivered'[i] = Delivered[i]
      /\ Delivered'[n + 1] = p
      /\ DOMAIN Delivered = 1 .. n /\ DOMAIN Delivered' = 1 .. n + 1
  <2>1. IsRow(Delivered)
    BY <1>1, DeliveredForms
  <2>2. QED
    BY <2>1, Appended, RowAppend DEF IsRow
<1>6. /\ {Delivered[i].unit : i \in 1 .. n} = behind
      /\ \A i, j \in 1 .. n : i < j => Delivered[i].unit < Delivered[j].unit
      /\ n = Cardinality(told)
      /\ \A j \in told : Delivered[Nth(told, j)].packet = log[j].packet
  BY <1>5 DEF PacketsStand
<1>7. /\ Cardinality(told') = n + 1
      /\ Nth(told', handled + 1) = n + 1
      /\ \A j \in told : Nth(told', j) = Nth(told, j) /\ Nth(told, j) \in 1 .. n
  <2> HIDE DEF told, n
  <2>1. QED
    BY <1>1, <1>3, <1>4, <1>6, NthThen
<1> DEFINE D == Delivered'
<1> HIDE DEF told, behind, n, D
<1>8. {D[i].unit : i \in 1 .. n + 1} = behind'
  <2>1. 1 .. n + 1 = (1 .. n) \cup {n + 1}
    BY <1>5
  <2>2. \A i \in 1 .. n : D[i].unit = Delivered[i].unit
    BY <1>5 DEF D
  <2>3. D[n + 1].unit = Just
    BY <1>5 DEF D
  <2>4. QED
    BY <1>3, <1>6, <2>1, <2>2, <2>3
<1>9. \A i, j \in 1 .. n + 1 : i < j => D[i].unit < D[j].unit
  <2> SUFFICES ASSUME NEW i \in 1 .. n + 1, NEW j \in 1 .. n + 1, i < j
               PROVE  D[i].unit < D[j].unit
    OBVIOUS
  <2>1. i \in 1 .. n /\ D[i] = Delivered[i] /\ Delivered[i].unit \in behind
    BY <1>5, <1>6 DEF D
  <2>2. CASE j \in 1 .. n
    BY <1>5, <1>6, <2>1, <2>2 DEF D
  <2>3. CASE j = n + 1
    BY <1>3, <1>5, <2>1, <2>3 DEF D
  <2>4. QED
    BY <1>5, <2>2, <2>3
<1>10. \A j \in told' : D[Nth(told', j)].packet = log[j].packet
  <2>1. D[n + 1].packet = log[handled + 1].packet
    BY <1>3, <1>5 DEF D
  <2>2. ASSUME NEW j \in told
        PROVE  D[Nth(told', j)].packet = log[j].packet
    BY <1>5, <1>6, <1>7, <2>2 DEF D
  <2>3. QED
    BY <1>3, <1>7, <2>1, <2>2
<1>11. PacketsStand' <=>
         /\ {D[i].unit : i \in DOMAIN D} = behind'
         /\ \A i, j \in DOMAIN D : i < j => D[i].unit < D[j].unit
         /\ Len(D) = Cardinality(told')
         /\ \A j \in told' : D[Nth(told', j)].packet = log'[j].packet
  BY DEF PacketsStand, told, behind, D, Nth
<1>12. DOMAIN D = 1 .. n + 1 /\ Len(D) = n + 1
  BY <1>5 DEF D
<1>13. QED
  BY <1>7, <1>8, <1>9, <1>10, <1>11, <1>12

LEMMA InitPackets == Init => PacketsStand
<1> SUFFICES ASSUME Init PROVE PacketsStand
  OBVIOUS
<1>1. out = <<>> /\ firstPacket = <<>> /\ place = 0 /\ handled = 0 /\ log = <<>>
  BY DEF Init, Core!Init, DemuxerInit
<1>2. Delivered = <<>> /\ Len(Delivered) = 0 /\ DOMAIN Delivered = {}
  BY <1>1 DEF Delivered
<1>3. Started = {}
  BY <1>1, InitReadingOK DEF ReadingOK, IsWire, Started
<1>4. FramesBehind(1) = {}
  BY <1>3 DEF FramesBehind, UnitsBehind, Behind
<1>5. FramesTold(1) = {}
  BY <1>1 DEF FramesTold, Told
<1>6. QED
  BY <1>2, <1>4, <1>5, FS_EmptySet DEF PacketsStand

LEMMA NextPackets ==
  ASSUME DInv, LastSaid, Whole => PacketsStand, [Next]_vars
  PROVE  (Whole => PacketsStand)'
<1> SUFFICES ASSUME Whole' PROVE PacketsStand'
  OBVIOUS
<1>1. Whole /\ PacketsStand /\ ReadingOK /\ FieldsOK
  BY WholeBefore DEF DInv
<1>2. CASE Pump
  <2>1. Delivered' = Delivered
    BY <1>2 DEF Pump, demuxer, taken, Delivered
  <2>2. QED
    BY <1>1, <1>2, <2>1, FramesReadOn, PacketsStay
<1>3. CASE ~Pump
  <2>1. UNCHANGED <<wire, place, hand, log>>
    BY <1>3, ReadingLeftAlone
  <2>2. CASE UNCHANGED <<Delivered, handled>>
    BY <1>1, <2>1, <2>2, FramesStay, PacketsStay
  <2>3. ASSUME NEW method, NEW kind, Looks(method, kind),
               ~(kind = "Frame" /\ Event.packet.stream = 1), UNCHANGED <<out, firstPacket>>
        PROVE  PacketsStand'
    <3>1. FramesBehind(1)' = FramesBehind(1) /\ FramesTold(1)' = FramesTold(1)
      BY <1>1, <2>1, <2>3, FramesLookedAt
    <3>2. Delivered' = Delivered
      BY <2>3 DEF Delivered
    <3>3. QED
      BY <1>1, <2>1, <3>1, <3>2, PacketsStay
  <2>4. CASE UNCHANGED vars \/ CoreFails \/ SourceFails
    <3>1. UNCHANGED <<Delivered, handled>>
      BY <2>4 DEF vars, demuxer, calls, taken, CoreFails, SourceFails, Delivered
    <3>2. QED
      BY <2>2, <3>1
  <2>5. CASE OpenMain \/ OpenStream \/ OpenIgnores \/ OpenEndsEarly \/ OpenEnds
    <3>1. PICK method, kind : Looks(method, kind) /\ kind # "Frame"
      BY <2>5 DEF OpenMain, OpenStream, OpenIgnores, OpenEndsEarly, OpenEnds
    <3>2. UNCHANGED <<out, firstPacket>>
      BY <2>5 DEF OpenMain, OpenStream, OpenIgnores, OpenEndsEarly, OpenEnds, taken
    <3>3. QED
      BY <2>3, <3>1, <3>2
  <2>6. CASE ReadIgnores \/ ReadRestated \/ ReadEnds
    <3>1. PICK method, kind : Looks(method, kind) /\ kind # "Frame"
      BY <2>6 DEF ReadIgnores, ReadRestated, ReadEnds, Reads
    <3>2. UNCHANGED <<out, firstPacket>>
      BY <2>6 DEF ReadIgnores, ReadRestated, ReadEnds, taken
    <3>3. QED
      BY <2>3, <3>1, <3>2
  <2>7. CASE RefuseAnnotation \/ ReadAnnotation
    <3>1. PICK method : Looks(method, "Frame") /\ Event.packet.stream = 2
      BY <2>7 DEF RefuseAnnotation, ReadAnnotation, ReadsFrame, Reads, AnnotationStream
    <3>2. UNCHANGED <<out, firstPacket>>
      BY <2>7 DEF RefuseAnnotation, ReadAnnotation, taken
    <3>3. QED
      BY <2>3, <3>1, <3>2
  <2>8. CASE FirstPacket \/ NextPacket
    <3>1. PICK p \in {Arrived, Stripped(Arrived)} : Delivered' = Append(Delivered, p)
      <4>1. IsRow(out)
        BY <1>1 DEF FieldsOK
      <4>2. CASE FirstPacket
        <5>1. firstPacket = <<>> /\ out = <<>> /\ out' = out
          BY <2>8, <4>2 DEF DInv, CallOK, FirstPacket, taken
        <5>2. PICK p \in {Arrived, Stripped(Arrived)} : firstPacket' = <<p>>
          BY <1>1, <4>2 DEF FirstPacket, Whole
        <5>3. Delivered' = Append(out, p) /\ Delivered = out
          BY <4>1, <5>1, <5>2, RowJoin DEF Delivered
        <5>4. QED
          BY <5>2, <5>3
      <4>3. CASE NextPacket
        <5>1. firstPacket = <<>> /\ firstPacket' = <<>>
          BY <4>3 DEF DInv, CallOK, NextPacket
        <5>2. PICK p \in {Arrived, Stripped(Arrived)} : out' = Append(out, p)
          BY <1>1, <4>3 DEF NextPacket, Whole
        <5>3. Delivered' = Append(out, p) /\ Delivered = out
          BY <4>1, <5>1, <5>2, RowJoin, RowAppend DEF Delivered
        <5>4. QED
          BY <5>2, <5>3
      <4>4. QED
        BY <2>8, <4>2, <4>3
    <3>2. p.unit = Just /\ p.packet = Event.packet
      BY DEF Arrived, Stripped
    <3>3. ReadsFrame(1)
      BY <2>8 DEF FirstPacket, NextPacket
    <3>4. QED
      BY <1>1, <2>1, <3>1, <3>2, <3>3, PacketComes
  <2>9. CASE Caller
    <3>1. handled' = handled
      BY <2>9 DEF Caller, CallOpen, CallRead, TakeRows, TakeTrailing, calls
    <3>2. CASE ~CallRead \/ firstPacket = <<>>
      <4>1. UNCHANGED <<out, firstPacket>>
        BY <2>9, <3>2 DEF Caller, CallOpen, CallRead, TakeRows, TakeTrailing, taken
      <4>2. QED
        BY <2>2, <3>1, <4>1 DEF Delivered
    <3>3. CASE CallRead /\ firstPacket # <<>>
      <4>1. out' = Delivered /\ firstPacket' = <<>> /\ IsRow(Delivered)
        BY <1>1, <3>3, DeliveredForms DEF CallRead, Delivered
      <4>2. Delivered' = Delivered
        BY <4>1, RowJoin DEF Delivered
      <4>3. QED
        BY <2>2, <3>1, <4>2
    <3>4. QED
      BY <3>2, <3>3
  <2>10. QED
    BY <1>3, <2>4, <2>5, <2>6, <2>7, <2>8, <2>9 DEF Next, Works
<1>4. QED
  BY <1>2, <1>3

(* Every frame of the media stream whose event a method has looked at is   *)
(* handed out once, as it was read and in the wire's order, whether it was *)
(* read ahead of its call or not and wherever the source failed between.   *)
THEOREM PacketsComeInOrder == Spec => []PacketsInOrder
<1> DEFINE Inv == DInv /\ LastSaid /\ (Whole => PacketsStand)
<1>1. Init => Inv
  BY InitDInv, InitLastSaid, InitPackets
<1>2. Inv /\ [Next]_vars => Inv'
  BY NextDInv, NextLastSaid, NextPackets
<1>3. Inv => PacketsInOrder
  BY DEF PacketsStand, PacketsInOrder
<1>4. QED
  BY <1>1, <1>2, <1>3, PTL DEF Spec

-----------------------------------------------------------------------------
(* What the reading tells of headers: no stream's comes before the main    *)
(* header that declares it, and their end not before the first stream's.   *)

SameHeadersRead(c, d) ==
  /\ HasMain(d) <=> HasMain(c)
  /\ Declared(d) = Declared(c)
  /\ Known(d) = Known(c)

LEMMA SameStreamsRead ==
  ASSUME NEW c, NEW d, d.streams = c.streams, d.bases = c.bases
  PROVE  SameHeadersRead(c, d)
BY DEF SameHeadersRead, HasMain, Declared, Known

LEMMA ClosedSameRead ==
  ASSUME NEW c, ContextOK(c)
  PROVE  SameHeadersRead(c, HeadersClosed(c))
<1>1. HeadersClosed(c).streams = c.streams /\ HeadersClosed(c).bases = c.bases
  BY DEF ContextOK, IsContext, HeadersClosed
<1>2. QED
  BY <1>1, SameStreamsRead

LEMMA SyncpointSameRead ==
  ASSUME NEW c, ContextOK(c), NEW u
  PROVE  SameHeadersRead(c, ReadSyncpoint(c, u))
<1>1. ReadSyncpoint(c, u).streams = c.streams /\ ReadSyncpoint(c, u).bases = c.bases
  BY DEF ContextOK, IsContext, ReadSyncpoint
<1>2. QED
  BY <1>1, SameStreamsRead

LEMMA RefusedSameRead ==
  ASSUME NEW c, ContextOK(c), NEW u
  PROVE  SameHeadersRead(c, BodyRefusedLeaves(c, u))
BY SyncpointSameRead DEF BodyRefusedLeaves, SameHeadersRead

LEMMA FrameSameRead ==
  ASSUME NEW c, ContextOK(c), NEW u
  PROVE  SameHeadersRead(c, FrameRead(c, u))
<1>1. FrameRead(c, u).streams = c.streams /\ FrameRead(c, u).bases = c.bases
  BY DEF ContextOK, IsContext, FrameRead
<1>2. QED
  BY <1>1, SameStreamsRead

LEMMA InfoSameRead ==
  ASSUME NEW c, ContextOK(c), MainFirst(c), NEW u \in InfoUnits
  PROVE  SameHeadersRead(c, ApplyInfo(ApplyTags(c, u), u))
<1> DEFINE d == ApplyTags(c, u)
           e == ApplyInfo(d, u)
<1>1. ContextOK(d) /\ d.streams = c.streams /\ d.bases = c.bases
  BY ApplyTagsStreams DEF ContextKept, ContextOK, IsContext, ApplyTags
<1> HIDE DEF d
<1>2. /\ e.bases = d.bases
      /\ e.streams = [i \in DOMAIN d.streams |->
                        IF i \in Known(d) /\ u.about \in {0, i}
                          THEN <<Rated(Header(d, i), u.rate)>> ELSE d.streams[i]]
  BY <1>1 DEF ContextOK, IsContext, ApplyInfo
<1> HIDE DEF e
<1>3. Declared(e) = Declared(d) /\ (HasMain(e) <=> HasMain(d))
  BY <1>2 DEF Declared, HasMain
<1>4. ASSUME NEW i \in Declared(d) PROVE e.streams[i] # <<>> <=> d.streams[i] # <<>>
  <2>1. CASE i \in Known(d) /\ u.about \in {0, i}
    <3>1. e.streams[i] = <<Rated(Header(d, i), u.rate)>>
      BY <1>2, <1>4, <2>1 DEF Declared
    <3>2. e.streams[i] # <<>>
      BY <3>1
    <3>3. QED
      BY <2>1, <3>2 DEF Known
  <2>2. CASE ~(i \in Known(d) /\ u.about \in {0, i})
    BY <1>2, <1>4, <2>2 DEF Declared
  <2>3. QED
    BY <2>1, <2>2
<1>5. Known(e) = Known(d)
  BY <1>3, <1>4 DEF Known
<1>6. SameHeadersRead(c, d)
  BY <1>1, SameStreamsRead
<1>7. QED
  BY <1>3, <1>5, <1>6 DEF SameHeadersRead, d, e

LEMMA PacketSaysHeaders ==
  ASSUME NEW c, ContextOK(c), MainFirst(c), NEW u \in Units,
         u.kind \in {"main", "stream", "syncpoint", "info"}, ~BodyRefused(c, u)
  PROVE  /\ u.kind \in {"syncpoint", "info"} => SameHeadersRead(c, PacketRead(c, u))
         /\ u.kind = "main" =>
              /\ u.count \in Nat \ {0}
              /\ Declared(PacketRead(c, u)) = 1 .. u.count
              /\ Known(PacketRead(c, u)) \subseteq Known(c)
         /\ u.kind = "stream" =>
              /\ HasMain(c) /\ u.stream \in Declared(c)
              /\ Declared(PacketRead(c, u)) = Declared(c)
              /\ Known(PacketRead(c, u)) \subseteq Known(c) \cup {u.stream}
<1>1. CASE u.kind = "main"
  <2> DEFINE d == ReadMain(c, u)
  <2>1. u \in MainUnits /\ u.count \in 1 .. MaxStreams /\ MaxStreams \in Nat
    BY <1>1, UnitKinds, LimitsAssumption DEF BodyRefused, MainRefused
  <2>2. d.streams = IF Len(c.streams) = u.count THEN c.streams
                    ELSE [i \in 1 .. u.count |-> <<>>]
    BY DEF ContextOK, IsContext, ReadMain
  <2>3. PacketRead(c, u) = d
    BY <1>1 DEF PacketRead
  <2> HIDE DEF d
  <2>4. c.streams \in Seq(Options)
    BY DEF ContextOK
  <2>5. Declared(d) = 1 .. u.count
    BY <2>1, <2>2, <2>4 DEF Declared
  <2>6. Known(d) \subseteq Known(c)
    BY <2>1, <2>2 DEF Known, Declared
  <2>7. QED
    BY <1>1, <2>1, <2>3, <2>5, <2>6
<1>2. CASE u.kind = "stream"
  <2> DEFINE d == ReadStream(c, u)
  <2>1. HasMain(c) /\ u.stream \in Declared(c) /\ PacketRead(c, u) = d
    BY <1>2 DEF PacketRead, BodyRefused, StreamRefused
  <2>2. /\ DOMAIN d.streams = DOMAIN c.streams
        /\ \A i \in DOMAIN c.streams : i # u.stream => d.streams[i] = c.streams[i]
    BY DEF ContextOK, IsContext, ReadStream
  <2> HIDE DEF d
  <2>3. QED
    BY <1>2, <2>1, <2>2 DEF Declared, Known
<1>3. CASE u.kind = "syncpoint"
  <2> DEFINE d == ReadSyncpoint(c, u)
  <2>1. PacketRead(c, u) = HeadersClosed(d)
    BY <1>3 DEF PacketRead
  <2>2. SameHeadersRead(c, d) /\ ContextOK(d)
    BY SyncpointSameRead, ReadSyncpointStreams DEF ContextKept
  <2> HIDE DEF d
  <2>3. SameHeadersRead(d, HeadersClosed(d))
    BY <2>2, ClosedSameRead
  <2>4. QED
    BY <1>3, <2>1, <2>2, <2>3 DEF SameHeadersRead
<1>4. CASE u.kind = "info"
  BY <1>4, UnitKinds, InfoSameRead DEF PacketRead, SameHeadersRead
<1>5. QED
  BY <1>1, <1>2, <1>3, <1>4

(* What a step tells of headers is what its context takes up.              *)
TellsNoHeader ==
  /\ SameHeadersRead(ctx, ctx')
  /\ \A j \in Len(log) + 1 .. Len(log') :
       /\ log'[j].kind \notin {"MainHeader", "StreamHeader"}
       /\ log'[j].kind = "EndOfHeaders" => HeadersComplete(ctx)

TellsMain(e) ==
  /\ log' = Append(log, e) /\ e.kind = "MainHeader" /\ e.count \in Nat \ {0}
  /\ Declared(ctx') = 1 .. e.count
  /\ Known(ctx') \subseteq Known(ctx)

TellsStream(e) ==
  /\ log' = Append(log, e) /\ e.kind = "StreamHeader"
  /\ HasMain(ctx) /\ e.stream \in Declared(ctx)
  /\ Declared(ctx') = Declared(ctx)
  /\ Known(ctx') \subseteq Known(ctx) \cup {e.stream}

LEMMA TellsOther ==
  ASSUME IsRow(log), SameHeadersRead(ctx, ctx'),
         \/ log' = log
         \/ \E e : /\ log' = Append(log, e) /\ e.kind \notin {"MainHeader", "StreamHeader"}
                   /\ e.kind = "EndOfHeaders" => HeadersComplete(ctx)
  PROVE  TellsNoHeader
<1>1. CASE log' = log
  BY <1>1 DEF TellsNoHeader, IsRow
<1>2. ASSUME NEW e, log' = Append(log, e), e.kind \notin {"MainHeader", "StreamHeader"},
             e.kind = "EndOfHeaders" => HeadersComplete(ctx)
      PROVE  TellsNoHeader
  <2>1. Len(log) \in Nat /\ Len(log') = Len(log) + 1 /\ log'[Len(log) + 1] = e
    BY <1>2, Appended
  <2>2. \A j \in Len(log) + 1 .. Len(log') : log'[j] = e
    BY <2>1
  <2>3. QED
    BY <1>2, <2>2 DEF TellsNoHeader
<1>3. QED
  BY <1>1, <1>2

LEMMA PacketTellsHeaders ==
  ASSUME ReadingOK, Core!ReadPacket
  PROVE  TellsNoHeader \/ \E e : TellsMain(e) \/ TellsStream(e)
<1> DEFINE u == Core!Unit
<1>1. IsRow(log) /\ ContextOK(ctx) /\ MainFirst(ctx)
  BY DEF ReadingOK
<1>2. u \in Units /\ u.kind # "frame"
  BY UnitThere DEF Core!ReadPacket
<1>3. /\ ~SteppedOver(u) /\ ~BodyRefused(ctx, u) /\ ctx' = PacketRead(ctx, u)
      /\ log' = log \o PacketEvent(u) \o PendingAfter(ctx, u)
  BY SamePackets DEF Core!ReadPacket
<1> HIDE DEF u
<1>4. u.kind \in {"main", "stream", "syncpoint", "info"}
  BY <1>2, <1>3, PacketKinds
<1>5. ASSUME NEW e, PacketEvent(u) = <<e>>
      PROVE  log' = Append(log, e) \o PendingAfter(ctx, u) /\ IsRow(Append(log, e))
  BY <1>1, <1>3, <1>5, RowJoin, RowAppend
<1>6. CASE u.kind = "main"
  <2> DEFINE e == [kind |-> "MainHeader", count |-> u.count]
  <2>1. PacketEvent(u) = <<e>> /\ PendingAfter(ctx, u) = <<>>
    BY <1>6 DEF PacketEvent, PendingAfter
  <2>2. e.kind = "MainHeader" /\ e.count = u.count
    OBVIOUS
  <2> HIDE DEF e
  <2>3. log' = Append(log, e)
    BY <1>5, <2>1, RowJoin
  <2>4. TellsMain(e)
    BY <1>1, <1>2, <1>3, <1>6, <2>2, <2>3, PacketSaysHeaders DEF TellsMain
  <2>5. QED
    BY <2>4
<1>7. CASE u.kind = "stream"
  <2> DEFINE e == [kind |-> "StreamHeader", stream |-> u.stream]
  <2>1. PacketEvent(u) = <<e>> /\ PendingAfter(ctx, u) = <<>>
    BY <1>7 DEF PacketEvent, PendingAfter
  <2>2. e.kind = "StreamHeader" /\ e.stream = u.stream
    OBVIOUS
  <2> HIDE DEF e
  <2>3. log' = Append(log, e)
    BY <1>5, <2>1, RowJoin
  <2>4. TellsStream(e)
    BY <1>1, <1>2, <1>3, <1>7, <2>2, <2>3, PacketSaysHeaders DEF TellsStream
  <2>5. QED
    BY <2>4
<1>8. CASE u.kind = "info"
  <2>1. SameHeadersRead(ctx, ctx') /\ PendingAfter(ctx, u) = <<>>
    BY <1>1, <1>2, <1>3, <1>8, PacketSaysHeaders DEF PendingAfter
  <2>2. log' = log \/ \E e : log' = Append(log, e) /\ e.kind = "Info"
    <3>1. CASE u.readable
      <4>1. PICK e : PacketEvent(u) = <<e>> /\ e.kind = "Info"
        BY <1>8, <3>1 DEF PacketEvent
      <4>2. QED
        BY <1>5, <2>1, <4>1, RowJoin
    <3>2. CASE ~u.readable
      <4>1. PacketEvent(u) = <<>>
        BY <1>8, <3>2 DEF PacketEvent
      <4>2. QED
        BY <1>1, <1>3, <2>1, <4>1, RowJoin
    <3>3. QED
      BY <3>1, <3>2
  <2>3. QED
    BY <1>1, <2>1, <2>2, TellsOther
<1>9. CASE u.kind = "syncpoint"
  <2>1. SameHeadersRead(ctx, ctx')
    BY <1>1, <1>2, <1>3, <1>9, PacketSaysHeaders
  <2>2. PICK e : PacketEvent(u) = <<e>> /\ e.kind = "Syncpoint"
    BY <1>9 DEF PacketEvent
  <2>3. CASE PendingAfter(ctx, u) = <<>>
    <3>1. log' = Append(log, e)
      BY <1>5, <2>2, <2>3, RowJoin
    <3>2. QED
      BY <1>1, <2>1, <2>2, <3>1, TellsOther
  <2>4. CASE PendingAfter(ctx, u) # <<>>
    <3>1. PendingAfter(ctx, u) = <<EndOfHeaders>> /\ HeadersComplete(ReadSyncpoint(ctx, u))
      BY <1>9, <2>4 DEF PendingAfter, HeadersDue
    <3>2. HeadersComplete(ctx)
      BY <1>1, <3>1, SyncpointSameRead DEF SameHeadersRead, HeadersComplete
    <3> DEFINE l == Append(log, e)
    <3>3. IsRow(l) /\ log' = Append(l, EndOfHeaders)
      BY <1>5, <2>2, <3>1, RowJoin
    <3>4. Len(log) \in Nat /\ Len(l) = Len(log) + 1 /\ l[Len(log) + 1] = e
      BY <1>1, Appended
    <3> HIDE DEF l
    <3>5. /\ Len(log') = Len(l) + 1 /\ log'[Len(l) + 1] = EndOfHeaders
          /\ \A i \in 1 .. Len(l) : log'[i] = l[i]
      BY <3>3, Appended
    <3>6. EndOfHeaders.kind = "EndOfHeaders"
      BY DEF EndOfHeaders
    <3>7. \A j \in Len(log) + 1 .. Len(log') : log'[j] = e \/ log'[j] = EndOfHeaders
      BY <3>4, <3>5
    <3>8. QED
      BY <2>1, <2>2, <3>2, <3>6, <3>7 DEF TellsNoHeader
  <2>5. QED
    BY <2>3, <2>4
<1>10. QED
  BY <1>4, <1>6, <1>7, <1>8, <1>9

LEMMA StepTellsHeaders ==
  ASSUME ReadingOK, Core!Next
  PROVE  TellsNoHeader \/ \E e : TellsMain(e) \/ TellsStream(e)
<1>1. IsRow(log) /\ ContextOK(ctx) /\ MainFirst(ctx) /\ HandOK
  BY DEF ReadingOK
<1>2. SameHeadersRead(ctx, ctx) /\ SameHeadersRead(ctx, HeadersClosed(ctx))
  BY <1>1, ClosedSameRead DEF SameHeadersRead
<1>3. EndOfHeaders.kind = "EndOfHeaders" /\ EndOfInput.kind = "EndOfInput"
  BY DEF EndOfHeaders, EndOfInput
<1>4. CASE Core!ReadPacket
  BY <1>4, PacketTellsHeaders
<1>5. CASE Core!Open \/ Core!BeginSkip \/ Core!Truncate \/ Core!GiveUp
  <2>1. UNCHANGED <<ctx, log>>
    BY <1>5 DEF Core!Open, Core!BeginSkip, Core!Truncate, Core!GiveUp
  <2>2. QED
    BY <1>1, <1>2, <2>1, TellsOther
<1>6. CASE Core!Refuse \/ Core!Panic
  <2> DEFINE u == Core!Unit
  <2>1. log' = log /\ (ctx' = ctx \/ ctx' = Core!BodyRefusedLeaves(ctx, u))
    BY <1>6 DEF Core!Refuse, Core!RefuseInput, Core!RefusePacket, Core!RefuseFrame, Core!Panic
  <2> HIDE DEF u
  <2>2. SameHeadersRead(ctx, ctx')
    BY <1>1, <1>2, <2>1, SamePackets, RefusedSameRead
  <2>3. QED
    BY <1>1, <2>1, <2>2, TellsOther
<1>7. CASE Core!BeginFrame
  <2> DEFINE u == Core!Unit
  <2>1. log' = log /\ ctx' = Core!FrameRead(ctx, u)
    BY <1>7 DEF Core!BeginFrame
  <2> HIDE DEF u
  <2>2. Core!FrameRead(ctx, u) = FrameRead(ctx, u)
    BY SameFrames
  <2>3. QED
    BY <1>1, <2>1, <2>2, FrameSameRead, TellsOther
<1>8. CASE Core!CloseHeaders \/ Core!EndInput
  <2>1. /\ ctx' = HeadersClosed(ctx)
        /\ \/ log' = Append(log, EndOfHeaders) /\ HeadersDue(ctx)
           \/ log' = Append(log, EndOfInput)
    BY <1>8, SameHeaders DEF Core!CloseHeaders, Core!EndInput
  <2>2. QED
    BY <1>1, <1>2, <1>3, <2>1, TellsOther DEF HeadersDue
<1>9. CASE Core!LastWord
  <2>1. ctx' = ctx /\ log' = Append(log, EndOfInput)
    BY <1>9, SameHeaders DEF Core!LastWord
  <2>2. QED
    BY <1>1, <1>2, <1>3, <2>1, TellsOther
<1>10. CASE Core!EndUnit
  <2>1. hand # <<>> /\ ctx' = ctx /\ log' = IF hand[1] = Core!Skipped THEN log ELSE log \o hand
    BY <1>10 DEF Core!EndUnit
  <2>2. log' = log \/ \E e : log' = Append(log, e) /\ e.kind = "Frame"
    <3>1. CASE hand[1] = Core!Skipped
      BY <2>1, <3>1
    <3>2. CASE hand[1] # Core!Skipped
      <4> DEFINE e == hand[1]
      <4>1. hand = <<e>> /\ e.kind = "Frame"
        BY <1>1, <2>1, <3>2 DEF HandOK, EventInHand
      <4> HIDE DEF e
      <4>2. log' = Append(log, e)
        BY <1>1, <2>1, <3>2, <4>1, RowJoin
      <4>3. QED
        BY <4>1, <4>2
    <3>3. QED
      BY <3>1, <3>2
  <2>3. QED
    BY <1>1, <1>2, <2>1, <2>2, TellsOther
<1>11. ~\E index \in 1 .. MaxStreams, limit \in {} : Core!SetStreamLimit(index, limit)
  OBVIOUS
<1>12. QED
  BY <1>4, <1>5, <1>6, <1>7, <1>8, <1>9, <1>10, <1>11 DEF Core!Next


HeadersTold ==
  /\ HasMain(ctx) => \E m \in 1 .. Len(log) :
       log[m].kind = "MainHeader" /\ Declared(ctx) = 1 .. log[m].count
  /\ 1 \in Known(ctx) => \E m \in 1 .. Len(log) :
       log[m].kind = "StreamHeader" /\ log[m].stream = 1
  /\ \A j \in 1 .. Len(log) :
       /\ log[j].kind = "MainHeader" => log[j].count \in Nat \ {0}
       /\ log[j].kind = "StreamHeader" => \E m \in 1 .. j - 1 :
            log[m].kind = "MainHeader" /\ log[j].stream \in 1 .. log[m].count
       /\ log[j].kind = "EndOfHeaders" => \E m \in 1 .. j - 1 :
            log[m].kind = "StreamHeader" /\ log[m].stream = 1

LEMMA InitHeadersTold == Init => HeadersTold
<1> SUFFICES ASSUME Init PROVE HeadersTold
  OBVIOUS
<1>1. log = <<>> /\ Len(log) = 0 /\ ctx = NewContext
  BY SameHeaders DEF Init, Core!Init
<1>2. ~HasMain(ctx) /\ Known(ctx) = {}
  BY <1>1 DEF HasMain, Known, Declared, NewContext
<1>3. QED
  BY <1>1, <1>2 DEF HeadersTold

LEMMA NextHeadersTold ==
  ASSUME ReadingOK, HeadersTold, Core!Next
  PROVE  HeadersTold'
<1>1. IsRow(log) /\ Len(log) \in Nat /\ ContextOK(ctx) /\ MainFirst(ctx)
  BY DEF ReadingOK, IsRow
<1>2. /\ Len(log') \in Nat /\ Len(log) <= Len(log')
      /\ \A j \in 1 .. Len(log) : log'[j] = log[j]
  BY ReadingSteps DEF StepOK, Stepped, Tells, IsRow
<1> DEFINE Main(l, m, d)   == l[m].kind = "MainHeader" /\ d = 1 .. l[m].count
           First(l, m)     == l[m].kind = "StreamHeader" /\ l[m].stream = 1
           Has(l, j)       == \E m \in 1 .. j - 1 :
                                l[m].kind = "MainHeader" /\ l[j].stream \in 1 .. l[m].count
           HasFirst(l, j)  == \E m \in 1 .. j - 1 : First(l, m)
           Told_(l, j)     == /\ l[j].kind = "MainHeader" => l[j].count \in Nat \ {0}
                              /\ l[j].kind = "StreamHeader" => Has(l, j)
                              /\ l[j].kind = "EndOfHeaders" => HasFirst(l, j)
<1>3. /\ HasMain(ctx) => \E m \in 1 .. Len(log) : Main(log, m, Declared(ctx))
      /\ 1 \in Known(ctx) => \E m \in 1 .. Len(log) : First(log, m)
      /\ \A j \in 1 .. Len(log) : Told_(log, j)
  BY DEF HeadersTold
<1>4. ASSUME HasMain(ctx') => \E m \in 1 .. Len(log') : Main(log', m, Declared(ctx')),
             1 \in Known(ctx') => \E m \in 1 .. Len(log') : First(log', m),
             \A j \in Len(log) + 1 .. Len(log') : Told_(log', j)
      PROVE  HeadersTold'
  <2>1. ASSUME NEW j \in 1 .. Len(log) PROVE Told_(log', j)
    <3>1. log'[j] = log[j] /\ \A m \in 1 .. j - 1 : log'[m] = log[m]
      BY <1>1, <1>2
    <3>2. Has(log, j) => Has(log', j)
      BY <3>1
    <3>3. HasFirst(log, j) => HasFirst(log', j)
      BY <3>1
    <3>4. Told_(log, j)
      BY <1>3
    <3> HIDE DEF Has, HasFirst
    <3>5. QED
      BY <3>1, <3>2, <3>3, <3>4
  <2>2. \A j \in 1 .. Len(log') : j \in 1 .. Len(log) \/ j \in Len(log) + 1 .. Len(log')
    BY <1>1, <1>2
  <2>3. \A j \in 1 .. Len(log') : Told_(log', j)
    BY <1>4, <2>1, <2>2
  <2>4. QED
    BY <1>4, <2>3 DEF HeadersTold
<1>5. \A m \in 1 .. Len(log) : m \in 1 .. Len(log') /\ log'[m] = log[m]
  BY <1>1, <1>2
<1>6. CASE TellsNoHeader
  <2>1. /\ HasMain(ctx') <=> HasMain(ctx)
        /\ Declared(ctx') = Declared(ctx) /\ Known(ctx') = Known(ctx)
    BY <1>6 DEF TellsNoHeader, SameHeadersRead
  <2>2. HasMain(ctx') => \E m \in 1 .. Len(log') : Main(log', m, Declared(ctx'))
    BY <1>3, <1>5, <2>1
  <2>3. 1 \in Known(ctx') => \E m \in 1 .. Len(log') : First(log', m)
    BY <1>3, <1>5, <2>1
  <2>4. ASSUME NEW j \in Len(log) + 1 .. Len(log') PROVE Told_(log', j)
    <3>1. /\ log'[j].kind \notin {"MainHeader", "StreamHeader"}
          /\ log'[j].kind = "EndOfHeaders" => HeadersComplete(ctx)
      BY <1>6 DEF TellsNoHeader
    <3>2. ASSUME log'[j].kind = "EndOfHeaders" PROVE HasFirst(log', j)
      <4>1. 1 \in Known(ctx)
        BY <1>1, <3>1, <3>2 DEF HeadersComplete, MainFirst
      <4>2. PICK m \in 1 .. Len(log) : First(log, m)
        BY <1>3, <4>1
      <4>3. m \in 1 .. j - 1 /\ First(log', m)
        BY <1>1, <1>2, <1>5, <4>2
      <4>4. QED
        BY <4>3
    <3>3. QED
      BY <3>1, <3>2
  <2> HIDE DEF Main, First, Told_
  <2>5. QED
    BY <1>4, <2>2, <2>3, <2>4
<1>7. ASSUME NEW e, log' = Append(log, e)
      PROVE  /\ Len(log') = Len(log) + 1 /\ Len(log') \in 1 .. Len(log')
             /\ log'[Len(log')] = e
             /\ \A j \in Len(log) + 1 .. Len(log') : j = Len(log')
             /\ 1 .. Len(log') - 1 = 1 .. Len(log)
  <2>1. Len(log') = Len(log) + 1 /\ log'[Len(log) + 1] = e
    BY <1>1, <1>7, Appended
  <2>2. QED
    BY <1>1, <2>1
<1>8. ASSUME NEW e, TellsMain(e) PROVE HeadersTold'
  <2>1. /\ e.kind = "MainHeader" /\ e.count \in Nat \ {0}
        /\ Declared(ctx') = 1 .. e.count /\ Known(ctx') \subseteq Known(ctx)
        /\ Len(log') \in 1 .. Len(log') /\ log'[Len(log')] = e
        /\ \A j \in Len(log) + 1 .. Len(log') : j = Len(log')
    BY <1>7, <1>8 DEF TellsMain
  <2>2. \E m \in 1 .. Len(log') : Main(log', m, Declared(ctx'))
    BY <2>1
  <2>3. 1 \in Known(ctx') => \E m \in 1 .. Len(log') : First(log', m)
    BY <1>3, <1>5, <2>1
  <2>4. Told_(log', Len(log'))
    BY <2>1
  <2> HIDE DEF Main, First, Told_
  <2>5. QED
    BY <1>4, <2>1, <2>2, <2>3, <2>4
<1>9. ASSUME NEW e, TellsStream(e) PROVE HeadersTold'
  <2>1. /\ e.kind = "StreamHeader" /\ HasMain(ctx) /\ e.stream \in Declared(ctx)
        /\ Declared(ctx') = Declared(ctx) /\ Known(ctx') \subseteq Known(ctx) \cup {e.stream}
        /\ Len(log') \in 1 .. Len(log') /\ log'[Len(log')] = e
        /\ \A j \in Len(log) + 1 .. Len(log') : j = Len(log')
        /\ 1 .. Len(log') - 1 = 1 .. Len(log)
    BY <1>7, <1>9 DEF TellsStream
  <2>2. PICK m \in 1 .. Len(log) : Main(log, m, Declared(ctx))
    BY <1>3, <2>1
  <2>3. \E k \in 1 .. Len(log') : Main(log', k, Declared(ctx'))
    BY <1>5, <2>1, <2>2
  <2>4. 1 \in Known(ctx') => \E k \in 1 .. Len(log') : First(log', k)
    <3>1. CASE e.stream = 1
      BY <2>1, <3>1
    <3>2. CASE e.stream # 1
      BY <1>3, <1>5, <2>1, <3>2
    <3>3. QED
      BY <3>1, <3>2
  <2>5. Told_(log', Len(log'))
    <3>1. Main(log', m, Declared(ctx))
      BY <1>5, <2>2
    <3>2. QED
      BY <2>1, <3>1
  <2> HIDE DEF Main, First, Told_
  <2>6. QED
    BY <1>4, <2>1, <2>3, <2>4, <2>5
<1>10. QED
  BY <1>6, <1>8, <1>9, StepTellsHeaders


-----------------------------------------------------------------------------
(* What opening makes of it: how many streams the one main header declared,*)
(* and which of them have had their header.                                *)

HeadersOf(i) == {j \in Told("StreamHeader") : log[j].stream = i}

HeadersStand ==
  /\ opening.declared = 0 => Told("MainHeader") = {}
  /\ opening.declared # 0 => \E m \in 1 .. handled :
       /\ Told("MainHeader") = {m}
       /\ log[m].count = opening.declared
       /\ opening.declared <= IF asked THEN 2 ELSE 1
  /\ opening.media = <<>> => HeadersOf(1) = {}
  /\ opening.media # <<>> => \E j \in 1 .. handled : HeadersOf(1) = {j}
  /\ opening.annotations <=> HeadersOf(2) # {}
  /\ HeadersOf(2) # {} => asked
  /\ \A p \in UnitsBehind("stream", 1) : MediaFits(says[p])
  /\ \A p \in UnitsBehind("stream", 2) : IsAnnotations(says[p])

OpeningOK ==
  /\ opened = "no" /\ call = "none" => handled = 0
  /\ stream # <<>> => opening.media # <<>> /\ stream[1].annotations = opening.annotations
  /\ Whole => HeadersStand

LEMMA HeadersLookedAt ==
  ASSUME ReadingOK, FieldsOK, LastSaid, NEW method, NEW kind, Looks(method, kind),
         UNCHANGED <<wire, place, hand, log>>, NEW of
  PROVE  /\ IF kind = "StreamHeader" /\ Event.stream = of
            THEN /\ UnitsBehind("stream", of)' = UnitsBehind("stream", of) \cup {Just}
                 /\ HeadersOf(of)' = HeadersOf(of) \cup {handled + 1}
            ELSE /\ UnitsBehind("stream", of)' = UnitsBehind("stream", of)
                 /\ HeadersOf(of)' = HeadersOf(of)
         /\ Told("MainHeader")' = IF kind = "MainHeader" THEN Told("MainHeader") \cup {handled + 1}
                                                         ELSE Told("MainHeader")
<1>1. /\ handled \in Nat /\ handled <= Len(log) /\ Len(log) \in Nat
  BY DEF FieldsOK, ReadingOK, IsRow
<1>2. /\ Event.kind = kind
      /\ handled' = IF handled < Len(log) THEN handled + 1 ELSE handled
      /\ kind # "EndOfInput" =>
           handled < Len(log) /\ handled' = handled + 1 /\ Event = log[handled + 1]
      /\ handled < Len(log) => Event = log[handled + 1]
  BY LooksAt DEF Looks, Event
<1>3. /\ UnitsBehind("stream", of) = {p \in Behind : wire.unit[p].kind = "stream"
                                                       /\ wire.unit[p].stream = of}
      /\ UnitsBehind("stream", of)' = {p \in Behind' : wire.unit[p].kind = "stream"
                                                         /\ wire.unit[p].stream = of}
  BY DEF UnitsBehind
<1>4. /\ HeadersOf(of) = {j \in 1 .. handled : log[j].kind = "StreamHeader" /\ log[j].stream = of}
      /\ HeadersOf(of)' = {j \in 1 .. handled' : log[j].kind = "StreamHeader" /\ log[j].stream = of}
      /\ Told("MainHeader") = {j \in 1 .. handled : log[j].kind = "MainHeader"}
      /\ Told("MainHeader")' = {j \in 1 .. handled' : log[j].kind = "MainHeader"}
  BY DEF HeadersOf, Told
<1>5. \/ handled' = handled /\ kind = "EndOfInput"
      \/ 1 .. handled' = (1 .. handled) \cup {handled + 1} /\ Event = log[handled + 1]
  BY <1>1, <1>2
<1>6. Told("MainHeader")' = IF kind = "MainHeader" THEN Told("MainHeader") \cup {handled + 1}
                                                   ELSE Told("MainHeader")
  <2>1. CASE handled' = handled /\ kind = "EndOfInput"
    BY <1>4, <2>1
  <2>2. CASE 1 .. handled' = (1 .. handled) \cup {handled + 1} /\ Event = log[handled + 1]
    BY <1>2, <1>4, <2>2
  <2>3. QED
    BY <1>5, <2>1, <2>2
<1>7. HeadersOf(of)' = IF kind = "StreamHeader" /\ Event.stream = of
                         THEN HeadersOf(of) \cup {handled + 1} ELSE HeadersOf(of)
  BY <1>2, <1>4, <1>5
<1>8. CASE kind \in OfNoUnit
  <2>1. Behind' = Behind /\ kind # "StreamHeader"
    BY <1>8, BehindThen DEF OfNoUnit
  <2>2. QED
    BY <1>3, <1>6, <1>7, <2>1
<1>9. CASE kind \notin OfNoUnit
  <2>1. Behind' = Behind \cup {Just} /\ Makes(wire.unit[Just], Event)
    BY <1>9, BehindThen
  <2>2. wire.unit[Just].kind = "stream" /\ wire.unit[Just].stream = of
          <=> kind = "StreamHeader" /\ Event.stream = of
    BY <1>2, <2>1 DEF Makes, Speaks
  <2>3. UnitsBehind("stream", of)' =
          IF kind = "StreamHeader" /\ Event.stream = of
            THEN UnitsBehind("stream", of) \cup {Just} ELSE UnitsBehind("stream", of)
    BY <1>3, <2>1, <2>2
  <2>4. QED
    BY <1>6, <1>7, <2>3
<1>10. QED
  BY <1>8, <1>9

LEMMA HeadersReadOn ==
  ASSUME DInv, Pump, NEW of
  PROVE  /\ UnitsBehind("stream", of)' = UnitsBehind("stream", of)
         /\ HeadersOf(of)' = HeadersOf(of)
         /\ Told("MainHeader")' = Told("MainHeader")
         /\ \A j \in Told("MainHeader") : log'[j] = log[j]
<1>1. PICK kinds : Stepped(kinds)
  BY ReadingSteps DEF DInv, Pump, StepOK
<1>2. /\ handled = Len(log) /\ handled' = handled /\ Len(log) \in Nat
      /\ UNCHANGED wire /\ SpokenKept
      /\ \A j \in 1 .. Len(log) : log'[j] = log[j]
  BY <1>1 DEF Stepped, Tells, Pump, demuxer, calls, DInv, ReadingOK, IsRow
<1>3. Ahead <=> hand # <<>>
  BY <1>2 DEF Ahead
<1>4. Ahead' <=> Awaits
  BY <1>2 DEF Ahead, Awaits
<1> DEFINE IsHeader(p) == wire.unit[p].kind = "stream" /\ wire.unit[p].stream = of
<1>5. /\ UnitsBehind("stream", of) =
           {p \in Started : (Ahead => \E q \in Started : p < q) /\ IsHeader(p)}
      /\ UnitsBehind("stream", of)' =
           {p \in Started' : (Ahead' => \E q \in Started' : p < q) /\ IsHeader(p)}
  BY <1>2 DEF UnitsBehind, Behind
<1>6. \A p : IsHeader(p) => Speaks(wire.unit[p])
  BY DEF Speaks
<1> HIDE DEF IsHeader
<1>7. UnitsBehind("stream", of)' = UnitsBehind("stream", of)
  BY <1>2, <1>3, <1>4, <1>5, <1>6 DEF SpokenKept
<1>8. HeadersOf(of)' = HeadersOf(of) /\ Told("MainHeader")' = Told("MainHeader")
  BY <1>2 DEF HeadersOf, Told
<1>9. QED
  BY <1>2, <1>7, <1>8 DEF Told

(* What stands while nothing is told of headers.                           *)
LEMMA HeadersSame ==
  ASSUME HeadersStand, UNCHANGED <<says, asked, opening>>,
         handled <= handled', handled \in Nat, handled' \in Nat,
         \A of : /\ UnitsBehind("stream", of)' = UnitsBehind("stream", of)
                 /\ HeadersOf(of)' = HeadersOf(of),
         Told("MainHeader")' = Told("MainHeader"),
         \A j \in Told("MainHeader") : log'[j] = log[j]
  PROVE  HeadersStand'
<1>1. 1 .. handled \subseteq 1 .. handled'
  OBVIOUS
<1>2. opening.declared # 0 => \E m \in 1 .. handled' :
       /\ Told("MainHeader")' = {m}
       /\ log'[m].count = opening.declared
       /\ opening.declared <= IF asked THEN 2 ELSE 1
  BY <1>1 DEF HeadersStand
<1>3. opening.media # <<>> => \E j \in 1 .. handled' : HeadersOf(1) = {j}
  BY <1>1 DEF HeadersStand
<1>4. QED
  BY <1>2, <1>3 DEF HeadersStand

LEMMA OpenMainHeaders ==
  ASSUME DInv, LastSaid, HeadersTold, HeadersStand, OpenMain, opened' # "failed"
  PROVE  HeadersStand'
<1>1. /\ Looks("open", "MainHeader") /\ opened = "no"
      /\ UNCHANGED <<wire, place, hand, log, says, asked>>
      /\ opening.declared = 0 /\ CountFits(Event.count)
      /\ opening' = [opening EXCEPT !.declared = Event.count]
  BY DEF OpenMain, Looks, Fails, DInv, CallOK, core
<1>2. ReadingOK /\ FieldsOK
  BY DEF DInv
<1>3. /\ handled < Len(log) /\ handled' = handled + 1 /\ Event = log[handled + 1]
      /\ Event.kind = "MainHeader" /\ handled \in Nat /\ Len(log) \in Nat
  BY <1>1, <1>2, LooksAt DEF FieldsOK, ReadingOK, IsRow
<1>4. /\ \A of : /\ UnitsBehind("stream", of)' = UnitsBehind("stream", of)
                 /\ HeadersOf(of)' = HeadersOf(of)
      /\ Told("MainHeader")' = {handled + 1}
  <2>1. Told("MainHeader") = {}
    BY <1>1 DEF HeadersStand
  <2>2. QED
    BY <1>1, <1>2, <2>1, HeadersLookedAt
<1>5. /\ opening'.declared = Event.count /\ opening'.media = opening.media
      /\ opening'.annotations = opening.annotations
  BY <1>1, <1>2 DEF FieldsOK
<1>6. Event.count \in Nat \ {0} /\ Event.count <= IF asked THEN 2 ELSE 1
  BY <1>1, <1>3 DEF HeadersTold, CountFits
<1>7. handled + 1 \in 1 .. handled' /\ 1 .. handled \subseteq 1 .. handled'
  BY <1>3
<1>8. opening'.media # <<>> => \E j \in 1 .. handled' : HeadersOf(1)' = {j}
  BY <1>4, <1>5, <1>7 DEF HeadersStand
<1>9. opening'.declared # 0 /\ \E m \in 1 .. handled' :
       /\ Told("MainHeader")' = {m}
       /\ log'[m].count = opening'.declared
       /\ opening'.declared <= IF asked THEN 2 ELSE 1
  BY <1>1, <1>3, <1>4, <1>5, <1>6, <1>7
<1>10. QED
  BY <1>1, <1>4, <1>5, <1>8, <1>9 DEF HeadersStand

LEMMA OpenStreamHeaders ==
  ASSUME DInv, LastSaid, HeadersTold, HeadersStand, OpenStream, opened' # "failed"
  PROVE  HeadersStand'
<1>1. /\ Looks("open", "StreamHeader") /\ opened = "no"
      /\ UNCHANGED <<wire, place, hand, log, says, asked>>
      /\ StreamFits
      /\ opening' = IF Event.stream = 1
                      THEN [opening EXCEPT !.headers = @ + 1, !.media = <<Said>>]
                      ELSE [opening EXCEPT !.headers = @ + 1, !.annotations = TRUE]
  BY DEF OpenStream, Looks, Fails, DInv, CallOK, core
<1>2. ReadingOK /\ FieldsOK
  BY DEF DInv
<1>3. /\ handled < Len(log) /\ handled' = handled + 1 /\ Event = log[handled + 1]
      /\ Event.kind = "StreamHeader" /\ handled \in Nat /\ Len(log) \in Nat
  BY <1>1, <1>2, LooksAt DEF FieldsOK, ReadingOK, IsRow
<1>4. PICK m \in 1 .. handled :
        log[m].kind = "MainHeader" /\ Event.stream \in 1 .. log[m].count
  <2>1. handled + 1 \in 1 .. Len(log) /\ handled + 1 - 1 = handled
    BY <1>3
  <2>2. QED
    BY <1>3, <2>1 DEF HeadersTold
<1>5. /\ opening.declared = log[m].count /\ Told("MainHeader") = {m}
      /\ opening.declared <= IF asked THEN 2 ELSE 1
  <2>1. m \in Told("MainHeader")
    BY <1>4 DEF Told
  <2>2. QED
    BY <2>1 DEF HeadersStand
<1>6. /\ log[m].count \in Nat
      /\ Event.stream = 1 \/ (Event.stream = 2 /\ asked)
  <2>1. m \in 1 .. Len(log)
    BY <1>3, <1>4
  <2>2. log[m].count \in Nat
    BY <1>4, <2>1 DEF HeadersTold
  <2>3. QED
    BY <1>4, <1>5, <2>2
<1>7. /\ Told("MainHeader")' = Told("MainHeader")
      /\ \A of : IF Event.stream = of
                 THEN /\ UnitsBehind("stream", of)' = UnitsBehind("stream", of) \cup {Just}
                      /\ HeadersOf(of)' = HeadersOf(of) \cup {handled + 1}
                 ELSE /\ UnitsBehind("stream", of)' = UnitsBehind("stream", of)
                      /\ HeadersOf(of)' = HeadersOf(of)
  BY <1>1, <1>2, HeadersLookedAt
<1>8. opening'.declared = opening.declared
  BY <1>1, <1>2 DEF FieldsOK
<1>9. /\ handled + 1 \in 1 .. handled' /\ 1 .. handled \subseteq 1 .. handled'
      /\ m \in 1 .. handled'
  BY <1>3, <1>4
<1>10. /\ opening'.declared # 0
       /\ \E k \in 1 .. handled' :
            /\ Told("MainHeader")' = {k}
            /\ log'[k].count = opening'.declared
            /\ opening'.declared <= IF asked THEN 2 ELSE 1
  BY <1>1, <1>4, <1>5, <1>6, <1>7, <1>8, <1>9
<1>11. CASE Event.stream = 1
  <2>1. /\ opening.media = <<>> /\ MediaFits(Said)
        /\ opening'.media # <<>> /\ opening'.annotations = opening.annotations
    BY <1>1, <1>2, <1>11 DEF StreamFits, FieldsOK
  <2>2. /\ HeadersOf(1)' = {handled + 1} /\ HeadersOf(2)' = HeadersOf(2)
        /\ UnitsBehind("stream", 1)' = UnitsBehind("stream", 1) \cup {Just}
        /\ UnitsBehind("stream", 2)' = UnitsBehind("stream", 2)
    BY <1>7, <1>11, <2>1 DEF HeadersStand
  <2>3. \A p \in UnitsBehind("stream", 1)' : MediaFits(says[p])
    BY <2>1, <2>2 DEF HeadersStand, Said
  <2>4. \E j \in 1 .. handled' : HeadersOf(1)' = {j}
    BY <1>9, <2>2
  <2>5. QED
    BY <1>1, <1>10, <2>1, <2>2, <2>3, <2>4 DEF HeadersStand
<1>12. CASE Event.stream # 1
  <2>1. /\ Event.stream = 2 /\ asked /\ IsAnnotations(Said)
        /\ opening'.media = opening.media /\ opening'.annotations = TRUE
    BY <1>1, <1>2, <1>6, <1>12 DEF StreamFits, FieldsOK
  <2>2. /\ HeadersOf(1)' = HeadersOf(1) /\ HeadersOf(2)' # {}
        /\ UnitsBehind("stream", 2)' = UnitsBehind("stream", 2) \cup {Just}
        /\ UnitsBehind("stream", 1)' = UnitsBehind("stream", 1)
    BY <1>7, <2>1
  <2>3. \A p \in UnitsBehind("stream", 2)' : IsAnnotations(says[p])
    BY <2>1, <2>2 DEF HeadersStand, Said
  <2>4. opening'.media # <<>> => \E j \in 1 .. handled' : HeadersOf(1)' = {j}
    BY <1>9, <2>1, <2>2 DEF HeadersStand
  <2>5. QED
    BY <1>1, <1>10, <2>1, <2>2, <2>3, <2>4 DEF HeadersStand
<1>13. QED
  BY <1>11, <1>12

LEMMA InitOpeningOK == Init => OpeningOK
<1> SUFFICES ASSUME Init PROVE OpeningOK
  OBVIOUS
<1>1. /\ place = 0 /\ handled = 0 /\ log = <<>> /\ stream = <<>>
      /\ opening = [declared |-> 0, headers |-> 0, media |-> <<>>, annotations |-> FALSE]
  BY DEF Init, Core!Init, DemuxerInit
<1>2. Started = {}
  BY <1>1, InitReadingOK DEF ReadingOK, IsWire, Started
<1>3. \A of : UnitsBehind("stream", of) = {}
  BY <1>2 DEF UnitsBehind, Behind
<1>4. \A kind : Told(kind) = {}
  BY <1>1 DEF Told
<1>5. \A of : HeadersOf(of) = {}
  BY <1>4 DEF HeadersOf
<1>6. /\ opening.declared = 0 /\ opening.media = <<>> /\ ~opening.annotations
  BY <1>1
<1>7. HeadersStand
  BY <1>3, <1>4, <1>5, <1>6 DEF HeadersStand
<1>8. QED
  BY <1>1, <1>7 DEF OpeningOK

LEMMA NextHeadersStand ==
  ASSUME DInv, LastSaid, HeadersTold, OpeningOK, [Next]_vars, Whole'
  PROVE  HeadersStand'
<1>1. /\ HeadersStand /\ ReadingOK /\ FieldsOK /\ handled \in Nat /\ opened' # "failed"
      /\ answer' # "refused"
  BY WholeBefore DEF OpeningOK, DInv, FieldsOK, Whole
<1>2. CASE Pump
  <2>1. UNCHANGED <<says, asked, opening, handled>>
    BY <1>2 DEF Pump, demuxer, calls
  <2>2. QED
    BY <1>1, <1>2, <2>1, HeadersReadOn, HeadersSame
<1>3. CASE ~Pump
  <2>1. UNCHANGED <<wire, place, hand, log, says>>
    BY <1>3, ReadingLeftAlone
  <2>2. ASSUME UNCHANGED <<asked, opening, handled>> PROVE HeadersStand'
    <3>1. /\ \A of : /\ UnitsBehind("stream", of)' = UnitsBehind("stream", of)
                     /\ HeadersOf(of)' = HeadersOf(of)
          /\ Told("MainHeader")' = Told("MainHeader")
      BY <2>1, <2>2 DEF UnitsBehind, Behind, Ahead, Started, HeadersOf, Told
    <3>2. QED
      BY <1>1, <2>1, <2>2, <3>1, HeadersSame
  <2>3. ASSUME NEW method, NEW kind, Looks(method, kind),
               kind \notin {"MainHeader", "StreamHeader"}, UNCHANGED <<asked, opening>>
        PROVE  HeadersStand'
    <3>1. /\ \A of : /\ UnitsBehind("stream", of)' = UnitsBehind("stream", of)
                     /\ HeadersOf(of)' = HeadersOf(of)
          /\ Told("MainHeader")' = Told("MainHeader")
      BY <1>1, <2>1, <2>3, HeadersLookedAt
    <3>2. handled <= handled' /\ handled' \in Nat
      BY <1>1, <2>3, LooksAt
    <3>3. QED
      BY <1>1, <2>1, <2>3, <3>1, <3>2, HeadersSame
  <2>4. CASE UNCHANGED vars \/ CoreFails \/ SourceFails
    <3>1. UNCHANGED <<asked, opening, handled>>
      BY <2>4 DEF vars, demuxer, calls, CoreFails, SourceFails
    <3>2. QED
      BY <2>2, <3>1
  <2>5. CASE OpenMain
    BY <1>1, <2>5, OpenMainHeaders
  <2>6. CASE OpenStream
    BY <1>1, <2>6, OpenStreamHeaders
  <2>7. CASE OpenIgnores \/ OpenEndsEarly \/ OpenEnds
    <3>1. PICK method, kind : Looks(method, kind) /\ kind \notin {"MainHeader", "StreamHeader"}
      BY <2>7 DEF OpenIgnores, OpenEndsEarly, OpenEnds
    <3>2. UNCHANGED <<asked, opening>>
      BY <2>7 DEF OpenIgnores, OpenEndsEarly, OpenEnds
    <3>3. QED
      BY <2>3, <3>1, <3>2
  <2>8. CASE ReadRestated
    <3>1. call \in {"first", "read"}
      BY <2>8 DEF ReadRestated, Reads, Looks
    <3>2. QED
      BY <1>1, <2>8, <3>1 DEF ReadRestated, Fails
  <2>9. CASE ReadIgnores \/ ReadEnds \/ FirstPacket \/ NextPacket \/ RefuseAnnotation
             \/ ReadAnnotation
    <3>1. PICK method, kind : Looks(method, kind) /\ kind \notin {"MainHeader", "StreamHeader"}
      BY <2>9 DEF ReadIgnores, ReadEnds, FirstPacket, NextPacket, RefuseAnnotation,
                  ReadAnnotation, ReadsFrame, Reads
    <3>2. UNCHANGED <<asked, opening>>
      BY <2>9 DEF ReadIgnores, ReadEnds, FirstPacket, NextPacket, RefuseAnnotation,
                  ReadAnnotation
    <3>3. QED
      BY <2>3, <3>1, <3>2
  <2>10. CASE Caller
    <3>1. handled' = handled /\ opening' = opening
      BY <2>10 DEF Caller, CallOpen, CallRead, TakeRows, TakeTrailing, calls
    <3>2. CASE \E annotated \in BOOLEAN : CallOpen(annotated)
      <4>1. handled = 0
        BY <3>2 DEF CallOpen, OpeningOK
      <4>2. opening.declared = 0 /\ HeadersOf(2) = {}
        BY <1>1, <4>1 DEF HeadersStand, HeadersOf, Told
      <4>3. /\ \A of : /\ UnitsBehind("stream", of)' = UnitsBehind("stream", of)
                       /\ HeadersOf(of)' = HeadersOf(of)
            /\ Told("MainHeader")' = Told("MainHeader")
        BY <2>1, <3>1 DEF UnitsBehind, Behind, Ahead, Started, HeadersOf, Told
      <4>4. QED
        BY <1>1, <2>1, <3>1, <4>2, <4>3 DEF HeadersStand
    <3>3. CASE ~\E annotated \in BOOLEAN : CallOpen(annotated)
      <4>1. asked' = asked
        BY <2>10, <3>3 DEF Caller, CallRead, TakeRows, TakeTrailing
      <4>2. QED
        BY <2>2, <3>1, <4>1
    <3>4. QED
      BY <3>2, <3>3
  <2>11. QED
    BY <1>3, <2>4, <2>5, <2>6, <2>7, <2>8, <2>9, <2>10 DEF Next, Works
<1>4. QED
  BY <1>2, <1>3

LEMMA OpenEndsOpening ==
  ASSUME DInv, HeadersTold, OpeningOK, OpenEnds
  PROVE  opening.media # <<>>
<1>1. CASE Looks("open", "EndOfHeaders")
  <2>1. ReadingOK /\ FieldsOK /\ opened = "no" /\ answer # "refused" /\ handled \in Nat
    BY <1>1 DEF DInv, CallOK, Looks, FieldsOK
  <2>2. /\ handled < Len(log) /\ log[handled + 1].kind = "EndOfHeaders" /\ Len(log) \in Nat
    BY <1>1, <2>1, LooksAt DEF ReadingOK, IsRow
  <2>3. PICK j \in 1 .. Len(log) : j = handled + 1
    BY <2>1, <2>2
  <2>4. PICK m \in 1 .. handled : log[m].kind = "StreamHeader" /\ log[m].stream = 1
    <3>1. log[j].kind = "EndOfHeaders" /\ 1 .. j - 1 = 1 .. handled
      BY <2>1, <2>2, <2>3
    <3>2. QED
      BY <3>1 DEF HeadersTold
  <2>5. m \in HeadersOf(1)
    BY <2>4 DEF HeadersOf, Told
  <2>6. QED
    BY <2>1, <2>5 DEF OpeningOK, HeadersStand, Whole
<1>2. QED
  BY <1>1 DEF OpenEnds

LEMMA NextOpeningOK ==
  ASSUME DInv, LastSaid, HeadersTold, OpeningOK, [Next]_vars
  PROVE  OpeningOK'
<1>1. Whole' => HeadersStand'
  BY NextHeadersStand
<1>2. CallOK /\ FieldsOK
  BY DEF DInv
<1>3. CASE UNCHANGED vars \/ Pump
  <2>1. UNCHANGED demuxer
    BY <1>3 DEF vars, Pump
  <2>2. QED
    BY <1>1, <2>1 DEF OpeningOK, demuxer, calls
<1>4. CASE OpenEnds
  <2>1. /\ opening' = opening /\ opening.media # <<>> /\ stream'[1].annotations = opening.annotations
        /\ opened' = "yes" \/ call' = "first"
    BY <1>4, OpenEndsOpening DEF OpenEnds
  <2>2. QED
    BY <1>1, <2>1 DEF OpeningOK
<1>5. CASE CoreFails \/ SourceFails \/ OpenMain \/ OpenStream \/ OpenIgnores \/ OpenEndsEarly
  <2>1. /\ stream' = stream
        /\ call # "none"
        /\ \/ call' = call
           \/ opened' = "failed"
           \/ call = "read" /\ opened' = opened
    BY <1>5 DEF CoreFails, SourceFails, OpenMain, OpenStream, OpenIgnores, OpenEndsEarly,
                Looks, Fails
  <2>2. opened' = "no" => call' # "none"
    BY <1>2, <2>1 DEF CallOK
  <2>3. stream = <<>> \/ opening' = opening
    BY <1>2, <1>5 DEF CoreFails, SourceFails, OpenMain, OpenStream, OpenIgnores, OpenEndsEarly,
                Looks, CallOK
  <2>4. QED
    BY <1>1, <2>1, <2>2, <2>3 DEF OpeningOK
<1>6. CASE ReadIgnores \/ ReadRestated \/ ReadEnds \/ FirstPacket \/ NextPacket
           \/ RefuseAnnotation \/ ReadAnnotation
  <2>1. call \in {"first", "read"} /\ opening' = opening
    BY <1>6 DEF ReadIgnores, ReadRestated, ReadEnds, FirstPacket, NextPacket,
                RefuseAnnotation, ReadAnnotation, ReadsFrame, Reads, Looks
  <2>2. stream # <<>> /\ (call = "read" => opened = "yes")
    BY <1>2, <2>1 DEF CallOK
  <2>3. stream'[1].annotations = stream[1].annotations
    <3>1. CASE FirstPacket
      <4>1. stream' = stream \/ \E c : stream' = [stream EXCEPT ![1].config = c]
        BY <3>1 DEF FirstPacket
      <4>2. QED
        BY <1>2, <2>2, <4>1 DEF FieldsOK, Fields
    <3>2. CASE ~FirstPacket
      BY <1>6, <3>2 DEF ReadIgnores, ReadRestated, ReadEnds, NextPacket,
                RefuseAnnotation, ReadAnnotation
    <3>3. QED
      BY <3>1, <3>2
  <2>4. opened' = "no" => call' # "none"
    <3>1. CASE call = "read"
      BY <1>6, <2>2, <3>1 DEF ReadIgnores, ReadRestated, ReadEnds, FirstPacket, NextPacket,
                RefuseAnnotation, ReadAnnotation, Fails
    <3>2. CASE call = "first"
      BY <1>6, <3>2 DEF ReadIgnores, ReadRestated, ReadEnds, FirstPacket, NextPacket,
                RefuseAnnotation, ReadAnnotation, Fails
    <3>3. QED
      BY <2>1, <3>1, <3>2
  <2>5. QED
    BY <1>1, <2>1, <2>2, <2>3, <2>4 DEF OpeningOK
<1>7. CASE Caller
  <2>1. UNCHANGED <<stream, opening, handled, opened>> /\ (call' = "none" => call = "none")
    BY <1>7 DEF Caller, CallOpen, CallRead, TakeRows, TakeTrailing, calls
  <2>2. QED
    BY <1>1, <2>1 DEF OpeningOK
<1>8. QED
  BY <1>3, <1>4, <1>5, <1>6, <1>7 DEF Next, Works

LEMMA NextTold ==
  ASSUME ReadingOK, HeadersTold, [Next]_vars
  PROVE  HeadersTold'
<1>1. CASE Pump
  BY <1>1, NextHeadersTold DEF Pump
<1>2. CASE ~Pump
  BY <1>2, ReadingLeftAlone DEF HeadersTold, HasMain, Declared, Known
<1>3. QED
  BY <1>1, <1>2

(* Opening has read one main header and each stream's own as it allows for *)
(* them, whatever the order they come in and whatever the wire restates    *)
(* later: a Demuxer there is has one set of headers until it is refused.   *)
THEOREM OpenedByOneSet == Spec => []OneSetOfHeaders
<1> DEFINE Inv == DInv /\ LastSaid /\ HeadersTold /\ OpeningOK
<1>1. Init => Inv
  BY InitDInv, InitLastSaid, InitHeadersTold, InitOpeningOK
<1>2. Inv /\ [Next]_vars => Inv'
  BY NextDInv, NextLastSaid, NextTold, NextOpeningOK DEF DInv
<1>3. Inv => OneSetOfHeaders
  <2> SUFFICES ASSUME Inv, opened = "yes", answer # "refused"
               PROVE  OneSetOfHeaders
    BY DEF OneSetOfHeaders
  <2>1. /\ HeadersStand /\ stream # <<>> /\ opening.media # <<>>
        /\ stream[1].annotations = opening.annotations
        /\ handled \in Nat /\ handled <= Len(log) /\ Len(log) \in Nat
    BY DEF OpeningOK, Whole, DInv, CallOK, FieldsOK, ReadingOK, IsRow
  <2>2. PICK j \in 1 .. handled : HeadersOf(1) = {j}
    BY <2>1 DEF HeadersStand
  <2>3. \E m \in 1 .. handled :
          Told("MainHeader") = {m} /\ log[m].count <= IF asked THEN 2 ELSE 1
    <3>1. j \in 1 .. Len(log) /\ log[j].kind = "StreamHeader"
      BY <2>1, <2>2 DEF HeadersOf, Told
    <3>2. PICK m \in 1 .. j - 1 : log[m].kind = "MainHeader"
      BY <3>1 DEF HeadersTold
    <3>3. m \in Told("MainHeader")
      BY <2>1, <2>2, <3>2 DEF Told
    <3>4. QED
      BY <2>1, <3>3 DEF HeadersStand
  <2>4. /\ \A s \in {says[p] : p \in UnitsBehind("stream", 1)} : MediaFits(s)
        /\ \A s \in {says[p] : p \in UnitsBehind("stream", 2)} : IsAnnotations(s)
    BY <2>1 DEF HeadersStand
  <2>5. /\ stream[1].annotations <=> HeadersOf(2) # {}
        /\ HeadersOf(2) # {} => asked
    BY <2>1 DEF HeadersStand
  <2> DEFINE headers(i) == {k \in Told("StreamHeader") : log[k].stream = i}
  <2>6. headers(1) = HeadersOf(1) /\ headers(2) = HeadersOf(2)
    BY DEF HeadersOf
  <2>7. QED
    BY <2>2, <2>3, <2>4, <2>5, <2>6 DEF OneSetOfHeaders
<1>4. QED
  BY <1>1, <1>2, <1>3, PTL DEF Spec


-----------------------------------------------------------------------------
(* Rows that came in parts, one part behind the other.                     *)

Flat(parts) == Seqs!FlattenSeq(parts)

(* What FlattenSeq recurs on.                                              *)
Flattens(f, parts) ==
  f = [i \in 1 .. Len(parts) |-> IF i = 1 THEN parts[i] ELSE f[i - 1] \o parts[i]]

LEMMA FlattenExists ==
  ASSUME NEW S, NEW parts \in Seq(Seq(S)), parts # <<>>
  PROVE  \E f \in [1 .. Len(parts) -> Seq(S)] : Flattens(f, parts) /\ Flat(parts) = f[Len(parts)]
<1> DEFINE n == Len(parts)
           step == [x \in Seq(S) \X (1 .. n) |-> x[1] \o parts[x[2]]]
<1>1. n \in Nat \ {0} /\ \A i \in 1 .. n : parts[i] \in Seq(S)
  OBVIOUS
<1>2. step \in [Seq(S) \X (1 .. n) -> Seq(S)]
  BY <1>1
<1>3. <<>> \in Seq(S)
  OBVIOUS
<1> HIDE DEF n
<1>4. PICK g \in [0 .. n -> Seq(S)] :
        g[0] = <<>> /\ \A i \in 1 .. n : g[i] = step[<<g[i - 1], i>>]
  <2> HIDE DEF step
  <2>1. Folds(Seq(S), <<>>, step, n) # {}
    BY <1>1, <1>2, <1>3, FoldExists
  <2>2. QED
    BY <2>1 DEF Folds
<1>5. \A i \in 1 .. n : g[i] = g[i - 1] \o parts[i]
  <2> TAKE i \in 1 .. n
  <2>1. i - 1 \in 0 .. n
    BY <1>1
  <2>2. g[i - 1] \in Seq(S)
    BY <1>4, <2>1
  <2>3. step[<<g[i - 1], i>>] = g[i - 1] \o parts[i]
    BY <2>2
  <2>4. QED
    BY <1>4, <2>3
<1> DEFINE f == [i \in 1 .. n |-> g[i]]
<1>6. f \in [1 .. n -> Seq(S)]
  BY <1>1, <1>4
<1>7. \A i \in 1 .. n : f[i] = IF i = 1 THEN parts[i] ELSE f[i - 1] \o parts[i]
  <2> TAKE i \in 1 .. n
  <2>1. f[i] = g[i - 1] \o parts[i]
    BY <1>5
  <2>2. CASE i = 1
    <3>1. i - 1 = 0 /\ parts[i] \in Seq(S)
      BY <1>1, <2>2
    <3>2. g[i - 1] = <<>>
      BY <1>4, <3>1
    <3>3. <<>> \o parts[i] = parts[i]
      BY <3>1
    <3>4. QED
      BY <2>1, <2>2, <3>2, <3>3
  <2>3. CASE i # 1
    <3>1. i - 1 \in 1 .. n
      BY <1>1, <2>3
    <3>2. f[i - 1] = g[i - 1]
      BY <3>1
    <3> HIDE DEF f
    <3>3. QED
      BY <2>1, <2>3, <3>2
  <2>4. QED
    BY <2>2, <2>3
<1> HIDE DEF f
<1>8. Flattens(f, parts)
  BY <1>6, <1>7 DEF Flattens, n
<1> DEFINE h == CHOOSE x : Flattens(x, parts)
<1>9. Flattens(h, parts)
  BY <1>8
<1>10. Flat(parts) = h[n]
  <2>1. n # 0
    BY <1>1
  <2>2. QED
    BY <2>1 DEF Flat, Seqs!FlattenSeq, Flattens, n
<1> HIDE DEF h
<1>11. h = [i \in 1 .. n |-> h[i]]
       /\ \A i \in 1 .. n : h[i] = IF i = 1 THEN parts[i] ELSE h[i - 1] \o parts[i]
  BY <1>1, <1>9 DEF Flattens, n
<1>12. \A i \in 1 .. n : h[i] \in Seq(S)
  <2> DEFINE after == [i \in 0 .. n |-> IF i = 0 THEN <<>> ELSE h[i]]
  <2>1. after[0] \in Seq(S)
    BY <1>1
  <2>2. \A i \in 1 .. n : after[i - 1] \in Seq(S) => after[i] \in Seq(S)
    <3> TAKE i \in 1 .. n
    <3>1. i \in 0 .. n /\ i - 1 \in 0 .. n /\ i # 0
      BY <1>1
    <3>2. after[i] = h[i] /\ after[i - 1] = IF i = 1 THEN <<>> ELSE h[i - 1]
      BY <1>1, <3>1
    <3> HIDE DEF after
    <3>3. parts[i] \in Seq(S)
      BY <1>1
    <3>4. CASE i = 1
      BY <1>11, <3>2, <3>3, <3>4
    <3>5. CASE i # 1
      <4>1. h[i] = after[i - 1] \o parts[i]
        BY <1>11, <3>2, <3>5
      <4>2. QED
        BY <3>2, <3>3, <4>1
    <3>6. QED
      BY <3>4, <3>5
  <2> HIDE DEF after
  <2>3. \A i \in 0 .. n : after[i] \in Seq(S)
    BY <1>1, <2>1, <2>2, FoldKeeps
  <2>4. \A i \in 1 .. n : i \in 0 .. n /\ after[i] = h[i]
    BY <1>1 DEF after
  <2>5. QED
    BY <2>3, <2>4
<1>13. h \in [1 .. n -> Seq(S)]
  BY <1>11, <1>12
<1>14. QED
  BY <1>9, <1>10, <1>13 DEF n

LEMMA RowOf ==
  ASSUME NEW S, NEW n \in Nat, NEW row \in [1 .. n -> S]
  PROVE  row \in Seq(S) /\ Len(row) = n
OBVIOUS

LEMMA FlatEmpty ==
  ASSUME NEW parts, Len(parts) = 0
  PROVE  Flat(parts) = parts
BY DEF Flat, Seqs!FlattenSeq

LEMMA FlatType ==
  ASSUME NEW S, NEW parts \in Seq(Seq(S))
  PROVE  Flat(parts) \in Seq(S)
<1>1. CASE parts = <<>>
  <2>1. Len(<<>>) = 0 /\ <<>> \in Seq(S)
    OBVIOUS
  <2>2. Flat(parts) = <<>>
    BY <1>1, <2>1, FlatEmpty
  <2>3. QED
    BY <2>1, <2>2
<1>2. CASE parts # <<>>
  <2>1. PICK f \in [1 .. Len(parts) -> Seq(S)] : Flat(parts) = f[Len(parts)]
    BY <1>2, FlattenExists
  <2>2. Len(parts) \in 1 .. Len(parts)
    BY <1>2
  <2>3. QED
    BY <2>1, <2>2
<1>3. QED
  BY <1>1, <1>2

(* One part more.                                                          *)
LEMMA FlatMore ==
  ASSUME NEW S, NEW n \in Nat, NEW parts \in [1 .. n -> Seq(S)],
         NEW more \in [1 .. n + 1 -> Seq(S)], \A j \in 1 .. n : more[j] = parts[j]
  PROVE  Flat(more) = Flat(parts) \o more[n + 1]
<1>1. /\ parts \in Seq(Seq(S)) /\ Len(parts) = n
      /\ more \in Seq(Seq(S)) /\ Len(more) = n + 1 /\ more # <<>>
  <2>1. Len(<<>>) = 0 /\ n + 1 # 0 /\ n + 1 \in Nat
    OBVIOUS
  <2>2. QED
    BY <2>1, RowOf
<1>2. PICK h \in [1 .. n + 1 -> Seq(S)] : Flattens(h, more) /\ Flat(more) = h[n + 1]
  <2>1. \E h \in [1 .. Len(more) -> Seq(S)] : Flattens(h, more) /\ Flat(more) = h[Len(more)]
    BY <1>1, FlattenExists
  <2>2. QED
    BY <1>1, <2>1
<1>3. \A i \in 1 .. n + 1 : h[i] = IF i = 1 THEN more[i] ELSE h[i - 1] \o more[i]
  BY <1>1, <1>2 DEF Flattens
<1>4. CASE n = 0
  <2>1. parts = <<>> /\ more[n + 1] \in Seq(S)
    BY <1>1, <1>4
  <2>2. Flat(parts) = <<>>
    BY <1>1, <1>4, <2>1, FlatEmpty
  <2>3. h[n + 1] = more[n + 1]
    BY <1>3, <1>4
  <2>4. <<>> \o more[n + 1] = more[n + 1]
    BY <2>1
  <2>5. QED
    BY <1>2, <2>2, <2>3, <2>4
<1>5. CASE n # 0
  <2>1. PICK f \in [1 .. n -> Seq(S)] : Flattens(f, parts) /\ Flat(parts) = f[n]
    <3>1. Len(<<>>) = 0
      OBVIOUS
    <3>2. parts # <<>>
      BY <1>1, <1>5, <3>1
    <3>3. \E f \in [1 .. Len(parts) -> Seq(S)] : Flattens(f, parts) /\ Flat(parts) = f[Len(parts)]
      BY <1>1, <3>2, FlattenExists
    <3>4. QED
      BY <1>1, <3>3
  <2>2. \A i \in 1 .. n : f[i] = IF i = 1 THEN parts[i] ELSE f[i - 1] \o parts[i]
    BY <1>1, <2>1 DEF Flattens
  <2> DEFINE T == {i \in Nat : i \in 1 .. n => h[i] = f[i]}
  <2>3. 0 \in T
    OBVIOUS
  <2>4. ASSUME NEW i \in Nat, i \in T PROVE i + 1 \in T
    <3> SUFFICES ASSUME i + 1 \in 1 .. n PROVE h[i + 1] = f[i + 1]
      OBVIOUS
    <3>1. PICK k \in Nat : k = i + 1
      OBVIOUS
    <3>2. k \in 1 .. n /\ k \in 1 .. n + 1 /\ k - 1 = i /\ more[k] = parts[k]
      <4>1. k \in 1 .. n
        BY <3>1
      <4>2. k \in 1 .. n + 1
        BY <4>1
      <4>3. more[k] = parts[k]
        BY <4>1, Zenon
      <4>4. k - 1 = i
        BY <3>1
      <4>5. QED
        BY <4>1, <4>2, <4>3, <4>4
    <3>3. CASE k = 1
      BY <1>3, <2>2, <3>1, <3>2, <3>3
    <3>4. CASE k # 1
      <4>1. h[i] = f[i]
        BY <2>4, <3>1, <3>2, <3>4
      <4>2. h[k] = h[i] \o more[k] /\ f[k] = f[i] \o parts[k]
        BY <1>3, <2>2, <3>2, <3>4
      <4>3. QED
        BY <3>1, <3>2, <4>1, <4>2
    <3>5. QED
      BY <3>3, <3>4
  <2> HIDE DEF T
  <2>5. n \in T
    BY <2>3, <2>4, Induction
  <2>6. h[n] = f[n]
    BY <1>5, <2>5 DEF T
  <2>7. PICK k \in Nat : k = n + 1
    OBVIOUS
  <2>8. k - 1 = n /\ k # 1 /\ k \in 1 .. n + 1
    BY <1>5, <2>7
  <2>9. h[k] = h[n] \o more[k]
    BY <1>3, <2>8
  <2>10. QED
    BY <1>2, <2>1, <2>6, <2>7, <2>9
<1>6. QED
  BY <1>4, <1>5

(* One more or none.                                                       *)
GrowsBy(S, n, m, old, new, more) ==
  /\ n \in Nat /\ m \in {n, n + 1} /\ more \in Seq(S)
  /\ old \in [1 .. n -> Seq(S)] /\ new \in [1 .. m -> Seq(S)]
  /\ \A j \in 1 .. n : new[j] = old[j]
  /\ m = n => more = <<>>
  /\ m = n + 1 => new[n + 1] = more

LEMMA FlatGrows ==
  ASSUME NEW S, NEW n, NEW m, NEW old, NEW new, NEW more, GrowsBy(S, n, m, old, new, more)
  PROVE  Flat(new) = Flat(old) \o more
<1> USE DEF GrowsBy
<1>1. CASE m = n
  <2>1. new = old /\ more = <<>>
    BY <1>1
  <2>2. Flat(old) \in Seq(S)
    BY RowOf, FlatType
  <2>3. Flat(old) \o <<>> = Flat(old)
    BY <2>2
  <2>4. QED
    BY <2>1, <2>3
<1>2. CASE m = n + 1
  BY <1>2, FlatMore
<1>3. QED
  BY <1>1, <1>2

(* A packet's lines are a row of lines.                                    *)
LEMMA SolidType ==
  ASSUME NEW text \in Seq(Lines)
  PROVE  /\ Solid(text) \in Seq(Lines)
         /\ IsRecord(text) => Solid(text)[1].rows \in Seq(Nat)
<1> DEFINE parts == [i \in DOMAIN text |-> IF text[i] = Blank THEN <<>> ELSE <<text[i]>>]
<1>1. Solid(text) = Flat(parts)
  BY DEF Solid, Flat
<1>2. DOMAIN text = 1 .. Len(text) /\ Len(text) \in Nat /\ \A i \in 1 .. Len(text) : text[i] \in Lines
  OBVIOUS
<1>3. parts \in [1 .. Len(text) -> Seq(Lines)]
  BY <1>2
<1> HIDE DEF parts
<1>4. parts \in Seq(Seq(Lines))
  BY <1>2, <1>3
<1>5. Solid(text) \in Seq(Lines)
  BY <1>1, <1>4, FlatType
<1>6. ASSUME IsRecord(text) PROVE Solid(text)[1].rows \in Seq(Nat)
  <2>1. 1 \in 1 .. Len(Solid(text))
    BY <1>6 DEF IsRecord
  <2>2. Solid(text)[1] \in Lines
    BY <1>5, <2>1
  <2>3. QED
    BY <2>2 DEF Lines
<1>7. QED
  BY <1>5, <1>6

-----------------------------------------------------------------------------
(* The unit that an event came of is found by counting. It stays the same  *)
(* when another pair of them comes.                                        *)

Counterpart(S, T, j) == CHOOSE p \in S : Nth(S, p) = Nth(T, j)

Numbers(S) == S \subseteq Nat /\ IsFiniteSet(S)

Matched(S, T) ==
  /\ Numbers(S) /\ Numbers(T)
  /\ Cardinality(S) = Cardinality(T)
  /\ \A j \in T : \E p \in S : Nth(S, p) = Nth(T, j)

LEMMA NthGrows ==
  ASSUME NEW S, Numbers(S), NEW p \in S, NEW q \in S, p < q
  PROVE  Nth(S, p) # Nth(S, q)
<1> DEFINE A == {k \in S : k <= p}
           B == {k \in S : k <= q}
<1>1. A \in SUBSET B /\ B \in SUBSET S /\ q \in B /\ q \notin A
  <2>1. p \in Nat /\ q \in Nat /\ \A k \in S : k \in Nat
    BY DEF Numbers
  <2>2. \A k \in S : k <= p => k <= q
    BY <2>1
  <2>3. q <= q /\ ~(q <= p)
    BY <2>1
  <2>4. QED
    BY <2>2, <2>3
<1>2. Nth(S, p) = Cardinality(A) /\ Nth(S, q) = Cardinality(B)
  BY DEF Nth
<1> HIDE DEF A, B
<1>3. IsFiniteSet(B)
  BY <1>1, FS_Subset DEF Numbers
<1>4. Cardinality(B) = Cardinality(A) => B = A
  BY <1>1, <1>3, FS_Subset
<1>5. QED
  BY <1>1, <1>2, <1>4

LEMMA CounterpartIs ==
  ASSUME NEW S, Numbers(S), NEW T, NEW j, NEW p \in S, Nth(S, p) = Nth(T, j)
  PROVE  Counterpart(S, T, j) = p
<1> DEFINE c == Counterpart(S, T, j)
<1>1. c \in S /\ Nth(S, c) = Nth(T, j)
  BY DEF Counterpart
<1> HIDE DEF c
<1>2. ~(c < p) /\ ~(p < c)
  BY <1>1, NthGrows
<1>3. c \in Nat /\ p \in Nat
  BY <1>1 DEF Numbers
<1>4. c = p
  BY <1>2, <1>3
<1>5. QED
  BY <1>4 DEF c

LEMMA NthMore ==
  ASSUME NEW S, Numbers(S), NEW q \in Nat, \A p \in S : p < q
  PROVE  /\ Numbers(S \cup {q})
         /\ Cardinality(S \cup {q}) = Cardinality(S) + 1
         /\ Nth(S \cup {q}, q) = Cardinality(S) + 1
         /\ \A p \in S : Nth(S \cup {q}, p) = Nth(S, p)
<1>1. q \notin S
  BY DEF Numbers
<1>2. IsFiniteSet(S \cup {q}) /\ Cardinality(S \cup {q}) = Cardinality(S) + 1
  BY <1>1, FS_AddElement DEF Numbers
<1>3. {k \in S \cup {q} : k <= q} = S \cup {q}
  <2>1. \A k \in S \cup {q} : k <= q
    BY DEF Numbers
  <2>2. QED
    BY <2>1
<1>4. ASSUME NEW p \in S PROVE {k \in S \cup {q} : k <= p} = {k \in S : k <= p}
  BY DEF Numbers
<1>5. QED
  BY <1>2, <1>3, <1>4 DEF Nth, Numbers

OnePairMore(S, T, q, n, U, V) ==
  /\ Matched(S, T)
  /\ q \in Nat /\ (\A p \in S : p < q) /\ U = S \cup {q}
  /\ n \in Nat /\ (\A j \in T : j < n) /\ V = T \cup {n}

LEMMA MatchedMore ==
  ASSUME NEW S, NEW T, NEW q, NEW n, NEW U, NEW V, OnePairMore(S, T, q, n, U, V)
  PROVE  /\ Matched(U, V)
         /\ Counterpart(U, V, n) = q
         /\ \A j \in T : Counterpart(U, V, j) = Counterpart(S, T, j)
<1>1. /\ Numbers(S) /\ Numbers(T) /\ Cardinality(S) = Cardinality(T)
      /\ \A j \in T : \E p \in S : Nth(S, p) = Nth(T, j)
      /\ q \in Nat /\ (\A p \in S : p < q) /\ U = S \cup {q}
      /\ n \in Nat /\ (\A j \in T : j < n) /\ V = T \cup {n}
  BY DEF OnePairMore, Matched
<1>2. /\ Numbers(U) /\ Cardinality(U) = Cardinality(S) + 1
      /\ Nth(U, q) = Cardinality(S) + 1 /\ \A p \in S : Nth(U, p) = Nth(S, p)
  BY <1>1, NthMore
<1>3. /\ Numbers(V) /\ Cardinality(V) = Cardinality(T) + 1
      /\ Nth(V, n) = Cardinality(T) + 1 /\ \A j \in T : Nth(V, j) = Nth(T, j)
  BY <1>1, NthMore
<1>4. S \subseteq U /\ q \in U /\ \A j \in V : j \in T \/ j = n
  BY <1>1
<1>5. Nth(U, q) = Nth(V, n)
  BY <1>1, <1>2, <1>3
<1>6. Counterpart(U, V, n) = q
  BY <1>2, <1>4, <1>5, CounterpartIs
<1>7. ASSUME NEW j \in T
      PROVE  /\ \E p \in U : Nth(U, p) = Nth(V, j)
             /\ Counterpart(U, V, j) = Counterpart(S, T, j)
  <2>1. PICK p \in S : Nth(S, p) = Nth(T, j)
    BY <1>1
  <2>2. p \in U /\ Nth(U, p) = Nth(V, j)
    BY <1>2, <1>3, <1>4, <2>1
  <2>3. Counterpart(S, T, j) = p
    BY <1>1, <2>1, CounterpartIs
  <2>4. Counterpart(U, V, j) = p
    BY <1>2, <2>2, CounterpartIs
  <2>5. QED
    BY <2>2, <2>3, <2>4
<1>8. Matched(U, V)
  BY <1>1, <1>2, <1>3, <1>4, <1>5, <1>7 DEF Matched
<1>9. QED
  BY <1>6, <1>7, <1>8

LEMMA CounterpartOf ==
  ASSUME NEW S, NEW T, Matched(S, T), NEW j \in T
  PROVE  Counterpart(S, T, j) \in S
BY DEF Matched, Counterpart

-----------------------------------------------------------------------------
(* The rows. What an annotation packet brings goes behind what came before *)
(* and is where the caller takes it, or has been taken.                    *)

Noted(j) == Counterpart(FramesBehind(AnnotationStream), FramesTold(AnnotationStream), j)

TextsOK == \A p \in DOMAIN wire.unit : NoteFrame(wire.unit[p]) => says[p].text \in Seq(Lines)

NotesMatched ==
  /\ Matched(FramesBehind(AnnotationStream), FramesTold(AnnotationStream))
  /\ TextsOK

LEMMA NotedText ==
  ASSUME NEW j
  PROVE  TextOf(j) = says[Noted(j)].text
BY DEF TextOf, UnitOf, Noted, Counterpart

LEMMA BroughtTypes ==
  ASSUME NotesMatched
  PROVE  /\ \A j \in FramesTold(AnnotationStream) : TextOf(j) \in Seq(Lines)
         /\ \A pts : \A j \in 1 .. handled : RowsBrought(pts)[j] \in Seq(Lines)
         /\ \A j \in 1 .. handled : TrailingBrought[j] \in Seq(Nat)
<1>1. ASSUME NEW j \in FramesTold(AnnotationStream) PROVE TextOf(j) \in Seq(Lines)
  <2>1. Noted(j) \in FramesBehind(AnnotationStream)
    BY CounterpartOf DEF NotesMatched, Noted
  <2>2. Noted(j) \in DOMAIN wire.unit /\ NoteFrame(wire.unit[Noted(j)])
    BY <2>1 DEF FramesBehind, UnitsBehind, Behind, Started, NoteFrame
  <2>3. QED
    BY <2>2, NotedText DEF NotesMatched, TextsOK
<1>2. <<>> \in Seq(Lines) /\ <<>> \in Seq(Nat)
  OBVIOUS
<1>3. ASSUME NEW pts, NEW j \in 1 .. handled PROVE RowsBrought(pts)[j] \in Seq(Lines)
  BY <1>1, <1>2, SolidType DEF RowsBrought
<1>4. ASSUME NEW j \in 1 .. handled PROVE TrailingBrought[j] \in Seq(Nat)
  BY <1>1, <1>2, SolidType DEF TrailingBrought
<1>5. QED
  BY <1>1, <1>3, <1>4

LEMMA BroughtFlat ==
  ASSUME NotesMatched, handled \in Nat
  PROVE  /\ \A pts : Flat(RowsBrought(pts)) \in Seq(Lines)
         /\ Flat(TrailingBrought) \in Seq(Nat)
<1>1. ASSUME NEW pts PROVE RowsBrought(pts) \in Seq(Seq(Lines))
  <2> DEFINE rows_ == RowsBrought(pts)
  <2>1. rows_ = [j \in 1 .. handled |-> rows_[j]]
    BY DEF RowsBrought
  <2>2. \A j \in 1 .. handled : rows_[j] \in Seq(Lines)
    BY BroughtTypes
  <2> HIDE DEF rows_
  <2>3. rows_ \in [1 .. handled -> Seq(Lines)]
    BY <2>1, <2>2
  <2>4. rows_ \in Seq(Seq(Lines))
    BY <2>3
  <2>5. QED
    BY <2>4 DEF rows_
<1>2. TrailingBrought \in Seq(Seq(Nat))
  <2>1. TrailingBrought \in [1 .. handled -> Seq(Nat)]
    BY BroughtTypes DEF TrailingBrought
  <2>2. QED
    BY <2>1
<1>3. QED
  BY <1>1, <1>2, FlatType

(* What was brought stays what it was.                                     *)
LEMMA BroughtBefore ==
  ASSUME NotesMatched, handled \in Nat, handled' \in {handled, handled + 1},
         \A j \in 1 .. handled :
           j \in FramesTold(AnnotationStream)' <=> j \in FramesTold(AnnotationStream),
         \A j \in FramesTold(AnnotationStream) :
           TextOf(j)' = TextOf(j) /\ log'[j].packet = log[j].packet
  PROVE  /\ \A pts : \A j \in 1 .. handled : RowsBrought(pts)'[j] = RowsBrought(pts)[j]
         /\ \A j \in 1 .. handled : TrailingBrought'[j] = TrailingBrought[j]
<1>1. \A j \in 1 .. handled : j \in 1 .. handled'
  OBVIOUS
<1>2. ASSUME NEW pts, NEW j \in 1 .. handled
      PROVE  RowsBrought(pts)'[j] = RowsBrought(pts)[j]
  <2>1. RowsBrought(pts)'[j] =
          IF j \in FramesTold(AnnotationStream)' /\ log'[j].packet.pts = pts /\ ~IsRecord(TextOf(j)')
            THEN Solid(TextOf(j)') ELSE <<>>
    BY <1>1 DEF RowsBrought
  <2>2. RowsBrought(pts)[j] =
          IF j \in FramesTold(AnnotationStream) /\ log[j].packet.pts = pts /\ ~IsRecord(TextOf(j))
            THEN Solid(TextOf(j)) ELSE <<>>
    BY DEF RowsBrought
  <2>3. QED
    BY <2>1, <2>2
<1>3. ASSUME NEW j \in 1 .. handled PROVE TrailingBrought'[j] = TrailingBrought[j]
  <2>1. TrailingBrought'[j] =
          IF j \in FramesTold(AnnotationStream)' /\ IsRecord(TextOf(j)')
            THEN Solid(TextOf(j)')[1].rows ELSE <<>>
    BY <1>1 DEF TrailingBrought
  <2>2. TrailingBrought[j] =
          IF j \in FramesTold(AnnotationStream) /\ IsRecord(TextOf(j))
            THEN Solid(TextOf(j))[1].rows ELSE <<>>
    BY DEF TrailingBrought
  <2>3. QED
    BY <2>1, <2>2
<1>4. QED
  BY <1>2, <1>3

(* So what comes goes behind it.                                           *)
LEMMA BroughtBehind ==
  ASSUME NotesMatched, handled \in Nat, handled' \in {handled, handled + 1},
         \A j \in 1 .. handled :
           j \in FramesTold(AnnotationStream)' <=> j \in FramesTold(AnnotationStream),
         \A j \in FramesTold(AnnotationStream) :
           TextOf(j)' = TextOf(j) /\ log'[j].packet = log[j].packet
  PROVE  /\ \A pts : /\ Flat(RowsBrought(pts)) \in Seq(Lines)
                     /\ \A more \in Seq(Lines) :
                          /\ handled' = handled => more = <<>>
                          /\ handled' = handled + 1 => RowsBrought(pts)'[handled + 1] = more
                          => Flat(RowsBrought(pts)') = Flat(RowsBrought(pts)) \o more
         /\ Flat(TrailingBrought) \in Seq(Nat)
         /\ \A more \in Seq(Nat) :
              /\ handled' = handled => more = <<>>
              /\ handled' = handled + 1 => TrailingBrought'[handled + 1] = more
              => Flat(TrailingBrought') = Flat(TrailingBrought) \o more
<1>1. ASSUME NEW pts, NEW more \in Seq(Lines),
             handled' = handled => more = <<>>,
             handled' = handled + 1 => RowsBrought(pts)'[handled + 1] = more
      PROVE  /\ Flat(RowsBrought(pts)) \in Seq(Lines)
             /\ Flat(RowsBrought(pts)') = Flat(RowsBrought(pts)) \o more
  <2> DEFINE old == RowsBrought(pts)
             new == RowsBrought(pts)'
  <2>1. old = [j \in 1 .. handled |-> old[j]] /\ new = [j \in 1 .. handled' |-> new[j]]
    BY DEF RowsBrought
  <2>2. \A j \in 1 .. handled : old[j] \in Seq(Lines) /\ new[j] = old[j]
    BY BroughtTypes, BroughtBefore
  <2>3. handled' = handled + 1 => new[handled + 1] = more
    BY <1>1
  <2>4. Flat(old) \in Seq(Lines)
    BY BroughtFlat
  <2> HIDE DEF old, new
  <2>5. \A j \in 1 .. handled' : j \in 1 .. handled \/ (j = handled + 1 /\ handled' = handled + 1)
    OBVIOUS
  <2>6. \A j \in 1 .. handled' : new[j] \in Seq(Lines)
    BY <1>1, <2>2, <2>3, <2>5
  <2>7. old \in [1 .. handled -> Seq(Lines)] /\ new \in [1 .. handled' -> Seq(Lines)]
    BY <2>1, <2>2, <2>6
  <2>8. Flat(new) = Flat(old) \o more
    <3>1. GrowsBy(Lines, handled, handled', old, new, more)
      BY <1>1, <2>2, <2>3, <2>7 DEF GrowsBy
    <3>2. QED
      BY <3>1, FlatGrows
  <2>9. QED
    BY <2>4, <2>8 DEF old, new
<1>2. ASSUME NEW more \in Seq(Nat),
             handled' = handled => more = <<>>,
             handled' = handled + 1 => TrailingBrought'[handled + 1] = more
      PROVE  /\ Flat(TrailingBrought) \in Seq(Nat)
             /\ Flat(TrailingBrought') = Flat(TrailingBrought) \o more
  <2> DEFINE old == TrailingBrought
             new == TrailingBrought'
  <2>1. old = [j \in 1 .. handled |-> old[j]] /\ new = [j \in 1 .. handled' |-> new[j]]
    BY DEF TrailingBrought
  <2>2. \A j \in 1 .. handled : old[j] \in Seq(Nat) /\ new[j] = old[j]
    BY BroughtTypes, BroughtBefore
  <2>3. handled' = handled + 1 => new[handled + 1] = more
    BY <1>2
  <2>4. Flat(old) \in Seq(Nat)
    BY BroughtFlat
  <2> HIDE DEF old, new
  <2>5. \A j \in 1 .. handled' : j \in 1 .. handled \/ (j = handled + 1 /\ handled' = handled + 1)
    OBVIOUS
  <2>6. \A j \in 1 .. handled' : new[j] \in Seq(Nat)
    BY <1>2, <2>2, <2>3, <2>5
  <2>7. old \in [1 .. handled -> Seq(Nat)] /\ new \in [1 .. handled' -> Seq(Nat)]
    BY <2>1, <2>2, <2>6
  <2>8. Flat(new) = Flat(old) \o more
    <3>1. GrowsBy(Nat, handled, handled', old, new, more)
      BY <1>2, <2>2, <2>3, <2>7 DEF GrowsBy
    <3>2. QED
      BY <3>1, FlatGrows
  <2>9. QED
    BY <2>4, <2>8 DEF old, new
<1>3. QED
  BY <1>1, <1>2, BroughtFlat

(* Nothing comes of an event, or of none, that is not the annotation's.    *)
LEMMA NothingBrought ==
  ASSUME NotesMatched, handled \in Nat, handled' \in {handled, handled + 1},
         UNCHANGED <<wire, says>>,
         FramesBehind(AnnotationStream)' = FramesBehind(AnnotationStream),
         FramesTold(AnnotationStream)' = FramesTold(AnnotationStream),
         \A j \in FramesTold(AnnotationStream) : log'[j] = log[j]
  PROVE  /\ NotesMatched'
         /\ \A pts : Flat(RowsBrought(pts)') = Flat(RowsBrought(pts))
         /\ Flat(TrailingBrought') = Flat(TrailingBrought)
<1>1. NotesMatched'
  BY DEF NotesMatched, TextsOK
<1>2. \A j : TextOf(j)' = TextOf(j)
  <2> TAKE j
  <2>1. Noted(j)' = Noted(j)
    BY DEF Noted, Counterpart, Nth
  <2>2. TextOf(j) = says[Noted(j)].text /\ TextOf(j)' = says'[Noted(j)'].text
    BY DEF TextOf, UnitOf, Noted, Counterpart
  <2>3. QED
    BY <2>1, <2>2
<1>3. handled + 1 \notin FramesTold(AnnotationStream)
  BY DEF FramesTold, Told
<1>4. handled' = handled + 1 => handled + 1 \in 1 .. handled'
  OBVIOUS
<1>5. <<>> \in Seq(Lines) /\ <<>> \in Seq(Nat)
  OBVIOUS
<1>6. ASSUME NEW pts PROVE Flat(RowsBrought(pts)') = Flat(RowsBrought(pts))
  <2>1. handled' = handled + 1 => RowsBrought(pts)'[handled + 1] = <<>>
    BY <1>3, <1>4 DEF RowsBrought
  <2>2. Flat(RowsBrought(pts)) \in Seq(Lines)
        /\ Flat(RowsBrought(pts)') = Flat(RowsBrought(pts)) \o <<>>
    BY <1>2, <1>5, <2>1, BroughtBehind
  <2>3. QED
    BY <2>2
<1>7. Flat(TrailingBrought') = Flat(TrailingBrought)
  <2>1. handled' = handled + 1 => TrailingBrought'[handled + 1] = <<>>
    BY <1>3, <1>4 DEF TrailingBrought
  <2>2. Flat(TrailingBrought) \in Seq(Nat)
        /\ Flat(TrailingBrought') = Flat(TrailingBrought) \o <<>>
    BY <1>2, <1>5, <2>1, BroughtBehind
  <2>3. QED
    BY <2>2
<1>8. QED
  BY <1>1, <1>6, <1>7

LEMMA TextOfNoted ==
  ASSUME NEW j
  PROVE  TextOf(j) = says[Noted(j)].text /\ TextOf(j)' = says'[Noted(j)'].text
BY DEF TextOf, UnitOf, Noted, Counterpart

(* An annotation packet brings its lines to its PTS or, where they are a   *)
(* record, the record's rows to no frame.                                  *)
LEMMA NoteComes ==
  ASSUME ReadingOK, FieldsOK, LastSaid, NotesMatched, ReadsFrame(AnnotationStream),
         UNCHANGED <<wire, place, hand, log, says>>
  PROVE  /\ NotesMatched' /\ Said.text \in Seq(Lines)
         /\ \A pts : Flat(RowsBrought(pts)') = Flat(RowsBrought(pts)) \o
              (IF Event.packet.pts = pts /\ ~IsRecord(Said.text) THEN Solid(Said.text) ELSE <<>>)
         /\ Flat(TrailingBrought') = Flat(TrailingBrought) \o
              (IF IsRecord(Said.text) THEN Solid(Said.text)[1].rows ELSE <<>>)
<1> DEFINE behind == FramesBehind(AnnotationStream)
           told   == FramesTold(AnnotationStream)
<1>1. PICK method : Looks(method, "Frame") /\ Event.packet.stream = AnnotationStream
  BY DEF ReadsFrame, Reads
<1>2. /\ behind' = behind \cup {Just} /\ \A p \in behind : p < Just
      /\ told' = told \cup {handled + 1} /\ Event = log[handled + 1]
  BY <1>1, FramesLookedAt
<1>3. handled \in Nat /\ handled' = handled + 1
  BY <1>1, LooksAt DEF FieldsOK, Looks
<1> PICK next \in Nat : next = handled + 1
  BY <1>3
<1>4. \A j \in told : j \in 1 .. handled
  BY DEF FramesTold, Told
<1>5. Just \in behind'
  BY <1>2
<1>6. Just \in DOMAIN wire.unit /\ NoteFrame(wire.unit[Just])
  BY <1>5 DEF FramesBehind, UnitsBehind, Behind, Started, NoteFrame
<1>7. Just \in Nat
  BY <1>6 DEF ReadingOK, IsWire
<1>8. Said.text \in Seq(Lines)
  BY <1>6 DEF Said, NotesMatched, TextsOK
<1>9. /\ Matched(behind', told')
      /\ Noted(next)' = Just
      /\ \A j \in told : Noted(j)' = Noted(j)
  <2>1. Matched(behind, told) /\ \A j \in told : j < next
    BY <1>3, <1>4 DEF NotesMatched
  <2>2. \A j : Noted(j) = Counterpart(behind, told, j)
    BY DEF Noted
  <2>3. \A j : Noted(j)' = Counterpart(behind', told', j)
    BY DEF Noted, Counterpart, Nth
  <2> HIDE DEF behind, told
  <2>4. behind' = behind \cup {Just} /\ told' = told \cup {next}
    BY <1>2
  <2>5. /\ Matched(behind', told') /\ Counterpart(behind', told', next) = Just
        /\ \A j \in told : Counterpart(behind', told', j) = Counterpart(behind, told, j)
    <3>1. OnePairMore(behind, told, Just, next, behind', told')
      <4>1. \A p \in behind : p < Just
        BY <1>2
      <4>2. QED
        BY <1>7, <2>1, <2>4, <4>1 DEF OnePairMore
    <3>2. QED
      BY <3>1, MatchedMore
  <2>6. QED
    BY <2>2, <2>3, <2>5
<1>10. NotesMatched'
  BY <1>9 DEF NotesMatched, TextsOK
<1>11. \A j \in told : TextOf(j)' = TextOf(j)
  BY <1>9, TextOfNoted
<1>12. TextOf(next)' = Said.text
  BY <1>9, TextOfNoted DEF Said
<1>13. \A j \in 1 .. handled : j \in told' <=> j \in told
  BY <1>2, <1>3
<1>14. <<>> \in Seq(Lines) /\ <<>> \in Seq(Nat)
  OBVIOUS
<1>15. next \in 1 .. handled' /\ next \in told' /\ handled' # handled
  BY <1>2, <1>3
<1>16. ASSUME NEW pts
       PROVE  Flat(RowsBrought(pts)') = Flat(RowsBrought(pts)) \o
                (IF Event.packet.pts = pts /\ ~IsRecord(Said.text) THEN Solid(Said.text) ELSE <<>>)
  <2> DEFINE more ==
        IF Event.packet.pts = pts /\ ~IsRecord(Said.text) THEN Solid(Said.text) ELSE <<>>
  <2>1. more \in Seq(Lines)
    BY <1>8, <1>14, SolidType
  <2>2. RowsBrought(pts)'[next] = more
    <3>1. log'[next] = Event
      BY <1>2
    <3>2. RowsBrought(pts)'[next] =
            IF next \in told' /\ log'[next].packet.pts = pts /\ ~IsRecord(TextOf(next)')
              THEN Solid(TextOf(next)') ELSE <<>>
      BY <1>15 DEF RowsBrought
    <3> HIDE DEF told
    <3>3. QED
      BY <1>12, <1>15, <3>1, <3>2
  <2> HIDE DEF more, told
  <2>3. Flat(RowsBrought(pts)') = Flat(RowsBrought(pts)) \o more
    BY <1>3, <1>11, <1>13, <1>15, <2>1, <2>2, BroughtBehind DEF told
  <2>4. QED
    BY <2>3 DEF more
<1>17. Flat(TrailingBrought') = Flat(TrailingBrought) \o
         (IF IsRecord(Said.text) THEN Solid(Said.text)[1].rows ELSE <<>>)
  <2> DEFINE more == IF IsRecord(Said.text) THEN Solid(Said.text)[1].rows ELSE <<>>
  <2>1. more \in Seq(Nat)
    BY <1>8, <1>14, SolidType
  <2>2. TrailingBrought'[next] = more
    <3>1. TrailingBrought'[next] =
            IF next \in told' /\ IsRecord(TextOf(next)')
              THEN Solid(TextOf(next)')[1].rows ELSE <<>>
      BY <1>15 DEF TrailingBrought
    <3> HIDE DEF told
    <3>2. QED
      BY <1>12, <1>15, <3>1
  <2> HIDE DEF more, told
  <2>3. Flat(TrailingBrought') = Flat(TrailingBrought) \o more
    BY <1>3, <1>11, <1>13, <1>15, <2>1, <2>2, BroughtBehind DEF told
  <2>4. QED
    BY <2>3 DEF more
<1>18. QED
  BY <1>8, <1>10, <1>16, <1>17

RowsStand ==
  \A pts : /\ At(claimed, pts) \in Seq(Lines) /\ At(unclaimed, pts) \in Seq(Lines)
           /\ At(claimed, pts) \o At(unclaimed, pts) = Flat(RowsBrought(pts))

TrailingStand ==
  /\ trailed \in Seq(Nat) /\ trailing \in Seq(Nat)
  /\ trailed \o trailing = Flat(TrailingBrought)

LEMMA ExtendedAt ==
  ASSUME NEW held, NEW pts, NEW more
  PROVE  /\ At(Extended(held, pts, more), pts) = At(held, pts) \o more
         /\ \A p : p # pts => At(Extended(held, pts, more), p) = At(held, p)
BY DEF At, Extended

LEMMA InitNotes == Init => NotesMatched /\ RowsStand /\ TrailingStand
<1> SUFFICES ASSUME Init PROVE NotesMatched /\ RowsStand /\ TrailingStand
  OBVIOUS
<1>1. /\ place = 0 /\ handled = 0 /\ log = <<>>
      /\ claimed = <<>> /\ unclaimed = <<>> /\ trailed = <<>> /\ trailing = <<>>
  BY DEF Init, Core!Init, DemuxerInit
<1>2. TextsOK
  BY InputsAssumption DEF Init, TextsOK
<1>3. Started = {}
  BY <1>1, InitReadingOK DEF ReadingOK, IsWire, Started
<1>4. FramesBehind(AnnotationStream) = {}
  BY <1>3 DEF FramesBehind, UnitsBehind, Behind
<1>5. FramesTold(AnnotationStream) = {}
  BY <1>1 DEF FramesTold, Told
<1>6. NotesMatched
  BY <1>2, <1>4, <1>5, FS_EmptySet DEF NotesMatched, Matched, Numbers
<1>7. /\ \A pts : RowsBrought(pts) = <<>>
      /\ TrailingBrought = <<>>
  BY <1>1 DEF RowsBrought, TrailingBrought
<1>8. Flat(<<>>) = <<>>
  <2>1. Len(<<>>) = 0
    OBVIOUS
  <2>2. QED
    BY <2>1, FlatEmpty
<1>9. <<>> \in Seq(Lines) /\ <<>> \in Seq(Nat) /\ <<>> \o <<>> = <<>> /\ DOMAIN <<>> = {}
  OBVIOUS
<1>10. \A pts : At(<<>>, pts) = <<>>
  BY <1>9 DEF At
<1>11. QED
  BY <1>1, <1>6, <1>7, <1>8, <1>9, <1>10 DEF RowsStand, TrailingStand

LEMMA NotesUnmoved ==
  ASSUME FieldsOK, NotesMatched, handled' \in {handled, handled + 1},
         UNCHANGED <<wire, says, rows, claimed, trailed>>,
         FramesBehind(AnnotationStream)' = FramesBehind(AnnotationStream),
         FramesTold(AnnotationStream)' = FramesTold(AnnotationStream),
         \A j \in FramesTold(AnnotationStream) : log'[j] = log[j]
  PROVE  /\ NotesMatched'
         /\ RowsStand /\ TrailingStand => RowsStand' /\ TrailingStand'
<1>1. /\ NotesMatched'
      /\ \A pts : Flat(RowsBrought(pts)') = Flat(RowsBrought(pts))
      /\ Flat(TrailingBrought') = Flat(TrailingBrought)
  BY NothingBrought DEF FieldsOK
<1>2. UNCHANGED <<unclaimed, trailing, claimed, trailed>>
  BY DEF rows
<1>3. ASSUME RowsStand PROVE RowsStand'
  <2>1. ASSUME NEW pts
        PROVE  /\ At(claimed', pts) \in Seq(Lines) /\ At(unclaimed', pts) \in Seq(Lines)
               /\ At(claimed', pts) \o At(unclaimed', pts) = Flat(RowsBrought(pts)')
    BY <1>1, <1>2, <1>3 DEF RowsStand
  <2>2. QED
    BY <2>1 DEF RowsStand
<1>4. ASSUME TrailingStand PROVE TrailingStand'
  BY <1>1, <1>2, <1>4 DEF TrailingStand
<1>5. QED
  BY <1>1, <1>3, <1>4

LEMMA BehindNothing ==
  ASSUME NEW S, NEW a \in Seq(S)
  PROVE  a \o <<>> = a /\ <<>> \o a = a /\ <<>> \in Seq(S)
OBVIOUS

LEMMA BehindMore ==
  ASSUME NEW S, NEW a \in Seq(S), NEW b \in Seq(S)
  PROVE  /\ a \o b \in Seq(S)
         /\ \A c \in Seq(S) : a \o (b \o c) = (a \o b) \o c
OBVIOUS

LEMMA NoteRead ==
  ASSUME DInv, LastSaid, NotesMatched, ReadAnnotation, RowsStand, TrailingStand
  PROVE  RowsStand' /\ TrailingStand'
<1>1. /\ ReadsFrame(AnnotationStream) /\ ~AnnotationRefused
      /\ UNCHANGED <<wire, place, hand, log, says, claimed, trailed>>
  BY DEF ReadAnnotation, core, taken
<1>2. /\ Said.text \in Seq(Lines)
      /\ \A pts : Flat(RowsBrought(pts)') = Flat(RowsBrought(pts)) \o
           (IF Event.packet.pts = pts /\ ~IsRecord(Said.text) THEN Solid(Said.text) ELSE <<>>)
      /\ Flat(TrailingBrought') = Flat(TrailingBrought) \o
           (IF IsRecord(Said.text) THEN Solid(Said.text)[1].rows ELSE <<>>)
  BY <1>1, NoteComes DEF DInv
<1> PICK text, at : text = Said.text /\ at = Event.packet.pts
  OBVIOUS
<1>3. /\ Solid(text) \in Seq(Lines)
      /\ IsRecord(text) => Solid(text)[1].rows \in Seq(Nat)
      /\ \A pts : Flat(RowsBrought(pts)') = Flat(RowsBrought(pts)) \o
           (IF at = pts /\ ~IsRecord(text) THEN Solid(text) ELSE <<>>)
      /\ Flat(TrailingBrought') = Flat(TrailingBrought) \o
           (IF IsRecord(text) THEN Solid(text)[1].rows ELSE <<>>)
  BY <1>2, SolidType
<1>4. /\ IsRecord(text) => trailing = <<>> /\ trailing' = Solid(text)[1].rows
                           /\ unclaimed' = unclaimed
      /\ ~IsRecord(text) => unclaimed' = Extended(unclaimed, at, Solid(text))
                            /\ trailing' = trailing
  BY <1>1 DEF ReadAnnotation, AnnotationRefused
<1>5. /\ trailed \in Seq(Nat) /\ trailing \in Seq(Nat)
      /\ trailed \o trailing = Flat(TrailingBrought)
  BY DEF TrailingStand
<1>6. TrailingStand'
  <2>1. CASE IsRecord(text)
    <3>1. Flat(TrailingBrought') = Flat(TrailingBrought) \o trailing' /\ trailing' \in Seq(Nat)
      BY <1>3, <1>4, <2>1
    <3>2. Flat(TrailingBrought) = trailed
      BY <1>4, <1>5, <2>1, BehindNothing, BehindMore
    <3>3. QED
      BY <1>1, <1>5, <3>1, <3>2 DEF TrailingStand
  <2>2. CASE ~IsRecord(text)
    <3>1. Flat(TrailingBrought) \in Seq(Nat)
      BY <1>5, BehindNothing, BehindMore
    <3>2. Flat(TrailingBrought') = Flat(TrailingBrought)
      BY <1>3, <2>2, <3>1, BehindNothing, BehindMore
    <3>3. QED
      BY <1>1, <1>4, <1>5, <2>2, <3>2 DEF TrailingStand
  <2>3. QED
    BY <2>1, <2>2
<1>7. ASSUME NEW pts
      PROVE  /\ At(claimed', pts) \in Seq(Lines) /\ At(unclaimed', pts) \in Seq(Lines)
             /\ At(claimed', pts) \o At(unclaimed', pts) = Flat(RowsBrought(pts)')
  <2>1. /\ At(claimed, pts) \in Seq(Lines) /\ At(unclaimed, pts) \in Seq(Lines)
        /\ At(claimed, pts) \o At(unclaimed, pts) = Flat(RowsBrought(pts))
        /\ At(claimed', pts) = At(claimed, pts)
    BY <1>1 DEF RowsStand
  <2>2. CASE at = pts /\ ~IsRecord(text)
    <3>1. At(unclaimed', pts) = At(unclaimed, pts) \o Solid(text)
      <4>1. unclaimed' = Extended(unclaimed, pts, Solid(text))
        BY <1>4, <2>2
      <4>2. At(Extended(unclaimed, pts, Solid(text)), pts) = At(unclaimed, pts) \o Solid(text)
        BY ExtendedAt
      <4>3. QED
        BY <4>1, <4>2
    <3>2. Flat(RowsBrought(pts)') = Flat(RowsBrought(pts)) \o Solid(text)
      BY <1>3, <2>2
    <3>3. Solid(text) \in Seq(Lines)
      BY <1>3
    <3>4. At(claimed, pts) \o (At(unclaimed, pts) \o Solid(text)) = Flat(RowsBrought(pts)')
      <4> PICK a \in Seq(Lines), b \in Seq(Lines), c \in Seq(Lines) :
            a = At(claimed, pts) /\ b = At(unclaimed, pts) /\ c = Solid(text)
        BY <2>1, <3>3
      <4>1. a \o (b \o c) = (a \o b) \o c
        BY BehindMore
      <4>2. QED
        BY <2>1, <3>2, <4>1
    <3>5. At(unclaimed', pts) \in Seq(Lines)
      BY <2>1, <3>1, <3>3, BehindMore
    <3>6. QED
      BY <2>1, <3>1, <3>4, <3>5
  <2>3. CASE ~(at = pts /\ ~IsRecord(text))
    <3>1. At(unclaimed', pts) = At(unclaimed, pts)
      BY <1>4, <2>3, ExtendedAt
    <3>2. Flat(RowsBrought(pts)) \in Seq(Lines)
      BY <2>1, BehindNothing, BehindMore
    <3>3. Flat(RowsBrought(pts)') = Flat(RowsBrought(pts))
      BY <1>3, <2>3, <3>2, BehindNothing, BehindMore
    <3>4. QED
      BY <2>1, <3>1, <3>3
  <2>4. QED
    BY <2>2, <2>3
<1>8. RowsStand'
  BY <1>7 DEF RowsStand
<1>9. QED
  BY <1>6, <1>8

LEMMA NotesTaken ==
  ASSUME FieldsOK, NotesMatched, RowsStand, TrailingStand,
         (\E pts \in DOMAIN unclaimed : TakeRows(pts)) \/ TakeTrailing
  PROVE  RowsStand' /\ TrailingStand'
<1>1. UNCHANGED <<wire, place, hand, log, handled, says>>
  BY DEF TakeRows, TakeTrailing, core, calls
<1>2. /\ \A pts : Flat(RowsBrought(pts)') = Flat(RowsBrought(pts))
      /\ Flat(TrailingBrought') = Flat(TrailingBrought)
  <2>1. /\ FramesBehind(AnnotationStream)' = FramesBehind(AnnotationStream)
        /\ FramesTold(AnnotationStream)' = FramesTold(AnnotationStream)
    BY <1>1, FramesStay
  <2>2. QED
    BY <1>1, <2>1, NothingBrought DEF FieldsOK
<1>3. CASE TakeTrailing
  <2>1. /\ UNCHANGED <<claimed, unclaimed>>
        /\ trailed' = trailed \o trailing /\ trailing' = <<>>
    BY <1>3 DEF TakeTrailing
  <2>2. ASSUME NEW pts
        PROVE  /\ At(claimed', pts) \in Seq(Lines) /\ At(unclaimed', pts) \in Seq(Lines)
               /\ At(claimed', pts) \o At(unclaimed', pts) = Flat(RowsBrought(pts)')
    BY <1>2, <2>1 DEF RowsStand
  <2>3. trailed \in Seq(Nat) /\ trailing \in Seq(Nat)
        /\ trailed \o trailing = Flat(TrailingBrought)
    BY DEF TrailingStand
  <2>4. /\ trailed' \in Seq(Nat) /\ trailing' \in Seq(Nat)
        /\ trailed' \o trailing' = Flat(TrailingBrought)
    BY <2>1, <2>3, BehindNothing, BehindMore
  <2>5. QED
    BY <1>2, <2>2, <2>4 DEF RowsStand, TrailingStand
<1>4. ASSUME NEW at \in DOMAIN unclaimed, TakeRows(at)
      PROVE  RowsStand' /\ TrailingStand'
  <2>1. /\ UNCHANGED <<trailing, trailed>>
        /\ claimed' = Extended(claimed, at, unclaimed[at])
        /\ unclaimed' = [p \in DOMAIN unclaimed \ {at} |-> unclaimed[p]]
    BY <1>4 DEF TakeRows
  <2>2. ASSUME NEW pts
        PROVE  /\ At(claimed', pts) \in Seq(Lines) /\ At(unclaimed', pts) \in Seq(Lines)
               /\ At(claimed', pts) \o At(unclaimed', pts) = Flat(RowsBrought(pts)')
    <3>1. /\ At(claimed, pts) \in Seq(Lines) /\ At(unclaimed, pts) \in Seq(Lines)
          /\ At(claimed, pts) \o At(unclaimed, pts) = Flat(RowsBrought(pts)')
      BY <1>2 DEF RowsStand
    <3>2. CASE pts = at
      <4>1. At(unclaimed', pts) = <<>> /\ At(unclaimed, pts) = unclaimed[at]
        BY <2>1, <3>2 DEF At
      <4>2. At(claimed', pts) = At(claimed, pts) \o At(unclaimed, pts)
        BY <2>1, <3>2, <4>1, ExtendedAt
      <4>3. QED
        BY <3>1, <4>1, <4>2, BehindNothing, BehindMore
    <3>3. CASE pts # at
      <4>1. At(unclaimed', pts) = At(unclaimed, pts)
        BY <2>1, <3>3 DEF At
      <4>2. At(claimed', pts) = At(claimed, pts)
        BY <2>1, <3>3, ExtendedAt
      <4>3. QED
        BY <3>1, <4>1, <4>2
    <3>4. QED
      BY <3>2, <3>3
  <2>3. TrailingStand'
    BY <1>2, <2>1 DEF TrailingStand
  <2>4. QED
    BY <2>2, <2>3 DEF RowsStand
<1>5. QED
  BY <1>3, <1>4

NotesStand == NotesMatched /\ (Whole => RowsStand /\ TrailingStand)

LEMMA NextNotes ==
  ASSUME DInv, LastSaid, NotesStand, [Next]_vars
  PROVE  NotesStand'
<1>1. /\ NotesMatched /\ ReadingOK /\ FieldsOK
      /\ Whole' => Whole /\ RowsStand /\ TrailingStand
  BY WholeBefore DEF DInv, NotesStand
<1>2. CASE Pump
  <2>1. /\ handled' = handled /\ UNCHANGED <<wire, says, rows, claimed, trailed>>
    <3>1. UNCHANGED wire
      BY <1>2, ReadingSteps DEF DInv, Pump, StepOK, Stepped
    <3>2. QED
      BY <1>2, <3>1 DEF Pump, demuxer, calls, taken
  <2>2. QED
    BY <1>1, <1>2, <2>1, FramesReadOn, NotesUnmoved DEF NotesStand
<1>3. CASE ~Pump
  <2>1. UNCHANGED <<wire, place, hand, log, says>>
    BY <1>3, ReadingLeftAlone
  <2>2. CASE UNCHANGED <<handled, rows, claimed, trailed>>
    <3>1. /\ FramesBehind(AnnotationStream)' = FramesBehind(AnnotationStream)
          /\ FramesTold(AnnotationStream)' = FramesTold(AnnotationStream)
      BY <2>1, <2>2, FramesStay
    <3>2. QED
      BY <1>1, <2>1, <2>2, <3>1, NotesUnmoved DEF NotesStand
  <2>3. ASSUME NEW method, NEW kind, Looks(method, kind),
               ~(kind = "Frame" /\ Event.packet.stream = AnnotationStream),
               UNCHANGED <<rows, claimed, trailed>>
        PROVE  NotesStand'
    <3>1. /\ FramesBehind(AnnotationStream)' = FramesBehind(AnnotationStream)
          /\ FramesTold(AnnotationStream)' = FramesTold(AnnotationStream)
      BY <1>1, <2>1, <2>3, FramesLookedAt
    <3>2. handled' \in {handled, handled + 1}
      BY <2>3 DEF Looks
    <3>3. QED
      BY <1>1, <2>1, <2>3, <3>1, <3>2, NotesUnmoved DEF NotesStand
  <2>4. CASE UNCHANGED vars \/ CoreFails \/ SourceFails
    <3>1. UNCHANGED <<handled, rows, claimed, trailed>>
      BY <2>4 DEF vars, demuxer, calls, taken, CoreFails, SourceFails
    <3>2. QED
      BY <2>2, <3>1
  <2>5. CASE OpenMain \/ OpenStream \/ OpenIgnores \/ OpenEndsEarly \/ OpenEnds
    <3>1. PICK method, kind : Looks(method, kind) /\ kind # "Frame"
      BY <2>5 DEF OpenMain, OpenStream, OpenIgnores, OpenEndsEarly, OpenEnds
    <3>2. UNCHANGED <<rows, claimed, trailed>>
      BY <2>5 DEF OpenMain, OpenStream, OpenIgnores, OpenEndsEarly, OpenEnds, taken
    <3>3. QED
      BY <2>3, <3>1, <3>2
  <2>6. CASE ReadIgnores \/ ReadRestated \/ ReadEnds
    <3>1. PICK method, kind : Looks(method, kind) /\ kind # "Frame"
      BY <2>6 DEF ReadIgnores, ReadRestated, ReadEnds, Reads
    <3>2. UNCHANGED <<rows, claimed, trailed>>
      BY <2>6 DEF ReadIgnores, ReadRestated, ReadEnds, taken
    <3>3. QED
      BY <2>3, <3>1, <3>2
  <2>7. CASE FirstPacket \/ NextPacket
    <3>1. PICK method : Looks(method, "Frame") /\ Event.packet.stream = 1
      BY <2>7 DEF FirstPacket, NextPacket, ReadsFrame, Reads
    <3>2. UNCHANGED <<rows, claimed, trailed>>
      BY <2>7 DEF FirstPacket, NextPacket, taken
    <3>3. 1 # AnnotationStream
      BY DEF AnnotationStream
    <3>4. QED
      BY <2>3, <3>1, <3>2, <3>3
  <2>8. CASE RefuseAnnotation
    <3>1. NotesMatched'
      BY <1>1, <2>1, <2>8, NoteComes DEF RefuseAnnotation
    <3>2. ~Whole'
      BY <2>8 DEF RefuseAnnotation, Fails, Whole
    <3>3. QED
      BY <3>1, <3>2 DEF NotesStand
  <2>9. CASE ReadAnnotation
    <3>1. NotesMatched'
      BY <1>1, <2>1, <2>9, NoteComes DEF ReadAnnotation
    <3>2. QED
      BY <1>1, <2>9, <3>1, NoteRead DEF NotesStand
  <2>10. CASE Caller
    <3>1. CASE (\E pts \in DOMAIN unclaimed : TakeRows(pts)) \/ TakeTrailing
      <4>1. handled' = handled
        BY <3>1 DEF TakeRows, TakeTrailing, calls
      <4>2. NotesMatched'
        <5>1. /\ FramesBehind(AnnotationStream)' = FramesBehind(AnnotationStream)
              /\ FramesTold(AnnotationStream)' = FramesTold(AnnotationStream)
          BY <2>1, <4>1, FramesStay
        <5>2. QED
          BY <1>1, <2>1, <4>1, <5>1, NothingBrought DEF FieldsOK
      <4>3. QED
        BY <1>1, <3>1, <4>2, NotesTaken DEF NotesStand
    <3>2. CASE CallRead \/ \E annotated \in BOOLEAN : CallOpen(annotated)
      <4>1. UNCHANGED <<handled, rows, claimed, trailed>>
        BY <3>2 DEF CallRead, CallOpen, taken
      <4>2. QED
        BY <2>2, <4>1
    <3>3. QED
      BY <2>10, <3>1, <3>2 DEF Caller
  <2>11. QED
    BY <1>3, <2>4, <2>5, <2>6, <2>7, <2>8, <2>9, <2>10 DEF Next, Works
<1>4. QED
  BY <1>2, <1>3

LEMMA NotesAlwaysStand == Spec => []NotesStand
<1> DEFINE Inv == DInv /\ LastSaid /\ NotesStand
<1>1. Init => Inv
  BY InitDInv, InitLastSaid, InitNotes DEF NotesStand
<1>2. Inv /\ [Next]_vars => Inv'
  BY NextDInv, NextLastSaid, NextNotes
<1>3. Inv => NotesStand
  OBVIOUS
<1>4. QED
  BY <1>1, <1>2, <1>3, PTL DEF Spec

(* No row that an annotation packet brings is lost, doubled or moved to    *)
(* another frame: for every PTS, what has been taken and what waits is, one *)
(* behind the other, what the packets at that PTS brought, in the wire's   *)
(* order, wherever the caller takes them and the source fails.             *)
THEOREM RowsAlwaysKept == Spec => []RowsKept
<1>1. NotesStand => RowsKept
  BY DEF NotesStand, RowsStand, RowsKept, Flat
<1>2. QED
  BY <1>1, NotesAlwaysStand, PTL

(* The same of the rows of a record, which belong to no frame: a second    *)
(* record is refused while the first waits, and otherwise goes behind what *)
(* the caller took.                                                        *)
THEOREM TrailingAlwaysKept == Spec => []TrailingKept
<1>1. NotesStand => TrailingKept
  BY DEF NotesStand, TrailingStand, TrailingKept, Flat
<1>2. QED
  BY <1>1, NotesAlwaysStand, PTL
=============================================================================
