---------------------------- MODULE PushDemuxer ----------------------------
(***************************************************************************)
(* PushDemuxer of src/demux.rs and a caller of it: bytes go in through     *)
(* feed and payload_space, in pieces of any size, and events come out of   *)
(* next_event, whose loop is taken here one arm at a time.                 *)
(*                                                                         *)
(* A byte is known by its place in the stream, so a buffer is a sequence   *)
(* of places and shows whether a byte was lost, doubled or moved.  What    *)
(* the bytes say is the wire: which unit starts where.  Every method takes *)
(* &mut self: while `calling', only the loop runs.                         *)
(***************************************************************************)
EXTENDS NutContext

CONSTANTS
  Wires,           (* The streams a sender may send.                       *)
  FileIdLen,       (* FILE_ID_LEN: 25.                                     *)
  MaxBuffered,     (* Limits::max_buffered                                 *)
  CompactAt,       (* How many read bytes are always worth dropping: 64 KiB*)
  Chunks,          (* The sizes of the pieces bytes arrive in.             *)
  CeilingChoices   (* The ceilings a caller may set on a stream.           *)

ASSUME BufferAssumption ==
  /\ {FileIdLen, CompactAt} \subseteq Nat \ {0}
  /\ MaxBuffered \in Nat
  /\ Chunks \subseteq Nat \ {0}
  /\ CeilingChoices \subseteq Nat

ASSUME WiresAssumption == \A w \in Wires : IsWire(w)

VARIABLES
  (* The caller and its source.                                            *)
  wire,      (* The stream being sent.                                     *)
  fed,       (* How much of it the demuxer has been handed.                *)
  calling,   (* Whether next_event is running.                             *)
  ret,       (* What the last call to it answered.                         *)
  log,       (* The events it has answered with.                           *)
  (* The demuxer's fields.                                                 *)
  buf, at, pos, state, eof, pending, ctx, ceilings, payload

source  == <<wire, fed>>
call    == <<calling, ret, log>>
input   == <<buf, at, pos>>
vars    == <<source, call, input, state, eof, pending, ctx, ceilings, payload>>

-----------------------------------------------------------------------------
Zero == -1                        (* A payload byte not yet written.       *)

Front    == UnitAt(wire, pos)
Buffered == Len(buf) - at

Identifier == [in |-> "identifier"]
AtUnit     == [in |-> "unit"]
Ended      == [in |-> "ended"]
Skip(remaining) == [in |-> "skip", remaining |-> remaining]
Payload(packet, want, filled) ==
  [in |-> "payload", packet |-> packet, want |-> want, filled |-> filled]

(* The answers of next_event. "more" is None, the rest are errors.         *)
Answers == {"more", "event"} \cup Errors

Idle == ~calling /\ ret \notin Errors
Over == ret \in Errors \/ state.in = "ended"

-----------------------------------------------------------------------------
Init ==
  /\ wire \in Wires
  /\ fed = 0
  /\ calling = FALSE
  /\ ret = "more"
  /\ log = <<>>
  /\ buf = <<>>
  /\ at = 0
  /\ pos = 0
  /\ state = Identifier
  /\ eof = FALSE
  /\ pending = <<>>
  /\ ctx = NewContext
  /\ ceilings = <<>>
  /\ payload = <<>>

-----------------------------------------------------------------------------
(* The caller. Once it has said finish, no more bytes come.                *)

(* compact: read bytes go when there are CompactAt of them, or at least as *)
(* many as are not read. This is also the case where all have been read.   *)
Compacts == at >= CompactAt \/ at * 2 >= Len(buf)
Kept     == IF Compacts THEN SubSeq(buf, at + 1, Len(buf)) ELSE buf

Feed(n) ==
  /\ Idle
  /\ ~eof
  /\ fed + n <= wire.end
  /\ fed' = fed + n
  /\ buf' = Kept \o [i \in 1 .. n |-> fed + i - 1]
  /\ at' = IF Compacts THEN 0 ELSE at
  /\ UNCHANGED <<wire, call, pos, state, eof, pending, ctx, ceilings, payload>>

Finish ==
  /\ Idle
  /\ ~eof
  /\ eof' = TRUE
  /\ UNCHANGED <<source, call, input, state, pending, ctx, ceilings, payload>>

(* payload_space answers, and the caller reads n bytes of its source there *)
(* before payload_filled.                                                  *)
PayloadFrom == Len(payload) - state.want + state.filled

(* A mutation: the reader may have filled more than there was room for.    *)
FillPayloadOver(n) ==
  /\ Idle
  /\ ~eof
  /\ state.in = "payload"
  /\ at = Len(buf)
  /\ fed + n <= wire.end
  /\ fed' = fed + n
  /\ payload' = [i \in DOMAIN payload |->
       IF i \in PayloadFrom + 1 .. PayloadFrom + n THEN fed + i - PayloadFrom - 1
                                                   ELSE payload[i]]
  /\ state' = [state EXCEPT !.filled = @ + n]
  /\ pos' = pos + n
  /\ UNCHANGED <<wire, call, buf, at, eof, pending, ctx, ceilings>>

(* A mutation: payload_space answers while bytes wait in the buffer.       *)
FillPayloadPastBuffer(n) ==
  /\ Idle
  /\ ~eof
  /\ state.in = "payload"
  /\ n <= state.want - state.filled
  /\ fed + n <= wire.end
  /\ fed' = fed + n
  /\ payload' = [i \in DOMAIN payload |->
       IF i \in PayloadFrom + 1 .. PayloadFrom + n THEN fed + i - PayloadFrom - 1
                                                   ELSE payload[i]]
  /\ state' = [state EXCEPT !.filled = @ + n]
  /\ pos' = pos + n
  /\ UNCHANGED <<wire, call, buf, at, eof, pending, ctx, ceilings>>

FillPayload(n) ==
  /\ Idle
  /\ ~eof
  /\ state.in = "payload"
  /\ at = Len(buf)
  /\ n <= state.want - state.filled
  /\ fed + n <= wire.end
  /\ fed' = fed + n
  /\ payload' = [i \in DOMAIN payload |->
       IF i \in PayloadFrom + 1 .. PayloadFrom + n THEN fed + i - PayloadFrom - 1
                                                   ELSE payload[i]]
  /\ state' = [state EXCEPT !.filled = @ + n]
  /\ pos' = pos + n
  /\ UNCHANGED <<wire, call, buf, at, eof, pending, ctx, ceilings>>

(* take_payload, for the frame the last call announced.                    *)
TakePayload ==
  /\ Idle
  /\ ret = "event"
  /\ log[Len(log)].kind = "Frame"
  /\ payload # <<>>
  /\ payload' = <<>>
  /\ UNCHANGED <<source, call, input, state, eof, pending, ctx, ceilings>>

(* set_stream_limit, which grows the list to hold the stream.              *)
SetStreamLimit(stream, limit) ==
  /\ Idle
  /\ ceilings' = WithCeiling(ceilings, stream, limit)
  /\ UNCHANGED <<source, call, input, state, eof, pending, ctx, payload>>

CallNextEvent ==
  /\ Idle
  /\ IF pending = <<>>
       THEN calling' = TRUE /\ UNCHANGED <<ret, log, pending>>
       ELSE /\ ret' = "event"
            /\ log' = log \o pending
            /\ pending' = <<>>
            /\ UNCHANGED calling
  /\ UNCHANGED <<source, input, state, eof, ctx, ceilings, payload>>

-----------------------------------------------------------------------------
(* How the loop leaves: with an event, with an error, or through `more'.   *)

Advance(count) == at' = at + count /\ pos' = pos + count /\ UNCHANGED buf

Emit(event) == calling' = FALSE /\ ret' = "event" /\ log' = Append(log, event)

Answer(answer) == calling' = FALSE /\ ret' = answer /\ UNCHANGED log

(* Mutations: the end of the input is forgotten; bytes already read count. *)
MoreForgetsFinish(left) == Answer(IF left > MaxBuffered THEN "overfull" ELSE "more")

MoreCountsRead(left) ==
  Answer(IF eof THEN "truncated" ELSE IF left + at > MaxBuffered THEN "overfull" ELSE "more")

More(left) ==
  Answer(IF eof THEN "truncated" ELSE IF left > MaxBuffered THEN "overfull" ELSE "more")

(* State::Identifier                                                       *)

IdentifierShort ==
  /\ calling
  /\ state.in = "identifier"
  /\ Buffered < FileIdLen
  /\ More(Buffered)
  /\ UNCHANGED <<source, input, state, eof, pending, ctx, ceilings, payload>>

IdentifierRead ==
  /\ calling
  /\ state.in = "identifier"
  /\ Buffered >= FileIdLen
  /\ IF wire.nut THEN Advance(FileIdLen) /\ state' = AtUnit /\ UNCHANGED call
                 ELSE Answer("refused") /\ UNCHANGED <<input, state>>
  /\ UNCHANGED <<source, eof, pending, ctx, ceilings, payload>>

(* State::Skip                                                             *)

SkipPart ==
  /\ calling
  /\ state.in = "skip"
  /\ Buffered < state.remaining
  /\ Advance(Buffered)
  /\ state' = Skip(state.remaining - Buffered)
  /\ More(0)
  /\ UNCHANGED <<source, eof, pending, ctx, ceilings, payload>>

SkipRest ==
  /\ calling
  /\ state.in = "skip"
  /\ Buffered >= state.remaining
  /\ Advance(state.remaining)
  /\ state' = AtUnit
  /\ UNCHANGED <<source, call, eof, pending, ctx, ceilings, payload>>

(* State::Payload                                                          *)

Wanted == state.want - state.filled

(* A mutation: every piece is written where the first one went.            *)
FilledFromStart(take) ==
  [i \in DOMAIN payload |->
     IF i \in Len(payload) - state.want + 1 .. Len(payload) - state.want + take
       THEN buf[at + i - Len(payload) + state.want] ELSE payload[i]]

Filled(take) ==
  [i \in DOMAIN payload |->
     IF i \in PayloadFrom + 1 .. PayloadFrom + take THEN buf[at + i - PayloadFrom]
                                                    ELSE payload[i]]

PayloadPart ==
  /\ calling
  /\ state.in = "payload"
  /\ Buffered < Wanted
  /\ payload' = Filled(Buffered)
  /\ Advance(Buffered)
  /\ state' = [state EXCEPT !.filled = @ + Buffered]
  /\ More(0)
  /\ UNCHANGED <<source, eof, pending, ctx, ceilings>>

(* A mutation: the state is left as it was when the frame is handed over.  *)
PayloadRestStays ==
  /\ calling
  /\ state.in = "payload"
  /\ Buffered >= Wanted
  /\ payload' = Filled(Wanted)
  /\ Advance(Wanted)
  /\ state' = [state EXCEPT !.filled = state.want]
  /\ Emit(FrameEvent(state.packet, payload'))
  /\ UNCHANGED <<source, eof, pending, ctx, ceilings>>

PayloadRest ==
  /\ calling
  /\ state.in = "payload"
  /\ Buffered >= Wanted
  /\ payload' = Filled(Wanted)
  /\ Advance(Wanted)
  /\ state' = AtUnit
  /\ Emit(FrameEvent(state.packet, payload'))
  /\ UNCHANGED <<source, eof, pending, ctx, ceilings>>

(* State::Unit, with nothing buffered: the input ends here, or may yet go  *)
(* on. The headers end with the input if nothing ended them before.        *)

(* A mutation: finish is not looked at.                                    *)
UnitAwaitedForEver ==
  /\ calling
  /\ state.in = "unit"
  /\ Buffered = 0
  /\ Answer("more")
  /\ UNCHANGED <<source, input, state, eof, pending, ctx, ceilings, payload>>

UnitAwaited ==
  /\ calling
  /\ state.in = "unit"
  /\ Buffered = 0
  /\ ~eof
  /\ Answer("more")
  /\ UNCHANGED <<source, input, state, eof, pending, ctx, ceilings, payload>>

InputEnds ==
  /\ calling
  /\ state.in = "unit"
  /\ Buffered = 0
  /\ eof
  /\ state' = Ended
  /\ ctx' = HeadersClosed(ctx)
  /\ Emit(IF HeadersDue(ctx) THEN EndOfHeaders ELSE EndOfInput)
  /\ UNCHANGED <<source, input, eof, pending, ceilings, payload>>

(* State::Ended: the same answer every time. It is logged the first time.  *)
EndedAgain ==
  /\ calling
  /\ state.in = "ended"
  /\ calling' = FALSE
  /\ ret' = "event"
  /\ log' = IF log[Len(log)] = EndOfInput THEN log ELSE Append(log, EndOfInput)
  /\ UNCHANGED <<source, input, state, eof, pending, ctx, ceilings, payload>>

(* State::Unit, at a byte that opens no packet: the headers end first.     *)
HeadersEnd ==
  /\ calling
  /\ state.in = "unit"
  /\ Buffered > 0
  /\ Front.kind = "frame"
  /\ HeadersDue(ctx)
  /\ ctx' = HeadersClosed(ctx)
  /\ Emit(EndOfHeaders)
  /\ UNCHANGED <<source, input, state, eof, pending, ceilings, payload>>

-----------------------------------------------------------------------------
(* State::Unit, at a packet. It waits for its head, and then for its body  *)
(* unless the head already settles what becomes of it.                     *)

AtPacket == calling /\ state.in = "unit" /\ Buffered > 0 /\ Front.kind # "frame"

(* A mutation: a packet that fills the buffer exactly waits for one more.  *)
PacketShortByOne ==
  /\ AtPacket
  /\ \/ Buffered < Front.head
     \/ /\ ~LengthRefused(Front)
        /\ ~SteppedOver(Front)
        /\ Buffered <= Front.head + Front.body
  /\ More(Buffered)
  /\ UNCHANGED <<source, input, state, eof, pending, ctx, ceilings, payload>>

PacketShort ==
  /\ AtPacket
  /\ \/ Buffered < Front.head
     \/ /\ ~LengthRefused(Front)
        /\ ~SteppedOver(Front)
        /\ Buffered < Front.head + Front.body
  /\ More(Buffered)
  /\ UNCHANGED <<source, input, state, eof, pending, ctx, ceilings, payload>>

PacketLengthRefused ==
  /\ AtPacket
  /\ Buffered >= Front.head
  /\ LengthRefused(Front)
  /\ Answer("refused")
  /\ UNCHANGED <<source, input, state, eof, pending, ctx, ceilings, payload>>

PacketSteppedOver ==
  /\ AtPacket
  /\ Buffered >= Front.head
  /\ ~LengthRefused(Front)
  /\ SteppedOver(Front)
  /\ Advance(Front.head)
  /\ state' = Skip(Front.body)
  /\ UNCHANGED <<source, call, eof, pending, ctx, ceilings, payload>>

PacketWhole ==
  /\ AtPacket
  /\ Buffered >= Front.head + Front.body
  /\ ~LengthRefused(Front)
  /\ ~SteppedOver(Front)

PacketBodyRefused ==
  /\ PacketWhole
  /\ BodyRefused(ctx, Front) \/ BodyPanics(ctx, Front)
  /\ Answer(IF BodyPanics(ctx, Front) THEN "panic" ELSE "refused")
  /\ ctx' = BodyRefusedLeaves(ctx, Front)
  /\ UNCHANGED <<source, input, state, eof, pending, ceilings, payload>>

PacketBodyRead ==
  /\ PacketWhole
  /\ ~BodyRefused(ctx, Front)
  /\ ~BodyPanics(ctx, Front)
  /\ Advance(Front.head + Front.body)
  /\ ctx' = PacketRead(ctx, Front)
  /\ pending' = PendingAfter(ctx, Front)
  /\ IF PacketEvent(Front) = <<>> THEN UNCHANGED call ELSE Emit(PacketEvent(Front)[1])
  /\ UNCHANGED <<source, state, eof, ceilings, payload>>

-----------------------------------------------------------------------------
(* State::Unit, at a frame.                                                *)

AtFrame ==
  calling /\ state.in = "unit" /\ Buffered > 0 /\ Front.kind = "frame" /\ ~HeadersDue(ctx)

FrameStops   == FrameRefused(ctx, Front, Buffered, Ceiling(ceilings, Front.stream))
FrameBlowsUp == FramePanics(ctx, Front, Buffered)

FrameShort ==
  /\ AtFrame
  /\ ~FrameStops
  /\ ~FrameBlowsUp
  /\ ~HeadSeen(ctx, Front, Buffered)
  /\ More(Buffered)
  /\ UNCHANGED <<source, input, state, eof, pending, ctx, ceilings, payload>>

FrameHeadRefused ==
  /\ AtFrame
  /\ FrameStops \/ FrameBlowsUp
  /\ Answer(IF FrameBlowsUp THEN "panic" ELSE "refused")
  /\ UNCHANGED <<source, input, state, eof, pending, ctx, ceilings, payload>>

FrameHeadRead ==
  /\ AtFrame
  /\ FrameReads(ctx, Front, Buffered, Ceiling(ceilings, Front.stream))
  /\ Advance(Front.head)
  /\ ctx' = FrameRead(ctx, Front)
  /\ UNCHANGED <<source, call, eof, pending, ceilings>>

(* An end-of-relevance frame says where its stream ends; its bytes go.     *)
RelevanceEnds ==
  /\ FrameHeadRead
  /\ Front.eor
  /\ state' = Skip(OnWire(ctx, Front))
  /\ UNCHANGED payload

FrameBegins ==
  /\ FrameHeadRead
  /\ ~Front.eor
  /\ state' = Payload(Packet(ctx, Front), OnWire(ctx, Front), 0)
  /\ payload' = Elided(ctx, Front) \o [i \in 1 .. OnWire(ctx, Front) |-> Zero]

-----------------------------------------------------------------------------
Caller ==
  \/ \E n \in Chunks : Feed(n) \/ FillPayload(n)
  \/ Finish
  \/ TakePayload
  \/ \E stream \in 1 .. MaxStreams, limit \in CeilingChoices : SetStreamLimit(stream, limit)
  \/ CallNextEvent

NextEvent ==
  \/ IdentifierShort \/ IdentifierRead
  \/ SkipPart \/ SkipRest
  \/ PayloadPart \/ PayloadRest
  \/ UnitAwaited \/ InputEnds \/ EndedAgain \/ HeadersEnd
  \/ PacketShort \/ PacketLengthRefused \/ PacketSteppedOver
  \/ PacketBodyRefused \/ PacketBodyRead
  \/ FrameShort \/ FrameHeadRefused \/ RelevanceEnds \/ FrameBegins

(* An error is the end of it: the caller closes the connection.            *)
Closed == ret \in Errors /\ UNCHANGED vars

Next == Caller \/ NextEvent \/ Closed

(* next_event returns, and its caller asks again until it is over.         *)
Spec == Init /\ [][Next]_vars /\ WF_vars(NextEvent) /\ WF_vars(CallNextEvent)

-----------------------------------------------------------------------------
(* Type correctness: what each field holds, and how the state of the       *)
(* parser, the buffer and the payload bound each other. A payload being    *)
(* filled always has the room the parser counts on.                        *)
StateOK ==
  \/ state \in {Identifier, AtUnit, Ended}
  \/ state.in = "skip" /\ state.remaining \in Nat /\ state = Skip(state.remaining)
  \/ /\ state.in = "payload"
     /\ state = Payload(state.packet, state.want, state.filled)
     /\ state.want \in 0 .. Len(payload)
     /\ state.filled \in 0 .. state.want

TypeOK ==
  /\ wire \in Wires
  /\ fed \in 0 .. wire.end
  /\ calling \in BOOLEAN
  /\ ret \in Answers
  /\ buf \in Seq(Nat)
  /\ at \in 0 .. Len(buf)
  /\ pos \in Nat
  /\ StateOK
  /\ eof \in BOOLEAN
  /\ pending \in {<<>>, <<EndOfHeaders>>}
  /\ IsContext(ctx)
  /\ ceilings \in Seq(CeilingChoices \cup {NoCeiling})
  /\ payload \in Seq(Int)

(* An event finds the parser between two units: the payload of a frame     *)
(* that was announced is not one that is still being filled, so taking it  *)
(* takes nothing from the parser; and what is pending is handed over first.*)
EventsBetweenUnits ==
  /\ ret = "event" /\ ~calling => state.in # "payload"
  /\ pending # <<>> => ~calling /\ state = AtUnit

(* No byte is lost, doubled or moved: what the buffer holds unread is the  *)
(* stream from pos to where the caller has handed it over, through feeds,  *)
(* lazy compaction, and payload bytes that never saw the buffer.           *)
BufferHoldsNextBytes ==
  /\ pos + Buffered = fed
  /\ \A i \in 1 .. Buffered : buf[at + i] = pos + i - 1

(* next_event asks for more only when it has to: what it has is not all of *)
(* the identifier or the front unit, or it is inside a body and holds      *)
(* nothing. So no unit that has arrived is ever kept waiting.              *)
ShortOf ==
  CASE state.in = "identifier" -> Buffered < FileIdLen
    [] state.in = "unit" ->
         \/ Buffered = 0
         \/ Buffered < Front.head
         \/ /\ Front.kind # "frame"
            /\ ~SteppedOver(Front)
            /\ Buffered < Front.head + Front.body
    [] state.in = "skip" -> Buffered = 0 /\ state.remaining > 0
    [] state.in = "payload" -> Buffered = 0 /\ state.filled < state.want
    [] OTHER -> FALSE

AsksOnlyWhenShort == [][calling /\ ~calling' /\ ret' = "more" => ShortOf']_vars

(* After finish, next_event never asks for more: every call to it answers  *)
(* with an event or an error.                                              *)
NoMoreAfterFinish == [][calling /\ eof => ret' # "more"]_<<calling, ret, log>>

(* Nothing but a header longer than the buffer's limit is refused for      *)
(* being unfinished: whatever has piled up behind the front unit, and      *)
(* whatever was read and not compacted yet, does not count.                *)
HeldWhole(u) ==
  IF u.kind = "frame" \/ LengthRefused(u) \/ SteppedOver(u) THEN u.head ELSE u.head + u.body

RoomForEveryUnit ==
  /\ FileIdLen <= MaxBuffered + 1
  /\ \A p \in DOMAIN wire.unit : HeldWhole(wire.unit[p]) <= MaxBuffered + 1

NeverOverfull == RoomForEveryUnit => ret # "overfull"

-----------------------------------------------------------------------------
(* The order of events, over the log.                                      *)

IsA(i, kind) == log[i].kind = kind

(* The main header that declared the streams event i speaks of: the last   *)
(* to declare another number of them than the one before it.               *)
Declaring(i) ==
  {j \in 1 .. i : /\ IsA(j, "MainHeader")
                 /\ \A k \in 1 .. j - 1 : IsA(k, "MainHeader") =>
                      (\E m \in k + 1 .. j - 1 : IsA(m, "MainHeader")) \/ log[k].count # log[j].count}

SetDeclaredAt(i) == CHOOSE j \in Declaring(i) : \A k \in Declaring(i) : k <= j

HeadersFirst(i) ==
  \A stream \in 1 .. log[SetDeclaredAt(i)].count :
    \E k \in SetDeclaredAt(i) .. i : IsA(k, "StreamHeader") /\ log[k].stream = stream

(* EndOfHeaders comes once for each set of streams a main header declares, *)
(* after the header of each of them; frames come after it and are of       *)
(* declared streams; nothing comes after EndOfInput.                       *)
EventsInOrder ==
  \A i \in DOMAIN log :
    /\ IsA(i, "EndOfHeaders") =>
         /\ Declaring(i) # {}
         /\ HeadersFirst(i)
         /\ \A k \in SetDeclaredAt(i) .. i - 1 : ~IsA(k, "EndOfHeaders")
    /\ IsA(i, "Frame") =>
         /\ Declaring(i) # {}
         /\ \E k \in SetDeclaredAt(i) .. i : IsA(k, "EndOfHeaders")
         /\ log[i].packet.stream \in 1 .. log[SetDeclaredAt(i)].count
    /\ IsA(i, "EndOfInput") => i = Len(log)

(* Every stream whose header is here reorders as deep as that header says, *)
(* through restated headers, and its reorder buffer stays in order.        *)
ReorderAsDeclared ==
  \A i \in Known(ctx) :
    LET buffer == ctx.clocks[i].buffer
    IN  /\ Len(buffer) = Header(ctx, i).delay + 1
        /\ \A j \in 1 .. Header(ctx, i).delay : buffer[j] <= buffer[j + 1]

(* What restated info packets say again replaces what they said, in a      *)
(* bounded list: no name is held twice.                                    *)
TagLists == {ctx.fileTags} \cup {ctx.tags[i] : i \in DOMAIN ctx.tags}

TagsReplaced ==
  \A tags \in TagLists :
    /\ Len(tags) <= MaxTags
    /\ \A i, j \in DOMAIN tags : tags[i][1] = tags[j][1] => i = j

(* No payload is begun that is longer than its stream may carry, the bytes *)
(* its header elides included: nothing is allocated for it.                *)
AllocatesWithinCeiling ==
  [][state.in = "unit" /\ state'.in = "payload" =>
       Len(payload') <= Ceiling(ceilings, Front.stream)]_vars

(* A syncpoint sets every stream whose header is here to one instant: what *)
(* two clocks say differs by less than a tick of each.                     *)
Instant(i, j) ==
  LET a == Header(ctx, i).base
      b == Header(ctx, j).base
  IN  [time |-> ctx.clocks[i].last * a[1] * b[2], tick |-> a[1] * b[2]]

Together(i, j) ==
  LET apart == Instant(i, j).time - Instant(j, i).time
      ticks == Instant(i, j).tick + Instant(j, i).tick
  IN  -ticks < apart /\ apart < ticks

AllTogether == \A i, j \in Known(ctx) : Together(i, j)

SyncpointSetsOneInstant ==
  [][PacketBodyRead /\ Front.kind = "syncpoint" => AllTogether']_vars

(* A PTS of which the wire carried only the low bits has those low bits    *)
(* and is the one with them closest to the last.                           *)
LowBitsLiftToNearest ==
  [][FrameHeadRead /\ Front.coded /\ Front.pts < FrameSpan(ctx, Front) =>
       LET pts == ctx'.clocks[Front.stream].last
           off == pts - FrameLast(ctx, Front)
       IN  /\ pts % FrameSpan(ctx, Front) = Front.pts
           /\ 2 * off <= FrameSpan(ctx, Front)
           /\ -2 * off <= FrameSpan(ctx, Front)]_vars

(* Once finish is said, calling next_event comes to an end: EndOfInput or  *)
(* an error.                                                               *)
FinishEnds == eof ~> Over

(* A value on the wire never makes the demuxer panic.                      *)
NeverPanics == ret # "panic"

-----------------------------------------------------------------------------
(* How the bytes arrive changes nothing: through any feeds, fills, partial *)
(* bodies and restarted parses, the demuxer reads unit after unit of the   *)
(* wire, and its frames are the bytes the wire has.                        *)

InHand ==
  CASE state.in = "skip" -> <<[kind |-> "Skipped"]>>
    [] state.in = "payload" ->
         <<FrameEvent(state.packet,
             [i \in DOMAIN payload |->
                IF i > PayloadFrom THEN pos + i - PayloadFrom - 1 ELSE payload[i]])>>
    [] OTHER -> <<>>

Outstanding ==
  CASE state.in = "skip" -> state.remaining [] state.in = "payload" -> Wanted [] OTHER -> 0

Stage ==
  CASE ret \in Errors -> ret
    [] ret \notin Errors /\ state.in = "identifier" -> "opening"
    [] ret \notin Errors /\ state.in = "ended" -> "ended"
    [] OTHER -> "reading"

Reading == INSTANCE NutReading WITH
  place <- pos + Outstanding, stage <- Stage, hand <- InHand, log <- log \o pending

ReadsTheWire == Reading!Spec
=============================================================================
