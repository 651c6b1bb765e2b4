------------------------- MODULE PushDemuxerProofs -------------------------
(***************************************************************************)
(* What holds of the push demuxer for every wire, every way of cutting it  *)
(* into pieces and every limit: types, that the buffer holds exactly the   *)
(* bytes that come next, and, in the second half, that it implements       *)
(* NutReading: what the caller is told is what reading the wire unit by    *)
(* unit says, and no piece shows in it.                                    *)
(***************************************************************************)
EXTENDS PushDemuxer, NutContextProofs

-----------------------------------------------------------------------------
(* The buffer and the places in it.                                        *)

InputOK ==
  /\ fed \in Nat
  /\ buf \in Seq(Nat)
  /\ at \in 0 .. Len(buf)
  /\ pos \in Nat
  /\ BufferHoldsNextBytes

LEMMA InputTypes ==
  ASSUME InputOK
  PROVE  Len(buf) \in Nat /\ at \in Nat /\ Buffered \in Nat /\ Buffered = Len(buf) - at
BY DEF InputOK, Buffered

LEMMA AdvanceInput ==
  ASSUME InputOK, NEW k \in 0 .. Buffered, Advance(k), fed' = fed
  PROVE  InputOK'
<1>1. Len(buf) \in Nat /\ at \in Nat /\ Buffered = Len(buf) - at
  BY InputTypes
<1>2. buf' = buf /\ at' = at + k /\ pos' = pos + k
  BY DEF Advance
<1>3. at' \in 0 .. Len(buf') /\ pos' \in Nat
  BY <1>1, <1>2 DEF InputOK
<1>4. pos' + Buffered' = fed'
  BY <1>1, <1>2 DEF InputOK, BufferHoldsNextBytes, Buffered
<1>5. ASSUME NEW i \in 1 .. Buffered'
      PROVE  buf'[at' + i] = pos' + i - 1
  <2>1. k + i \in 1 .. Buffered
    BY <1>1, <1>2, <1>5 DEF Buffered
  <2>2. buf[at + (k + i)] = pos + (k + i) - 1
    BY <2>1 DEF InputOK, BufferHoldsNextBytes
  <2>3. at + (k + i) = at' + i /\ pos + (k + i) - 1 = pos' + i - 1
    BY <1>1, <1>2, <2>1 DEF InputOK
  <2>4. QED
    BY <1>2, <2>2, <2>3
<1>6. QED
  BY <1>2, <1>3, <1>4, <1>5 DEF InputOK, BufferHoldsNextBytes

LEMMA SameInput ==
  ASSUME InputOK, UNCHANGED <<fed, input>>
  PROVE  InputOK'
BY DEF InputOK, BufferHoldsNextBytes, Buffered, input

LEMMA Concatenated ==
  ASSUME NEW p \in Seq(Nat), NEW q \in Seq(Nat)
  PROVE  /\ p \o q \in Seq(Nat)
         /\ Len(p \o q) = Len(p) + Len(q)
         /\ \A i \in 1 .. Len(p) : (p \o q)[i] = p[i]
         /\ \A i \in 1 .. Len(q) : (p \o q)[Len(p) + i] = q[i]
OBVIOUS

(* Feeding compacts first, and what compacting drops was read.             *)
LEMMA FeedInput ==
  ASSUME InputOK, NEW n \in Nat \ {0}, Feed(n)
  PROVE  InputOK'
<1> DEFINE fresh == [i \in 1 .. n |-> fed + i - 1]
           kept  == Kept
           left  == IF Compacts THEN 0 ELSE at
<1>1. Len(buf) \in Nat /\ at \in Nat /\ Buffered = Len(buf) - at /\ fed \in Nat /\ pos \in Nat
  BY InputTypes DEF InputOK
<1>2. buf' = kept \o fresh /\ at' = left /\ pos' = pos /\ fed' = fed + n
  BY DEF Feed
<1>3. fresh \in Seq(Nat) /\ Len(fresh) = n /\ \A i \in 1 .. n : fresh[i] = fed + i - 1
  BY <1>1
<1>4. /\ kept \in Seq(Nat)
      /\ Len(kept) = left + Buffered
      /\ left \in Nat
      /\ \A i \in 1 .. Buffered : kept[left + i] = buf[at + i]
  <2>1. buf \in Seq(Nat) /\ at \in 0 .. Len(buf)
    BY DEF InputOK
  <2>2. CASE Compacts
    BY <1>1, <2>1, <2>2 DEF Kept
  <2>3. CASE ~Compacts
    BY <1>1, <2>1, <2>3 DEF Kept
  <2>4. QED
    BY <2>2, <2>3
<1> HIDE DEF fresh, kept, left
<1>5. /\ buf' \in Seq(Nat)
      /\ Len(buf') = left + Buffered + n
      /\ \A i \in 1 .. left + Buffered : buf'[i] = kept[i]
      /\ \A i \in 1 .. n : buf'[left + Buffered + i] = fresh[i]
  <2>1. /\ kept \o fresh \in Seq(Nat)
        /\ Len(kept \o fresh) = Len(kept) + Len(fresh)
        /\ \A i \in 1 .. Len(kept) : (kept \o fresh)[i] = kept[i]
        /\ \A i \in 1 .. Len(fresh) : (kept \o fresh)[Len(kept) + i] = fresh[i]
    BY <1>3, <1>4, Concatenated
  <2>2. buf' = kept \o fresh /\ Len(kept) = left + Buffered /\ Len(fresh) = n
    BY <1>2, <1>3, <1>4
  <2>3. QED
    BY <2>1, <2>2
<1>6. at' \in 0 .. Len(buf') /\ Buffered' = Buffered + n
  <2>1. Buffered' = Len(buf') - at'
    BY DEF Buffered
  <2>2. left \in Nat /\ Buffered \in Nat /\ n \in Nat /\ at' = left
    BY <1>2, <1>4, InputTypes
  <2>3. Len(buf') = left + Buffered + n
    BY <1>5
  <2>4. QED
    BY <2>1, <2>2, <2>3
<1>7. pos + Buffered = fed
  BY DEF InputOK, BufferHoldsNextBytes
<1>8. ASSUME NEW i \in 1 .. Buffered'
      PROVE  buf'[at' + i] = pos' + i - 1
  <2>1. CASE i \in 1 .. Buffered
    <3>1. buf'[at' + i] = kept[left + i]
      BY <1>1, <1>2, <1>4, <1>5, <2>1
    <3>2. buf[at + i] = pos + i - 1
      BY <2>1 DEF InputOK, BufferHoldsNextBytes
    <3>3. QED
      BY <1>2, <1>4, <2>1, <3>1, <3>2
  <2>2. CASE i \notin 1 .. Buffered
    <3>1. i - Buffered \in 1 .. n
      BY <1>1, <1>6, <1>8, <2>2
    <3>2. buf'[at' + i] = fresh[i - Buffered]
      <4>1. at' + i = left + Buffered + (i - Buffered)
        BY <1>1, <1>2, <1>4, <3>1
      <4>2. QED
        BY <1>5, <3>1, <4>1
    <3>3. fresh[i - Buffered] = fed + (i - Buffered) - 1
      BY <1>3, <3>1
    <3>4. i \in Int /\ Buffered \in Nat /\ pos \in Nat
      BY <1>1, <1>8, InputTypes
    <3>5. QED
      BY <1>2, <1>7, <3>2, <3>3, <3>4
  <2>3. QED
    BY <2>1, <2>2
<1>9. fed' \in Nat /\ pos' \in Nat /\ pos' + Buffered' = fed'
  <2>1. Buffered \in Nat /\ n \in Nat /\ pos \in Nat /\ fed \in Nat
    BY <1>1, InputTypes
  <2>2. pos' = pos /\ fed' = fed + n /\ Buffered' = Buffered + n
    BY <1>2, <1>6
  <2>3. QED
    BY <1>7, <2>1, <2>2
<1>10. QED
  BY <1>5, <1>6, <1>8, <1>9 DEF InputOK, BufferHoldsNextBytes

(* Bytes read straight into a payload move pos and fed alike, and nothing  *)
(* is buffered then.                                                       *)
LEMMA FillInput ==
  ASSUME InputOK, NEW n \in Nat \ {0}, FillPayload(n)
  PROVE  InputOK'
<1>1. Len(buf) \in Nat /\ at \in Nat /\ Buffered = Len(buf) - at
  BY InputTypes
<1>2. at = Len(buf) /\ UNCHANGED <<buf, at>> /\ pos' = pos + n /\ fed' = fed + n
  BY DEF FillPayload
<1>3. Buffered' = 0 /\ Buffered = 0
  BY <1>1, <1>2 DEF Buffered
<1>4. pos = fed /\ pos \in Nat /\ fed \in Nat
  BY <1>3 DEF InputOK, BufferHoldsNextBytes
<1>5. QED
  BY <1>2, <1>3, <1>4 DEF InputOK, BufferHoldsNextBytes

-----------------------------------------------------------------------------
(* The inductive invariant. That the payload has room for what a frame     *)
(* wants is what makes filling it safe; that an event finds the parser     *)
(* between two units is what makes taking it safe; neither is inductive    *)
(* without the other.                                                      *)
Inv == TypeOK /\ BufferHoldsNextBytes /\ EventsBetweenUnits

LEMMA InvInput == Inv => InputOK
<1> SUFFICES ASSUME Inv PROVE InputOK
  OBVIOUS
<1>1. wire.end \in Nat
  BY WiresAssumption DEF Inv, TypeOK, IsWire
<1>2. fed \in Nat
  BY <1>1 DEF Inv, TypeOK
<1>3. QED
  BY <1>2 DEF Inv, TypeOK, InputOK

LEMMA InvFront == Inv => Front \in Units
BY UnitsEverywhere, WiresAssumption DEF Inv, TypeOK, Front

LEMMA InvPayload ==
  ASSUME Inv, state.in = "payload"
  PROVE  /\ state = Payload(state.packet, state.want, state.filled)
         /\ state.want \in 0 .. Len(payload)
         /\ state.filled \in 0 .. state.want
         /\ Wanted \in Nat
         /\ Wanted = state.want - state.filled
         /\ payload \in Seq(Int)
         /\ PayloadFrom + Wanted = Len(payload)
         /\ PayloadFrom \in Nat
<1>1. /\ state = Payload(state.packet, state.want, state.filled)
      /\ state.want \in 0 .. Len(payload)
      /\ state.filled \in 0 .. state.want
      /\ payload \in Seq(Int)
  BY DEF Inv, TypeOK, StateOK, Identifier, AtUnit, Ended
<1>2. Len(payload) \in Nat
  BY <1>1
<1>3. QED
  BY <1>1, <1>2 DEF Wanted, PayloadFrom

LEMMA InvSkip ==
  ASSUME Inv, state.in = "skip"
  PROVE  state.remaining \in Nat
BY DEF Inv, TypeOK, StateOK, Identifier, AtUnit, Ended

(* How a call may leave keeps the answer an answer.                        *)
LEMMA MoreAnswers ==
  ASSUME NEW left, More(left)
  PROVE  ret' \in Answers \ {"event"} /\ calling' = FALSE
BY DEF More, Answer, Answers, Errors

LEMMA InitInv == Init => Inv
<1> SUFFICES ASSUME Init PROVE Inv
  OBVIOUS
<1>1. wire \in Wires /\ wire.end \in Nat
  BY WiresAssumption DEF Init, IsWire
<1>2. IsContext(ctx)
  BY DEF Init, NewContext, IsContext
<1>3. buf = <<>> /\ Len(buf) = 0 /\ at = 0 /\ payload = <<>> /\ log = <<>>
  BY DEF Init
<1>4. TypeOK
  <2>1. fed \in 0 .. wire.end /\ pos \in Nat
    BY <1>1 DEF Init
  <2>2. /\ buf \in Seq(Nat) /\ at \in 0 .. Len(buf) /\ payload \in Seq(Int)
        /\ ceilings \in Seq(CeilingChoices \cup {NoCeiling})
    BY <1>3 DEF Init
  <2>3. ret \in Answers /\ calling \in BOOLEAN /\ eof \in BOOLEAN /\ pending = <<>>
    BY DEF Init, Answers
  <2>4. StateOK
    BY DEF Init, StateOK
  <2>5. QED
    BY <1>1, <1>2, <2>1, <2>2, <2>3, <2>4 DEF TypeOK
<1>5. BufferHoldsNextBytes
  BY <1>3 DEF Init, BufferHoldsNextBytes, Buffered
<1>6. EventsBetweenUnits
  BY DEF Init, EventsBetweenUnits
<1>7. QED
  BY <1>4, <1>5, <1>6 DEF Inv

(* The caller's steps.                                                     *)

LEMMA FeedInv == ASSUME Inv, NEW n \in Nat \ {0}, Feed(n) PROVE Inv'
<1>1. InputOK'
  BY InvInput, FeedInput
<1>2. fed' \in 0 .. wire.end
  <2>1. fed + n <= wire.end /\ fed' = fed + n
    BY DEF Feed
  <2>2. wire.end \in Nat /\ fed \in Nat
    BY InvInput, WiresAssumption DEF InputOK, Inv, TypeOK, IsWire
  <2>3. QED
    BY <2>1, <2>2
<1>3. UNCHANGED <<wire, call, state, eof, pending, ctx, ceilings, payload>>
  BY DEF Feed
<1>4. TypeOK'
  BY <1>1, <1>2, <1>3 DEF Inv, TypeOK, StateOK, InputOK, call
<1>5. EventsBetweenUnits'
  BY <1>3 DEF Inv, EventsBetweenUnits, call
<1>6. QED
  BY <1>1, <1>4, <1>5 DEF Inv, InputOK

LEMMA FillInv == ASSUME Inv, NEW n \in Nat \ {0}, FillPayload(n) PROVE Inv'
<1>1. InputOK'
  BY InvInput, FillInput
<1>2. fed' \in 0 .. wire.end /\ fed \in Nat
  <2>1. fed + n <= wire.end /\ fed' = fed + n
    BY DEF FillPayload
  <2>2. wire.end \in Nat /\ fed \in Nat
    BY InvInput, WiresAssumption DEF InputOK, Inv, TypeOK, IsWire
  <2>3. QED
    BY <2>1, <2>2
<1>3. UNCHANGED <<wire, call, eof, pending, ctx, ceilings>> /\ Idle /\ state.in = "payload"
  BY DEF FillPayload
<1>4. payload' \in Seq(Int) /\ Len(payload') = Len(payload)
  <2> DEFINE S == PayloadFrom + 1 .. PayloadFrom + n
             f(i) == fed + i - PayloadFrom - 1
  <2>1. payload \in Seq(Int) /\ PayloadFrom \in Nat
    BY <1>3, InvPayload
  <2>2. payload' = [i \in DOMAIN payload |-> IF i \in S THEN f(i) ELSE payload[i]]
    BY DEF FillPayload
  <2>3. \A i \in DOMAIN payload : IF i \in S THEN f(i) \in Int ELSE payload[i] \in Int
    BY <1>2, <2>1
  <2> HIDE DEF S, f
  <2>4. DOMAIN payload = 1 .. Len(payload) /\ Len(payload) \in Nat
    BY <2>1
  <2>5. payload' \in [1 .. Len(payload) -> Int]
    BY <2>2, <2>3, <2>4
  <2>6. QED
    BY <2>4, <2>5
<1>5. StateOK'
  <2>1. state' = [state EXCEPT !.filled = @ + n] /\ n <= state.want - state.filled
    BY DEF FillPayload
  <2>2. /\ state = Payload(state.packet, state.want, state.filled)
        /\ state.want \in 0 .. Len(payload)
        /\ state.filled \in 0 .. state.want
    BY <1>3, InvPayload
  <2>3. state' = Payload(state.packet, state.want, state.filled + n)
    BY <2>1, <2>2 DEF Payload
  <2>4. state.filled + n \in 0 .. state.want
    BY <2>1, <2>2
  <2>5. QED
    BY <1>4, <2>2, <2>3, <2>4 DEF StateOK, Payload
<1>6. TypeOK'
  BY <1>1, <1>2, <1>3, <1>4, <1>5 DEF Inv, TypeOK, InputOK, call
<1>7. EventsBetweenUnits'
  BY <1>3 DEF Inv, EventsBetweenUnits, call, Idle, AtUnit
<1>8. QED
  BY <1>1, <1>6, <1>7 DEF Inv, InputOK

LEMMA FinishInv == ASSUME Inv, Finish PROVE Inv'
<1>1. UNCHANGED <<source, call, input, state, pending, ctx, ceilings, payload>> /\ eof' = TRUE
  BY DEF Finish
<1>2. InputOK'
  BY <1>1, InvInput, SameInput DEF source
<1>3. QED
  BY <1>1, <1>2 DEF Inv, TypeOK, StateOK, EventsBetweenUnits, InputOK, source, call, input

(* The frame just announced is not being filled: EventsBetweenUnits.       *)
LEMMA TakeInv == ASSUME Inv, TakePayload PROVE Inv'
<1>1. /\ UNCHANGED <<source, call, input, state, eof, pending, ctx, ceilings>>
      /\ payload' = <<>>
      /\ ret = "event" /\ ~calling
  BY DEF TakePayload, Idle
<1>2. InputOK'
  BY <1>1, InvInput, SameInput DEF source
<1>3. state.in # "payload"
  BY <1>1 DEF Inv, EventsBetweenUnits
<1>4. StateOK'
  BY <1>1, <1>3 DEF Inv, TypeOK, StateOK
<1>5. QED
  BY <1>1, <1>2, <1>4 DEF Inv, TypeOK, EventsBetweenUnits, InputOK, source, call, input

(* The list of ceilings grows to the stream one is set on.                 *)
LEMMA WithCeilingType ==
  ASSUME NEW C, NEW limits \in Seq(C \cup {NoCeiling}), NEW stream \in Nat, NEW limit \in C
  PROVE  WithCeiling(limits, stream, limit) \in Seq(C \cup {NoCeiling})
<1> DEFINE n == IF Len(limits) < stream THEN stream ELSE Len(limits)
<1>1. n \in Nat /\ DOMAIN limits \cup 1 .. stream = 1 .. n
  OBVIOUS
<1> HIDE DEF n
<1>2. WithCeiling(limits, stream, limit) =
        [i \in 1 .. n |-> IF i = stream THEN limit
                          ELSE IF i \in DOMAIN limits THEN limits[i] ELSE NoCeiling]
  BY <1>1 DEF WithCeiling
<1>3. QED
  BY <1>1, <1>2

LEMMA SetStreamLimitInv ==
  ASSUME Inv, NEW stream \in Nat, NEW limit \in CeilingChoices, SetStreamLimit(stream, limit)
  PROVE  Inv'
<1>1. /\ UNCHANGED <<source, call, input, state, eof, pending, ctx, payload>>
      /\ ceilings' = WithCeiling(ceilings, stream, limit)
  BY DEF SetStreamLimit
<1>2. InputOK'
  BY <1>1, InvInput, SameInput DEF source
<1>3. ceilings' \in Seq(CeilingChoices \cup {NoCeiling})
  BY <1>1, WithCeilingType DEF Inv, TypeOK
<1>4. QED
  BY <1>1, <1>2, <1>3 DEF Inv, TypeOK, StateOK, EventsBetweenUnits, InputOK, source, call, input

LEMMA CallInv == ASSUME Inv, CallNextEvent PROVE Inv'
<1>1. UNCHANGED <<source, input, state, eof, ctx, ceilings, payload>>
  BY DEF CallNextEvent
<1>2. InputOK'
  BY <1>1, InvInput, SameInput DEF source
<1>3. CASE pending = <<>>
  <2>1. calling' = TRUE /\ UNCHANGED <<ret, pending>>
    BY <1>3 DEF CallNextEvent
  <2>2. QED
    BY <1>1, <1>2, <1>3, <2>1
       DEF Inv, TypeOK, StateOK, EventsBetweenUnits, InputOK, source, input
<1>4. CASE pending # <<>>
  <2>1. ret' = "event" /\ pending' = <<>> /\ UNCHANGED calling
    BY <1>4 DEF CallNextEvent
  <2>2. state = AtUnit
    BY <1>4 DEF Inv, EventsBetweenUnits
  <2>3. QED
    BY <1>1, <1>2, <2>1, <2>2
       DEF Inv, TypeOK, StateOK, EventsBetweenUnits, InputOK, source, input, AtUnit, Answers
<1>5. QED
  BY <1>3, <1>4

-----------------------------------------------------------------------------
(* The loop's steps. Most leave with an answer that is no event and touch  *)
(* neither the buffer nor the parser's place.                              *)

LEMMA RunningHasNothingPending ==
  ASSUME Inv, calling
  PROVE  pending = <<>>
BY DEF Inv, EventsBetweenUnits

LEMMA AnswerInv ==
  ASSUME Inv, calling, calling' = FALSE, ret' \in Answers \ {"event"}, IsContext(ctx'),
         UNCHANGED <<source, input, state, eof, pending, ceilings, payload>>
  PROVE  Inv'
<1>1. InputOK'
  BY InvInput, SameInput DEF source
<1>2. pending = <<>>
  BY RunningHasNothingPending
<1>3. QED
  BY <1>1, <1>2 DEF Inv, TypeOK, StateOK, EventsBetweenUnits, InputOK, source, input

(* Others move over bytes that are buffered, and may change the rest.      *)
LEMMA AdvanceInv ==
  ASSUME Inv, calling, NEW k \in 0 .. Buffered, Advance(k),
         UNCHANGED <<source, eof, ceilings>>,
         calling' \in BOOLEAN, ret' \in Answers, StateOK',
         pending' \in {<<>>, <<EndOfHeaders>>}, IsContext(ctx'), payload' \in Seq(Int),
         EventsBetweenUnits'
  PROVE  Inv'
<1>1. InputOK'
  BY InvInput, AdvanceInput DEF source
<1>2. QED
  BY <1>1 DEF Inv, TypeOK, InputOK, source

LEMMA IdentifierShortInv == ASSUME Inv, IdentifierShort PROVE Inv'
BY MoreAnswers, AnswerInv DEF IdentifierShort, Inv, TypeOK

LEMMA UnitAwaitedInv == ASSUME Inv, UnitAwaited PROVE Inv'
BY AnswerInv DEF UnitAwaited, Answer, Answers, Inv, TypeOK

LEMMA PacketShortInv == ASSUME Inv, PacketShort PROVE Inv'
BY MoreAnswers, AnswerInv DEF PacketShort, AtPacket, Inv, TypeOK

LEMMA PacketLengthRefusedInv == ASSUME Inv, PacketLengthRefused PROVE Inv'
BY AnswerInv DEF PacketLengthRefused, AtPacket, Answer, Answers, Errors, Inv, TypeOK

LEMMA PacketBodyRefusedInv == ASSUME Inv, PacketBodyRefused PROVE Inv'
BY AnswerInv, BodyRefusedType
   DEF PacketBodyRefused, PacketWhole, AtPacket, Answer, Answers, Errors, Inv, TypeOK

LEMMA FrameShortInv == ASSUME Inv, FrameShort PROVE Inv'
BY MoreAnswers, AnswerInv DEF FrameShort, AtFrame, Inv, TypeOK

LEMMA FrameHeadRefusedInv == ASSUME Inv, FrameHeadRefused PROVE Inv'
BY AnswerInv DEF FrameHeadRefused, AtFrame, Answer, Answers, Errors, Inv, TypeOK

LEMMA IdentifierReadInv == ASSUME Inv, IdentifierRead PROVE Inv'
<1>1. CASE wire.nut
  <2>1. /\ calling
        /\ FileIdLen \in 0 .. Buffered
        /\ Advance(FileIdLen)
        /\ state' = AtUnit
        /\ UNCHANGED <<source, call, eof, pending, ctx, ceilings, payload>>
    BY <1>1, BufferAssumption, InvInput, InputTypes DEF IdentifierRead
  <2>2. pending = <<>>
    BY <2>1, RunningHasNothingPending
  <2>3. EventsBetweenUnits' /\ StateOK'
    BY <2>1, <2>2 DEF EventsBetweenUnits, StateOK, AtUnit, call
  <2>4. QED
    BY <2>1, <2>3, AdvanceInv DEF Inv, TypeOK, call
<1>2. CASE ~wire.nut
  BY <1>2, AnswerInv DEF IdentifierRead, Answer, Answers, Errors, Inv, TypeOK
<1>3. QED
  BY <1>1, <1>2

LEMMA SkipPartInv == ASSUME Inv, SkipPart PROVE Inv'
<1>1. /\ calling /\ Advance(Buffered) /\ state' = Skip(state.remaining - Buffered)
      /\ state.in = "skip" /\ Buffered < state.remaining
      /\ UNCHANGED <<source, eof, pending, ctx, ceilings, payload>>
  BY DEF SkipPart
<1>2. calling' = FALSE /\ ret' \in Answers \ {"event"}
  BY MoreAnswers DEF SkipPart
<1>3. Buffered \in Nat /\ state.remaining \in Nat
  BY <1>1, InvInput, InputTypes, InvSkip
<1>4. state.remaining - Buffered \in Nat /\ Buffered \in 0 .. Buffered
  BY <1>1, <1>3
<1>5. StateOK'
  BY <1>1, <1>4 DEF StateOK, Skip
<1>6. EventsBetweenUnits'
  BY <1>1, <1>2, RunningHasNothingPending DEF EventsBetweenUnits
<1>7. QED
  BY <1>1, <1>2, <1>4, <1>5, <1>6, AdvanceInv DEF Inv, TypeOK

LEMMA SkipRestInv == ASSUME Inv, SkipRest PROVE Inv'
<1>1. /\ calling /\ Advance(state.remaining) /\ state' = AtUnit
      /\ state.in = "skip" /\ Buffered >= state.remaining
      /\ UNCHANGED <<source, call, eof, pending, ctx, ceilings, payload>>
  BY DEF SkipRest
<1>2. state.remaining \in 0 .. Buffered
  BY <1>1, InvInput, InputTypes, InvSkip
<1>3. StateOK' /\ EventsBetweenUnits'
  BY <1>1, RunningHasNothingPending DEF StateOK, EventsBetweenUnits, AtUnit, call
<1>4. QED
  BY <1>1, <1>2, <1>3, AdvanceInv DEF Inv, TypeOK, call

(* Bytes copied out of the buffer land inside the payload.                 *)
LEMMA FilledType ==
  ASSUME Inv, state.in = "payload", NEW take \in 0 .. Buffered, take <= Wanted
  PROVE  Filled(take) \in Seq(Int) /\ Len(Filled(take)) = Len(payload)
<1>1. payload \in Seq(Int) /\ PayloadFrom \in Nat /\ PayloadFrom + Wanted = Len(payload)
  BY InvPayload
<1>2. Buffered \in Nat /\ buf \in Seq(Nat) /\ at \in Nat /\ Len(buf) = at + Buffered
  BY InvInput, InputTypes DEF InputOK
<1>3. ASSUME NEW i \in PayloadFrom + 1 .. PayloadFrom + take
      PROVE  buf[at + i - PayloadFrom] \in Int
  <2>1. at + i - PayloadFrom \in 1 .. Len(buf)
    BY <1>1, <1>2
  <2>2. QED
    BY <1>2, <2>1
<1> DEFINE S == PayloadFrom + 1 .. PayloadFrom + take
           f(i) == buf[at + i - PayloadFrom]
<1>4. Filled(take) = [i \in DOMAIN payload |-> IF i \in S THEN f(i) ELSE payload[i]]
  BY DEF Filled
<1>5. \A i \in S : f(i) \in Int
  BY <1>3
<1>6. \A i \in DOMAIN payload : payload[i] \in Int
  BY <1>1
<1> HIDE DEF S, f
<1>7. \A i \in DOMAIN payload : IF i \in S THEN f(i) \in Int ELSE payload[i] \in Int
  BY <1>5, <1>6
<1>8. QED
  BY <1>1, <1>4, <1>7

LEMMA PayloadPartInv == ASSUME Inv, PayloadPart PROVE Inv'
<1>1. /\ calling /\ Advance(Buffered) /\ state' = [state EXCEPT !.filled = @ + Buffered]
      /\ state.in = "payload" /\ Buffered < Wanted
      /\ payload' = Filled(Buffered)
      /\ UNCHANGED <<source, eof, pending, ctx, ceilings>>
  BY DEF PayloadPart
<1>2. calling' = FALSE /\ ret' \in Answers \ {"event"}
  BY MoreAnswers DEF PayloadPart
<1>3. Buffered \in Nat /\ Buffered \in 0 .. Buffered /\ Wanted \in Nat
  BY <1>1, InvInput, InputTypes, InvPayload
<1>4. payload' \in Seq(Int) /\ Len(payload') = Len(payload)
  BY <1>1, <1>3, FilledType
<1>5. /\ state = Payload(state.packet, state.want, state.filled)
      /\ state.want \in 0 .. Len(payload)
      /\ state.filled \in 0 .. state.want
      /\ Wanted = state.want - state.filled
  BY <1>1, InvPayload
<1>6. state' = Payload(state.packet, state.want, state.filled + Buffered)
  BY <1>1, <1>5 DEF Payload
<1>7. state.filled + Buffered \in 0 .. state.want
  BY <1>1, <1>3, <1>5
<1>8. StateOK'
  BY <1>4, <1>5, <1>6, <1>7 DEF StateOK, Payload
<1>9. EventsBetweenUnits'
  BY <1>1, <1>2, RunningHasNothingPending DEF EventsBetweenUnits
<1>10. QED
  BY <1>1, <1>2, <1>3, <1>4, <1>8, <1>9, AdvanceInv DEF Inv, TypeOK

LEMMA PayloadRestInv == ASSUME Inv, PayloadRest PROVE Inv'
<1>1. /\ calling /\ Advance(Wanted) /\ state' = AtUnit
      /\ state.in = "payload" /\ Buffered >= Wanted
      /\ payload' = Filled(Wanted)
      /\ calling' = FALSE /\ ret' = "event"
      /\ UNCHANGED <<source, eof, pending, ctx, ceilings>>
  BY DEF PayloadRest, Emit
<1>2. Wanted \in 0 .. Buffered /\ Wanted <= Wanted
  BY <1>1, InvInput, InputTypes, InvPayload
<1>3. payload' \in Seq(Int)
  BY <1>1, <1>2, FilledType
<1>4. StateOK' /\ EventsBetweenUnits'
  BY <1>1, RunningHasNothingPending DEF StateOK, EventsBetweenUnits, AtUnit
<1>5. QED
  BY <1>1, <1>2, <1>3, <1>4, AdvanceInv DEF Inv, TypeOK, Answers

(* An event that reads no byte: what ends the headers or the input.        *)
LEMMA EventInv ==
  ASSUME Inv, calling, calling' = FALSE, ret' = "event", IsContext(ctx'),
         state' \in {AtUnit, Ended}, UNCHANGED <<source, input, eof, pending, ceilings, payload>>
  PROVE  Inv'
<1>1. InputOK'
  BY InvInput, SameInput DEF source
<1>2. StateOK' /\ EventsBetweenUnits'
  BY RunningHasNothingPending DEF StateOK, EventsBetweenUnits, AtUnit, Ended
<1>3. QED
  BY <1>1, <1>2 DEF Inv, TypeOK, InputOK, source, input, Answers

LEMMA StateForms ==
  ASSUME Inv
  PROVE  /\ state.in = "unit" => state = AtUnit
         /\ state.in = "ended" => state = Ended
BY DEF Inv, TypeOK, StateOK, Identifier, AtUnit, Ended

LEMMA InputEndsInv == ASSUME Inv, InputEnds PROVE Inv'
BY EventInv, HeadersClosedType DEF InputEnds, Emit, Inv, TypeOK

LEMMA EndedAgainInv == ASSUME Inv, EndedAgain PROVE Inv'
BY EventInv, StateForms DEF EndedAgain, Inv, TypeOK

LEMMA HeadersEndInv == ASSUME Inv, HeadersEnd PROVE Inv'
BY EventInv, HeadersClosedType, StateForms DEF HeadersEnd, Emit, Inv, TypeOK

LEMMA PacketSteppedOverInv == ASSUME Inv, PacketSteppedOver PROVE Inv'
<1>1. /\ calling /\ Advance(Front.head) /\ state' = Skip(Front.body)
      /\ Buffered >= Front.head /\ Front.kind # "frame"
      /\ UNCHANGED <<source, call, eof, pending, ctx, ceilings, payload>>
  BY DEF PacketSteppedOver, AtPacket
<1>2. Front.body \in Nat /\ Front.head \in 0 .. Buffered
  BY <1>1, InvFront, PacketFields, InvInput, InputTypes
<1>3. StateOK' /\ EventsBetweenUnits'
  BY <1>1, <1>2, RunningHasNothingPending DEF StateOK, EventsBetweenUnits, Skip, call
<1>4. QED
  BY <1>1, <1>2, <1>3, AdvanceInv DEF Inv, TypeOK, call

LEMMA PacketBodyReadInv == ASSUME Inv, PacketBodyRead PROVE Inv'
<1>1. /\ calling /\ Advance(Front.head + Front.body)
      /\ state.in = "unit" /\ UNCHANGED state
      /\ Buffered >= Front.head + Front.body
      /\ Front.kind # "frame" /\ ~SteppedOver(Front)
      /\ ctx' = PacketRead(ctx, Front)
      /\ pending' = PendingAfter(ctx, Front)
      /\ UNCHANGED <<source, eof, ceilings, payload>>
  BY DEF PacketBodyRead, PacketWhole, AtPacket
<1>2. Front.head + Front.body \in 0 .. Buffered
  BY <1>1, InvFront, PacketFields, InvInput, InputTypes
<1>3. IsContext(ctx')
  BY <1>1, InvFront, PacketReadType DEF Inv, TypeOK
<1>4. pending' \in {<<>>, <<EndOfHeaders>>}
  BY <1>1 DEF PendingAfter
<1>5. /\ calling' \in BOOLEAN /\ ret' \in Answers
      /\ pending' # <<>> => calling' = FALSE
  <2>1. CASE PacketEvent(Front) = <<>>
    <3>1. UNCHANGED call
      BY <2>1 DEF PacketBodyRead
    <3>2. Front.kind # "syncpoint"
      BY <2>1 DEF PacketEvent
    <3>3. pending' = <<>>
      BY <1>1, <3>2 DEF PendingAfter
    <3>4. QED
      BY <3>1, <3>3 DEF Inv, TypeOK, call
  <2>2. CASE PacketEvent(Front) # <<>>
    BY <2>2 DEF PacketBodyRead, Emit, Answers
  <2>3. QED
    BY <2>1, <2>2
<1>6. StateOK' /\ EventsBetweenUnits'
  BY <1>1, <1>5, StateForms DEF StateOK, EventsBetweenUnits, AtUnit
<1>7. QED
  BY <1>1, <1>2, <1>3, <1>4, <1>5, <1>6, AdvanceInv DEF Inv, TypeOK

LEMMA FrameHead ==
  ASSUME Inv, FrameHeadRead
  PROVE  /\ calling /\ Advance(Front.head) /\ Front.head \in 0 .. Buffered
         /\ UNCHANGED <<source, call, eof, pending, ceilings>>
         /\ IsContext(ctx')
         /\ Elided(ctx, Front) \in Seq(Int)
         /\ OnWire(ctx, Front) \in Nat
<1>1. /\ calling /\ Advance(Front.head) /\ Front.kind = "frame"
      /\ UNCHANGED <<source, call, eof, pending, ceilings>> /\ ctx' = FrameRead(ctx, Front)
      /\ FrameReads(ctx, Front, Buffered, Ceiling(ceilings, Front.stream))
  BY DEF FrameHeadRead, AtFrame
<1>2. IsContext(ctx)
  BY DEF Inv, TypeOK
<1>3. /\ Elided(ctx, Front) \in Seq(ElidedBytes)
      /\ OnWire(ctx, Front) \in Nat
      /\ Buffered >= Front.head
  BY <1>1, <1>2, InvFront, FrameOnWire
<1>4. Elided(ctx, Front) \in Seq(Int)
  BY <1>3 DEF ElidedBytes
<1>5. Front.head \in 0 .. Buffered
  BY <1>1, <1>3, InvFront, FrameFields, InvInput, InputTypes
<1>6. QED
  BY <1>1, <1>2, <1>3, <1>4, <1>5, FrameReadType

LEMMA RelevanceEndsInv == ASSUME Inv, RelevanceEnds PROVE Inv'
<1>1. FrameHeadRead /\ state' = Skip(OnWire(ctx, Front)) /\ UNCHANGED payload
  BY DEF RelevanceEnds
<1>2. StateOK' /\ EventsBetweenUnits'
  BY <1>1, FrameHead, RunningHasNothingPending DEF StateOK, EventsBetweenUnits, Skip, call
<1>3. QED
  BY <1>1, <1>2, FrameHead, AdvanceInv DEF Inv, TypeOK, call

LEMMA FrameBeginsInv == ASSUME Inv, FrameBegins PROVE Inv'
<1> DEFINE prefix == Elided(ctx, Front)
           want   == OnWire(ctx, Front)
           room   == [i \in 1 .. want |-> Zero]
<1>1. FrameHeadRead /\ state' = Payload(Packet(ctx, Front), want, 0) /\ payload' = prefix \o room
  BY DEF FrameBegins
<1>2. prefix \in Seq(Int) /\ want \in Nat
  BY <1>1, FrameHead
<1>3. room \in Seq(Int) /\ Len(room) = want
  BY <1>2 DEF Zero
<1> HIDE DEF prefix, room, want
<1>4. prefix \o room \in Seq(Int) /\ Len(prefix \o room) = Len(prefix) + want /\ Len(prefix) \in Nat
  BY <1>2, <1>3
<1>5. payload' \in Seq(Int) /\ want \in 0 .. Len(payload') /\ 0 \in 0 .. want
  BY <1>1, <1>2, <1>4
<1>6. StateOK'
  BY <1>1, <1>5 DEF StateOK, Payload
<1>7. EventsBetweenUnits'
  BY <1>1, FrameHead, RunningHasNothingPending DEF EventsBetweenUnits, call
<1>8. QED
  BY <1>1, <1>5, <1>6, <1>7, FrameHead, AdvanceInv DEF Inv, TypeOK, call

-----------------------------------------------------------------------------
LEMMA NextInv == Inv /\ [Next]_vars => Inv'
<1> SUFFICES ASSUME Inv, [Next]_vars PROVE Inv'
  OBVIOUS
<1>1. CASE Caller
  <2>1. Chunks \subseteq Nat \ {0} /\ 1 .. MaxStreams \subseteq Nat
    BY BufferAssumption, LimitsAssumption
  <2>2. QED
    BY <1>1, <2>1, FeedInv, FillInv, FinishInv, TakeInv, SetStreamLimitInv, CallInv DEF Caller
<1>2. CASE NextEvent
  BY <1>2, IdentifierShortInv, IdentifierReadInv, SkipPartInv, SkipRestInv, PayloadPartInv,
     PayloadRestInv, UnitAwaitedInv, InputEndsInv, EndedAgainInv, HeadersEndInv, PacketShortInv,
     PacketLengthRefusedInv, PacketSteppedOverInv, PacketBodyRefusedInv, PacketBodyReadInv,
     FrameShortInv, FrameHeadRefusedInv, RelevanceEndsInv, FrameBeginsInv DEF NextEvent
<1>3. CASE UNCHANGED vars
  <2>1. InputOK'
    BY <1>3, InvInput, SameInput DEF vars, source
  <2>2. QED
    BY <1>3, <2>1
       DEF Inv, TypeOK, StateOK, EventsBetweenUnits, InputOK, vars, source, call, input
<1>4. QED
  BY <1>1, <1>2, <1>3 DEF Next, Closed

(* Every field keeps its type whatever the wire, the pieces and the limits;*)
(* in particular a payload always has the room its frame still wants.      *)
THEOREM TypeCorrect == Spec => []TypeOK
<1>1. Inv => TypeOK
  BY DEF Inv
<1>2. QED
  BY InitInv, NextInv, <1>1, PTL DEF Spec

(* However bytes are handed over - fed, filled in directly, compacted away *)
(* - the buffer holds what comes next in the stream and nothing else.      *)
THEOREM NextBytesHeld == Spec => []BufferHoldsNextBytes
<1>1. Inv => BufferHoldsNextBytes
  BY DEF Inv
<1>2. QED
  BY InitInv, NextInv, <1>1, PTL DEF Spec

(* A caller may take the payload of the frame it was just given: the       *)
(* parser is between two units, and what is pending it hands over first.   *)
THEOREM TakingIsSafe == Spec => []EventsBetweenUnits
<1>1. Inv => EventsBetweenUnits
  BY DEF Inv
<1>2. QED
  BY InitInv, NextInv, <1>1, PTL DEF Spec

-----------------------------------------------------------------------------
(* What max_buffered refuses. Only `more' does, of what is still buffered; *)
(* and what is still buffered when a unit is short is less than the unit.  *)

LEMMA RoomInFront ==
  ASSUME Inv, RoomForEveryUnit, pos \in DOMAIN wire.unit
  PROVE  HeldWhole(Front) <= MaxBuffered + 1
BY DEF RoomForEveryUnit, Front, UnitAt

LEMMA MoreWithRoom ==
  ASSUME NEW left \in Nat, left <= MaxBuffered, More(left)
  PROVE  ret' # "overfull"
BY BufferAssumption DEF More, Answer

LEMMA ShortPacketHasRoom ==
  ASSUME Inv, RoomForEveryUnit, PacketShort
  PROVE  ret' # "overfull"
<1>1. Front.kind # "frame" /\ More(Buffered)
  BY DEF PacketShort, AtPacket
<1>2. pos \in DOMAIN wire.unit
  BY <1>1 DEF Front, UnitAt, NoUnit
<1>3. HeldWhole(Front) <= MaxBuffered + 1
  BY <1>2, RoomInFront
<1>4. Front.head \in Nat /\ Front.body \in Nat /\ Buffered \in Nat /\ MaxBuffered \in Nat
  BY <1>1, InvFront, PacketFields, InvInput, InputTypes, BufferAssumption
<1>5. Buffered < HeldWhole(Front)
  BY <1>1, <1>4 DEF PacketShort, HeldWhole
<1>6. HeldWhole(Front) \in Nat
  BY <1>1, <1>4 DEF HeldWhole
<1>7. Buffered <= MaxBuffered
  BY <1>3, <1>4, <1>5, <1>6
<1>8. QED
  BY <1>1, <1>4, <1>7, MoreWithRoom

(* A header that is neither refused nor read yet is one not all here.      *)
LEMMA ShortFrame ==
  ASSUME Inv, FrameShort
  PROVE  /\ Front.kind = "frame" /\ Front.head \in Nat /\ Buffered \in Nat
         /\ pos \in DOMAIN wire.unit
         /\ Buffered < Front.head
<1>1. Front.kind = "frame" /\ ~FrameStops /\ ~FrameBlowsUp
      /\ ~HeadSeen(ctx, Front, Buffered)
  BY DEF FrameShort, AtFrame
<1>2. pos \in DOMAIN wire.unit
  BY <1>1 DEF FrameStops, FrameRefused, Front, UnitAt, NoUnit
<1>3. /\ Front.head \in Nat /\ Front.ptsAt \in Nat /\ Front.streamAt \in Nat
      /\ Front.streamAt <= Front.ptsAt /\ Front.ptsAt <= Front.head
      /\ Buffered \in Nat
  BY <1>1, InvFront, FrameFields, InvInput, InputTypes
<1>4. Buffered < Front.head
  <2> SUFFICES ASSUME Buffered >= Front.head PROVE FALSE
    BY <1>3
  <2>1. Buffered >= Front.ptsAt /\ Buffered >= Front.streamAt
    BY <1>3
  <2>2. StreamSeen(ctx, Front, Buffered)
    BY <1>1, <2>1 DEF FrameStops, FrameRefused, StreamSeen
  <2>3. PtsSeen(ctx, Front, Buffered)
    BY <2>1, <2>2 DEF PtsSeen
  <2>4. ~PtsPanics(ctx, Front) /\ ~PtsRefused(ctx, Front)
    BY <1>1, <2>3 DEF FrameStops, FrameRefused, FrameBlowsUp, FramePanics
  <2>5. QED
    BY <1>1, <2>3, <2>4 DEF HeadSeen
<1>5. QED
  BY <1>1, <1>2, <1>3, <1>4

LEMMA ShortFrameHasRoom ==
  ASSUME Inv, RoomForEveryUnit, FrameShort
  PROVE  ret' # "overfull"
<1>1. More(Buffered) /\ Buffered < Front.head /\ Front.kind = "frame"
      /\ Front.head \in Nat /\ Buffered \in Nat
  BY ShortFrame DEF FrameShort
<1>2. HeldWhole(Front) <= MaxBuffered + 1 /\ HeldWhole(Front) = Front.head
  BY <1>1, ShortFrame, RoomInFront DEF HeldWhole
<1>3. Buffered <= MaxBuffered
  BY <1>1, <1>2, BufferAssumption
<1>4. QED
  BY <1>1, <1>3, MoreWithRoom

LEMMA ShortIdentifierHasRoom ==
  ASSUME Inv, RoomForEveryUnit, IdentifierShort
  PROVE  ret' # "overfull"
<1>1. Buffered < FileIdLen /\ More(Buffered) /\ FileIdLen <= MaxBuffered + 1
  BY DEF IdentifierShort, RoomForEveryUnit
<1>2. Buffered \in Nat /\ FileIdLen \in Nat /\ MaxBuffered \in Nat
  BY InvInput, InputTypes, BufferAssumption
<1>3. QED
  BY <1>1, <1>2, MoreWithRoom

LEMMA WireStands == [Next]_vars => wire' = wire
BY DEF Next, Caller, NextEvent, Closed, vars, source, Feed, FillPayload, Finish, TakePayload,
       SetStreamLimit, CallNextEvent, IdentifierShort, IdentifierRead, SkipPart, SkipRest,
       PayloadPart, PayloadRest, UnitAwaited, InputEnds, EndedAgain, HeadersEnd, PacketShort,
       PacketLengthRefused, PacketSteppedOver, PacketBodyRefused, PacketBodyRead, FrameShort,
       FrameHeadRefused, FrameHeadRead, RelevanceEnds, FrameBegins

LEMMA NextHasRoom ==
  ASSUME Inv, RoomForEveryUnit, ret # "overfull", [Next]_vars
  PROVE  ret' # "overfull"
<1>2. CASE IdentifierShort
  BY <1>2, ShortIdentifierHasRoom
<1>3. CASE PacketShort
  BY <1>3, ShortPacketHasRoom
<1>4. CASE FrameShort
  BY <1>4, ShortFrameHasRoom
<1>5. CASE SkipPart \/ PayloadPart
  <2>1. More(0) /\ 0 \in Nat /\ 0 <= MaxBuffered
    BY <1>5, BufferAssumption DEF SkipPart, PayloadPart
  <2>2. QED
    BY <2>1, MoreWithRoom
<1>6. CASE Caller \/ Closed \/ UNCHANGED vars
  BY <1>6 DEF Caller, Closed, vars, call, Feed, FillPayload, Finish, TakePayload,
              SetStreamLimit, CallNextEvent
<1>7. CASE \/ IdentifierRead \/ SkipRest \/ PayloadRest \/ UnitAwaited \/ InputEnds
           \/ EndedAgain \/ HeadersEnd \/ PacketLengthRefused \/ PacketSteppedOver
           \/ PacketBodyRefused \/ PacketBodyRead \/ FrameHeadRefused
           \/ RelevanceEnds \/ FrameBegins
  BY <1>7 DEF IdentifierRead, SkipRest, PayloadRest, UnitAwaited, InputEnds, EndedAgain,
              HeadersEnd, PacketLengthRefused, PacketSteppedOver, PacketBodyRefused,
              PacketBodyRead, FrameHeadRefused, FrameHeadRead, RelevanceEnds, FrameBegins,
              Emit, Answer, call
<1>8. QED
  BY <1>2, <1>3, <1>4, <1>5, <1>6, <1>7 DEF Next, NextEvent

(* A buffer limit with room for every unit that has to be held whole never *)
(* refuses anything, whatever pieces the bytes come in and however lazily  *)
(* the buffer is compacted.                                                *)
THEOREM LimitNeverBites == Spec => []NeverOverfull
<1>1. Init => NeverOverfull
  BY DEF Init, NeverOverfull
<1>2. Inv /\ NeverOverfull /\ [Next]_vars => NeverOverfull'
  <2> SUFFICES ASSUME Inv, NeverOverfull, [Next]_vars, RoomForEveryUnit'
               PROVE  ret' # "overfull"
    BY DEF NeverOverfull
  <2>1. wire' = wire
    BY WireStands
  <2>2. RoomForEveryUnit
    BY <2>1 DEF RoomForEveryUnit
  <2>3. QED
    BY <2>2, NextHasRoom DEF NeverOverfull
<1>3. QED
  BY InitInv, NextInv, <1>1, <1>2, PTL DEF Spec

(* Once finish is said, next_event never answers None: no caller that asks *)
(* until it is over is left asking for bytes that will not come.           *)
THEOREM FinishIsHeard == Spec => NoMoreAfterFinish
<1>1. [Next]_vars => [calling /\ eof => ret' # "more"]_<<calling, ret, log>>
  <2> SUFFICES ASSUME [Next]_vars, calling, eof
               PROVE  ret' # "more" \/ UNCHANGED <<calling, ret, log>>
    OBVIOUS
  <2>1. CASE Caller \/ Closed \/ UNCHANGED vars
    BY <2>1 DEF Caller, Closed, vars, call, Feed, FillPayload, Finish, TakePayload,
                SetStreamLimit, CallNextEvent, Idle
  <2>2. CASE IdentifierShort \/ SkipPart \/ PayloadPart \/ PacketShort \/ FrameShort
    BY <2>2 DEF IdentifierShort, SkipPart, PayloadPart, PacketShort, FrameShort, More, Answer
  <2>3. CASE \/ IdentifierRead \/ SkipRest \/ PayloadRest \/ UnitAwaited \/ InputEnds
             \/ EndedAgain \/ HeadersEnd \/ PacketLengthRefused \/ PacketSteppedOver
             \/ PacketBodyRefused \/ PacketBodyRead \/ FrameHeadRefused
             \/ RelevanceEnds \/ FrameBegins
    BY <2>3 DEF IdentifierRead, SkipRest, PayloadRest, UnitAwaited, InputEnds, EndedAgain,
                HeadersEnd, PacketLengthRefused, PacketSteppedOver, PacketBodyRefused,
                PacketBodyRead, FrameHeadRefused, FrameHeadRead, RelevanceEnds, FrameBegins,
                Emit, Answer, call
  <2>4. QED
    BY <2>1, <2>2, <2>3 DEF Next, NextEvent
<1>2. QED
  BY <1>1, PTL DEF Spec, NoMoreAfterFinish

-----------------------------------------------------------------------------
(* Only five steps ask for more, and each of them is short of something.   *)

LEMMA MoreIsShort ==
  ASSUME Inv, \/ IdentifierShort \/ SkipPart \/ PayloadPart
              \/ UnitAwaited \/ PacketShort \/ FrameShort
  PROVE  ShortOf'
<1>1. CASE IdentifierShort
  BY <1>1 DEF IdentifierShort, ShortOf, Buffered, input
<1>2. CASE SkipPart
  <2>1. /\ state.in = "skip" /\ Buffered < state.remaining /\ Advance(Buffered)
        /\ state' = Skip(state.remaining - Buffered)
    BY <1>2 DEF SkipPart
  <2>2. state.remaining \in Nat /\ Buffered \in Nat /\ at \in Nat /\ Len(buf) = at + Buffered
    BY <2>1, InvSkip, InvInput, InputTypes
  <2>3. Buffered' = 0
    BY <2>1, <2>2 DEF Advance, Buffered
  <2>4. state'.in = "skip" /\ state'.remaining > 0
    BY <2>1, <2>2 DEF Skip
  <2>5. QED
    BY <2>3, <2>4 DEF ShortOf
<1>3. CASE PayloadPart
  <2>1. /\ state.in = "payload" /\ Buffered < Wanted /\ Advance(Buffered)
        /\ state' = [state EXCEPT !.filled = @ + Buffered]
    BY <1>3 DEF PayloadPart
  <2>2. /\ state = Payload(state.packet, state.want, state.filled)
        /\ state.want \in Nat /\ state.filled \in Nat /\ Wanted = state.want - state.filled
    BY <2>1, InvPayload
  <2>3. Buffered \in Nat /\ at \in Nat /\ Len(buf) = at + Buffered
    BY InvInput, InputTypes
  <2>4. Buffered' = 0
    BY <2>1, <2>3 DEF Advance, Buffered
  <2>5. state'.in = "payload" /\ state'.filled < state'.want
    BY <2>1, <2>2, <2>3 DEF Payload
  <2>6. QED
    BY <2>4, <2>5 DEF ShortOf
<1>4. CASE UnitAwaited
  BY <1>4 DEF UnitAwaited, ShortOf, Buffered, input
<1>5. CASE PacketShort
  <2>1. UNCHANGED <<wire, pos, buf, at, state>> /\ state.in = "unit"
    BY <1>5 DEF PacketShort, AtPacket, source, input
  <2>2. UNCHANGED <<Front, Buffered>>
    BY <2>1 DEF Front, Buffered
  <2>3. QED
    BY <1>5, <2>1, <2>2 DEF PacketShort, AtPacket, ShortOf
<1>6. CASE FrameShort
  <2>1. UNCHANGED <<wire, pos, buf, at, state>> /\ state.in = "unit"
    BY <1>6 DEF FrameShort, AtFrame, source, input
  <2>2. UNCHANGED <<Front, Buffered>>
    BY <2>1 DEF Front, Buffered
  <2>3. QED
    BY <1>6, <2>1, <2>2, ShortFrame DEF ShortOf
<1>7. QED
  BY <1>1, <1>2, <1>3, <1>4, <1>5, <1>6

(* A caller that is asked for more is asked because what has arrived is    *)
(* not all of what comes next: no unit that is here is kept waiting, and a *)
(* source with nothing more to send until it is answered does not hang.    *)
THEOREM AskedOnlyWhenShort == Spec => AsksOnlyWhenShort
<1>1. Inv /\ [Next]_vars => [calling /\ ~calling' /\ ret' = "more" => ShortOf']_vars
  <2> SUFFICES ASSUME Inv, [Next]_vars, calling, ~calling', ret' = "more"
               PROVE  ShortOf' \/ UNCHANGED vars
    OBVIOUS
  <2>1. CASE Caller \/ Closed \/ UNCHANGED vars
    BY <2>1 DEF Caller, Closed, vars, call, Feed, FillPayload, Finish, TakePayload,
                SetStreamLimit, CallNextEvent, Idle
  <2>2. CASE \/ IdentifierShort \/ SkipPart \/ PayloadPart
             \/ UnitAwaited \/ PacketShort \/ FrameShort
    BY <2>2, MoreIsShort
  <2>3. CASE \/ IdentifierRead \/ SkipRest \/ PayloadRest \/ InputEnds
             \/ EndedAgain \/ HeadersEnd \/ PacketLengthRefused \/ PacketSteppedOver
             \/ PacketBodyRefused \/ PacketBodyRead \/ FrameHeadRefused
             \/ RelevanceEnds \/ FrameBegins
    BY <2>3 DEF IdentifierRead, SkipRest, PayloadRest, InputEnds, EndedAgain, HeadersEnd,
                PacketLengthRefused, PacketSteppedOver, PacketBodyRefused, PacketBodyRead,
                FrameHeadRefused, FrameHeadRead, RelevanceEnds, FrameBegins,
                Emit, Answer, call
  <2>4. QED
    BY <2>1, <2>2, <2>3 DEF Next, NextEvent
<1>2. QED
  BY InitInv, NextInv, <1>1, PTL DEF Spec, AsksOnlyWhenShort

(* A payload is given room only when the frame's whole size, the bytes its *)
(* header elides included, is within what its stream may carry: a hostile  *)
(* length allocates nothing.                                               *)
THEOREM AllocationsBounded == Spec => AllocatesWithinCeiling
<1>1. Inv /\ [Next]_vars =>
        [state.in = "unit" /\ state'.in = "payload" =>
           Len(payload') <= Ceiling(ceilings, Front.stream)]_vars
  <2> SUFFICES ASSUME Inv, [Next]_vars, state.in = "unit", state'.in = "payload"
               PROVE  Len(payload') <= Ceiling(ceilings, Front.stream)
    OBVIOUS
  <2>1. FrameBegins
    <3>1. CASE Caller \/ Closed \/ UNCHANGED vars
      BY <3>1 DEF Caller, Closed, vars, Feed, FillPayload, Finish, TakePayload,
                  SetStreamLimit, CallNextEvent
    <3>2. CASE NextEvent
      BY <3>2 DEF NextEvent, IdentifierShort, IdentifierRead, SkipPart, SkipRest,
                  PayloadPart, PayloadRest, UnitAwaited, InputEnds, EndedAgain, HeadersEnd,
                  PacketShort, PacketLengthRefused, PacketSteppedOver, PacketBodyRefused,
                  PacketBodyRead, FrameShort, FrameHeadRefused, RelevanceEnds,
                  AtUnit, Ended, Skip
    <3>3. QED
      BY <3>1, <3>2 DEF Next
  <2>2. /\ FrameHeadRead /\ Front.kind = "frame"
        /\ FrameReads(ctx, Front, Buffered, Ceiling(ceilings, Front.stream))
        /\ payload' = Elided(ctx, Front) \o [i \in 1 .. OnWire(ctx, Front) |-> Zero]
    BY <2>1 DEF FrameBegins, FrameHeadRead, AtFrame
  <2>3. Elided(ctx, Front) \in Seq(Int) /\ OnWire(ctx, Front) \in Nat /\ Front.size \in Nat
    BY <2>2, FrameHead, InvFront, FrameFields
  <2>4. Len(payload') = Len(Elided(ctx, Front)) + OnWire(ctx, Front)
    <3>1. /\ [i \in 1 .. OnWire(ctx, Front) |-> Zero] \in Seq(Int)
          /\ Len([i \in 1 .. OnWire(ctx, Front) |-> Zero]) = OnWire(ctx, Front)
      BY <2>3 DEF Zero
    <3>2. QED
      BY <2>2, <2>3, <3>1
  <2>5. Len(payload') = Front.size
    BY <2>3, <2>4 DEF OnWire
  <2>6. ~(Front.size > Ceiling(ceilings, Front.stream))
    BY <2>2 DEF FrameReads, FrameRefused
  <2>7. Ceiling(ceilings, Front.stream) \in Nat
    <3>1. MaxFrame \in Nat /\ CeilingChoices \subseteq Nat
      BY BufferAssumption, LimitsAssumption
    <3>2. \A i \in DOMAIN ceilings : ceilings[i] \in CeilingChoices \cup {NoCeiling}
      BY DEF Inv, TypeOK
    <3>3. QED
      BY <3>1, <3>2 DEF Ceiling
  <2>8. QED
    BY <2>3, <2>5, <2>6, <2>7
<1>2. QED
  BY InitInv, NextInv, <1>1, PTL DEF Spec, AllocatesWithinCeiling

-----------------------------------------------------------------------------
(* What the events and the refinement need beyond Inv: the loop runs only  *)
(* while nothing has failed, the identifier is what the stream starts      *)
(* with, and the log is a sequence.                                        *)

Settled ==
  /\ calling => ret \notin Errors
  /\ state.in = "identifier" => pos = 0
  /\ IsRow(log)

LEMMA InitSettled == Init => Settled
BY DEF Init, Settled, IsRow

LEMMA NextSettled ==
  ASSUME Inv, Settled, [Next]_vars
  PROVE  Settled'
<1>1. calling' => ret' \notin Errors
  <2>1. CASE Caller \/ Closed \/ UNCHANGED vars
    BY <2>1 DEF Settled, Caller, Closed, vars, call, Feed, FillPayload, Finish, TakePayload,
                SetStreamLimit, CallNextEvent, Idle, Errors
  <2>2. CASE NextEvent
    BY <2>2 DEF Settled, NextEvent, IdentifierShort, IdentifierRead, SkipPart, SkipRest,
                PayloadPart, PayloadRest, UnitAwaited, InputEnds, EndedAgain, HeadersEnd,
                PacketShort, PacketLengthRefused, PacketSteppedOver, PacketBodyRefused,
                PacketBodyRead, FrameShort, FrameHeadRefused, FrameHeadRead, RelevanceEnds,
                FrameBegins, More, Emit, Answer, call
  <2>3. QED
    BY <2>1, <2>2 DEF Next
<1>2. state'.in = "identifier" => pos' = 0
  <2>1. CASE \E n \in Chunks : FillPayload(n)
    BY <2>1, InvPayload DEF FillPayload, Payload
  <2>2. CASE PayloadPart
    BY <2>2, InvPayload DEF PayloadPart, Payload
  <2>3. CASE Caller /\ ~\E n \in Chunks : FillPayload(n)
    BY <2>3 DEF Settled, Caller, input, Feed, Finish, TakePayload, SetStreamLimit, CallNextEvent
  <2>4. CASE NextEvent /\ ~PayloadPart
    BY <2>4 DEF Settled, NextEvent, IdentifierShort, IdentifierRead, SkipPart, SkipRest,
                PayloadRest, UnitAwaited, InputEnds, EndedAgain, HeadersEnd,
                PacketShort, PacketLengthRefused, PacketSteppedOver, PacketBodyRefused,
                PacketWhole, AtPacket, AtFrame, PacketBodyRead, FrameShort, FrameHeadRefused,
                FrameHeadRead, RelevanceEnds, FrameBegins, AtUnit, Ended, Skip, Payload, input
  <2>5. CASE Closed \/ UNCHANGED vars
    BY <2>5 DEF Settled, Closed, vars, input
  <2>6. QED
    BY <2>1, <2>2, <2>3, <2>4, <2>5 DEF Next
<1>3. IsRow(log')
  <2>1. \/ UNCHANGED log
        \/ \E e : log' = Append(log, e)
        \/ log' = log \o pending /\ pending = <<EndOfHeaders>>
    <3>1. CASE Caller \/ Closed \/ UNCHANGED vars
      BY <3>1 DEF Inv, TypeOK, Caller, Closed, vars, call, Feed, FillPayload, Finish,
                  TakePayload, SetStreamLimit, CallNextEvent
    <3>2. CASE NextEvent
      BY <3>2 DEF NextEvent, IdentifierShort, IdentifierRead, SkipPart, SkipRest,
                  PayloadPart, PayloadRest, UnitAwaited, InputEnds, EndedAgain, HeadersEnd,
                  PacketShort, PacketLengthRefused, PacketSteppedOver, PacketBodyRefused,
                  PacketBodyRead, FrameShort, FrameHeadRefused, FrameHeadRead, RelevanceEnds,
                  FrameBegins, More, Emit, Answer, call
    <3>3. QED
      BY <3>1, <3>2 DEF Next
  <2>2. IsRow(log)
    BY DEF Settled
  <2>3. \A e : IsRow(Append(log, e)) /\ log \o <<e>> = Append(log, e)
    BY <2>2, RowAppend, RowJoin
  <2>4. QED
    BY <2>1, <2>2, <2>3
<1>4. QED
  BY <1>1, <1>2, <1>3 DEF Settled

-----------------------------------------------------------------------------
(* The instance of NutReading brings the operators of NutContext along.    *)
(* They are the same operators.                                            *)

LEMMA SameHeaders ==
  ASSUME NEW c
  PROVE  /\ Reading!NewContext = NewContext
         /\ Reading!EndOfHeaders = EndOfHeaders
         /\ Reading!EndOfInput = EndOfInput
         /\ Reading!Errors = Errors
         /\ Reading!HeadersDue(c) <=> HeadersDue(c)
         /\ Reading!HeadersClosed(c) = HeadersClosed(c)
BY DEF NewContext, Reading!NewContext, EndOfHeaders, Reading!EndOfHeaders,
       EndOfInput, Reading!EndOfInput, Errors, Reading!Errors,
       HeadersDue, Reading!HeadersDue, HeadersClosed, Reading!HeadersClosed,
       HeadersComplete, Reading!HeadersComplete, HasMain, Reading!HasMain,
       Known, Reading!Known, Declared, Reading!Declared

LEMMA SameUnits ==
  ASSUME NEW w, NEW p
  PROVE  Reading!UnitAt(w, p) = UnitAt(w, p)
BY DEF UnitAt, Reading!UnitAt, NoUnit, Reading!NoUnit

LEMMA SameCeilings ==
  ASSUME NEW limits, NEW stream, NEW limit
  PROVE  /\ Reading!Ceiling(limits, stream) = Ceiling(limits, stream)
         /\ Reading!WithCeiling(limits, stream, limit) = WithCeiling(limits, stream, limit)
BY DEF Ceiling, Reading!Ceiling, WithCeiling, Reading!WithCeiling,
       NoCeiling, Reading!NoCeiling

LEMMA SamePackets ==
  ASSUME NEW c, NEW u
  PROVE  /\ Reading!LengthRefused(u) <=> LengthRefused(u)
         /\ Reading!SteppedOver(u) <=> SteppedOver(u)
         /\ Reading!BodyRefused(c, u) <=> BodyRefused(c, u)
         /\ Reading!BodyPanics(c, u) <=> BodyPanics(c, u)
         /\ Reading!BodyRefusedLeaves(c, u) = BodyRefusedLeaves(c, u)
         /\ Reading!PacketRead(c, u) = PacketRead(c, u)
         /\ Reading!PacketEvent(u) = PacketEvent(u)
         /\ Reading!PendingAfter(c, u) = PendingAfter(c, u)
<1> USE DEF Declared, Reading!Declared, Known, Reading!Known, Header, Reading!Header,
       HasMain, Reading!HasMain, HeadersComplete, Reading!HeadersComplete,
       HeadersDue, Reading!HeadersDue, HeadersClosed, Reading!HeadersClosed,
       Held, Reading!Held, EndOfHeaders, Reading!EndOfHeaders,
       MinTick, Reading!MinTick, Ticks, Reading!Ticks, NoTime, Reading!NoTime,
       MaxWide, Reading!MaxWide, WideTicks, Reading!WideTicks, Wrapped, Reading!Wrapped,
       TruncDiv, Reading!TruncDiv, ScaleUp, Reading!ScaleUp, ScaleDown, Reading!ScaleDown,
       RescalePanics, Reading!RescalePanics, Rescaled, Reading!Rescaled,
       RescaleRefused, Reading!RescaleRefused, EmptyBuffer, Reading!EmptyBuffer,
       SyncTicks, Reading!SyncTicks, SyncBase, Reading!SyncBase,
       SyncFrom, Reading!SyncFrom, SyncTime, Reading!SyncTime, SyncedPts, Reading!SyncedPts,
       SyncPanicsAt, Reading!SyncPanicsAt, SyncRefusedAt, Reading!SyncRefusedAt,
       SyncStopsAt, Reading!SyncStopsAt, SyncStop, Reading!SyncStop,
       SyncPanics, Reading!SyncPanics, SyncRefused, Reading!SyncRefused,
       ReadSyncpoint, Reading!ReadSyncpoint
<1>1. /\ Reading!LengthRefused(u) <=> LengthRefused(u)
      /\ Reading!SteppedOver(u) <=> SteppedOver(u)
  BY DEF LengthRefused, Reading!LengthRefused, SteppedOver, Reading!SteppedOver
<1>2. Reading!BodyRefused(c, u) <=> BodyRefused(c, u)
  BY DEF BodyRefused, Reading!BodyRefused, MainRefused, Reading!MainRefused,
         StreamRefused, Reading!StreamRefused
<1>3. /\ Reading!BodyPanics(c, u) <=> BodyPanics(c, u)
      /\ Reading!BodyRefusedLeaves(c, u) = BodyRefusedLeaves(c, u)
  BY DEF BodyPanics, Reading!BodyPanics, BodyRefusedLeaves, Reading!BodyRefusedLeaves
<1>4. Reading!PacketRead(c, u) = PacketRead(c, u)
  BY DEF PacketRead, Reading!PacketRead, ReadMain, Reading!ReadMain,
         ReadStream, Reading!ReadStream, Rated, Reading!Rated, ApplyInfo, Reading!ApplyInfo,
         HoldTag, Reading!HoldTag, HoldTags, Reading!HoldTags, ApplyTags, Reading!ApplyTags
<1>5. Reading!PacketEvent(u) = PacketEvent(u)
  BY DEF PacketEvent, Reading!PacketEvent
<1>6. Reading!PendingAfter(c, u) = PendingAfter(c, u)
  BY DEF PendingAfter, Reading!PendingAfter
<1>7. QED
  BY <1>1, <1>2, <1>3, <1>4, <1>5, <1>6

LEMMA SameFrames ==
  ASSUME NEW c, NEW u, NEW have, NEW ceiling
  PROVE  /\ Reading!FrameRefused(c, u, have, ceiling) <=> FrameRefused(c, u, have, ceiling)
         /\ Reading!FrameReads(c, u, have, ceiling) <=> FrameReads(c, u, have, ceiling)
         /\ Reading!FramePanics(c, u, have) <=> FramePanics(c, u, have)
         /\ Reading!Elided(c, u) = Elided(c, u)
         /\ Reading!OnWire(c, u) = OnWire(c, u)
         /\ Reading!FrameRead(c, u) = FrameRead(c, u)
         /\ Reading!Packet(c, u) = Packet(c, u)
<1> USE DEF Declared, Reading!Declared, Known, Reading!Known, Header, Reading!Header,
       HasMain, Reading!HasMain, HeadersComplete, Reading!HeadersComplete,
       MinTick, Reading!MinTick, Ticks, Reading!Ticks, Wrapped, Reading!Wrapped,
       LiftFrom, Reading!LiftFrom, Lifted, Reading!Lifted,
       LiftOverflows, Reading!LiftOverflows, CodedPtsRefused, Reading!CodedPtsRefused,
       CodedPtsPanics, Reading!CodedPtsPanics, CodedPts, Reading!CodedPts,
       FrameSpan, Reading!FrameSpan, FrameLast, Reading!FrameLast,
       PtsPanics, Reading!PtsPanics, PtsRefused, Reading!PtsRefused,
       FramePts, Reading!FramePts, Elided, Reading!Elided, OnWire, Reading!OnWire,
       StreamSeen, Reading!StreamSeen, PtsSeen, Reading!PtsSeen, HeadSeen, Reading!HeadSeen
<1>1. Reading!FrameRefused(c, u, have, ceiling) <=> FrameRefused(c, u, have, ceiling)
  BY DEF FrameRefused, Reading!FrameRefused
<1>2. Reading!FrameReads(c, u, have, ceiling) <=> FrameReads(c, u, have, ceiling)
  BY DEF FrameReads, Reading!FrameReads, FrameRefused, Reading!FrameRefused
<1>3. Reading!FramePanics(c, u, have) <=> FramePanics(c, u, have)
  BY DEF FramePanics, Reading!FramePanics
<1>4. Reading!Elided(c, u) = Elided(c, u) /\ Reading!OnWire(c, u) = OnWire(c, u)
  OBVIOUS
<1>5. Reading!FrameRead(c, u) = FrameRead(c, u)
  BY DEF FrameRead, Reading!FrameRead, LandPts, Reading!LandPts, Reaches, Reading!Reaches
<1>6. Reading!Packet(c, u) = Packet(c, u)
  BY DEF Packet, Reading!Packet, Dts, Reading!Dts, LandPts, Reading!LandPts,
         Reaches, Reading!Reaches
<1>7. QED
  BY <1>1, <1>2, <1>3, <1>4, <1>5, <1>6

LEMMA SameFrameEvents ==
  ASSUME NEW packet, NEW data
  PROVE  Reading!FrameEvent(packet, data) = FrameEvent(packet, data)
BY DEF FrameEvent, Reading!FrameEvent

-----------------------------------------------------------------------------
(* What the mapping makes of a state.                                      *)

RInv == Inv /\ Settled

Place == pos + Outstanding
Told  == log \o pending

LEMMA StageForms ==
  ASSUME ret \notin Errors
  PROVE  /\ state.in = "identifier" => Stage = "opening"
         /\ state.in = "ended" => Stage = "ended"
         /\ state.in \notin {"identifier", "ended"} => Stage = "reading"
         /\ Stage \notin Errors
BY DEF Stage, Errors

LEMMA HandForms ==
  /\ state.in \notin {"skip", "payload"} => InHand = <<>> /\ Outstanding = 0
  /\ state.in = "skip" => InHand = <<Reading!Skipped>> /\ Outstanding = state.remaining
  /\ state.in = "payload" =>
       /\ InHand = <<FrameEvent(state.packet,
                       [i \in DOMAIN payload |->
                          IF i > PayloadFrom THEN pos + i - PayloadFrom - 1 ELSE payload[i]])>>
       /\ Outstanding = Wanted
BY DEF InHand, Outstanding, Reading!Skipped

(* Bytes that have been handed over are on the wire.                       *)
LEMMA OnTheWire ==
  ASSUME RInv
  PROVE  /\ wire.end \in Nat /\ pos \in Nat /\ Buffered \in Nat
         /\ pos + Buffered <= wire.end
<1>1. wire.end \in Nat /\ fed \in 0 .. wire.end
  BY WiresAssumption DEF RInv, Inv, TypeOK, IsWire
<1>2. pos + Buffered = fed /\ pos \in Nat
  BY DEF RInv, Inv, TypeOK, BufferHoldsNextBytes
<1>3. Buffered \in Nat
  BY InvInput, InputTypes DEF RInv
<1>4. QED
  BY <1>1, <1>2, <1>3

(* While the loop runs nothing is pending and nothing has failed.          *)
LEMMA Running ==
  ASSUME RInv, calling
  PROVE  pending = <<>> /\ Told = log /\ ret \notin Errors /\ IsRow(log)
<1>1. pending = <<>>
  BY RunningHasNothingPending DEF RInv
<1>2. ret \notin Errors /\ IsRow(log)
  BY DEF RInv, Settled
<1>3. QED
  BY <1>1, <1>2, RowJoin DEF Told

(* Between two units, the reading is at the byte the parser is at.         *)
LEMMA BetweenUnits ==
  ASSUME RInv, calling, state.in = "unit"
  PROVE  /\ Place = pos /\ Stage = "reading" /\ InHand = <<>>
         /\ Reading!Unit = Front /\ Reading!Left = wire.end - pos
         /\ Buffered <= Reading!Left /\ Reading!Left \in Nat
<1>1. Outstanding = 0 /\ InHand = <<>> /\ Stage = "reading"
  BY Running, StageForms, HandForms
<1>2. Place = pos /\ pos + Outstanding = pos
  BY <1>1, OnTheWire DEF Place
<1>3. Reading!Unit = Front
  BY <1>2, SameUnits DEF Reading!Unit, Front
<1>4. Reading!Left = wire.end - pos
  BY <1>2 DEF Reading!Left
<1>5. QED
  BY <1>1, <1>2, <1>3, <1>4, OnTheWire

(* A call that reads nothing and answers with no event moves nothing but   *)
(* the stage, and that only to an error.                                   *)
LEMMA AnswerMaps ==
  ASSUME RInv, UNCHANGED <<input, state, pending, payload, log>>
  PROVE  /\ Place' = Place /\ InHand' = InHand /\ Told' = Told
         /\ ret' \in Errors => Stage' = ret'
         /\ ret' \notin Errors /\ ret \notin Errors => Stage' = Stage
BY DEF Place, Outstanding, Wanted, InHand, PayloadFrom, Told, Stage, input

LEMMA Stutters ==
  ASSUME UNCHANGED <<wire, ctx, ceilings>>, Place' = Place, Stage' = Stage,
         InHand' = InHand, Told' = Told
  PROVE  UNCHANGED Reading!vars
BY DEF Reading!vars, Place, Told

(* More answers with an error of its own, or with nothing.                 *)
LEMMA MoreAsks ==
  ASSUME NEW left, More(left)
  PROVE  /\ UNCHANGED log
         /\ \/ ret' = "truncated" /\ ret' \in Errors
            \/ ret' = "overfull" /\ left > MaxBuffered /\ ret' \in Errors
            \/ ret' = "more" /\ ret' \notin Errors
BY DEF More, Answer, Errors

-----------------------------------------------------------------------------
(* The caller's steps. Only a limit it sets, shows.                        *)

LEMMA FeedReads ==
  ASSUME RInv, NEW n, Feed(n)
  PROVE  UNCHANGED Reading!vars
<1>1. UNCHANGED <<wire, call, pos, state, pending, ctx, ceilings, payload>>
  BY DEF Feed
<1>2. QED
  BY <1>1, Stutters DEF Place, Outstanding, Wanted, InHand, PayloadFrom, Told, Stage, call

(* Bytes filled in directly are the bytes that were in hand.               *)
LEMMA FillReads ==
  ASSUME RInv, NEW n \in Nat \ {0}, FillPayload(n)
  PROVE  UNCHANGED Reading!vars
<1> DEFINE from == PayloadFrom
           data == [i \in DOMAIN payload |->
                      IF i > from THEN pos + i - from - 1 ELSE payload[i]]
<1>1. /\ state.in = "payload" /\ at = Len(buf) /\ n <= state.want - state.filled
      /\ payload' = [i \in DOMAIN payload |->
                       IF i \in from + 1 .. from + n THEN fed + i - from - 1 ELSE payload[i]]
      /\ state' = [state EXCEPT !.filled = @ + n] /\ pos' = pos + n
      /\ UNCHANGED <<wire, call, pending, ctx, ceilings>>
  BY DEF FillPayload
<1>2. /\ state = Payload(state.packet, state.want, state.filled)
      /\ state.want \in Nat /\ state.filled \in Nat /\ payload \in Seq(Int)
      /\ Len(payload) \in Nat /\ from \in Nat
  BY <1>1, InvPayload DEF RInv
<1>3. fed = pos /\ pos \in Nat
  BY <1>1, InvInput, InputTypes DEF RInv, InputOK, BufferHoldsNextBytes
<1>4. /\ state'.in = "payload" /\ state'.packet = state.packet
      /\ state'.want = state.want /\ state'.filled = state.filled + n
  BY <1>1, <1>2 DEF Payload
<1>5. DOMAIN payload' = DOMAIN payload /\ Len(payload') = Len(payload)
  <2>1. DOMAIN payload' = DOMAIN payload /\ DOMAIN payload = 1 .. Len(payload)
    BY <1>1, <1>2
  <2>2. QED
    BY <1>2, <2>1
<1>6. PayloadFrom' = from + n
  BY <1>2, <1>4, <1>5 DEF PayloadFrom
<1>7. ASSUME NEW i \in DOMAIN payload
      PROVE  (IF i > from + n THEN pos' + i - (from + n) - 1 ELSE payload'[i]) = data[i]
  <2>1. i \in Nat \ {0}
    BY <1>2
  <2>2. CASE i > from + n
    <3>1. data[i] = pos + i - from - 1 /\ pos' = pos + n
      BY <1>1, <1>2, <1>3, <2>1, <2>2
    <3> HIDE DEF from, data
    <3>2. (pos + n) + i - (from + n) - 1 = pos + i - from - 1
      BY <1>2, <1>3, <2>1
    <3>3. QED
      BY <2>2, <3>1, <3>2
  <2>3. CASE i > from /\ ~(i > from + n)
    <3>1. i \in from + 1 .. from + n
      BY <1>2, <2>1, <2>3
    <3>2. payload'[i] = fed + i - from - 1
      BY <1>1, <3>1
    <3>3. QED
      BY <1>3, <2>3, <3>2
  <2>4. CASE ~(i > from)
    <3>1. i \notin from + 1 .. from + n /\ ~(i > from + n)
      BY <1>2, <2>1, <2>4
    <3>2. payload'[i] = payload[i]
      BY <1>1, <3>1
    <3>3. QED
      BY <2>4, <3>1, <3>2
  <2>5. QED
    BY <2>2, <2>3, <2>4
<1>8. InHand' = InHand
  <2>1. InHand = <<FrameEvent(state.packet, data)>>
    BY <1>1, HandForms
  <2>2. InHand' = <<FrameEvent(state'.packet,
                      [i \in DOMAIN payload' |->
                         IF i > PayloadFrom' THEN pos' + i - PayloadFrom' - 1 ELSE payload'[i]])>>
    BY <1>4 DEF InHand
  <2>3. QED
    BY <1>4, <1>5, <1>6, <1>7, <2>1, <2>2
<1>9. Place' = Place
  BY <1>1, <1>2, <1>3, <1>4 DEF Place, Outstanding, Wanted
<1>10. Stage' = Stage /\ Told' = Told
  BY <1>1, <1>4 DEF Stage, Told, call
<1>11. QED
  BY <1>1, <1>8, <1>9, <1>10, Stutters

LEMMA FinishReads ==
  ASSUME RInv, Finish
  PROVE  UNCHANGED Reading!vars
BY AnswerMaps, Stutters DEF Finish, Idle, source, call

LEMMA TakeReads ==
  ASSUME RInv, TakePayload
  PROVE  UNCHANGED Reading!vars
<1>1. UNCHANGED <<source, call, input, state, pending, ctx, ceilings>> /\ ret = "event" /\ ~calling
  BY DEF TakePayload, Idle
<1>2. state.in # "payload"
  BY <1>1 DEF RInv, Inv, EventsBetweenUnits
<1>3. QED
  BY <1>1, <1>2, Stutters
     DEF Place, Outstanding, InHand, Told, Stage, source, call, input

LEMMA LimitReads ==
  ASSUME RInv, NEW stream, NEW limit, SetStreamLimit(stream, limit)
  PROVE  Reading!SetStreamLimit(stream, limit)
<1>1. /\ ret \notin Errors /\ ceilings' = WithCeiling(ceilings, stream, limit)
      /\ UNCHANGED <<source, call, input, state, pending, ctx, payload>>
  BY DEF SetStreamLimit, Idle
<1>2. Place' = Place /\ InHand' = InHand /\ Told' = Told /\ Stage' = Stage /\ Stage \notin Errors
  BY <1>1, AnswerMaps, StageForms DEF call
<1>3. QED
  BY <1>1, <1>2, SameCeilings, SameHeaders DEF Reading!SetStreamLimit, Place, Told, source

(* What was pending was told already.                                      *)
LEMMA CallReads ==
  ASSUME RInv, CallNextEvent
  PROVE  UNCHANGED Reading!vars
<1>1. UNCHANGED <<source, input, state, ctx, ceilings, payload>> /\ ret \notin Errors /\ IsRow(log)
  BY DEF CallNextEvent, Idle, RInv, Settled
<1>2. Told' = Told /\ ret' \notin Errors
  <2>1. CASE pending = <<>>
    BY <1>1, <2>1 DEF CallNextEvent, Told
  <2>2. CASE pending # <<>>
    <3>1. log' = log \o pending /\ pending' = <<>> /\ pending = <<EndOfHeaders>> /\ ret' = "event"
      BY <2>2 DEF CallNextEvent, RInv, Inv, TypeOK
    <3>2. IsRow(log')
      BY <1>1, <3>1, RowAppend, RowJoin
    <3>3. log' \o <<>> = log'
      BY <3>2, RowJoin
    <3>4. QED
      BY <3>1, <3>3 DEF Told, Errors
  <2>3. QED
    BY <2>1, <2>2
<1>3. QED
  BY <1>1, <1>2, Stutters
     DEF Place, Outstanding, Wanted, InHand, PayloadFrom, Stage, source, input

-----------------------------------------------------------------------------
(* The loop's steps, each the step of the reading it takes, or none.       *)

LEMMA IdentifierShortReads ==
  ASSUME RInv, IdentifierShort
  PROVE  [Reading!Next]_(Reading!vars)
<1>1. /\ calling /\ state.in = "identifier" /\ Buffered < FileIdLen /\ More(Buffered)
      /\ UNCHANGED <<source, input, state, pending, ctx, ceilings, payload>>
  BY DEF IdentifierShort
<1>2. Place' = Place /\ InHand' = InHand /\ Told' = Told
  BY <1>1, AnswerMaps, MoreAsks
<1>3. Stage = "opening" /\ ret \notin Errors
  BY <1>1, Running, StageForms
<1>4. CASE ret' = "truncated"
  <2>1. Reading!Truncate
    BY <1>1, <1>2, <1>3, <1>4, AnswerMaps, MoreAsks DEF Reading!Truncate, Place, Told, source
  <2>2. QED
    BY <2>1 DEF Reading!Next
<1>5. CASE ret' = "overfull" /\ Buffered > MaxBuffered
  <2>1. FileIdLen > MaxBuffered + 1
    BY <1>1, <1>5, OnTheWire, BufferAssumption
  <2>2. Reading!GiveUp
    BY <1>1, <1>2, <1>3, <1>5, <2>1, AnswerMaps, MoreAsks
       DEF Reading!GiveUp, Place, Told, source
  <2>3. QED
    BY <2>2 DEF Reading!Next
<1>6. CASE ret' = "more" /\ ret' \notin Errors
  BY <1>1, <1>2, <1>3, <1>6, AnswerMaps, MoreAsks, Stutters DEF source
<1>7. QED
  BY <1>1, <1>4, <1>5, <1>6, MoreAsks

LEMMA IdentifierReadReads ==
  ASSUME RInv, IdentifierRead
  PROVE  [Reading!Next]_(Reading!vars)
<1>1. /\ calling /\ state.in = "identifier" /\ Buffered >= FileIdLen
      /\ UNCHANGED <<source, pending, ctx, ceilings, payload>>
  BY DEF IdentifierRead
<1>2. pos = 0 /\ Place = 0 /\ InHand = <<>> /\ Stage = "opening" /\ ret \notin Errors
  BY <1>1, Running, StageForms, HandForms DEF RInv, Settled, Place
<1>3. CASE wire.nut
  <2>1. Advance(FileIdLen) /\ state' = AtUnit /\ UNCHANGED call
    BY <1>3 DEF IdentifierRead
  <2>2. Place' = FileIdLen /\ InHand' = <<>> /\ Stage' = "reading" /\ Told' = Told
    BY <1>1, <1>2, <2>1, BufferAssumption
       DEF Place, Outstanding, InHand, Stage, Told, Advance, AtUnit, call
  <2>3. FileIdLen <= wire.end
    BY <1>1, <1>2, OnTheWire, BufferAssumption
  <2>4. Reading!Open
    BY <1>1, <1>2, <1>3, <2>2, <2>3 DEF Reading!Open, Place, Told, source
  <2>5. QED
    BY <2>4 DEF Reading!Next
<1>4. CASE ~wire.nut
  <2>1. ret' = "refused" /\ UNCHANGED <<input, state, log>>
    BY <1>4 DEF IdentifierRead, Answer
  <2>2. Place' = Place /\ InHand' = InHand /\ Told' = Told /\ Stage' = "refused"
    BY <1>1, <2>1, AnswerMaps DEF Errors
  <2>3. Reading!Refuse
    BY <1>1, <1>2, <1>4, <2>2 DEF Reading!Refuse, Reading!RefuseInput, Place, Told, source
  <2>4. QED
    BY <2>3 DEF Reading!Next
<1>5. QED
  BY <1>3, <1>4

(* Inside a body, all that is left of it is what has not arrived.          *)
LEMMA CutShort ==
  ASSUME RInv, calling, state.in \in {"skip", "payload"}, More(0),
         UNCHANGED <<wire, pending, ctx, ceilings>>,
         state'.in = state.in, Place' = Place, InHand' = InHand
  PROVE  [Reading!Next]_(Reading!vars)
<1>1. Stage = "reading" /\ InHand # <<>> /\ Told' = Told
  BY Running, StageForms, HandForms, MoreAsks DEF Told
<1>2. CASE ret' = "truncated" /\ ret' \in Errors
  <2>1. Stage' = "truncated"
    BY <1>2 DEF Stage
  <2>2. Reading!Truncate
    BY <1>1, <2>1 DEF Reading!Truncate, Place, Told
  <2>3. QED
    BY <2>2 DEF Reading!Next
<1>3. CASE ret' = "more" /\ ret' \notin Errors
  <2>1. Stage' = Stage
    BY <1>1, <1>3 DEF Stage
  <2>2. QED
    BY <1>1, <2>1, Stutters
<1>4. QED
  BY <1>2, <1>3, MoreAsks, BufferAssumption

LEMMA SkipPartReads ==
  ASSUME RInv, SkipPart
  PROVE  [Reading!Next]_(Reading!vars)
<1>1. /\ calling /\ state.in = "skip" /\ Advance(Buffered) /\ More(0)
      /\ state' = Skip(state.remaining - Buffered)
      /\ UNCHANGED <<source, pending, ctx, ceilings>>
  BY DEF SkipPart
<1>2. state'.in = "skip" /\ state'.remaining = state.remaining - Buffered
  BY <1>1 DEF Skip
<1>3. state.remaining \in Nat
  BY <1>1, InvSkip DEF RInv
<1>4. Place' = Place /\ InHand' = InHand
  BY <1>1, <1>2, <1>3, OnTheWire DEF Place, Outstanding, InHand, Advance
<1>5. QED
  BY <1>1, <1>2, <1>4, CutShort DEF source

(* A unit ends when its last byte is read.                                 *)
LEMMA SkipRestReads ==
  ASSUME RInv, SkipRest
  PROVE  [Reading!Next]_(Reading!vars)
<1>1. /\ calling /\ state.in = "skip" /\ Buffered >= state.remaining
      /\ Advance(state.remaining) /\ state' = AtUnit
      /\ UNCHANGED <<source, call, pending, ctx, ceilings>>
  BY DEF SkipRest
<1>2. state.remaining \in Nat
  BY <1>1, InvSkip DEF RInv
<1>3. /\ InHand = <<Reading!Skipped>> /\ Place = pos + state.remaining /\ Stage = "reading"
      /\ IsRow(log)
  BY <1>1, Running, StageForms, HandForms DEF Place
<1>4. Place' = Place /\ InHand' = <<>> /\ Stage' = "reading" /\ Told' = Told
  BY <1>1, <1>2, <1>3, Running, OnTheWire
     DEF Place, Outstanding, InHand, Stage, Told, Advance, AtUnit, call
<1>5. Place <= wire.end
  BY <1>1, <1>2, <1>3, OnTheWire
<1>6. Reading!EndUnit
  BY <1>1, <1>3, <1>4, <1>5 DEF Reading!EndUnit, Place, Told, source
<1>7. QED
  BY <1>6 DEF Reading!Next

(* The bytes of a payload still to come, as the wire has them.             *)
Whole == [i \in DOMAIN payload |->
            IF i > PayloadFrom THEN pos + i - PayloadFrom - 1 ELSE payload[i]]

(* Bytes copied out of the buffer are those.                               *)
LEMMA FilledFromWire ==
  ASSUME RInv, state.in = "payload", NEW take \in 0 .. Buffered, take <= Wanted
  PROVE  /\ DOMAIN Filled(take) = DOMAIN payload
         /\ \A i \in DOMAIN payload :
              Whole[i] = IF i > PayloadFrom + take THEN pos + i - PayloadFrom - 1
                                                   ELSE Filled(take)[i]
<1> DEFINE from == PayloadFrom
<1>1. from \in Nat /\ payload \in Seq(Int) /\ take \in Nat /\ pos \in Nat /\ at \in Nat
  BY InvPayload, InvInput, InputTypes DEF RInv, InputOK
<1>2. DOMAIN Filled(take) = DOMAIN payload
  BY DEF Filled
<1>3. ASSUME NEW i \in DOMAIN payload
      PROVE  Whole[i] = IF i > from + take THEN pos + i - from - 1 ELSE Filled(take)[i]
  <2>1. i \in Nat \ {0}
    BY <1>1
  <2>2. Whole[i] = IF i > from THEN pos + i - from - 1 ELSE payload[i]
    BY DEF Whole
  <2>3. CASE i > from + take
    BY <1>1, <2>1, <2>2, <2>3
  <2>4. CASE i > from /\ ~(i > from + take)
    <3>1. i \in from + 1 .. from + take /\ i - from \in 1 .. Buffered
      BY <1>1, <2>1, <2>4, OnTheWire
    <3>2. Filled(take)[i] = buf[at + i - from]
      BY <3>1 DEF Filled
    <3>3. buf[at + (i - from)] = pos + (i - from) - 1
      BY <3>1 DEF RInv, Inv, BufferHoldsNextBytes
    <3>4. at + i - from = at + (i - from) /\ pos + (i - from) - 1 = pos + i - from - 1
      BY <1>1, <2>1
    <3>5. QED
      BY <2>2, <2>4, <3>2, <3>3, <3>4
  <2>5. CASE ~(i > from)
    <3>1. i \notin from + 1 .. from + take /\ ~(i > from + take)
      BY <1>1, <2>1, <2>5
    <3>2. Filled(take)[i] = payload[i]
      BY <3>1 DEF Filled
    <3>3. QED
      BY <2>2, <2>5, <3>1, <3>2
  <2>6. QED
    BY <2>3, <2>4, <2>5
<1>4. QED
  BY <1>2, <1>3

LEMMA PayloadPartReads ==
  ASSUME RInv, PayloadPart
  PROVE  [Reading!Next]_(Reading!vars)
<1> DEFINE from == PayloadFrom
<1>1. /\ calling /\ state.in = "payload" /\ Buffered < Wanted /\ Advance(Buffered) /\ More(0)
      /\ payload' = Filled(Buffered) /\ state' = [state EXCEPT !.filled = @ + Buffered]
      /\ UNCHANGED <<source, pending, ctx, ceilings>>
  BY DEF PayloadPart
<1>2. /\ state = Payload(state.packet, state.want, state.filled)
      /\ state.want \in Nat /\ state.filled \in Nat /\ payload \in Seq(Int)
      /\ from \in Nat /\ Wanted \in Nat /\ Wanted = state.want - state.filled
  BY <1>1, InvPayload DEF RInv
<1>3. Buffered \in 0 .. Buffered /\ Buffered <= Wanted
  BY <1>1, <1>2, OnTheWire
<1>4. /\ state'.in = "payload" /\ state'.packet = state.packet
      /\ state'.want = state.want /\ state'.filled = state.filled + Buffered
  BY <1>1, <1>2 DEF Payload
<1>5. DOMAIN payload' = DOMAIN payload /\ Len(payload') = Len(payload)
  BY <1>1, <1>3, FilledFromWire, FilledType DEF RInv
<1>6. PayloadFrom' = from + Buffered /\ pos' = pos + Buffered
  BY <1>1, <1>2, <1>4, <1>5, OnTheWire DEF PayloadFrom, Advance
<1>7. ASSUME NEW i \in DOMAIN payload
      PROVE  (IF i > PayloadFrom' THEN pos' + i - PayloadFrom' - 1 ELSE payload'[i]) = Whole[i]
  <2>1. i \in Nat
    BY <1>2
  <2>2. pos' + i - PayloadFrom' - 1 = pos + i - from - 1
    <3>1. pos \in Nat /\ Buffered \in Nat
      BY OnTheWire
    <3> HIDE DEF from
    <3>2. (pos + Buffered) + i - (from + Buffered) - 1 = pos + i - from - 1
      BY <1>2, <2>1, <3>1
    <3>3. QED
      BY <1>6, <3>2
  <2>3. QED
    BY <1>1, <1>3, <1>6, <2>2, FilledFromWire
<1>8. InHand' = InHand
  <2>1. InHand = <<FrameEvent(state.packet, Whole)>>
    BY <1>1, HandForms DEF Whole
  <2>2. InHand' = <<FrameEvent(state'.packet, Whole')>>
    BY <1>4 DEF InHand, Whole
  <2>3. Whole' = Whole
    BY <1>5, <1>7 DEF Whole
  <2>4. QED
    BY <1>4, <2>1, <2>2, <2>3
<1>9. Place' = Place
  BY <1>1, <1>2, <1>4, <1>6, OnTheWire DEF Place, Outstanding, Wanted
<1>10. QED
  BY <1>1, <1>4, <1>8, <1>9, CutShort DEF source

LEMMA PayloadRestReads ==
  ASSUME RInv, PayloadRest
  PROVE  [Reading!Next]_(Reading!vars)
<1>1. /\ calling /\ state.in = "payload" /\ Buffered >= Wanted /\ Advance(Wanted)
      /\ payload' = Filled(Wanted) /\ state' = AtUnit
      /\ ret' = "event" /\ log' = Append(log, FrameEvent(state.packet, payload'))
      /\ UNCHANGED <<source, pending, ctx, ceilings>>
  BY DEF PayloadRest, Emit
<1>2. /\ payload \in Seq(Int) /\ Wanted \in Nat /\ PayloadFrom \in Nat
      /\ PayloadFrom + Wanted = Len(payload)
  BY <1>1, InvPayload DEF RInv
<1>3. Wanted \in 0 .. Buffered /\ Wanted <= Wanted
  BY <1>1, <1>2, OnTheWire
<1>4. payload' = Whole
  <2>1. /\ DOMAIN Filled(Wanted) = DOMAIN payload
        /\ \A i \in DOMAIN payload :
             Whole[i] = IF i > PayloadFrom + Wanted THEN pos + i - PayloadFrom - 1
                                                    ELSE Filled(Wanted)[i]
    BY <1>1, <1>3, FilledFromWire
  <2>2. \A i \in DOMAIN payload : Whole[i] = Filled(Wanted)[i]
    BY <1>2, <2>1
  <2>3. QED
    BY <1>1, <2>1, <2>2 DEF Filled, Whole
<1>5. /\ InHand = <<FrameEvent(state.packet, Whole)>>
      /\ Place = pos + Wanted /\ Stage = "reading"
      /\ Told = log /\ IsRow(log) /\ pending = <<>>
  BY <1>1, Running, StageForms, HandForms DEF Place, Whole
<1>6. Place' = Place /\ InHand' = <<>> /\ Stage' = "reading"
  BY <1>1, <1>2, <1>5, OnTheWire DEF Place, Outstanding, InHand, Stage, Advance, AtUnit, Errors
<1>7. Told' = Told \o InHand
  <2>1. IsRow(log') /\ log' = log \o InHand
    BY <1>1, <1>4, <1>5, RowAppend, RowJoin
  <2>2. log' \o <<>> = log'
    BY <2>1, RowJoin
  <2>3. QED
    BY <1>1, <1>5, <2>1, <2>2 DEF Told
<1>8. InHand # <<>> /\ InHand[1] # Reading!Skipped
  BY <1>5 DEF FrameEvent, Reading!Skipped
<1>9. Place <= wire.end
  BY <1>1, <1>2, <1>5, OnTheWire
<1>10. Reading!EndUnit
  BY <1>1, <1>5, <1>6, <1>7, <1>8, <1>9 DEF Reading!EndUnit, Place, Told, source
<1>11. QED
  BY <1>10 DEF Reading!Next

(* Between two units, and with nothing read.                               *)

LEMMA EmitTells ==
  ASSUME RInv, calling, NEW event, Emit(event), UNCHANGED pending
  PROVE  /\ Told' = Append(Told, event) /\ Told' = Told \o <<event>>
         /\ ret' \notin Errors
<1>1. log' = Append(log, event) /\ ret' = "event"
  BY DEF Emit
<1>2. pending = <<>> /\ Told = log /\ IsRow(log)
  BY Running
<1>3. IsRow(log') /\ log' = log \o <<event>>
  BY <1>1, <1>2, RowAppend, RowJoin
<1>4. log' \o <<>> = log'
  BY <1>3, RowJoin
<1>5. QED
  BY <1>1, <1>2, <1>3, <1>4 DEF Told, Errors

LEMMA UnitAwaitedReads ==
  ASSUME RInv, UnitAwaited
  PROVE  [Reading!Next]_(Reading!vars)
<1>1. /\ calling /\ ret' = "more" /\ UNCHANGED log
      /\ UNCHANGED <<source, input, state, pending, ctx, ceilings, payload>>
  BY DEF UnitAwaited, Answer
<1>2. ret' \notin Errors /\ ret \notin Errors
  BY <1>1, Running DEF Errors
<1>3. QED
  BY <1>1, <1>2, AnswerMaps, Stutters DEF source

LEMMA InputEndsReads ==
  ASSUME RInv, InputEnds
  PROVE  [Reading!Next]_(Reading!vars)
<1>1. /\ calling /\ state.in = "unit" /\ state' = Ended /\ ctx' = HeadersClosed(ctx)
      /\ Emit(IF HeadersDue(ctx) THEN EndOfHeaders ELSE EndOfInput)
      /\ UNCHANGED <<source, input, pending, ceilings, payload>>
  BY DEF InputEnds
<1>2. /\ Stage = "reading" /\ InHand = <<>> /\ Place = pos
      /\ Told' = Append(Told, IF HeadersDue(ctx) THEN EndOfHeaders ELSE EndOfInput)
      /\ ret' \notin Errors
  BY <1>1, BetweenUnits, EmitTells
<1>3. Place' = Place /\ InHand' = <<>> /\ Stage' = "ended"
  BY <1>1, <1>2, OnTheWire DEF Place, Outstanding, InHand, Stage, Ended, input
<1>4. Reading!EndInput
  BY <1>1, <1>2, <1>3, SameHeaders DEF Reading!EndInput, Place, Told, source
<1>5. QED
  BY <1>4 DEF Reading!Next

LEMMA EndedAgainReads ==
  ASSUME RInv, EndedAgain
  PROVE  [Reading!Next]_(Reading!vars)
<1>1. /\ calling /\ state.in = "ended" /\ calling' = FALSE /\ ret' = "event"
      /\ log' = IF log[Len(log)] = EndOfInput THEN log ELSE Append(log, EndOfInput)
      /\ UNCHANGED <<source, input, state, pending, ctx, ceilings, payload>>
  BY DEF EndedAgain
<1>2. /\ Stage = "ended" /\ Told = log /\ pending = <<>> /\ ret \notin Errors
      /\ ret' \notin Errors
  BY <1>1, Running, StageForms DEF Errors
<1>3. Place' = Place /\ InHand' = InHand /\ Stage' = Stage
  BY <1>1, <1>2 DEF Place, Outstanding, Wanted, InHand, PayloadFrom, Stage, input
<1>4. CASE log[Len(log)] = EndOfInput
  BY <1>1, <1>2, <1>3, <1>4, Stutters DEF Told, source
<1>5. CASE log[Len(log)] # EndOfInput
  <2>1. Emit(EndOfInput)
    BY <1>1, <1>5 DEF Emit
  <2>2. Told' = Append(Told, EndOfInput)
    BY <1>1, <2>1, EmitTells
  <2>3. Reading!LastWord
    BY <1>1, <1>2, <1>3, <1>5, <2>2, SameHeaders DEF Reading!LastWord, Place, Told, source
  <2>4. QED
    BY <2>3 DEF Reading!Next
<1>6. QED
  BY <1>4, <1>5

LEMMA HeadersEndReads ==
  ASSUME RInv, HeadersEnd
  PROVE  [Reading!Next]_(Reading!vars)
<1>1. /\ calling /\ state.in = "unit" /\ Buffered > 0 /\ Front.kind = "frame"
      /\ HeadersDue(ctx) /\ ctx' = HeadersClosed(ctx) /\ Emit(EndOfHeaders)
      /\ UNCHANGED <<source, input, state, pending, ceilings, payload>>
  BY DEF HeadersEnd
<1>2. /\ Stage = "reading" /\ InHand = <<>> /\ Place = pos
      /\ Reading!Unit = Front /\ Reading!Left > 0
      /\ Told' = Append(Told, EndOfHeaders) /\ ret' \notin Errors /\ ret \notin Errors
  <2>1. Reading!Left \in Nat /\ Buffered <= Reading!Left /\ Buffered \in Nat
    BY <1>1, BetweenUnits, OnTheWire
  <2>2. Reading!Left > 0
    BY <1>1, <2>1
  <2>3. QED
    BY <1>1, <2>2, BetweenUnits, EmitTells, Running
<1>3. Place' = Place /\ InHand' = InHand /\ Stage' = Stage
  BY <1>1, <1>2 DEF Place, Outstanding, Wanted, InHand, PayloadFrom, Stage, input
<1>4. Reading!CloseHeaders
  BY <1>1, <1>2, <1>3, SameHeaders DEF Reading!CloseHeaders, Place, Told, source
<1>5. QED
  BY <1>4 DEF Reading!Next

-----------------------------------------------------------------------------
(* At a packet.                                                            *)

LEMMA AtPacketReads ==
  ASSUME RInv, AtPacket
  PROVE  /\ calling /\ Stage = "reading" /\ InHand = <<>> /\ Place = pos
         /\ Reading!Unit = Front /\ Reading!Left \in Nat /\ Buffered \in Nat
         /\ Reading!Left >= Buffered /\ Reading!Left > 0 /\ Buffered > 0
         /\ Front.kind # "frame" /\ Front.head \in Nat \ {0} /\ Front.body \in Nat
         /\ ret \notin Errors /\ Told = log
<1>1. calling /\ state.in = "unit" /\ Buffered > 0 /\ Front.kind # "frame"
  BY DEF AtPacket
<1>2. Front.head \in Nat \ {0} /\ Front.body \in Nat
  BY <1>1, InvFront, PacketFields DEF RInv
<1>3. Reading!Left \in Nat /\ Buffered \in Nat /\ Buffered <= Reading!Left
  BY <1>1, BetweenUnits, OnTheWire
<1>4. Reading!Left > 0 /\ Reading!Left >= Buffered
  BY <1>1, <1>3
<1>5. QED
  BY <1>1, <1>2, <1>3, <1>4, BetweenUnits, Running

(* A packet that is not all here: the reading has it all, or it is cut off.*)
LEMMA PacketShortReads ==
  ASSUME RInv, PacketShort
  PROVE  [Reading!Next]_(Reading!vars)
<1>1. /\ AtPacket /\ More(Buffered)
      /\ Buffered < Front.head \/ Buffered < Front.head + Front.body
      /\ UNCHANGED <<source, input, state, pending, ctx, ceilings, payload>>
  BY DEF PacketShort
<1>2. /\ Stage = "reading" /\ InHand = <<>> /\ Reading!Unit = Front /\ Reading!Left > 0
      /\ Front.kind # "frame" /\ ret \notin Errors
  BY <1>1, AtPacketReads
<1>3. Front.head + Front.body > 1 /\ Front.head + Front.body > Buffered
      /\ Front.head + Front.body \in Nat /\ Buffered \in Nat
  BY <1>1, AtPacketReads
<1>4. Place' = Place /\ InHand' = InHand /\ Told' = Told
  BY <1>1, AnswerMaps, MoreAsks
<1>5. CASE ret' = "truncated"
  <2>1. Stage' = "truncated"
    BY <1>1, <1>5, AnswerMaps, MoreAsks
  <2>2. Reading!Truncate
    BY <1>1, <1>2, <1>3, <1>4, <2>1 DEF Reading!Truncate, Place, Told, source
  <2>3. QED
    BY <2>2 DEF Reading!Next
<1>6. CASE ret' = "overfull" /\ Buffered > MaxBuffered
  <2>1. Front.head + Front.body > MaxBuffered + 1
    BY <1>3, <1>6, BufferAssumption
  <2>2. Stage' = "overfull"
    BY <1>1, <1>6, AnswerMaps, MoreAsks
  <2>3. Reading!GiveUp
    BY <1>1, <1>2, <1>4, <2>1, <2>2 DEF Reading!GiveUp, Place, Told, source
  <2>4. QED
    BY <2>3 DEF Reading!Next
<1>7. CASE ret' = "more" /\ ret' \notin Errors
  BY <1>1, <1>2, <1>4, <1>7, AnswerMaps, MoreAsks, Stutters DEF source
<1>8. QED
  BY <1>1, <1>5, <1>6, <1>7, MoreAsks

LEMMA PacketLengthRefusedReads ==
  ASSUME RInv, PacketLengthRefused
  PROVE  [Reading!Next]_(Reading!vars)
<1>1. /\ AtPacket /\ Buffered >= Front.head /\ LengthRefused(Front)
      /\ ret' = "refused" /\ UNCHANGED log
      /\ UNCHANGED <<source, input, state, pending, ctx, ceilings, payload>>
  BY DEF PacketLengthRefused, Answer
<1>2. Reading!AtUnit /\ Reading!Unit = Front /\ Front.kind # "frame"
  BY <1>1, AtPacketReads DEF Reading!AtUnit
<1>3. Place' = Place /\ InHand' = InHand /\ Told' = Told /\ Stage' = "refused"
  BY <1>1, AnswerMaps DEF Errors
<1>4. Reading!Refuse
  BY <1>1, <1>2, <1>3, SamePackets
     DEF Reading!Refuse, Reading!RefusePacket, Place, Told, source
<1>5. QED
  BY <1>4 DEF Reading!Next

LEMMA PacketSteppedOverReads ==
  ASSUME RInv, PacketSteppedOver
  PROVE  [Reading!Next]_(Reading!vars)
<1>1. /\ AtPacket /\ Buffered >= Front.head /\ ~LengthRefused(Front) /\ SteppedOver(Front)
      /\ Advance(Front.head) /\ state' = Skip(Front.body)
      /\ UNCHANGED <<source, call, pending, ctx, ceilings>>
  BY DEF PacketSteppedOver
<1>2. Reading!AtUnit /\ Reading!Unit = Front /\ Front.kind # "frame" /\ Place = pos
  BY <1>1, AtPacketReads DEF Reading!AtUnit
<1>3. /\ Place' = Place + Front.head + Front.body
      /\ InHand' = <<Reading!Skipped>> /\ Stage' = Stage /\ Told' = Told
  BY <1>1, AtPacketReads
     DEF Place, Outstanding, InHand, Stage, Told, Advance, Skip, Reading!Skipped, call
<1>4. Reading!BeginSkip
  BY <1>1, <1>2, <1>3, SamePackets DEF Reading!BeginSkip, Place, Told, source
<1>5. QED
  BY <1>4 DEF Reading!Next

LEMMA PacketBodyRefusedReads ==
  ASSUME RInv, PacketBodyRefused
  PROVE  [Reading!Next]_(Reading!vars)
<1>1. /\ AtPacket /\ Buffered >= Front.head + Front.body /\ ~SteppedOver(Front)
      /\ BodyRefused(ctx, Front) \/ BodyPanics(ctx, Front)
      /\ ret' = (IF BodyPanics(ctx, Front) THEN "panic" ELSE "refused") /\ UNCHANGED log
      /\ ctx' = BodyRefusedLeaves(ctx, Front)
      /\ UNCHANGED <<source, input, state, pending, ceilings, payload>>
  BY DEF PacketBodyRefused, PacketWhole, Answer
<1>2. /\ Stage = "reading" /\ InHand = <<>> /\ Reading!Unit = Front /\ Reading!Left > 0
      /\ Front.kind # "frame"
  BY <1>1, AtPacketReads
<1>3. Reading!AtUnit
  <2>1. Reading!Left >= Front.head
    BY <1>1, AtPacketReads
  <2>2. QED
    BY <1>2, <2>1 DEF Reading!AtUnit
<1>4. Place' = Place /\ InHand' = InHand /\ Told' = Told /\ Stage' = ret'
  BY <1>1, AnswerMaps DEF Errors
<1>5. CASE BodyPanics(ctx, Front)
  <2>1. Reading!Panic
    BY <1>1, <1>2, <1>4, <1>5, SamePackets DEF Reading!Panic, Place, Told, source
  <2>2. QED
    BY <2>1 DEF Reading!Next
<1>6. CASE ~BodyPanics(ctx, Front)
  <2>1. Reading!Refuse
    BY <1>1, <1>2, <1>3, <1>4, <1>6, SamePackets
       DEF Reading!Refuse, Reading!RefusePacket, Place, Told, source
  <2>2. QED
    BY <2>1 DEF Reading!Next
<1>7. QED
  BY <1>5, <1>6

(* The events of a packet, the one held pending included, are told with it.*)
LEMMA PacketBodyReadReads ==
  ASSUME RInv, PacketBodyRead
  PROVE  [Reading!Next]_(Reading!vars)
<1>1. /\ AtPacket /\ state.in = "unit" /\ Buffered >= Front.head + Front.body
      /\ ~LengthRefused(Front) /\ ~SteppedOver(Front)
      /\ ~BodyRefused(ctx, Front) /\ ~BodyPanics(ctx, Front)
      /\ Advance(Front.head + Front.body)
      /\ ctx' = PacketRead(ctx, Front) /\ pending' = PendingAfter(ctx, Front)
      /\ IF PacketEvent(Front) = <<>> THEN UNCHANGED call ELSE Emit(PacketEvent(Front)[1])
      /\ UNCHANGED <<source, state, ceilings, payload>>
  BY DEF PacketBodyRead, PacketWhole, AtPacket
<1>2. /\ Reading!Unit = Front /\ Front.kind # "frame" /\ Place = pos /\ InHand = <<>>
      /\ Told = log /\ IsRow(log) /\ Stage = "reading" /\ ret \notin Errors
  BY <1>1, AtPacketReads, Running
<1>3. Reading!AtUnit /\ Reading!Left >= Front.head + Front.body
  <2>1. Reading!Left >= Front.head + Front.body /\ Reading!Left >= Front.head
    BY <1>1, AtPacketReads
  <2>2. QED
    BY <1>2, <2>1 DEF Reading!AtUnit
<1>4. Place' = Place + Front.head + Front.body /\ InHand' = <<>>
  <2>1. pos' = pos + (Front.head + Front.body) /\ Outstanding' = 0 /\ InHand' = <<>>
    BY <1>1 DEF Advance, Outstanding, InHand
  <2>2. pos \in Nat /\ Front.head \in Nat /\ Front.body \in Nat
    BY <1>1, AtPacketReads, OnTheWire
  <2>3. QED
    BY <1>2, <2>1, <2>2 DEF Place
<1>5. /\ Stage' = "reading"
      /\ log' = log \o PacketEvent(Front)
  <2>1. CASE PacketEvent(Front) = <<>>
    BY <1>1, <1>2, <2>1, RowJoin DEF call, Stage
  <2>2. CASE PacketEvent(Front) # <<>>
    <3>1. ret' = "event" /\ log' = Append(log, PacketEvent(Front)[1])
      BY <1>1, <2>2 DEF Emit
    <3>2. Front.kind \in {"main", "stream", "syncpoint", "info"}
      BY <1>1, <1>2, InvFront DEF SteppedOver, RInv, Units, Packets, MainUnits, StreamUnits,
         SyncUnits, InfoUnits, OtherUnits, FrameUnits
    <3>3. PacketEvent(Front) = <<PacketEvent(Front)[1]>>
      BY <2>2, <3>2 DEF PacketEvent
    <3>4. Stage' = "reading"
      BY <1>1, <3>1 DEF Stage, Errors
    <3>5. QED
      BY <1>2, <3>1, <3>3, <3>4, RowJoin
  <2>3. QED
    BY <2>1, <2>2
<1>6. Told' = Told \o PacketEvent(Front) \o PendingAfter(ctx, Front)
  BY <1>1, <1>2, <1>5 DEF Told
<1>7. Reading!ReadPacket
  BY <1>1, <1>2, <1>3, <1>4, <1>5, <1>6, SamePackets
     DEF Reading!ReadPacket, Place, Told, source
<1>8. QED
  BY <1>7 DEF Reading!Next

-----------------------------------------------------------------------------
(* At a frame. What refuses a header refuses it with more of it here, and  *)
(* a header that was read is read the same with more behind it.            *)

LEMMA RefusedWithMore ==
  ASSUME NEW c, NEW u \in Units, u.kind = "frame", NEW ceiling,
         NEW have \in Nat, NEW more \in Nat, have <= more
  PROVE  /\ FrameRefused(c, u, have, ceiling) => FrameRefused(c, u, more, ceiling)
         /\ FramePanics(c, u, have) => FramePanics(c, u, more)
         /\ FrameReads(c, u, have, ceiling) => FrameReads(c, u, more, ceiling)
<1>1. /\ u.head \in Nat /\ u.ptsAt \in Nat /\ u.streamAt \in Nat
      /\ u.streamAt <= u.ptsAt /\ u.ptsAt <= u.head
  BY FrameFields
<1>2. /\ have >= u.streamAt => more >= u.streamAt
      /\ have >= u.ptsAt => more >= u.ptsAt
      /\ have >= u.head => more >= u.head
      /\ have >= u.head => have >= u.ptsAt /\ have >= u.streamAt
  BY <1>1
<1>3. /\ PtsSeen(c, u, have) => PtsSeen(c, u, more)
      /\ HeadSeen(c, u, have) => HeadSeen(c, u, more)
  BY <1>2 DEF HeadSeen, PtsSeen, StreamSeen
<1>4. FrameRefused(c, u, have, ceiling) => FrameRefused(c, u, more, ceiling)
  BY <1>2, <1>3 DEF FrameRefused
<1>5. FramePanics(c, u, have) => FramePanics(c, u, more)
  BY <1>3 DEF FramePanics
<1>6. HeadSeen(c, u, have) /\ FrameRefused(c, u, more, ceiling) => FrameRefused(c, u, have, ceiling)
  BY <1>2 DEF FrameRefused, HeadSeen, PtsSeen, StreamSeen
<1>7. QED
  BY <1>3, <1>4, <1>5, <1>6 DEF FrameReads

LEMMA AtFrameReads ==
  ASSUME RInv, AtFrame
  PROVE  /\ calling /\ Stage = "reading" /\ InHand = <<>> /\ Place = pos
         /\ Reading!Unit = Front /\ Reading!Left \in Nat /\ Buffered \in Nat
         /\ Reading!Left >= Buffered /\ Reading!Left > 0 /\ Buffered > 0
         /\ Front.kind = "frame" /\ Front \in Units /\ Front.head \in Nat \ {0}
         /\ ret \notin Errors /\ Told = log
<1>1. calling /\ state.in = "unit" /\ Buffered > 0 /\ Front.kind = "frame"
  BY DEF AtFrame
<1>2. Front.head \in Nat \ {0} /\ Front \in Units
  BY <1>1, InvFront, FrameFields DEF RInv
<1>3. Reading!Left \in Nat /\ Buffered \in Nat /\ Buffered <= Reading!Left
  BY <1>1, BetweenUnits, OnTheWire
<1>4. Reading!Left > 0 /\ Reading!Left >= Buffered
  BY <1>1, <1>3
<1>5. QED
  BY <1>1, <1>2, <1>3, <1>4, BetweenUnits, Running

LEMMA FrameShortReads ==
  ASSUME RInv, FrameShort
  PROVE  [Reading!Next]_(Reading!vars)
<1>1. /\ AtFrame /\ More(Buffered)
      /\ UNCHANGED <<source, input, state, pending, ctx, ceilings, payload>>
  BY DEF FrameShort
<1>2. /\ Stage = "reading" /\ InHand = <<>> /\ Reading!Unit = Front /\ Reading!Left > 0
      /\ Front.kind = "frame" /\ ret \notin Errors
  BY <1>1, AtFrameReads
<1>3. Buffered < Front.head /\ Front.head > 1 /\ Front.head \in Nat /\ Buffered \in Nat
  BY <1>1, AtFrameReads, ShortFrame DEF RInv
<1>4. Place' = Place /\ InHand' = InHand /\ Told' = Told
  BY <1>1, AnswerMaps, MoreAsks
<1>5. CASE ret' = "truncated"
  <2>1. Stage' = "truncated"
    BY <1>1, <1>5, AnswerMaps, MoreAsks
  <2>2. Reading!Truncate
    BY <1>1, <1>2, <1>3, <1>4, <2>1 DEF Reading!Truncate, Place, Told, source
  <2>3. QED
    BY <2>2 DEF Reading!Next
<1>6. CASE ret' = "overfull" /\ Buffered > MaxBuffered
  <2>1. Front.head + 0 > MaxBuffered + 1
    BY <1>3, <1>6, BufferAssumption
  <2>2. Stage' = "overfull"
    BY <1>1, <1>6, AnswerMaps, MoreAsks
  <2>3. Reading!GiveUp
    BY <1>1, <1>2, <1>4, <2>1, <2>2 DEF Reading!GiveUp, Place, Told, source
  <2>4. QED
    BY <2>3 DEF Reading!Next
<1>7. CASE ret' = "more" /\ ret' \notin Errors
  BY <1>1, <1>2, <1>4, <1>7, AnswerMaps, MoreAsks, Stutters DEF source
<1>8. QED
  BY <1>1, <1>5, <1>6, <1>7, MoreAsks

LEMMA FrameHeadRefusedReads ==
  ASSUME RInv, FrameHeadRefused
  PROVE  [Reading!Next]_(Reading!vars)
<1>1. /\ AtFrame
      /\ FrameStops \/ FrameBlowsUp
      /\ ret' = (IF FrameBlowsUp THEN "panic" ELSE "refused") /\ UNCHANGED log
      /\ UNCHANGED <<source, input, state, pending, ctx, ceilings, payload>>
  BY DEF FrameHeadRefused, Answer
<1>2. /\ Stage = "reading" /\ InHand = <<>> /\ Reading!Unit = Front /\ Reading!Left > 0
      /\ Front.kind = "frame"
  BY <1>1, AtFrameReads
<1>3. Place' = Place /\ InHand' = InHand /\ Told' = Told /\ Stage' = ret'
  BY <1>1, AnswerMaps DEF Errors
<1>4. /\ FrameStops =>
           FrameRefused(ctx, Front, Reading!Left, Ceiling(ceilings, Front.stream))
      /\ FrameBlowsUp => FramePanics(ctx, Front, Reading!Left)
  BY <1>1, AtFrameReads, RefusedWithMore DEF FrameStops, FrameBlowsUp
<1>5. CASE FrameBlowsUp
  <2>1. Reading!Panic
    BY <1>1, <1>2, <1>3, <1>4, <1>5, SameFrames DEF Reading!Panic, Place, Told, source
  <2>2. QED
    BY <2>1 DEF Reading!Next
<1>6. CASE ~FrameBlowsUp
  <2>1. Reading!RefuseFrame
    BY <1>1, <1>2, <1>4, <1>6, SameFrames, SameCeilings DEF Reading!RefuseFrame
  <2>2. Reading!Refuse
    BY <1>1, <1>3, <1>6, <2>1 DEF Reading!Refuse, Place, Told, source
  <2>3. QED
    BY <2>2 DEF Reading!Next
<1>7. QED
  BY <1>5, <1>6

(* The head of a frame, with what it leaves in hand.                       *)
LEMMA FrameHeadReads ==
  ASSUME RInv, FrameHeadRead, Stage' = "reading", Told' = Told,
         Place' = pos + Front.head + OnWire(ctx, Front),
         InHand' = IF Front.eor THEN <<Reading!Skipped>>
                   ELSE <<FrameEvent(Packet(ctx, Front),
                            Elided(ctx, Front) \o
                              [i \in 1 .. OnWire(ctx, Front) |-> pos + Front.head + i - 1])>>
  PROVE  [Reading!Next]_(Reading!vars)
<1>1. /\ AtFrame /\ ~HeadersDue(ctx) /\ ctx' = FrameRead(ctx, Front)
      /\ FrameReads(ctx, Front, Buffered, Ceiling(ceilings, Front.stream))
      /\ UNCHANGED <<source, ceilings>>
  BY DEF FrameHeadRead, AtFrame
<1>2. /\ Stage = "reading" /\ InHand = <<>> /\ Place = pos
      /\ Reading!Unit = Front /\ Front.kind = "frame"
  BY <1>1, AtFrameReads
<1>3. Reading!AtUnit
  <2>1. Buffered >= Front.head
    BY <1>1 DEF FrameReads, HeadSeen
  <2>2. Reading!Left >= Front.head
    BY <1>1, <2>1, AtFrameReads
  <2>3. QED
    BY <1>2, <2>2 DEF Reading!AtUnit
<1>4. FrameReads(ctx, Front, Reading!Left, Ceiling(ceilings, Front.stream))
  BY <1>1, AtFrameReads, RefusedWithMore
<1>5. Reading!WholeFrame = Elided(ctx, Front) \o
                             [i \in 1 .. OnWire(ctx, Front) |-> pos + Front.head + i - 1]
  BY <1>2, SameFrames DEF Reading!WholeFrame, Place
<1>6. Reading!BeginFrame
  BY <1>1, <1>2, <1>3, <1>4, <1>5, SameHeaders, SameFrames, SameCeilings, SameFrameEvents
     DEF Reading!BeginFrame, Place, Told, source
<1>7. QED
  BY <1>6 DEF Reading!Next

LEMMA RelevanceEndsReads ==
  ASSUME RInv, RelevanceEnds
  PROVE  [Reading!Next]_(Reading!vars)
<1>1. /\ FrameHeadRead /\ AtFrame /\ Front.eor /\ Advance(Front.head)
      /\ state' = Skip(OnWire(ctx, Front)) /\ UNCHANGED <<call, pending>>
  BY DEF RelevanceEnds, FrameHeadRead
<1>2. Stage' = "reading" /\ Told' = Told
  BY <1>1, AtFrameReads DEF Stage, Told, Skip, call
<1>3. InHand' = <<Reading!Skipped>>
  BY <1>1 DEF InHand, Skip, Reading!Skipped
<1>4. Place' = pos + Front.head + OnWire(ctx, Front)
  BY <1>1 DEF Place, Outstanding, Skip, Advance
<1>5. QED
  BY <1>1, <1>2, <1>3, <1>4, FrameHeadReads

LEMMA JoinedInts ==
  ASSUME NEW p \in Seq(Int), NEW q \in Seq(Int)
  PROVE  /\ p \o q \in Seq(Int)
         /\ Len(p \o q) = Len(p) + Len(q) /\ Len(p) \in Nat
         /\ \A i \in 1 .. Len(p) : (p \o q)[i] = p[i]
         /\ \A i \in 1 .. Len(q) : (p \o q)[Len(p) + i] = q[i]
OBVIOUS

LEMMA Stretch ==
  ASSUME NEW n \in Nat, NEW from \in Nat
  PROVE  /\ [i \in 1 .. n |-> from + i - 1] \in Seq(Int)
         /\ Len([i \in 1 .. n |-> from + i - 1]) = n
OBVIOUS

LEMMA FrameBeginsReads ==
  ASSUME RInv, FrameBegins
  PROVE  [Reading!Next]_(Reading!vars)
<1> DEFINE prefix == Elided(ctx, Front)
           want   == OnWire(ctx, Front)
           room   == [i \in 1 .. want |-> Zero]
           rest   == [i \in 1 .. want |-> pos + Front.head + i - 1]
           packet == Packet(ctx, Front)
<1>1. /\ FrameHeadRead /\ AtFrame /\ ~Front.eor /\ Advance(Front.head)
      /\ state' = Payload(packet, want, 0) /\ payload' = prefix \o room
      /\ UNCHANGED <<call, pending>>
  BY DEF FrameBegins, FrameHeadRead
<1>2. prefix \in Seq(Int) /\ want \in Nat
  BY <1>1, FrameHead DEF RInv
<1>3. pos \in Nat /\ Front.head \in Nat
  BY <1>1, OnTheWire, AtFrameReads
<1>4. /\ state'.in = "payload" /\ state'.packet = packet
      /\ state'.want = want /\ state'.filled = 0
  BY <1>1 DEF Payload
<1>5. pos' = pos + Front.head
  BY <1>1 DEF Advance
<1>6. room \in Seq(Int) /\ Len(room) = want
  BY <1>2 DEF Zero
<1>7. /\ rest \in Seq(Int) /\ Len(rest) = want
      /\ \A i \in 1 .. want : rest[i] = pos + Front.head + i - 1
  <2>1. pos + Front.head \in Nat
    BY <1>3
  <2>2. rest \in Seq(Int) /\ Len(rest) = want
    BY <1>2, <2>1, Stretch
  <2>3. QED
    BY <2>2
<1> HIDE DEF prefix, want, room, rest, packet
<1>8. /\ payload' \in Seq(Int) /\ Len(payload') = Len(prefix) + want /\ Len(prefix) \in Nat
      /\ \A i \in 1 .. Len(prefix) : payload'[i] = prefix[i]
      /\ prefix \o rest \in Seq(Int) /\ Len(prefix \o rest) = Len(prefix) + want
      /\ \A i \in 1 .. Len(prefix) : (prefix \o rest)[i] = prefix[i]
      /\ \A i \in 1 .. want : (prefix \o rest)[Len(prefix) + i] = rest[i]
  <2>1. /\ prefix \o room \in Seq(Int)
        /\ Len(prefix \o room) = Len(prefix) + Len(room) /\ Len(prefix) \in Nat
        /\ \A i \in 1 .. Len(prefix) : (prefix \o room)[i] = prefix[i]
    BY <1>2, <1>6, JoinedInts
  <2>2. /\ prefix \o rest \in Seq(Int)
        /\ Len(prefix \o rest) = Len(prefix) + Len(rest)
        /\ \A i \in 1 .. Len(prefix) : (prefix \o rest)[i] = prefix[i]
        /\ \A i \in 1 .. Len(rest) : (prefix \o rest)[Len(prefix) + i] = rest[i]
    BY <1>2, <1>7, JoinedInts
  <2>3. QED
    BY <1>1, <1>6, <1>7, <2>1, <2>2
<1>9. PayloadFrom' = Len(prefix)
  BY <1>2, <1>4, <1>8 DEF PayloadFrom
<1>10. Whole' = prefix \o rest
  <2>1. DOMAIN payload' = 1 .. Len(prefix) + want
    BY <1>8
  <2>2. Whole' = [i \in 1 .. Len(prefix) + want |->
                    IF i > Len(prefix) THEN pos' + i - Len(prefix) - 1 ELSE payload'[i]]
    BY <1>9, <2>1 DEF Whole
  <2>3. ASSUME NEW i \in 1 .. Len(prefix) + want
        PROVE  (IF i > Len(prefix) THEN pos' + i - Len(prefix) - 1 ELSE payload'[i])
                 = (prefix \o rest)[i]
    <3>1. CASE i > Len(prefix)
      <4>1. i - Len(prefix) \in 1 .. want /\ Len(prefix) + (i - Len(prefix)) = i
        BY <1>2, <1>8, <3>1
      <4>2. (prefix \o rest)[i] = rest[i - Len(prefix)]
        BY <1>8, <4>1
      <4>3. rest[i - Len(prefix)] = pos + Front.head + (i - Len(prefix)) - 1
        BY <1>7, <4>1
      <4>4. QED
        BY <1>3, <1>5, <1>8, <3>1, <4>2, <4>3
    <3>2. CASE ~(i > Len(prefix))
      <4>1. i \in 1 .. Len(prefix)
        BY <1>8, <3>2
      <4>2. QED
        BY <1>8, <3>2, <4>1
    <3>3. QED
      BY <3>1, <3>2
  <2>4. prefix \o rest = [i \in 1 .. Len(prefix) + want |-> (prefix \o rest)[i]]
    <3>1. \A s \in Seq(Int) : s = [i \in 1 .. Len(s) |-> s[i]]
      OBVIOUS
    <3>2. QED
      BY <1>8, <3>1
  <2>5. QED
    BY <2>2, <2>3, <2>4
<1>11. InHand' = <<FrameEvent(packet, prefix \o rest)>>
  <2>1. InHand' = <<FrameEvent(state'.packet, Whole')>>
    BY <1>4 DEF InHand, Whole
  <2>2. QED
    BY <1>4, <1>10, <2>1
<1>12. Stage' = "reading" /\ Told' = Told
  BY <1>1, <1>4, AtFrameReads DEF Stage, Told, call
<1>13. Place' = pos + Front.head + want
  BY <1>2, <1>4, <1>5 DEF Place, Outstanding, Wanted
<1>14. QED
  BY <1>1, <1>11, <1>12, <1>13, FrameHeadReads DEF prefix, want, rest, packet

-----------------------------------------------------------------------------
LEMMA InitReads == Init => Reading!Init
<1> SUFFICES ASSUME Init PROVE Reading!Init
  OBVIOUS
<1>1. Outstanding = 0 /\ Stage = "opening" /\ InHand = <<>>
  BY DEF Init, Identifier, Outstanding, Stage, InHand, Errors
<1>2. pos + Outstanding = 0 /\ log \o pending = <<>>
  BY <1>1 DEF Init
<1>3. QED
  BY <1>1, <1>2, SameHeaders DEF Init, Reading!Init

LEMMA NextReads == RInv /\ [Next]_vars => [Reading!Next]_(Reading!vars)
<1> SUFFICES ASSUME RInv, [Next]_vars PROVE [Reading!Next]_(Reading!vars)
  OBVIOUS
<1>1. CASE Caller
  <2>1. CASE \E n \in Chunks : Feed(n) \/ FillPayload(n)
    BY <2>1, BufferAssumption, FeedReads, FillReads
  <2>2. CASE \E stream \in 1 .. MaxStreams, limit \in CeilingChoices :
               SetStreamLimit(stream, limit)
    BY <2>2, LimitReads DEF Reading!Next
  <2>3. CASE Finish \/ TakePayload \/ CallNextEvent
    BY <2>3, FinishReads, TakeReads, CallReads
  <2>4. QED
    BY <1>1, <2>1, <2>2, <2>3 DEF Caller
<1>2. CASE NextEvent
  BY <1>2, IdentifierShortReads, IdentifierReadReads, SkipPartReads, SkipRestReads,
     PayloadPartReads, PayloadRestReads, UnitAwaitedReads, InputEndsReads, EndedAgainReads,
     HeadersEndReads, PacketShortReads, PacketLengthRefusedReads, PacketSteppedOverReads,
     PacketBodyRefusedReads, PacketBodyReadReads, FrameShortReads, FrameHeadRefusedReads,
     RelevanceEndsReads, FrameBeginsReads DEF NextEvent
<1>3. CASE UNCHANGED vars
  BY <1>3, Stutters
     DEF vars, source, call, input, Place, Outstanding, Wanted, InHand, PayloadFrom, Stage, Told
<1>4. QED
  BY <1>1, <1>2, <1>3 DEF Next, Closed

(* However its bytes are cut into pieces, and wherever the loop stops and  *)
(* starts again, the demuxer reads the wire as NutReading does: the same   *)
(* units in the same order, the same events, every frame whole, and an end *)
(* or an error where the wire has one.                                     *)
THEOREM ReadingRefined == Spec => ReadsTheWire
<1>1. Init => RInv
  BY InitInv, InitSettled DEF RInv
<1>2. RInv /\ [Next]_vars => RInv'
  BY NextInv, NextSettled DEF RInv
<1>3. QED
  BY InitReads, NextReads, <1>1, <1>2, PTL DEF Spec, ReadsTheWire, Reading!Spec
=============================================================================
