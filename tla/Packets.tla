------------------------------ MODULE Packets -------------------------------
(***************************************************************************)
(* One packet, or a frame's header, on its way from a writer to a parser,  *)
(* byte by byte: how the bodies of headers are put by src/mux.rs and read  *)
(* by src/demux.rs, and what `unit' answers to as much of one as has come. *)
(* In PushDemuxer and NutContext a unit is what this module reads out of   *)
(* its bytes.                                                              *)
(***************************************************************************)
EXTENDS Fields

CONSTANTS
  N,             (* The byte every startcode begins with.                  *)
  MaxStreams,    (* Limits::max_streams                                    *)
  MaxBases,      (* MAX_TIME_BASES                                         *)
  MaxElisions,   (* MAX_ELISION_HEADERS                                    *)
  MaxElision,    (* MAX_ELISION_BYTES                                      *)
  MaxStated,     (* The most fields a group of framecodes may state: 64.   *)
  MaxShift,      (* The first shift of a PTS there is no room for: 63.     *)
  MaxDelay,      (* MAX_DECODE_DELAY                                       *)
  MaxSide,       (* The most a width, a rate or a number of channels is.   *)
  Named,         (* The codec tags Stream::codec_name has a name for.      *)
  NotText,       (* A byte that is in no UTF-8.                            *)
  MaxTold,       (* The most fields read of an info packet: 64.            *)
  Threshold,     (* HEADER_CHECKSUM_THRESHOLD                              *)
  MaxHeader,     (* Limits::max_header                                     *)
  MaxReserved,   (* MAX_RESERVED_FIELDS                                    *)
  MaxFrame,      (* Limits::max_frame                                      *)
  Declared,      (* What was before: how many streams and time bases, the  *)
                 (* framecodes, and how long each elision header is.       *)
  Packets        (* What may be under way, by its kinds: its bytes as put  *)
                 (* and as they come, and what they were put to say.       *)

VARIABLES
  packet,
  got,           (* How much of it has come.                               *)
  answer         (* What the parser made of that.                          *)

vars == <<packet, got, answer>>

(* The startcodes, of two bytes here; what follows the last is stepped over*)
MainCode   == 1
StreamCode == 2
SyncCode   == 3
InfoCode   == 4
Headers    == {MainCode, StreamCode, SyncCode}

Version    == 3
Video      == 0
Audio      == 1

(* A framecode is a byte. Of its flags, those that an event only passes on *)
(* (KEY, EOR) are one here.                                                *)
FrameCodes == Bytes
Mark       == 1
CodedPts   == 2
StreamId   == 4
SizeMsb    == 8
Checksum   == 16
Reserved   == 32
SmData     == 64
HeaderIdx  == 128
MatchTime  == 256
Coded      == 512
Invalid    == 1024

-----------------------------------------------------------------------------
(* Bodies as a Muxer puts them.                                            *)

PutVs(values) == FlattenSeq([i \in DOMAIN values |-> PutV(values[i])])

PutGroup(flags, mul, count) ==
  PutVs(<<flags, 6>>) \o PutS(0) \o PutVs(<<mul, 0, 0, 0, count>>)

PutFrameCodes ==
  PutGroup(Invalid, 0, 1) \o PutGroup(Coded, 1, 1)
    \o PutGroup(Invalid, 0, Cardinality(FrameCodes) - 3)

PutMain(said) ==
  PutVs(<<Version, said.streams, said.distance, Len(said.bases)>>)
    \o PutVs(FlattenSeq(said.bases)) \o PutFrameCodes \o PutV(0)

PutGeometry(class, media) ==
  PutVs(IF class = Audio THEN <<media[1], 1, media[2]>> ELSE media)

PutStream(said) ==
  PutVs(<<said.id, said.class>>) \o PutVb(said.fourcc)
    \o PutVs(<<said.base, said.shift, said.distance, said.delay, 0>>)
    \o PutVb(said.extradata) \o PutGeometry(said.class, said.media)

PutSyncpoint(said) == PutVs(<<said.coded, said.back>>)

PutFrameRate(id, name, text) ==
  PutV(id + 1) \o PutS(0) \o PutVs(<<0, 0, 1>>) \o PutVb(name) \o PutS(-1) \o PutVb(text)

PutPacket(code, body) ==
  <<N, code>> \o PutV(Len(body) + CrcBytes) \o body \o PutWhole(Crc(body))

(* A frame's header; its PTS is past the range of low bits already.        *)
ExplicitFrameCode == 1

PutFrame(said) ==
  LET flags  == CodedPts + SizeMsb + Checksum + (IF said.mark THEN Mark ELSE 0)
                  + (IF said.stream = 0 THEN 0 ELSE StreamId)
      header == <<ExplicitFrameCode>> \o PutV(flags + Coded)
                  \o (IF said.stream = 0 THEN <<>> ELSE PutV(said.stream))
                  \o PutVs(<<said.pts, said.size>>)
  IN  header \o PutWhole(Crc(header))

-----------------------------------------------------------------------------
(* Bodies as they are read.                                                *)

AV(bytes, at, i)  == ReadV(bytes, at)
AVb(bytes, at, i) == ReadVb(bytes, at)

(* The field of a group that is signed, and the one that is and is skipped.*)
Stated(bytes, at, i) == IF i \in {1, 7} THEN ReadS(bytes, at) ELSE ReadV(bytes, at)

(* One group: as many framecodes after those that are described as it has  *)
(* in its count, N left out of it. What it does not state is as the group  *)
(* before it has it, or zero.                                              *)
NoFrameCodes ==
  [next |-> 0, codes |-> [i \in FrameCodes |-> <<>>], delta |-> 0, mul |-> 1, stream |-> 0,
   header |-> 0]

(* A mutation: N is one of the group's count.                              *)
BeforeCounted(next, i) == i - next

Before(next, i) == i - next - (IF next <= N /\ N < i THEN 1 ELSE 0)

Described(table, flags, stated) ==
  LET said(i, otherwise) == IF i <= Len(stated) THEN stated[i] ELSE otherwise
      delta  == said(1, table.delta)
      mul    == said(2, table.mul)
      stream == said(3, table.stream)
      lsb    == said(4, 0)
      count  == said(6, IF mul > lsb THEN mul - lsb ELSE 0)
      run    == {i \in FrameCodes : i >= table.next /\ Before(table.next, i) < count}
      entry(i) ==
        IF i = N THEN <<Invalid>>
        ELSE <<flags, delta, mul, stream, Smallest({lsb + Before(table.next, i), MaxWord}),
               said(5, 0), said(8, table.header)>>
  IN  [next   |-> table.next + Cardinality(run),
       codes  |-> [i \in FrameCodes |-> IF i \in run THEN entry(i) ELSE table.codes[i]],
       delta  |-> delta, mul |-> mul, stream |-> stream, header |-> said(8, table.header)]

ReadGroup(bytes, at, table) ==
  Then(Each(bytes, at, 2, AV), LAMBDA first, to :
    IF first[2] > MaxStated THEN Bad
    ELSE Then(Each(bytes, to, first[2], Stated), LAMBDA stated, end :
           Ok(Described(table, first[1], stated), end)))

AllDescribed(table) == table.next = Cardinality(FrameCodes)

ReadFrameCodes(bytes, at) ==
  LET read[groups \in 0 .. Cardinality(FrameCodes)] ==
        IF groups = 0 THEN Ok(NoFrameCodes, at)
        ELSE Then(read[groups - 1], LAMBDA table, to :
               IF AllDescribed(table) THEN Ok(table, to) ELSE ReadGroup(bytes, to, table))
  IN  Then(read[Cardinality(FrameCodes)], LAMBDA table, end :
        IF AllDescribed(table) THEN Ok(table.codes, end) ELSE Bad)

ReadMain(body) ==
  Then(Each(body, 0, 4, AV), LAMBDA first, p :
    IF first[1] # Version \/ first[2] \notin 1 .. MaxStreams \/ first[4] \notin 1 .. MaxBases
      THEN Bad
    ELSE Then(Each(body, p, 2 * first[4], AV), LAMBDA rates, q :
      Then(ReadFrameCodes(body, q), LAMBDA codes, r :
        Then(ReadV(body, r), LAMBDA count, s :
          IF 0 \in ToSet(rates) \/ count >= MaxElisions THEN Bad
          ELSE Then(Each(body, s, count, AVb), LAMBDA elision, end :
            IF \E i \in DOMAIN elision : Len(elision[i]) \notin 1 .. MaxElision THEN Bad
            ELSE Ok([streams |-> first[2], distance |-> first[3],
                     bases |-> [i \in 1 .. first[4] |-> <<rates[2 * i - 1], rates[2 * i]>>],
                     codes |-> codes, elision |-> elision], end))))))

ReadVideo(bytes, at) ==
  Then(Each(bytes, at, 5, AV), LAMBDA media, end :
    IF {media[1], media[2]} \subseteq 1 .. MaxSide THEN Ok(media, end) ELSE Bad)

ReadAudio(bytes, at) ==
  Then(Each(bytes, at, 3, AV), LAMBDA media, end :
    IF 0 \in ToSet(media) \/ media[1] % media[2] # 0 THEN Bad
    ELSE IF {media[1] \div media[2], media[3]} \subseteq 1 .. MaxSide
      THEN Ok(<<media[1] \div media[2], media[3]>>, end) ELSE Bad)

ReadGeometry(class, bytes, at) ==
  CASE class = Audio -> ReadAudio(bytes, at)
    [] class = Video -> ReadVideo(bytes, at)
    [] OTHER -> Ok(<<>>, at)

ReadStream(body) ==
  Then(Each(body, 0, 2, AV), LAMBDA first, p :
    Then(ReadVb(body, p), LAMBDA fourcc, q :
      Then(Each(body, q, 5, AV), LAMBDA coding, r :
        Then(ReadVb(body, r), LAMBDA extradata, s :
          Then(ReadGeometry(first[2], body, s), LAMBDA media, end :
            IF \/ first[1] >= Declared.streams \/ coding[1] >= Declared.bases
               \/ coding[2] >= MaxShift \/ coding[4] > MaxDelay
               \/ coding[4] # 0 /\ fourcc \notin Named
              THEN Bad
            ELSE Ok([id |-> first[1], class |-> first[2], fourcc |-> fourcc, base |-> coding[1],
                     shift |-> coding[2], distance |-> coding[3], delay |-> coding[4],
                     extradata |-> extradata, media |-> media], end))))))

ReadSyncpoint(body) ==
  Then(Each(body, 0, 2, AV), LAMBDA both, end : Ok([coded |-> both[1], back |-> both[2]], end))

(* One field of an info packet: a name, a type and what the type calls for.*)
(* Text is kept, the rest is read past.                                    *)
ReadTold(bytes, at, i) ==
  Then(ReadVb(bytes, at), LAMBDA name, p :
    Then(ReadS(bytes, p), LAMBDA type, q :
      CASE type = -1 -> Then(ReadVb(bytes, q), LAMBDA text, end : Ok(<<name, text>>, end))
        [] type = -2 -> Then(Each(bytes, q, 2, AVb), LAMBDA both, end : Ok(<<name, both[2]>>, end))
        [] type = -3 -> Then(ReadS(bytes, q), LAMBDA value, end : Ok(<<>>, end))
        [] type = -4 -> Then(ReadV(bytes, q), LAMBDA value, end : Ok(<<>>, end))
        [] OTHER -> Ok(<<>>, q)))

Kept(field) == field # <<>> /\ NotText \notin ToSet(field[1] \o field[2])

ReadInfo(body) ==
  Then(ReadV(body, 0), LAMBDA about, p :
    Then(ReadS(body, p), LAMBDA chapter, q :
      Then(Each(body, q, 3, AV), LAMBDA rest, r :
        Then(Each(body, r, Smallest({rest[3], MaxTold}), ReadTold), LAMBDA told, end :
          Ok([about |-> about, tags |-> SelectSeq(told, Kept)], end)))))

(* A body is whole when it is read: one that runs off its end is wrong,    *)
(* unless it is an info packet, which then says nothing.                   *)
Nothing == [nothing |-> TRUE]

ReadBody(code, body) ==
  LET read == CASE code = MainCode   -> ReadMain(body)
                [] code = StreamCode -> ReadStream(body)
                [] code = SyncCode   -> ReadSyncpoint(body)
                [] OTHER             -> ReadInfo(body)
  IN  IF read.is = "ok" THEN read ELSE IF code = InfoCode THEN Ok(Nothing, 0) ELSE Bad

Skipped(len) == [skipped |-> len]

ReadPacket(bytes) ==
  Then(Take(bytes, 0, 2), LAMBDA start, p :
    Then(ReadV(bytes, p), LAMBDA len, q :
      Then(Take(bytes, q, IF len > Threshold THEN CrcBytes ELSE 0), LAMBDA unchecked, r :
        CASE len < CrcBytes -> Bad
          [] len >= CrcBytes /\ len > MaxHeader /\ start[2] \in Headers -> Bad
          [] len >= CrcBytes /\ start[2] = InfoCode /\ len > MaxHeader -> Ok(Skipped(len), r)
          [] len >= CrcBytes /\ start[2] \notin Headers \cup {InfoCode} -> Ok(Skipped(len), r)
          [] OTHER -> Then(Take(bytes, r, len), LAMBDA body, end :
               LET fields == SubSeq(body, 1, len - CrcBytes)
               IN  IF body # fields \o PutWhole(Crc(fields)) THEN Bad
                   ELSE Then(ReadBody(start[2], fields), LAMBDA said, read : Ok(said, end))))))

-----------------------------------------------------------------------------
(* A frame's header: each field where its flag says it is there, and else  *)
(* as the framecode has it. What it says of its PTS is left to NutContext. *)
Has(flags, flag) == (flags \div flag) % 2 = 1

Field(bytes, at, there, otherwise) ==
  IF there THEN ReadV(bytes, at) ELSE Ok(otherwise, at)

Size(code, msb) == msb * code[3] + code[5]

Elided(header) == Declared.elision[header + 1]

(* Its checksum, where it has one, and whether it fits.                    *)
ReadChecksum(bytes, flags, at, says) ==
  Then(Take(bytes, at, IF Has(flags, Checksum) THEN CrcBytes ELSE 0), LAMBDA crc, end :
    IF \/ crc \notin {<<>>, PutWhole(Crc(SubSeq(bytes, 1, at)))}
       \/ Elided(says.header) > says.size \/ says.size > MaxFrame
      THEN Bad ELSE Ok(says, end))

(* What comes behind its size: a match time and reserved fields, read past,*)
(* and between them the elision header.                                    *)
ReadBehind(bytes, code, flags, at, says) ==
  Then(IF Has(flags, MatchTime) THEN ReadS(bytes, at) ELSE Ok(0, at), LAMBDA time, p :
    Then(Field(bytes, p, Has(flags, HeaderIdx), code[7]), LAMBDA header, q :
      IF header >= Len(Declared.elision) THEN Bad
      ELSE Then(Field(bytes, q, Has(flags, Reserved), code[6]), LAMBDA count, r :
        IF count > MaxReserved THEN Bad
        ELSE Then(Each(bytes, r, count, AV), LAMBDA reserved, end :
          IF Has(flags, SmData) THEN Bad
          ELSE ReadChecksum(bytes, flags, end, [says EXCEPT !.header = header])))))

ReadFields(bytes, code, flags, at) ==
  Then(Field(bytes, at, Has(flags, StreamId), code[4]), LAMBDA stream, p :
    IF stream >= Declared.streams THEN Bad
    ELSE Then(Field(bytes, p, Has(flags, CodedPts), code[2]), LAMBDA pts, q :
      Then(Field(bytes, q, Has(flags, SizeMsb), 0), LAMBDA msb, end :
        IF Size(code, msb) > MaxWord THEN Bad
        ELSE ReadBehind(bytes, code, flags, end,
               [stream |-> stream, coded |-> Has(flags, CodedPts), pts |-> pts,
                size |-> Size(code, msb), header |-> 0, mark |-> Has(flags, Mark)]))))

ReadFrame(bytes) ==
  LET code == Declared.codes[bytes[1]]
  IN  IF Has(code[1], Invalid) THEN Bad
      ELSE Then(Field(bytes, 1, Has(code[1], Coded), 0), LAMBDA other, at :
             ReadFields(bytes, code, code[1] ^^ other, at))

(* unit                                                                    *)
ReadUnit(bytes) == IF bytes[1] = N THEN ReadPacket(bytes) ELSE ReadFrame(bytes)

-----------------------------------------------------------------------------
Init ==
  /\ \E kind \in DOMAIN Packets : packet \in Packets[kind]
  /\ got = 0
  /\ answer = Need

Come(n) == SubSeq(packet.bytes, 1, n)

(* More of it comes, and the parser starts again at its first byte.        *)
Arrive ==
  /\ answer = Need
  /\ got < Len(packet.bytes)
  /\ got' = got + 1
  /\ answer' = ReadUnit(Come(got'))
  /\ UNCHANGED packet

Spec == Init /\ [][Arrive]_vars

-----------------------------------------------------------------------------
(* What was put is what is read once the last byte of it is here, and no   *)
(* sooner. What has changed on its way, in its fields or its checksum, is  *)
(* refused by then, as is what says a thing there is no room for.          *)
Refused == [refused |-> TRUE]

ReadAsPut ==
  packet.put # <<>> =>
    LET sound == Come(Len(packet.put)) = packet.put /\ packet.says # Refused
    IN  IF got < Len(packet.put) THEN answer = Need \/ (~sound /\ answer = Bad)
        ELSE answer = IF sound THEN Ok(packet.says, Len(packet.put)) ELSE Bad

(* Whatever is on the wire, an answer to some of it is the answer to all of*)
(* it: a parser never takes what it has for more than it is.               *)
AnswerStands == answer # Need => answer = ReadUnit(packet.bytes)
=============================================================================
