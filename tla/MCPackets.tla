----------------------------- MODULE MCPackets ------------------------------
(***************************************************************************)
(* Units for model checking: every kind a Muxer writes and some it does    *)
(* not, whole, changed in any byte of their fields or checksum, or cut;    *)
(* and anything at all that begins as a packet does.                       *)
(***************************************************************************)
EXTENDS Packets

MCNamed    == {<<1, 2>>}

(* The framecode of a Muxer's frames, two that leave all to a frame, two   *)
(* that leave it some fields, and one that leaves it none.                 *)
MCDeclared ==
  [streams |-> 2, bases |-> 1, elision |-> <<0, 2>>,
   codes |-> [i \in FrameCodes |->
     CASE i = 1 -> <<Coded, 0, 1, 0, 0, 0, 0>>
       [] i = 2 -> <<Coded + Mark + SizeMsb + Checksum, -2, 3, 1, 1, 1, 1>>
       [] i = 4 -> <<CodedPts + SizeMsb, 0, 5, 1, 3, 0, 1>>
       [] i = 5 -> <<StreamId + HeaderIdx + Reserved + Checksum, 4, 1, 0, 6, 0, 0>>
       [] i = 6 -> <<Mark, -1, 1, 1, 4, 0, 0>>
       [] OTHER -> <<Invalid>>]]

Under(code, body, says) ==
  LET put == PutPacket(code, body)
  IN  [put |-> put, bytes |-> put \o <<N>>, says |-> says]

(* One byte of it, or two neighbours, are others, behind its length.       *)
Changed(code, body, says) ==
  LET put   == PutPacket(code, body)
      first == Len(put) - Len(body) - CrcBytes + 1
      other(i, by, also) ==
        [j \in DOMAIN put |-> (put[j] + (IF j = i THEN by ELSE IF j = i + 1 THEN also ELSE 0))
                                % (2 * Group)]
  IN  {[put |-> put, bytes |-> other(i, by, also), says |-> says] :
         i \in first .. Len(put) - 1, by \in 1 .. 2 * Group - 1,
         also \in {0, 1, Group, 2 * Group - 1}}

-----------------------------------------------------------------------------
(* A main header by a Muxer, whose framecodes are one; and by others, who  *)
(* describe them in any groups: the framecodes but N are, in order, those  *)
(* the groups run through.                                                 *)
OneCode ==
  [i \in FrameCodes |->
     IF i = N THEN <<Invalid>>
     ELSE IF i = 1 THEN <<Coded, 0, 1, 0, 0, 0, 0>>
     ELSE <<Invalid, 0, 0, 0, IF i = 0 THEN 0 ELSE i - (IF i > N THEN 3 ELSE 2), 0, 0>>]

OwnMain(streams, bases) == [streams |-> streams, distance |-> 9, bases |-> bases]

MainSays(said, codes, elision) ==
  [streams |-> said.streams, distance |-> said.distance, bases |-> said.bases,
   codes |-> codes, elision |-> elision]

Latest(groups, g, i, otherwise) ==
  LET last == {h \in 1 .. g : Len(groups[h].stated) >= i}
  IN  IF last = {} THEN otherwise ELSE groups[CHOOSE h \in last : \A k \in last : k <= h].stated[i]

Run(groups, g) ==
  LET stated == groups[g].stated
      now(i) == IF Len(stated) >= i THEN stated[i] ELSE 0
      mul    == Latest(groups, g, 2, 1)
  IN  [k \in 1 .. (IF Len(stated) >= 6 THEN stated[6] ELSE mul - now(4)) |->
         <<groups[g].flags, Latest(groups, g, 1, 0), mul, Latest(groups, g, 3, 0),
           now(4) + k - 1, now(5), Latest(groups, g, 8, 0)>>]

GroupsSay(groups) ==
  LET entries == FlattenSeq([g \in DOMAIN groups |-> Run(groups, g)])
  IN  [i \in FrameCodes |-> IF i = N THEN <<Invalid>> ELSE entries[IF i < N THEN i + 1 ELSE i]]

PutGroups(groups) ==
  FlattenSeq([g \in DOMAIN groups |->
    PutVs(<<groups[g].flags, Len(groups[g].stated)>>)
      \o FlattenSeq([i \in DOMAIN groups[g].stated |->
           IF i \in {1, 7} THEN PutS(groups[g].stated[i]) ELSE PutV(groups[g].stated[i])])])

Stating(flags, stated) == [flags |-> flags, stated |-> stated]

ForeignGroups ==
  {<<Stating(0, <<-2, 3>>), Stating(1, <<>>), Stating(4, <<5, 1>>), Stating(2, <<0, 8>>)>>,
   <<Stating(0, <<2, 4, 1>>), Stating(1, <<-1, 5, 0, 2, 1>>), Stating(4, <<0, 8>>)>>,
   <<Stating(1, <<1, 1, 1, 0, 0, 2, -3, 1>>), Stating(2, <<0, 9, 0, 3, 0, 0>>),
     Stating(0, <<3, 1, 0, 0, 0, 4, 1, 2, 7>>), Stating(3, <<>>), Stating(2, <<0, 20>>)>>}
  \cup {<<Stating(1, <<delta, 15>>)>> : delta \in {-511, -256} \cup -8 .. 8 \cup {255, 511}}

ForeignMain(groups) ==
  PutVs(<<Version, 1, 9, 1, 2, 3>>) \o PutGroups(groups) \o PutV(1) \o PutVb(<<6, 5>>)

ForeignSays(groups) ==
  MainSays([streams |-> 1, distance |-> 9, bases |-> <<<<2, 3>>>>], GroupsSay(groups), <<<<6, 5>>>>)

MainHeaders ==
  {Under(MainCode, PutMain(said), MainSays(said, OneCode, <<>>)) :
     said \in {OwnMain(1, <<<<1, 5>>>>), OwnMain(3, <<<<2, 7>>, <<1, 100>>>>)}}
  \cup {Under(MainCode, ForeignMain(groups), ForeignSays(groups)) : groups \in ForeignGroups}

-----------------------------------------------------------------------------
Streams ==
  {[id |-> id, class |-> class, fourcc |-> fourcc, base |-> 0, shift |-> 4, distance |-> 17,
    delay |-> delay, extradata |-> extradata,
    media |-> CASE class = Video -> <<7, 64, 1, 2, 0>> [] class = Audio -> <<48, 2>>
                [] OTHER -> <<>>] :
     id \in {0, 1}, class \in 0 .. 3, fourcc \in {<<1, 2>>}, delay \in {0, 1},
     extradata \in {<<>>, <<7, 0, 7>>}}

Sound == CHOOSE said \in Streams : said.class = Audio /\ said.delay = 1

RefusedStreams ==
  {[Sound EXCEPT !.id = 2], [Sound EXCEPT !.base = 1], [Sound EXCEPT !.shift = 6],
   [Sound EXCEPT !.delay = 2], [Sound EXCEPT !.fourcc = <<2>>], [Sound EXCEPT !.media = <<0, 2>>],
   [Sound EXCEPT !.media = <<48, 0>>], [Sound EXCEPT !.media = <<101, 2>>]}

StreamHeaders ==
  {Under(StreamCode, PutStream(said), said) : said \in Streams}
  \cup {Under(StreamCode, PutStream(said), Refused) : said \in RefusedStreams}

Syncpoints ==
  {Under(SyncCode, PutSyncpoint(said), said) :
     said \in [coded : {0, 1, 7, 8, 63, 64, 511, 512, MaxWord}, back : {0, 5, MaxWord}]}

-----------------------------------------------------------------------------
(* Info packets: a rate by a Muxer; and fields of every type, of which     *)
(* those that are text are told.                                           *)
Rate(id, text) ==
  Under(InfoCode, PutFrameRate(id, <<2>>, text),
        [about |-> id + 1, tags |-> <<<<<<2>>, text>>>>])

Told ==
  {[put |-> PutS(-1) \o PutVb(<<4, 5>>), text |-> <<<<4, 5>>>>],
   [put |-> PutS(-2) \o PutVb(<<1>>) \o PutVb(<<6>>), text |-> <<<<6>>>>],
   [put |-> PutS(-3) \o PutS(-511), text |-> <<>>],
   [put |-> PutS(-4) \o PutV(MaxWord), text |-> <<>>],
   [put |-> PutS(31), text |-> <<>>],
   [put |-> PutS(-1) \o PutVb(<<4, 7>>), text |-> <<>>]}

Info(fields) ==
  Under(InfoCode,
        PutV(0) \o PutS(-1) \o PutVs(<<3, 4, Len(fields)>>)
          \o FlattenSeq([i \in DOMAIN fields |-> PutVb(<<i>>) \o fields[i].put]),
        [about |-> 0,
         tags |-> FlattenSeq([i \in DOMAIN fields |->
                    IF fields[i].text = <<>> THEN <<>> ELSE <<<<<<i>>, fields[i].text[1]>>>>])])

Infos ==
  {Rate(id, text) : id \in {0, 3}, text \in {<<1, 5, 1>>, <<>>}}
  \cup {Info(fields) : fields \in [1 .. 2 -> Told]}

-----------------------------------------------------------------------------
(* Frames' headers: a Muxer's; and by others, with any flags the framecode *)
(* leaves to the frame.                                                    *)
OwnFrames ==
  [stream : {0, 1}, coded : {TRUE}, pts : {16, 17, 1500}, size : {0, 7, 8, 900},
   header : {0}, mark : BOOLEAN]

HeaderFlags ==
  {CodedPts, StreamId, SizeMsb, Checksum, Reserved, HeaderIdx, MatchTime, Mark}

PutsFrame(framecode, flags, f) ==
  LET code   == MCDeclared.codes[framecode]
      if(flag, bytes) == IF Has(flags, flag) THEN bytes ELSE <<>>
      count  == IF Has(flags, Reserved) THEN f.count ELSE code[6]
      header == <<framecode>>
        \o (IF Has(code[1], Coded) THEN PutV(flags ^^ code[1]) ELSE <<>>)
        \o if(StreamId, PutV(f.stream)) \o if(CodedPts, PutV(f.pts)) \o if(SizeMsb, PutV(f.msb))
        \o if(MatchTime, PutS(-5)) \o if(HeaderIdx, PutV(f.header))
        \o if(Reserved, PutV(count)) \o FlattenSeq([i \in 1 .. count |-> PutV(60 * i)])
  IN  header \o if(Checksum, PutWhole(Crc(header)))

FrameSays(framecode, flags, f) ==
  LET code  == MCDeclared.codes[framecode]
      of(flag, value, i) == IF Has(flags, flag) THEN value ELSE code[i]
      size  == (IF Has(flags, SizeMsb) THEN f.msb * code[3] ELSE 0) + code[5]
      says  == [stream |-> of(StreamId, f.stream, 4), coded |-> Has(flags, CodedPts),
                pts |-> of(CodedPts, f.pts, 2), size |-> size,
                header |-> of(HeaderIdx, f.header, 7), mark |-> Has(flags, Mark)]
  IN  IF \/ says.stream > 1 \/ says.header > 1 \/ of(Reserved, f.count, 6) > MaxReserved
         \/ Has(flags, SmData) \/ size > MaxFrame \/ size < 2 * says.header
        THEN Refused ELSE says

OtherFrames ==
  LET code(framecode) == MCDeclared.codes[framecode][1]
      any(framecode)  ==
        IF Has(code(framecode), Coded)
          THEN {SmData} \cup {SumSet(some) : some \in SUBSET HeaderFlags} ELSE {code(framecode)}
      fields == {[stream |-> 1, pts |-> 70, msb |-> 3, header |-> 1, count |-> 2],
                 [stream |-> 0, pts |-> 0, msb |-> 0, header |-> 0, count |-> 0],
                 [stream |-> 1, pts |-> 9, msb |-> 299, header |-> 1, count |-> 1],
                 [stream |-> 0, pts |-> 9, msb |-> 300, header |-> 2, count |-> 0],
                 [stream |-> 2, pts |-> 8, msb |-> 683, header |-> 0, count |-> 3],
                 [stream |-> 0, pts |-> 8, msb |-> MaxWord, header |-> 0, count |-> 3]}
      sent(put, says) == [put |-> put, bytes |-> Append(put, N), says |-> says]
  IN  UNION {{sent(PutsFrame(framecode, flags, f), FrameSays(framecode, flags, f)) :
                flags \in any(framecode), f \in fields} : framecode \in {2, 4, 5, 6}}

(* One byte of it or two neighbours are others, behind its flags, and each *)
(* field ends where it did.                                                *)
ChangedFrames ==
  LET said == [stream |-> 1, coded |-> TRUE, pts |-> 80, size |-> 9, header |-> 0, mark |-> TRUE]
      put  == PutFrame(said)
      bits(b, by) == (b \div Group) * Group + ((b + by) % Group)
      other(i, by, also) ==
        [j \in DOMAIN put |-> IF j = i THEN bits(put[j], by)
                              ELSE IF j = i + 1 THEN bits(put[j], also) ELSE put[j]]
  IN  {[put |-> put, bytes |-> other(i, by, also), says |-> said] :
         i \in 6 .. Len(put), by \in 1 .. Group - 1, also \in 0 .. Group - 1}

OwnHeaders ==
  {[put |-> PutFrame(said), bytes |-> Append(PutFrame(said), N), says |-> said] :
     said \in OwnFrames}

-----------------------------------------------------------------------------
(* What nobody put: a packet whose fields are not all there, or too wide.  *)
Alone(bytes) == [put |-> <<>>, bytes |-> bytes, says |-> Nothing]

Cut ==
  {Alone(PutPacket(code, SubSeq(body, 1, n))) :
     code \in {StreamCode, InfoCode},
     body \in {PutStream(Sound)}, n \in 0 .. 12}

AnyPacket ==
  {Alone(<<N, code>> \o some) : code \in 1 .. 5, some \in [1 .. 4 -> {0, 7, 8, 11, 12, 15}]}

Anything ==
  {Alone(<<i>> \o some) : i \in {0, 1, 2, N, 4, 5, 7}, some \in [1 .. 3 -> Bytes]}

Wide ==
  {Alone(<<N, code>> \o PutV(len) \o [i \in 1 .. 4 |-> 0]) :
     code \in 1 .. 5, len \in {50, 60, 61, 70}}

MCPackets ==
  <<MainHeaders, StreamHeaders, Syncpoints, Infos, OwnHeaders, OtherFrames, ChangedFrames, Cut,
    AnyPacket, Anything, Wide,
    Changed(MainCode, PutMain(OwnMain(1, <<<<1, 5>>>>)), Nothing),
    Changed(SyncCode, PutSyncpoint([coded |-> 64, back |-> 5]), [coded |-> 64, back |-> 5]),
    Changed(InfoCode, PutFrameRate(0, <<2>>, <<1, 5, 1>>),
            [about |-> 1, tags |-> <<<<<<2>>, <<1, 5, 1>>>>>>])>>
=============================================================================
