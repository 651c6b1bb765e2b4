----------------------------- MODULE MCDemuxer -----------------------------
(***************************************************************************)
(* What a Demuxer is given, for model checking: rows of items, each a unit *)
(* and what it says, laid one after the other.                             *)
(***************************************************************************)
EXTENDS Demuxer

Item(unit, said) == [unit |-> unit, said |-> said]

Input(items) ==
  LET start[i \in 1 .. Len(items) + 1] ==
        IF i = 1 THEN FileIdLen ELSE start[i - 1] + Width(items[i - 1].unit)
      at(p) == items[CHOOSE i \in 1 .. Len(items) : start[i] = p]
      places == {start[i] : i \in 1 .. Len(items)}
  IN  [wire |-> [nut |-> TRUE, unit |-> [p \in places |-> at(p).unit],
                 end |-> start[Len(items) + 1]],
       says |-> [p \in places |-> at(p).said]]

Nothing == [nothing |-> TRUE]

Main(count) ==
  Item([kind |-> "main", head |-> 1, body |-> 1, ok |-> TRUE, count |-> count,
        bases |-> <<<<1, 1>>>>, elision |-> <<>>], Nothing)

Stream(index, delay, media, tag, config) ==
  Item([kind |-> "stream", head |-> 1, body |-> 1, ok |-> TRUE, stream |-> index,
        base |-> 1, span |-> 4, delay |-> delay],
       [media |-> media, tag |-> tag, config |-> config])

Picture     == Stream(1, 0, "video", "RGBA", <<>>)
Sound       == Stream(1, 0, "audio", "mp4a", <<>>)
Configured  == Stream(1, 0, "audio", "ff000000", <<17, 136>>)
Annotations == Stream(2, 0, "data", "FRWD", <<>>)

Sync ==
  Item([kind |-> "syncpoint", head |-> 1, body |-> 1, ok |-> TRUE, coded |-> 0], Nothing)

Rate ==
  Item([kind |-> "info", head |-> 1, body |-> 1, ok |-> TRUE, readable |-> TRUE,
        about |-> 1, rate |-> 1, tags |-> <<>>], Nothing)

Frame(id, pts, size, said) ==
  Item([kind |-> "frame", head |-> 1, ok |-> TRUE, valid |-> TRUE, streamAt |-> 1,
        ptsAt |-> 1, stream |-> id, coded |-> TRUE, pts |-> 4 + pts, size |-> size,
        header |-> 0, key |-> TRUE, eor |-> FALSE], said)

Bare == [sync |-> FALSE, crc |-> FALSE, profile |-> 0, rate |-> 0, channels |-> 0,
         length |-> 0, blocks |-> 0]

AdtsFrame(size) ==
  [Bare EXCEPT !.sync = TRUE, !.profile = 1, !.rate = 3, !.channels = 2, !.length = size]

Plain(pts)  == Frame(1, pts, 7, Bare)
Framed(pts) == Frame(1, pts, 8, AdtsFrame(8))
Checked     == Frame(1, 3, 9, [AdtsFrame(9) EXCEPT !.crc = TRUE, !.rate = 4])
Short       == Frame(1, 2, 8, [AdtsFrame(8) EXCEPT !.crc = TRUE])
Packed      == Frame(1, 2, 8, [AdtsFrame(8) EXCEPT !.blocks = 1])
Two         == Frame(1, 2, 9, AdtsFrame(8))

Noted(pts, text) == Frame(2, pts, 1, [utf8 |-> TRUE, text |-> text])

NotText == Frame(2, 1, 1, [utf8 |-> FALSE, text |-> <<>>])

(* Everything before the first frame, in every order of some.              *)
OpeningInputs ==
  {Input(some \o <<Sync, Plain(1)>>) :
     some \in [1 .. 3 -> {Main(1), Main(2), Main(3), Picture, Annotations, Rate,
                          Stream(1, 1, "data", "JSON", <<>>),
                          Stream(2, 0, "data", "JSON", <<>>),
                          Stream(1, 0, "data", "FRWD", <<>>)}]}

(* A section restated once frames have come, in part or whole.             *)
RestatedInputs ==
  {Input(<<Main(1), Picture, Sync, Plain(1)>> \o some \o <<Plain(2)>>) :
     some \in {<<Main(1), Picture>>, <<Stream(1, 1, "video", "RGBA", <<>>)>>, <<Main(2)>>,
               <<Stream(1, 0, "data", "FRWD", <<>>)>>, <<Rate, Sync>>}}

(* Packets with and without framing, over an aac stream with and without a *)
(* config.                                                                 *)
AacInputs ==
  {Input(<<Main(1), header, Sync>> \o some) :
     header \in {Sound, Configured, Stream(1, 0, "video", "mp4a", <<>>)},
     some \in [1 .. 2 -> {Plain(1), Framed(2), Checked, Short, Packed, Two}]}

(* Rows beside frames, before them and long after, blank lines, records.   *)
Notes ==
  {Noted(1, <<Row(1), Blank, Row(2)>>), Noted(3, <<Row(3)>>), Noted(2, <<Blank>>),
   Noted(3, <<Record(<<4, 5>>)>>), Noted(1, <<Row(6), Record(<<7>>)>>),
   Noted(3, <<Record(<<>>)>>), NotText}

NotedInputs ==
  {Input(<<Main(2), Picture, Annotations, Sync>> \o some \o <<Plain(1)>>) :
     some \in [1 .. 3 -> Notes \cup {Plain(2)}]}
  \cup
  {Input(<<Main(2), Sound, Annotations, Sync>> \o some \o <<Framed(1), Noted(2, <<Row(9)>>), Framed(2)>>) :
     some \in [1 .. 2 -> Notes]}

MCInputs == OpeningInputs \cup RestatedInputs \cup AacInputs \cup NotedInputs
=============================================================================
