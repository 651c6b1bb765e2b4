--------------------------- MODULE MCPushStreams ---------------------------
(***************************************************************************)
(* What units do to the streams. Each unit is two bytes and a wire arrives *)
(* in one piece: how bytes become units is not what is checked here.       *)
(***************************************************************************)
EXTENDS MCUnits

(* Headers restated in mid-stream: every row of units after a first header *)
(* section, of the same or of another number of streams. The headers are   *)
(* closed after the second section, and may be restated first after the    *)
(* other.                                                                  *)
Main(count)          == MainH(1, 1, count, <<<<1, 1>>>>, <<>>)
Stream(index, delay) == StreamH(1, 1, index, 1, 4, delay)
Info(about, tags)    == InfoP(1, 1, about, 1, tags)

One == <<Main(1), Stream(1, 0)>>
Two == <<Main(2), Stream(2, 0), Info(2, <<<<1, 1>>>>), Stream(1, 0),
         Sync(1, 1, 0)>>

Restated ==
  {Main(1), Main(2), Stream(1, 0), Stream(1, 1), Stream(2, 0), Sync(1, 1, 3),
   Info(0, <<<<1, 1>>>>), Info(2, <<<<1, 2>>, <<2, 1>>, <<3, 1>>>>),
   Frame(1, 1, 2, 1), Frame(1, 2, -1, 1)}

(* Two streams in different time bases, and every row of three syncpoints  *)
(* and frames over a range of timestamps that reaches the ends of theirs.  *)
TimedSection ==
  <<MainH(1, 1, 2, <<<<1, 2>>, <<2, 3>>>>, <<>>), StreamH(1, 1, 1, 1, 4, 1),
    StreamH(1, 1, 2, 2, 8, 0)>>

Timed ==
  {Sync(1, 1, coded) : coded \in {-16, -7, -3, 0, 5, 14}}
  \cup {CodedFrame(1, stream, coded, 1) : stream \in {1, 2}, coded \in {0, 3, 6, 11, 20, 31}}
  \cup {Frame(1, stream, delta, 1) : stream \in {1, 2}, delta \in {-5, 3}}

Rows ==
  {One \o rest : rest \in [1 .. 4 -> Restated]} \cup {Two \o rest : rest \in [1 .. 3 -> Restated]}
  \cup {TimedSection \o rest : rest \in [1 .. 3 -> Timed]}

MCWires  == {Wire(row, <<>>) : row \in Rows}
MCChunks == {w.end : w \in MCWires}
=============================================================================
