--------------------------- MODULE MCPushFraming ---------------------------
(***************************************************************************)
(* Every kind of unit once, in pieces of any size: what is checked is how  *)
(* bytes become units.                                                     *)
(***************************************************************************)
EXTENDS MCUnits

Elision == <<<<-2, -3>>>>

MainHeader  == MainH(1, 2, 1, <<<<1, 1>>>>, Elision)
ElidedFrame == [Frame(2, 1, 1, 4) EXCEPT !.header = 1]
EndFrame == [Frame(1, 1, 1, 2) EXCEPT !.eor = TRUE]

(* A syncpoint closes the headers of the first, a frame those of the       *)
(* second; the third has no frame at all. The last is not NUT.             *)
SyncedWire ==
  Wire(<<MainHeader, StreamH(1, 1, 1, 1, 4, 0), InfoP(2, 4, 1, 1, <<>>), Sync(1, 2, 0),
         ElidedFrame, Other(1, 2), EndFrame, Frame(1, 1, 1, 0)>>, Elision)

FramedWire ==
  Wire(<<MainHeader, StreamH(2, 1, 1, 1, 4, 1), Frame(2, 1, 1, 2), Sync(1, 1, 2), Other(2, 2),
         ElidedFrame>>, Elision)

HeaderWire == Wire(<<MainHeader, StreamH(1, 1, 1, 1, 4, 0), Other(2, 1)>>, Elision)

(* Units whose own bytes refuse them: a checksum, a body too short for its *)
(* checksum, a header longer than the limit, a framecode not defined.      *)
SpoiltWires ==
  {Wire(<<MainHeader, u>>, Elision) : u \in
     {[StreamH(1, 2, 1, 1, 4, 0) EXCEPT !.ok = FALSE], Sync(2, 0, 0), StreamH(1, 4, 1, 1, 4, 0)}}
  \cup {Wire(<<MainHeader, StreamH(1, 1, 1, 1, 4, 0), [Frame(1, 1, 0, 1) EXCEPT !.valid = FALSE]>>,
             Elision)}

(* A header within its limit that a caller's small buffer has no room for. *)
WideWire == Wire(<<[MainHeader EXCEPT !.head = 3, !.body = 3]>>, Elision)

NotNut == [HeaderWire EXCEPT !.nut = FALSE]

(* Frames with and without their elided prefix, of streams whose headers   *)
(* come again, for a caller that narrows what each may carry at any moment.*)
RestatedWire ==
  Wire(<<MainHeader, StreamH(1, 1, 1, 1, 4, 0), ElidedFrame, Frame(1, 1, 1, 3),
         MainH(1, 2, 2, <<<<1, 1>>>>, Elision), StreamH(1, 1, 2, 1, 4, 0),
         StreamH(1, 1, 1, 1, 4, 0), [Frame(1, 2, 1, 3) EXCEPT !.header = 1]>>, Elision)

MCWires ==
  {SyncedWire, FramedWire, HeaderWire, WideWire, NotNut, RestatedWire} \cup SpoiltWires
MCChunks == 1 .. 22
=============================================================================
