------------------------------ MODULE MCUnits ------------------------------
(***************************************************************************)
(* Units and wires for model checking, built the way the sender of a       *)
(* well-formed stream lays them out: each starts where the one before ends.*)
(***************************************************************************)
EXTENDS PushDemuxer

MainH(head, body, count, bases, elision) ==
  [kind |-> "main", head |-> head, body |-> body, ok |-> TRUE,
   count |-> count, bases |-> bases, elision |-> elision]

StreamH(head, body, stream, base, span, delay) ==
  [kind |-> "stream", head |-> head, body |-> body, ok |-> TRUE,
   stream |-> stream, base |-> base, span |-> span, delay |-> delay]

Sync(head, body, coded) ==
  [kind |-> "syncpoint", head |-> head, body |-> body, ok |-> TRUE, coded |-> coded]

InfoP(head, body, about, rate, tags) ==
  [kind |-> "info", head |-> head, body |-> body, ok |-> TRUE, readable |-> TRUE,
   about |-> about, rate |-> rate, tags |-> tags]

Other(head, body) == [kind |-> "other", head |-> head, body |-> body, ok |-> TRUE]

(* A frame whose PTS is the stream's last plus its framecode's pts_delta.  *)
Frame(head, stream, pts, size) ==
  [kind |-> "frame", head |-> head, ok |-> TRUE, valid |-> TRUE, streamAt |-> 1,
   ptsAt |-> head, stream |-> stream, coded |-> FALSE, pts |-> pts, size |-> size,
   header |-> 0, key |-> TRUE, eor |-> FALSE]

CodedFrame(head, stream, coded, size) ==
  [Frame(head, stream, coded, size) EXCEPT !.coded = TRUE]

(* The bytes a unit takes, under the elision headers in force.             *)
Width(u, elision) ==
  u.head + (IF u.kind # "frame" THEN u.body
            ELSE IF u.header = 0 THEN u.size ELSE u.size - Len(elision[u.header]))

Starts(units, elision) ==
  LET start[i \in 1 .. Len(units) + 1] ==
        IF i = 1 THEN FileIdLen ELSE start[i - 1] + Width(units[i - 1], elision)
  IN  start

Wire(units, elision) ==
  LET start == Starts(units, elision)
      index(p) == CHOOSE i \in 1 .. Len(units) : start[i] = p
  IN  [nut  |-> TRUE,
       unit |-> [p \in {start[i] : i \in 1 .. Len(units)} |-> units[index(p)]],
       end  |-> start[Len(units) + 1]]
=============================================================================
