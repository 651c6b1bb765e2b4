-------------------------- MODULE MuxedPipeProofs --------------------------
(***************************************************************************)
(* What a demuxer hands on of what a muxer was handed, for every opening,  *)
(* every size of frame, every way the writer underneath may fail and every *)
(* pace at which it passes on what it was given.                           *)
(***************************************************************************)
EXTENDS MuxedPipe, MuxerProofs

-----------------------------------------------------------------------------
(* The writer's side: each frame that was written is on the wire, where it *)
(* says, in their order; and no other frame is there whole.                *)

Files == [stream : Nat \ {0}, pts : Nat, key : BOOLEAN, from : Nat, size : Nat]

Start(file)  == file.from - FrameHead
UnitOf(file) == FrameUnit(file.stream, file.pts, file.key, file.size)

Filed(w, files) ==
  /\ files \in Seq(Files)
  /\ \A i \in DOMAIN files :
       /\ Start(files[i]) \in DOMAIN w.unit
       /\ w.unit[Start(files[i])] = UnitOf(files[i])
  /\ \A i, j \in DOMAIN files : i < j => Start(files[i]) < Start(files[j])
  /\ \A p \in StartsOf(w, "frame") :
       p + WidthOf(w.unit[p]) <= w.end => \E i \in DOMAIN files : Start(files[i]) = p

(* How each stream's PTS are coded is said as they are.                    *)
Spanned(w) ==
  \A p \in DOMAIN w.unit :
    /\ w.unit[p].kind \in HeaderKinds \cup {"syncpoint", "frame"}
    /\ w.unit[p].kind = "stream" => w.unit[p].span = SpanAmong(streams, w.unit[p].stream)

WInv ==
  /\ Filed(wire, written)
  /\ Spanned(wire)
  /\ sent \in Nat /\ sent <= wire.end
  /\ opened = "no" => wire.end = 0
  /\ opened # "yes" => written = <<>>

-----------------------------------------------------------------------------
(* The reader's side: it is no further than the writer has passed on, knows*)
(* how each stream's PTS are coded, and has handed on the frames that were *)
(* written before its place.                                               *)

Along ==
  /\ place \in Nat
  /\ place <= sent
  /\ place = 0 => ctx = NewContext
  /\ opened = "no" => place = 0

Spans(c) == \A i \in Known(c) : Header(c, i).span = SpanAmong(streams, i)

DeliveredTo(at, handed) ==
  /\ handed \in Seq(Files)
  /\ Len(handed) <= Len(written)
  /\ \A i \in DOMAIN handed : handed[i] = written[i]
  /\ \A i \in DOMAIN written : Start(written[i]) < at <=> i <= Len(handed)

Delivered == DeliveredTo(place, frames)

RInv == ContextOK(ctx) /\ Spans(ctx) /\ Along /\ Delivered

PInv == MInv /\ WInv /\ RInv

-----------------------------------------------------------------------------
(* A unit behind the last, whole or not.                                   *)

LEMMA FiledBeside ==
  ASSUME NEW w \in MuxWires, Uncut(w), NEW files, Filed(w, files),
         NEW u, u.kind # "frame", NEW v,
         DOMAIN v.unit = DOMAIN w.unit \cup {w.end},
         v.unit[w.end] = u,
         \A p \in DOMAIN w.unit : v.unit[p] = w.unit[p]
  PROVE  Filed(v, files)
<1>1. StartsOf(v, "frame") = StartsOf(w, "frame")
  <2>1. StartsOf(v, "frame")
          = StartsOf(w, "frame") \cup (IF u.kind = "frame" THEN {w.end} ELSE {})
    BY BegunStarts
  <2>2. QED
    BY <2>1
<1>2. \A p \in StartsOf(w, "frame") :
        p \in DOMAIN w.unit /\ p + WidthOf(w.unit[p]) <= w.end
  BY DEF Uncut, StartsOf
<1>3. \A p \in StartsOf(v, "frame") : \E i \in DOMAIN files : Start(files[i]) = p
  BY <1>1, <1>2 DEF Filed
<1>4. \A i \in DOMAIN files :
        Start(files[i]) \in DOMAIN v.unit /\ v.unit[Start(files[i])] = UnitOf(files[i])
  BY DEF Filed
<1>5. QED
  BY <1>3, <1>4 DEF Filed

LEMMA FiledFrame ==
  ASSUME NEW w \in MuxWires, Uncut(w), NEW files, Filed(w, files),
         NEW file \in Files, file.from = w.end + FrameHead,
         NEW u \in Units, u = UnitOf(file), u.kind = "frame", NEW v,
         DOMAIN v.unit = DOMAIN w.unit \cup {w.end},
         v.unit[w.end] = u,
         \A p \in DOMAIN w.unit : v.unit[p] = w.unit[p],
         v.end \in Nat, v.end <= w.end + WidthOf(u),
         NEW nu, nu = IF v.end = w.end + WidthOf(u) THEN Append(files, file) ELSE files
  PROVE  Filed(v, nu)
<1> DEFINE n == Len(files)
           k == Len(nu)
<1>1. /\ w.end \in Nat
      /\ \A p \in DOMAIN w.unit : p \in Nat /\ p < w.end
  BY MuxWireParts
<1>2. FrameHead \in Nat
  BY MuxerAssumption
<1>3. Start(file) = w.end
  BY <1>1, <1>2 DEF Start
<1>4. StartsOf(v, "frame") = StartsOf(w, "frame") \cup {w.end}
  <2>1. StartsOf(v, "frame")
          = StartsOf(w, "frame") \cup (IF u.kind = "frame" THEN {w.end} ELSE {})
    BY BegunStarts
  <2>2. QED
    BY <2>1
<1>5. /\ files \in Seq(Files) /\ n \in Nat /\ DOMAIN files = 1 .. n
      /\ \A i \in 1 .. n : /\ Start(files[i]) \in DOMAIN w.unit
                           /\ w.unit[Start(files[i])] = UnitOf(files[i])
      /\ \A i, j \in 1 .. n : i < j => Start(files[i]) < Start(files[j])
  BY DEF Filed
<1>6. \A p \in StartsOf(w, "frame") : \E i \in 1 .. n : Start(files[i]) = p
  BY <1>5 DEF Filed, Uncut, StartsOf
<1>7. /\ nu \in Seq(Files) /\ DOMAIN nu = 1 .. k /\ k \in Nat
      /\ k = IF v.end = w.end + WidthOf(u) THEN n + 1 ELSE n
      /\ \A i \in 1 .. n : nu[i] = files[i]
      /\ k = n + 1 => nu[n + 1] = file
  <2>1. files \in Seq(Files) /\ file \in Files
    BY <1>5
  <2>2. CASE v.end = w.end + WidthOf(u)
    <3>1. nu = Append(files, file)
      BY <2>2
    <3>2. QED
      BY <2>1, <2>2, <3>1
  <2>3. CASE v.end # w.end + WidthOf(u)
    <3>1. nu = files
      BY <2>3
    <3>2. k = n /\ n \in Nat
      BY <1>5, <3>1
    <3> HIDE DEF k, n
    <3>3. k # n + 1
      BY <3>2
    <3>4. QED
      BY <1>5, <2>3, <3>1, <3>2, <3>3
  <2>4. QED
    BY <2>2, <2>3
<1> HIDE DEF n, k
<1>8. ASSUME NEW i \in 1 .. k
      PROVE  Start(nu[i]) \in DOMAIN v.unit /\ v.unit[Start(nu[i])] = UnitOf(nu[i])
  <2>1. CASE i \in 1 .. n
    BY <1>5, <1>7, <2>1
  <2>2. CASE i = n + 1
    BY <1>3, <1>5, <1>7, <2>2
  <2>3. QED
    BY <1>5, <1>7, <2>1, <2>2
<1>9. ASSUME NEW i \in 1 .. k, NEW j \in 1 .. k, i < j
      PROVE  Start(nu[i]) < Start(nu[j])
  <2>1. i \in 1 .. n
    BY <1>5, <1>7, <1>9
  <2>2. CASE j \in 1 .. n
    BY <1>5, <1>7, <1>9, <2>1, <2>2
  <2>3. CASE j = n + 1
    BY <1>1, <1>3, <1>5, <1>7, <2>1, <2>3
  <2>4. QED
    BY <1>5, <1>7, <2>2, <2>3
<1>10. ASSUME NEW p \in StartsOf(v, "frame"), p + WidthOf(v.unit[p]) <= v.end
       PROVE  \E i \in 1 .. k : Start(nu[i]) = p
  <2>1. CASE p \in StartsOf(w, "frame")
    <3>1. PICK i \in 1 .. n : Start(files[i]) = p
      BY <1>6, <2>1
    <3>2. i \in 1 .. k /\ nu[i] = files[i]
      BY <1>5, <1>7
    <3>3. QED
      BY <3>1, <3>2
  <2>2. CASE p = w.end
    <3>1. WidthOf(u) \in Nat
      BY WidthPositive
    <3>2. v.end = w.end + WidthOf(u)
      BY <1>1, <1>10, <2>2, <3>1
    <3>3. k = n + 1 /\ nu[n + 1] = file
      BY <1>5, <1>7, <3>2
    <3>4. QED
      BY <1>3, <1>5, <2>2, <3>3
  <2>3. QED
    BY <1>4, <2>1, <2>2
<1>11. QED
  BY <1>7, <1>8, <1>9, <1>10 DEF Filed

LEMMA SpannedBeside ==
  ASSUME NEW w \in MuxWires, Spanned(w), NEW u, u.kind \in {"syncpoint", "frame"}, NEW v,
         DOMAIN v.unit = DOMAIN w.unit \cup {w.end},
         v.unit[w.end] = u,
         \A p \in DOMAIN w.unit : v.unit[p] = w.unit[p]
  PROVE  Spanned(v)
BY DEF Spanned

-----------------------------------------------------------------------------
(* The writer.                                                             *)

(* What its steps may do to what was written: more comes behind the end.   *)
Behind(files) ==
  /\ Len(written) <= Len(files)
  /\ \A i \in DOMAIN written : files[i] = written[i]
  /\ \A i \in DOMAIN files : i <= Len(written) \/ wire.end <= Start(files[i])

LEMMA NothingBehind ==
  ASSUME written \in Seq(Files)
  PROVE  Behind(written)
BY DEF Behind

LEMMA OneBehind ==
  ASSUME written \in Seq(Files), NEW file \in Files, wire.end <= Start(file)
  PROVE  Behind(Append(written, file))
<1> DEFINE n  == Len(written)
           nu == Append(written, file)
<1>1. /\ n \in Nat /\ DOMAIN written = 1 .. n
      /\ Len(nu) = n + 1 /\ DOMAIN nu = 1 .. n + 1
      /\ \A i \in 1 .. n : nu[i] = written[i]
      /\ nu[n + 1] = file
  OBVIOUS
<1> HIDE DEF n, nu
<1>2. \A i \in 1 .. n + 1 : i <= n \/ i = n + 1
  BY <1>1
<1>3. Behind(nu)
  BY <1>1, <1>2 DEF Behind, n
<1>4. QED
  BY <1>3 DEF nu

LEMMA WrittenFiles ==
  ASSUME MInv, WInv, opened = "yes", ~Torn, NEW id \in Nat \ {0}, NEW pts \in Nat,
         NEW key \in BOOLEAN, NEW size \in Nat, Written(id, pts, key, size)
  PROVE  /\ Filed(wire', written')
         /\ Spanned(wire')
         /\ wire'.end \in Nat /\ wire.end <= wire'.end
         /\ Behind(written')
<1> DEFINE at   == wire.end
           due  == SyncpointDue(at)
           u    == SyncpointUnit(pts, MediaBase(id))
           f    == FrameUnit(id, pts, key, size)
           base == IF due THEN Laid(wire, u) ELSE wire
           mark == [at |-> at, back |-> BackPtr(at), stream |-> id, pts |-> pts]
           file == [stream |-> id, pts |-> pts, key |-> key,
                    from |-> base.end + FrameHead, size |-> size]
<1>1. /\ Opened /\ wire \in MuxWires /\ wire.end \in Nat
      /\ Filed(wire, written) /\ Spanned(wire) /\ written \in Seq(Files)
  BY MuxWireParts DEF MInv, WellLaid, WInv, Filed
<1>2. Uncut(wire) /\ EndToEnd(wire)
  BY <1>1, UntornUncut DEF MInv, Laying
<1>3. MediaBase(id) \in Nat /\ Len(timeBases) \in Nat
  BY <1>1, MediaNamed
<1>4. u \in Units /\ u.kind = "syncpoint"
  BY <1>3, SyncpointUnitType
<1>5. f \in Units /\ f.kind = "frame"
  BY <1>1, FrameUnitType
<1>6. (\A n \in Tears : n \in Nat) /\ FrameHead \in Nat
  BY MuxerAssumption
<1>7. WidthOf(u) \in Nat
  BY <1>4, WidthPositive
<1> DEFINE Nothing == wire' = wire /\ UNCHANGED written
           Half == /\ \E end \in Nat : /\ at < end /\ end < at + WidthOf(u)
                                       /\ wire' = CutAt(Laid(wire, u), end)
                   /\ UNCHANGED written
           Synced == wire' = Laid(wire, u) /\ UNCHANGED written
           Framed == \E end \in Nat :
                       /\ base.end < end /\ end <= base.end + WidthOf(f)
                       /\ wire' = CutAt(Laid(base, f), end)
                       /\ written' = IF end = base.end + WidthOf(f) THEN Append(written, file)
                                                                   ELSE written
<1>8. Nothing \/ Half \/ Synced \/ Framed
  <2> HIDE DEF u, f, mark, base, file, due
  <2>1. /\ u = SyncpointUnit(pts, MediaBase(id)) /\ f = FrameUnit(id, pts, key, size)
        /\ mark = [at |-> wire.end, back |-> BackPtr(wire.end), stream |-> id, pts |-> pts]
        /\ base = IF SyncpointDue(wire.end) THEN Laid(wire, u) ELSE wire
        /\ file = [stream |-> id, pts |-> pts, key |-> key,
                   from |-> base.end + FrameHead, size |-> size]
    BY DEF u, f, mark, base, file, due
  <2>2. QED
    BY <1>1, <1>4, <1>5, <1>6, <2>1, WrittenEnds
<1> HIDE DEF u
<1>9. CASE Nothing
  BY <1>1, <1>9, NothingBehind
<1>10. CASE Half
  <2>1. PICK end \in Nat : at < end /\ wire' = CutAt(Laid(wire, u), end)
    BY <1>10
  <2>2. /\ DOMAIN wire'.unit = DOMAIN wire.unit \cup {wire.end}
        /\ wire'.unit[wire.end] = u
        /\ \A p \in DOMAIN wire.unit : wire'.unit[p] = wire.unit[p]
        /\ wire'.end = end
    BY <1>1, <1>4, <2>1, Begun
  <2>3. Filed(wire', written)
    BY <1>1, <1>2, <1>4, <2>2, FiledBeside
  <2>4. Spanned(wire')
    BY <1>1, <1>4, <2>2, SpannedBeside
  <2>5. QED
    BY <1>1, <1>10, <2>1, <2>2, <2>3, <2>4, NothingBehind
(* The wire in front of the frame, with a syncpoint or without.            *)
<1> DEFINE v == Laid(wire, u)
<1>11. /\ v \in MuxWires /\ v.end = at + WidthOf(u)
       /\ DOMAIN v.unit = DOMAIN wire.unit \cup {wire.end}
       /\ v.unit[wire.end] = u
       /\ \A p \in DOMAIN wire.unit : v.unit[p] = wire.unit[p]
  BY <1>1, <1>4, LaidWire
<1>12. Uncut(v)
  BY <1>1, <1>2, <1>4, <1>11, LaidEndToEnd, EndToEndUncut
<1> HIDE DEF v
<1>13. Filed(v, written) /\ Spanned(v)
  BY <1>1, <1>2, <1>4, <1>11, FiledBeside, SpannedBeside
<1>14. CASE Synced
  <2>1. wire' = v
    BY <1>14 DEF v
  <2>2. QED
    BY <1>1, <1>7, <1>11, <1>13, <1>14, <2>1, NothingBehind
<1>15. /\ base \in MuxWires /\ base.end \in Nat /\ at <= base.end
       /\ Uncut(base) /\ Filed(base, written) /\ Spanned(base)
  <2>1. base = v \/ base = wire
    BY DEF v
  <2> HIDE DEF base
  <2>2. QED
    BY <1>1, <1>2, <1>7, <1>11, <1>12, <1>13, <2>1
<1>16. CASE Framed
  <2> HIDE DEF base, f
  <2>1. PICK end \in Nat :
          /\ base.end < end /\ end <= base.end + WidthOf(f)
          /\ wire' = CutAt(Laid(base, f), end)
          /\ written' = IF end = base.end + WidthOf(f) THEN Append(written, file)
                                                      ELSE written
    BY <1>16
  <2>2. /\ DOMAIN wire'.unit = DOMAIN base.unit \cup {base.end}
        /\ wire'.unit[base.end] = f
        /\ \A p \in DOMAIN base.unit : wire'.unit[p] = base.unit[p]
        /\ wire'.end = end
    BY <1>5, <1>15, <2>1, Begun
  <2>3. /\ file \in Files /\ f = UnitOf(file) /\ file.from = base.end + FrameHead
        /\ at <= Start(file)
    BY <1>1, <1>6, <1>15 DEF Files, UnitOf, Start, f
  <2> HIDE DEF file
  <2>4. Filed(wire', written')
    <3>1. /\ wire'.end \in Nat /\ wire'.end <= base.end + WidthOf(f)
          /\ written' = IF wire'.end = base.end + WidthOf(f) THEN Append(written, file)
                                                           ELSE written
      BY <2>1, <2>2
    <3>2. QED
      BY <1>5, <1>15, <2>2, <2>3, <3>1, FiledFrame
  <2>5. Spanned(wire')
    BY <1>5, <1>15, <2>2, SpannedBeside
  <2>6. Behind(written')
    BY <1>1, <2>1, <2>3, NothingBehind, OneBehind
  <2>7. QED
    BY <1>1, <1>15, <2>1, <2>2, <2>4, <2>5, <2>6
<1> HIDE DEF Nothing, Half, Synced, Framed
<1>17. QED
  BY <1>8, <1>9, <1>10, <1>14, <1>16

(* A method opens the muxer, writes a frame, or leaves wire and history.   *)
Still == UNCHANGED <<fields, wire, written, marks>> /\ sent' \in {sent, wire.end}

WrittenBy(id, pts, key, size) ==
  /\ opened = "yes"
  /\ ~Torn
  /\ id \in DOMAIN streams \/ annotations = <<id>>
  /\ pts <= MaxTick
  /\ Written(id, pts, key, size)
  /\ UNCHANGED <<fields, sent>>

LEMMA MuxerSteps ==
  ASSUME MInv, MuxerStep
  PROVE  \/ \E o \in Openings : OpenRefused(o) \/ Open(o)
         \/ Still
         \/ \E id \in Nat \ {0}, pts \in Nat, key \in BOOLEAN, size \in Nat :
              WrittenBy(id, pts, key, size)
<1> DEFINE Some == \E id \in Nat \ {0}, pts \in Nat, key \in BOOLEAN, size \in Nat :
                     WrittenBy(id, pts, key, size)
<1>1. /\ Stamps \subseteq Ticks
      /\ DataSizes \subseteq Nat
      /\ MaxStreams \in Nat
  BY MuxerAssumption, LimitsAssumption
<1>2. ASSUME NEW id \in Nat \ {0}, NEW pts \in Stamps, NEW key \in BOOLEAN, NEW size \in DataSizes,
             Ready, WriteRefused \/ WritePacketFor(id, pts, key, size), UNCHANGED <<fields, sent>>,
             WriteRefused \/ id \in DOMAIN streams \/ annotations = <<id>>
      PROVE  Still \/ Some
  <2>1. CASE UNCHANGED <<wire, written, marks>>
    BY <1>2, <2>1 DEF Still
  <2>2. CASE pts >= 0 /\ Written(id, pts, key, size)
    <3>1. pts \in Nat /\ pts <= MaxTick /\ size \in Nat
      BY <1>1, <2>2, MaxTickAssumption DEF Ticks, MinTick
    <3>2. CASE WriteRefused
      BY <1>2, <3>2 DEF WriteRefused, Still
    <3>3. CASE ~WriteRefused
      <4>1. WrittenBy(id, pts, key, size)
        BY <1>2, <2>2, <3>1, <3>3 DEF WrittenBy, Ready
      <4>2. QED
        BY <3>1, <4>1
    <3>4. QED
      BY <3>2, <3>3
  <2>3. QED
    BY <1>2, <2>1, <2>2 DEF WritePacketFor, WriteRefused
<1>3. ASSUME NEW id \in 1 .. MaxStreams + 1, NEW pts \in Stamps, NEW size \in DataSizes,
             WriteFrame(id, pts, size)
      PROVE  Still \/ Some
  <2>1. id \in Nat \ {0} /\ TRUE \in BOOLEAN
    BY <1>1
  <2>2. /\ Ready /\ UNCHANGED <<fields, sent>>
        /\ WriteRefused \/ WritePacketFor(id, pts, TRUE, size)
        /\ WriteRefused \/ id \in DOMAIN streams
    BY <1>3 DEF WriteFrame
  <2> HIDE DEF Some
  <2>3. QED
    BY <1>2, <2>1, <2>2
<1>4. ASSUME NEW id \in 1 .. MaxStreams + 1, NEW pts \in Stamps, NEW size \in DataSizes,
             NEW key \in BOOLEAN, WriteCoded(id, pts, key, size)
      PROVE  Still \/ Some
  <2>1. id \in Nat \ {0}
    BY <1>1
  <2>2. /\ Ready /\ UNCHANGED <<fields, sent>>
        /\ WriteRefused \/ WritePacketFor(id, pts, key, size)
        /\ WriteRefused \/ id \in DOMAIN streams
    BY <1>4 DEF WriteCoded
  <2> HIDE DEF Some
  <2>3. QED
    BY <1>2, <2>1, <2>2
<1>5. ASSUME NEW pts \in Stamps, NEW size \in DataSizes, WriteRows(pts, size)
      PROVE  Still \/ Some
  <2>1. Ready /\ UNCHANGED <<fields, sent>>
    BY <1>5 DEF WriteRows
  <2> HIDE DEF Some
  <2>2. CASE WriteRefused
    BY <2>1, <2>2 DEF WriteRefused, Still
  <2>3. CASE annotations # <<>> /\ WritePacketFor(annotations[1], pts, TRUE, size)
    <3>1. annotations[1] \in Nat \ {0} /\ annotations = <<annotations[1]>> /\ TRUE \in BOOLEAN
      BY <2>3 DEF MInv, Opened
    <3>2. QED
      BY <1>2, <2>1, <2>3, <3>1
  <2>4. QED
    BY <1>5, <2>2, <2>3 DEF WriteRows
<1> HIDE DEF Some
<1>6. WriteNoRows => Still
  BY DEF WriteNoRows, Still
<1>7. WriteTrailingNotJson => Still
  BY DEF WriteTrailingNotJson, WriteRefused, Still
<1>8. Flush => Still
  BY DEF Flush, Still
<1>9. (\E o \in Openings : OpenRefused(o) \/ Open(o)) \/ Still \/ Some
  BY <1>3, <1>4, <1>5, <1>6, <1>7, <1>8 DEF MuxerStep
<1>10. QED
  BY <1>9 DEF Some

(* What a step of the writer is to the reader.                             *)
Grown ==
  /\ sent <= sent'
  /\ Behind(written')
  /\ opened' = "no" => opened = "no"
  /\ opened # "no" => streams' = streams

LEMMA OpenedFiles ==
  ASSUME MInv, WInv, NEW o \in Openings, Open(o)
  PROVE  WInv' /\ Grown
<1>1. /\ wire' \in MuxWires
      /\ \A p \in DOMAIN wire'.unit : wire'.unit[p] \in HeaderUnitsOf(o.streams)
      /\ opened' \in {"yes", "refused"}
      /\ sent' \in {sent, wire'.end}
  BY OpenedWire DEF MInv, WellLaid
<1>2. opened = "no" /\ streams' = o.streams /\ written' = written
  BY DEF Open
<1>3. wire.end = 0 /\ written = <<>> /\ sent \in Nat /\ sent <= wire.end /\ written \in Seq(Files)
  BY <1>2 DEF WInv, Filed
<1>4. wire'.end \in Nat
  BY <1>1, MuxWireParts
<1>5. sent = 0 /\ sent' \in Nat /\ sent' <= wire'.end /\ sent <= sent'
  BY <1>1, <1>3, <1>4
<1>6. StartsOf(wire', "frame") = {}
  BY <1>1 DEF StartsOf, HeaderUnitsOf, HeaderKinds
<1>7. Filed(wire, written)'
  BY <1>2, <1>3, <1>6 DEF Filed
<1>8. Spanned(wire)'
  BY <1>1, <1>2 DEF Spanned, StartsOf, HeaderUnitsOf
<1>9. Behind(written')
  BY <1>2, <1>3, NothingBehind
<1>10. WInv'
  BY <1>1, <1>2, <1>3, <1>5, <1>7, <1>8 DEF WInv
<1>11. QED
  BY <1>1, <1>2, <1>5, <1>9, <1>10 DEF Grown

LEMMA StillFiles ==
  ASSUME WInv, UNCHANGED <<opened, streams, wire, written>>, sent' \in Nat, sent <= sent',
         sent' <= wire.end
  PROVE  WInv' /\ Grown
<1>1. written \in Seq(Files)
  BY DEF WInv, Filed
<1>2. Behind(written')
  BY <1>1, NothingBehind
<1>3. Filed(wire, written)' /\ Spanned(wire)'
  BY DEF WInv, Filed, Spanned, UnitOf, FrameUnit, CodedWhole, Media
<1>4. WInv'
  BY <1>3 DEF WInv
<1>5. QED
  BY <1>2, <1>4 DEF Grown

LEMMA RefusedFiles ==
  ASSUME WInv, NEW o \in Openings, OpenRefused(o)
  PROVE  WInv' /\ Grown
<1>1. /\ opened = "no" /\ opened' = "refused"
      /\ UNCHANGED <<streams, wire, sent, written>>
  BY DEF OpenRefused
<1>2. written \in Seq(Files) /\ sent \in Nat
  BY DEF WInv, Filed
<1>3. Behind(written')
  BY <1>1, <1>2, NothingBehind
<1>4. Filed(wire, written)' /\ Spanned(wire)'
  BY <1>1 DEF WInv, Filed, Spanned, UnitOf, FrameUnit, CodedWhole, Media
<1>5. WInv'
  BY <1>1, <1>4 DEF WInv
<1>6. QED
  BY <1>1, <1>2, <1>3, <1>5 DEF Grown

LEMMA WriterKeeps ==
  ASSUME MInv, WInv, MuxerStep
  PROVE  WInv' /\ Grown
<1>1. sent \in Nat /\ sent <= wire.end /\ wire.end \in Nat
  BY MuxWireParts DEF WInv, MInv, WellLaid
<1>2. ASSUME NEW o \in Openings, OpenRefused(o) \/ Open(o) PROVE WInv' /\ Grown
  BY <1>2, OpenedFiles, RefusedFiles
<1>3. CASE Still
  <2>1. UNCHANGED <<opened, streams, wire, written>> /\ sent' \in {sent, wire.end}
    BY <1>3 DEF Still, fields
  <2>2. sent' \in Nat /\ sent <= sent' /\ sent' <= wire.end
    BY <1>1, <2>1
  <2>3. QED
    BY <2>1, <2>2, StillFiles
<1>4. ASSUME NEW id \in Nat \ {0}, NEW pts \in Nat, NEW key \in BOOLEAN, NEW size \in Nat,
             WrittenBy(id, pts, key, size)
      PROVE  WInv' /\ Grown
  <2>1. /\ opened = "yes" /\ ~Torn /\ Written(id, pts, key, size)
        /\ UNCHANGED <<opened, streams, sent>>
    BY <1>4 DEF WrittenBy, fields
  <2>2. /\ Filed(wire', written')
        /\ Spanned(wire')
        /\ wire'.end \in Nat /\ wire.end <= wire'.end
        /\ Behind(written')
    BY <2>1, WrittenFiles
  <2>3. Filed(wire, written)' /\ Spanned(wire)'
    BY <2>1, <2>2 DEF Filed, Spanned, UnitOf, FrameUnit, CodedWhole, Media
  <2>4. sent' \in Nat /\ sent' <= wire'.end /\ sent <= sent'
    BY <1>1, <2>1, <2>2
  <2>5. WInv'
    BY <2>1, <2>3, <2>4 DEF WInv
  <2>6. QED
    BY <2>1, <2>2, <2>4, <2>5 DEF Grown
<1>5. QED
  BY <1>2, <1>3, <1>4, MuxerSteps

-----------------------------------------------------------------------------
(* The reader.                                                             *)

(* What a packet read leaves known of how PTS are coded.                   *)
LEMMA PacketSpans ==
  ASSUME NEW c, ContextOK(c), Spans(c), NEW u \in Units,
         u.kind \in {"main", "stream", "syncpoint", "info"}, ~BodyRefused(c, u),
         u.kind = "stream" => u.span = SpanAmong(streams, u.stream)
  PROVE  Spans(PacketRead(c, u))
<1> DEFINE Same(d) == d.streams = c.streams
<1>1. ASSUME NEW d, Same(d) PROVE Spans(d)
  BY <1>1 DEF Spans, Known, Declared, Header
<1>2. CASE u.kind = "main"
  <2> DEFINE d == ReadMain(c, u)
  <2>1. PacketRead(c, u) = d
    BY <1>2 DEF PacketRead
  <2>2. CASE Len(c.streams) = u.count
    <3>1. Same(d)
      BY <2>2 DEF ContextOK, IsContext, ReadMain
    <3>2. QED
      BY <1>1, <2>1, <3>1
  <2>3. CASE Len(c.streams) # u.count
    <3>1. d.streams = [i \in 1 .. u.count |-> <<>>]
      BY <2>3 DEF ContextOK, IsContext, ReadMain
    <3> HIDE DEF d
    <3>2. Known(d) = {}
      BY <3>1 DEF Known, Declared
    <3>3. QED
      BY <2>1, <3>2 DEF Spans
  <2>4. QED
    BY <2>2, <2>3
<1>3. CASE u.kind = "stream"
  <2> DEFINE d == ReadStream(c, u)
             s == u.stream
             header == [base |-> c.bases[u.base], span |-> u.span, delay |-> u.delay, rate |-> 0]
  <2>1. PacketRead(c, u) = d
    BY <1>3 DEF PacketRead
  <2>2. d.streams = [c.streams EXCEPT ![s] = <<header>>]
    BY DEF ContextOK, IsContext, ReadStream
  <2>3. s \in DOMAIN c.streams
    BY <1>3 DEF BodyRefused, StreamRefused, Declared
  <2>4. header.span = SpanAmong(streams, s)
    BY <1>3
  <2> HIDE DEF d, header
  <2>5. ASSUME NEW i \in Known(d) PROVE Header(d, i).span = SpanAmong(streams, i)
    <3>1. i \in DOMAIN c.streams /\ d.streams[i] # <<>>
      BY <2>2 DEF Known, Declared
    <3>2. CASE i = s
      <4>1. Header(d, i) = header
        BY <2>2, <2>3, <3>2 DEF Header
      <4>2. QED
        BY <2>4, <3>2, <4>1
    <3>3. CASE i # s
      <4>1. d.streams[i] = c.streams[i]
        BY <2>2, <3>1, <3>3
      <4>2. QED
        BY <3>1, <4>1 DEF Spans, Known, Declared, Header
    <3>4. QED
      BY <3>2, <3>3
  <2>6. QED
    BY <2>1, <2>5 DEF Spans
<1>4. CASE u.kind = "syncpoint"
  <2> DEFINE e == ReadSyncpoint(c, u)
             d == HeadersClosed(e)
  <2>1. PacketRead(c, u) = d
    BY <1>4 DEF PacketRead
  <2>2. e.streams = c.streams
    BY DEF ContextOK, IsContext, ReadSyncpoint
  <2>3. IsContext(e)
    BY ReadSyncpointType DEF ContextOK
  <2> HIDE DEF e
  <2>4. Same(d)
    BY <2>2, <2>3 DEF IsContext, HeadersClosed
  <2>5. QED
    BY <1>1, <2>1, <2>4
<1>5. CASE u.kind = "info"
  <2> DEFINE e == ApplyTags(c, u)
             d == ApplyInfo(e, u)
  <2>1. PacketRead(c, u) = d \/ PacketRead(c, u) = c
    BY <1>5 DEF PacketRead
  <2>2. e.streams = c.streams
    BY DEF ContextOK, IsContext, ApplyTags
  <2>3. ContextOK(e)
    BY <1>5, UnitKinds, ApplyTagsKeeps
  <2> HIDE DEF e
  <2>4. d.streams = [i \in DOMAIN e.streams |->
                       IF i \in Known(e) /\ u.about \in {0, i} THEN <<Rated(Header(e, i), u.rate)>>
                                                             ELSE e.streams[i]]
    BY <2>3 DEF ContextOK, IsContext, ApplyInfo
  <2> HIDE DEF d
  <2>5. ASSUME NEW i \in Known(d) PROVE Header(d, i).span = SpanAmong(streams, i)
    <3>1. i \in DOMAIN e.streams /\ d.streams[i] # <<>>
      BY <2>4 DEF Known, Declared
    <3>2. i \in Known(e)
      BY <2>4, <3>1 DEF Known, Declared
    <3>3. Header(e, i) \in Headers /\ Header(e, i).span = SpanAmong(streams, i)
      BY <1>1, <2>2, <2>3, <3>2, KnownHeader DEF Spans
    <3>4. Header(d, i) = Header(e, i) \/ Header(d, i) = Rated(Header(e, i), u.rate)
      BY <2>4, <3>1 DEF Header
    <3>5. Rated(Header(e, i), u.rate).span = Header(e, i).span
      BY <3>3 DEF Rated, Headers
    <3>6. QED
      BY <3>3, <3>4, <3>5
  <2>6. QED
    BY <2>1, <2>5 DEF Spans
<1>6. QED
  BY <1>2, <1>3, <1>4, <1>5

(* The clocks aside, closing the headers and reading a frame leave what is *)
(* known as it is.                                                         *)
LEMMA FrameSpans ==
  ASSUME NEW c, ContextOK(c), Spans(c), NEW u \in FrameUnits, u.stream \in Known(c),
         ~PtsRefused(c, u)
  PROVE  ContextOK(FrameRead(HeadersClosed(c), u)) /\ Spans(FrameRead(HeadersClosed(c), u))
<1> DEFINE d == HeadersClosed(c)
           e == FrameRead(d, u)
<1>1. ContextOK(d)
  BY HeadersClosedKeeps
<1>2. d.streams = c.streams /\ d.clocks = c.clocks
  BY DEF ContextOK, IsContext, HeadersClosed
<1> HIDE DEF d
<1>3. u.stream \in Known(d) /\ ~PtsRefused(d, u)
  BY <1>2 DEF Known, Declared, PtsRefused, FrameSpan, FrameLast, Header
<1>4. ContextOK(e)
  BY <1>1, <1>3, FrameReadKeeps
<1>5. e.streams = c.streams
  BY <1>1, <1>2 DEF ContextOK, IsContext, FrameRead
<1> HIDE DEF e
<1>6. Spans(e)
  BY <1>5 DEF Spans, Known, Declared, Header
<1>7. QED
  BY <1>4, <1>6 DEF e, d

(* A frame that is read is of a stream that is known.                      *)
LEMMA FrameReadable ==
  ASSUME NEW c, NEW u \in FrameUnits, ~FramePanics(c, u, u.head),
         NEW ceiling, ~FrameRefused(c, u, u.head, ceiling)
  PROVE  u.valid /\ u.stream \in Known(c) /\ ~PtsRefused(c, u)
<1>1. /\ u.head \in Nat /\ u.streamAt \in Nat /\ u.ptsAt \in Nat
      /\ u.head >= u.streamAt /\ u.head >= u.ptsAt
  BY DEF FrameUnits
<1>2. HeadersComplete(c) /\ u.valid /\ u.stream \in Declared(c)
  BY <1>1 DEF FrameRefused
<1>3. PtsSeen(c, u, u.head)
  BY <1>1, <1>2 DEF PtsSeen, StreamSeen
<1>4. ~PtsRefused(c, u)
  BY <1>3 DEF FramePanics, FrameRefused
<1>5. QED
  BY <1>2, <1>4 DEF HeadersComplete

LEMMA StartsTyped ==
  ASSUME wire \in MuxWires, Filed(wire, written)
  PROVE  /\ written \in Seq(Files) /\ Len(written) \in Nat /\ DOMAIN written = 1 .. Len(written)
         /\ \A i \in DOMAIN written : Start(written[i]) \in Nat /\ Start(written[i]) \in DOMAIN wire.unit
<1>1. DOMAIN wire.unit \subseteq Nat
  BY MuxWireParts
<1>2. written \in Seq(Files)
  BY DEF Filed
<1>3. Len(written) \in Nat /\ DOMAIN written = 1 .. Len(written)
  BY <1>2
<1>4. \A i \in DOMAIN written : Start(written[i]) \in DOMAIN wire.unit
  BY DEF Filed
<1>5. QED
  BY <1>1, <1>2, <1>3, <1>4

(* Past a unit that is no frame there is no frame that was written.        *)
LEMMA PassedPacket ==
  ASSUME wire \in MuxWires, Filed(wire, written), Apart(wire),
         NEW at \in DOMAIN wire.unit, wire.unit[at].kind # "frame",
         NEW handed, DeliveredTo(at, handed)
  PROVE  DeliveredTo(at + WidthOf(wire.unit[at]), handed)
<1> DEFINE w == WidthOf(wire.unit[at])
<1>1. at \in Nat /\ w \in Nat \ {0}
  BY MuxWireParts, WidthPositive
<1> HIDE DEF w
<1>2. ASSUME NEW i \in DOMAIN written
      PROVE  Start(written[i]) < at <=> Start(written[i]) < at + w
  <2>1. /\ Start(written[i]) \in Nat /\ Start(written[i]) \in DOMAIN wire.unit
    BY StartsTyped
  <2>2. Start(written[i]) # at
    <3>1. wire.unit[Start(written[i])] = UnitOf(written[i])
      BY DEF Filed
    <3>2. UnitOf(written[i]).kind = "frame"
      BY DEF UnitOf, FrameUnit
    <3>3. QED
      BY <3>1, <3>2
  <2>3. at < Start(written[i]) => at + w <= Start(written[i])
    BY <2>1 DEF Apart, w
  <2>4. QED
    BY <1>1, <2>1, <2>2, <2>3
<1>3. DeliveredTo(at + w, handed)
  BY <1>2 DEF DeliveredTo
<1>4. QED
  BY <1>3 DEF w

(* Past a whole frame it is the next of those that were written.           *)
LEMMA PassedFrame ==
  ASSUME wire \in MuxWires, Filed(wire, written), Apart(wire),
         NEW at \in DOMAIN wire.unit, wire.unit[at].kind = "frame",
         at + WidthOf(wire.unit[at]) <= wire.end,
         NEW handed, DeliveredTo(at, handed)
  PROVE  \E file \in Files :
           /\ wire.unit[at] = UnitOf(file)
           /\ at = Start(file)
           /\ DeliveredTo(at + WidthOf(wire.unit[at]), Append(handed, file))
<1> DEFINE w == WidthOf(wire.unit[at])
           n == Len(written)
           k == Len(handed)
           S(i) == Start(written[i])
<1>1. at \in Nat /\ w \in Nat \ {0}
  BY MuxWireParts, WidthPositive
<1>2. /\ written \in Seq(Files) /\ n \in Nat /\ DOMAIN written = 1 .. n
      /\ \A i \in 1 .. n : S(i) \in Nat /\ S(i) \in DOMAIN wire.unit
  BY StartsTyped
<1>3. /\ handed \in Seq(Files) /\ k \in Nat /\ k <= n /\ DOMAIN handed = 1 .. k
      /\ \A i \in 1 .. k : handed[i] = written[i]
      /\ \A i \in 1 .. n : S(i) < at <=> i <= k
  BY <1>2 DEF DeliveredTo
<1>4. PICK i \in 1 .. n : S(i) = at
  BY <1>2 DEF Filed, StartsOf
<1>5. \A a, b \in 1 .. n : a < b => S(a) < S(b)
  BY <1>2 DEF Filed
<1>6. wire.unit[at] = UnitOf(written[i]) /\ written[i] \in Files
  BY <1>2, <1>4 DEF Filed
<1>7. ASSUME NEW j \in 1 .. n, at < S(j) PROVE at + w <= S(j)
  BY <1>2, <1>7 DEF Apart, w
<1> DEFINE file == written[i]
           nu   == Append(handed, file)
<1>8. /\ nu \in Seq(Files) /\ Len(nu) = k + 1 /\ DOMAIN nu = 1 .. k + 1
      /\ \A j \in 1 .. k : nu[j] = handed[j]
      /\ nu[k + 1] = file
  BY <1>3, <1>6
<1> HIDE DEF w, n, k, S, nu
<1>9. i = k + 1
  <2>1. k < i
    BY <1>1, <1>3, <1>4
  <2>2. ASSUME k + 1 < i PROVE FALSE
    <3>1. k + 1 \in 1 .. n
      BY <1>2, <1>3, <2>2
    <3>2. S(k + 1) < at
      BY <1>4, <1>5, <2>2, <3>1
    <3>3. k + 1 <= k
      BY <1>3, <3>1, <3>2
    <3>4. QED
      BY <1>3, <3>3
  <2>3. QED
    BY <1>3, <2>1, <2>2
<1>10. ASSUME NEW j \in 1 .. n PROVE S(j) < at + w <=> j <= k + 1
  <2>1. S(j) \in Nat
    BY <1>2
  <2>2. CASE j <= k
    BY <1>1, <1>3, <2>1, <2>2
  <2>3. CASE j = k + 1
    BY <1>1, <1>3, <1>4, <1>9, <2>3
  <2>4. CASE k + 1 < j
    <3>1. at < S(j)
      BY <1>4, <1>5, <1>9, <2>4
    <3>2. at + w <= S(j)
      BY <1>7, <3>1
    <3>3. QED
      BY <1>1, <1>3, <2>1, <2>4, <3>2
  <2>5. QED
    BY <1>3, <2>2, <2>3, <2>4
<1>11. k + 1 <= n
  BY <1>2, <1>9
<1>12. ASSUME NEW j \in 1 .. k + 1 PROVE nu[j] = written[j]
  BY <1>3, <1>8, <1>9
<1>13. DeliveredTo(at + w, nu)
  BY <1>2, <1>8, <1>10, <1>11, <1>12 DEF DeliveredTo, n, S
<1>14. QED
  BY <1>4, <1>6, <1>13 DEF w, nu, S

-----------------------------------------------------------------------------
(* The steps.                                                              *)

LEMMA WriterSide ==
  ASSUME PInv, MInv', WInv', Grown, UNCHANGED reader
  PROVE  PInv'
<1>1. /\ place' = place /\ ctx' = ctx /\ frames' = frames
  BY DEF reader
<1>2. /\ place \in Nat /\ sent \in Nat /\ wire.end \in Nat /\ sent' \in Nat
      /\ place <= sent /\ sent <= wire.end
  BY MuxWireParts DEF PInv, MInv, WellLaid, WInv, RInv, Along
<1>3. Along'
  BY <1>1, <1>2 DEF PInv, RInv, Along, Grown
<1>4. Spans(ctx)'
  <2>1. CASE opened = "no"
    <3>1. ctx = NewContext
      BY <2>1 DEF PInv, RInv, Along
    <3>2. Known(ctx') = {}
      BY <1>1, <3>1 DEF Known, Declared, NewContext
    <3>3. QED
      BY <3>2 DEF Spans
  <2>2. CASE opened # "no"
    BY <1>1, <2>2 DEF Grown, PInv, RInv, Spans, SpanAmong
  <2>3. QED
    BY <2>1, <2>2
<1>5. Delivered'
  <2> DEFINE n == Len(written)
             m == Len(written')
             k == Len(frames)
  <2>1. written \in Seq(Files) /\ written' \in Seq(Files) /\ wire' \in MuxWires
    BY DEF PInv, WInv, Filed, MInv, WellLaid
  <2>2. /\ n \in Nat /\ m \in Nat /\ DOMAIN written = 1 .. n /\ DOMAIN written' = 1 .. m
    BY <2>1
  <2>3. /\ frames \in Seq(Files) /\ k \in Nat /\ k <= n /\ DOMAIN frames = 1 .. k
        /\ \A i \in 1 .. k : frames[i] = written[i]
        /\ \A i \in 1 .. n : Start(written[i]) < place <=> i <= k
    BY <2>2 DEF PInv, RInv, Delivered, DeliveredTo
  <2>4. /\ n <= m
        /\ \A i \in 1 .. n : written'[i] = written[i]
        /\ \A i \in 1 .. m : i <= n \/ wire.end <= Start(written'[i])
    BY <2>2 DEF Grown, Behind
  <2>5. \A i \in 1 .. m : Start(written'[i]) \in Nat
    <3>1. DOMAIN wire'.unit \subseteq Nat
      BY <2>1, MuxWireParts
    <3>2. \A i \in DOMAIN written' : Start(written'[i]) \in DOMAIN wire'.unit
      BY DEF WInv, Filed, Start
    <3>3. QED
      BY <2>2, <3>1, <3>2
  <2> HIDE DEF n, m, k
  <2>6. ASSUME NEW i \in 1 .. m PROVE Start(written'[i]) < place <=> i <= k
    <3>1. CASE i <= n
      <4>1. i \in 1 .. n /\ written'[i] = written[i]
        BY <2>2, <2>4, <3>1
      <4>2. QED
        BY <2>3, <4>1
    <3>2. CASE ~(i <= n)
      <4>1. wire.end <= Start(written'[i]) /\ Start(written'[i]) \in Nat
        BY <2>4, <2>5, <3>2
      <4>2. ~(Start(written'[i]) < place)
        BY <1>2, <4>1
      <4>3. ~(i <= k)
        BY <2>2, <2>3, <3>2
      <4>4. QED
        BY <4>2, <4>3
    <3>3. QED
      BY <3>1, <3>2
  <2>7. k <= m /\ \A i \in 1 .. k : frames[i] = written'[i]
    BY <2>2, <2>3, <2>4
  <2>8. /\ frames \in Seq(Files)
        /\ Len(frames) <= Len(written')
        /\ \A i \in DOMAIN frames : frames[i] = written'[i]
        /\ \A i \in DOMAIN written' : Start(written'[i]) < place <=> i <= Len(frames)
    BY <2>2, <2>3, <2>6, <2>7 DEF k, m
  <2>9. QED
    BY <1>1, <2>8 DEF Delivered, DeliveredTo, Start
<1>6. QED
  BY <1>1, <1>3, <1>4, <1>5 DEF PInv, RInv

(* A step of the reader's leaves the writer's side alone.                  *)
LEMMA ReaderSide ==
  ASSUME PInv, UNCHANGED <<muxer, closed>>,
         place' \in Nat, place <= place', place' <= sent, place' = 0 => ctx' = NewContext,
         ContextOK(ctx'), Spans(ctx'), DeliveredTo(place', frames'), opened # "no" \/ place' = 0
  PROVE  PInv'
<1>1. UNCHANGED <<opened, streams, timeBases, annotations, lastSyncpoint, wire, sent, written, marks>>
  BY DEF muxer, fields
<1>2. MInv'
  BY <1>1, StayKeeps DEF PInv, fields
<1>3. WInv'
  <2>1. Filed(wire, written)' /\ Spanned(wire)'
    BY <1>1 DEF PInv, WInv, Filed, Spanned, UnitOf, FrameUnit, CodedWhole, Media
  <2>2. QED
    BY <1>1, <2>1 DEF PInv, WInv
<1>4. ContextOK(ctx)' /\ Along'
  BY <1>1 DEF Along
<1>5. Spans(ctx)'
  BY <1>1 DEF Spans, SpanAmong
<1>6. Delivered'
  BY <1>1 DEF Delivered, DeliveredTo, Start
<1>7. QED
  BY <1>2, <1>3, <1>4, <1>5, <1>6 DEF PInv, RInv

LEMMA ReaderFacts ==
  ASSUME PInv
  PROVE  /\ wire \in MuxWires /\ wire.end \in Nat /\ DOMAIN wire.unit \subseteq Nat
         /\ Filed(wire, written) /\ Spanned(wire) /\ Apart(wire)
         /\ sent \in Nat /\ sent <= wire.end
         /\ opened = "no" => place = 0 /\ wire.end = 0
         /\ place \in Nat /\ place <= sent
         /\ ContextOK(ctx) /\ Spans(ctx) /\ DeliveredTo(place, frames)
BY MuxWireParts DEF PInv, MInv, WellLaid, Laying, WInv, RInv, Along, Delivered

(* A reader that stops, or is over, has handed on what it has.             *)
LEMMA StopKeeps ==
  ASSUME PInv, UNCHANGED <<muxer, closed, place, ctx, frames>>
  PROVE  PInv'
<1>1. place' = place /\ ctx' = ctx /\ frames' = frames
  OBVIOUS
<1>2. place = 0 => ctx = NewContext
  BY DEF PInv, RInv, Along
<1>3. QED
  BY <1>1, <1>2, ReaderFacts, ReaderSide

LEMMA ReadIdentifierKeeps ==
  ASSUME PInv, ReadIdentifier
  PROVE  PInv'
<1>1. /\ place = 0 /\ place' = FileIdLen /\ sent >= FileIdLen /\ FileIdLen \in Nat \ {0}
      /\ ctx' = ctx /\ frames' = frames /\ UNCHANGED <<muxer, closed>>
  BY MuxerAssumption DEF ReadIdentifier
<1>2. DeliveredTo(place', frames)
  <2>1. ASSUME NEW i \in DOMAIN written
        PROVE  ~(Start(written[i]) < 0) /\ ~(Start(written[i]) < FileIdLen)
    <3>1. Start(written[i]) \in DOMAIN wire.unit /\ Start(written[i]) \in Nat
      BY ReaderFacts, StartsTyped
    <3>2. FileIdLen <= Start(written[i])
      BY <3>1, ReaderFacts DEF Apart
    <3>3. QED
      BY <1>1, <3>1, <3>2
  <2>2. QED
    BY <1>1, <2>1, ReaderFacts DEF DeliveredTo
<1>3. opened # "no"
  BY <1>1, ReaderFacts
<1>4. /\ place' \in Nat /\ place <= place' /\ place' <= sent /\ place' # 0
  BY <1>1, ReaderFacts
<1>5. QED
  BY <1>1, <1>2, <1>3, <1>4, ReaderFacts, ReaderSide

LEMMA ReadPacketKeeps ==
  ASSUME PInv, ReadPacket
  PROVE  PInv'
<1>1. CASE \E what \in {"panic", "refused"} : Stops(what)
  BY <1>1, StopKeeps DEF Stops
<1>2. CASE ~\E what \in {"panic", "refused"} : Stops(what)
  <2> DEFINE u == Here
             w == WidthOf(u)
  <2>1. /\ u.kind # "frame" /\ place > 0 /\ place + w <= sent
        /\ SteppedOver(u) \/ ~BodyRefused(ctx, u)
        /\ ctx' = IF SteppedOver(u) THEN ctx ELSE PacketRead(ctx, u)
        /\ place' = place + w /\ frames' = frames
        /\ UNCHANGED <<muxer, closed>>
    BY <1>2 DEF ReadPacket, UnitArrived
  <2>2. place \in DOMAIN wire.unit /\ u = wire.unit[place]
    BY <2>1 DEF Here, UnitAt, NoUnit
  <2>3. u \in Units /\ w \in Nat \ {0}
    BY <2>2, ReaderFacts, MuxWireParts, WidthPositive
  <2>4. /\ u.kind \in {"main", "stream", "syncpoint", "info"}
        /\ u.kind = "stream" => u.span = SpanAmong(streams, u.stream)
    BY <2>1, <2>2, ReaderFacts DEF Spanned, HeaderKinds
  <2> HIDE DEF u
  <2>5. ContextOK(ctx') /\ Spans(ctx')
    <3>1. CASE SteppedOver(u)
      BY <2>1, <3>1, ReaderFacts
    <3>2. CASE ~SteppedOver(u)
      BY <2>1, <2>3, <2>4, <3>2, ReaderFacts, PacketReadKeeps, PacketSpans
    <3>3. QED
      BY <3>1, <3>2
  <2>6. DeliveredTo(place', frames')
    BY <2>1, <2>2, ReaderFacts, PassedPacket
  <2> HIDE DEF w
  <2>7. place' \in Nat /\ place <= place' /\ place' <= sent /\ place' # 0 /\ place # 0
    BY <2>1, <2>3, ReaderFacts
  <2>8. QED
    BY <2>1, <2>5, <2>6, <2>7, ReaderFacts, ReaderSide
<1>3. QED
  BY <1>1, <1>2

(* What the reader makes of a frame's head is what was written.            *)
LEMMA FrameHandedOn ==
  ASSUME MInv, NEW c, ContextOK(c), Spans(c), NEW file \in Files,
         file.stream \in Known(c), NEW at \in Nat, at = Start(file)
  PROVE  LET u == UnitOf(file)
         IN  [stream |-> u.stream, pts |-> FramePts(c, u), key |-> u.key,
              from |-> at + u.head, size |-> u.size] = file
<1> DEFINE u    == UnitOf(file)
           span == SpanAmong(streams, file.stream)
<1>1. /\ file = [stream |-> file.stream, pts |-> file.pts, key |-> file.key,
                 from |-> file.from, size |-> file.size]
      /\ file.pts \in Nat /\ file.from \in Nat
  BY DEF Files
<1>2. /\ u.stream = file.stream /\ u.key = file.key /\ u.size = file.size
      /\ u.head = FrameHead /\ u.coded = TRUE /\ u.pts = file.pts + span
  BY DEF UnitOf, FrameUnit, CodedWhole, Media, SpanAmong
<1>3. FrameHead \in Nat /\ at = file.from - FrameHead
  BY MuxerAssumption DEF Start
<1>4. FrameSpan(c, u) = span /\ span \in Nat
  <2>1. Header(c, file.stream) \in Headers
    BY KnownHeader
  <2>2. Header(c, file.stream).span = span
    BY DEF Spans
  <2>3. QED
    BY <1>2, <2>1, <2>2 DEF FrameSpan, Headers
<1> HIDE DEF u, span
<1>5. FramePts(c, u) = file.pts
  <2>1. FramePts(c, u) = CodedPts(span, FrameLast(c, u), file.pts + span)
    BY <1>2, <1>4 DEF FramePts
  <2>2. file.pts + span >= span /\ file.pts + span - span = file.pts
    BY <1>1, <1>4
  <2>3. QED
    BY <1>1, <1>4, <2>1, <2>2 DEF CodedPts
<1>6. at + u.head = file.from
  BY <1>1, <1>2, <1>3
<1>7. [stream |-> u.stream, pts |-> FramePts(c, u), key |-> u.key,
       from |-> at + u.head, size |-> u.size] = file
  BY <1>1, <1>2, <1>5, <1>6
<1>8. QED
  BY <1>7 DEF u

LEMMA ReadFrameKeeps ==
  ASSUME PInv, ReadFrame
  PROVE  PInv'
<1>1. CASE \E what \in {"panic", "refused"} : Stops(what)
  BY <1>1, StopKeeps DEF Stops
<1>2. CASE ~\E what \in {"panic", "refused"} : Stops(what)
  <2> DEFINE u == Here
             w == WidthOf(u)
             frame == [stream |-> u.stream, pts |-> FramePts(ctx, u), key |-> u.key,
                       from |-> place + u.head, size |-> u.size]
  <2>1. /\ u.kind = "frame" /\ place > 0 /\ place + w <= sent
        /\ ~FramePanics(ctx, u, u.head) /\ ~FrameRefused(ctx, u, u.head, MaxFrame)
        /\ ctx' = FrameRead(HeadersClosed(ctx), u) /\ place' = place + w
        /\ frames' = Append(frames, frame)
        /\ UNCHANGED <<muxer, closed>>
    BY <1>2 DEF ReadFrame, UnitArrived
  <2>2. u.valid
    BY <2>1 DEF FrameRefused
  <2>3. place \in DOMAIN wire.unit /\ u = wire.unit[place]
    BY <2>2 DEF Here, UnitAt, NoUnit
  <2>4. u \in Units /\ u \in FrameUnits /\ w \in Nat \ {0}
    BY <2>1, <2>3, ReaderFacts, MuxWireParts, WidthPositive, UnitKinds
  <2> HIDE DEF u
  <2>5. u.stream \in Known(ctx) /\ ~PtsRefused(ctx, u)
    BY <2>1, <2>4, FrameReadable
  <2>6. ContextOK(ctx') /\ Spans(ctx')
    BY <2>1, <2>4, <2>5, ReaderFacts, FrameSpans
  <2>7. place + w <= wire.end
    <3> HIDE DEF w
    <3>1. QED
      BY <2>1, <2>4, ReaderFacts
  <2>8. PICK file \in Files :
          /\ u = UnitOf(file)
          /\ place = Start(file)
          /\ DeliveredTo(place + w, Append(frames, file))
    BY <2>1, <2>3, <2>7, ReaderFacts, PassedFrame
  <2>9. frame = file
    <3>1. u.stream = file.stream
      BY <2>8 DEF UnitOf, FrameUnit
    <3>2. MInv /\ place \in Nat
      BY ReaderFacts DEF PInv
    <3>3. QED
      BY <2>5, <2>8, <3>1, <3>2, ReaderFacts, FrameHandedOn
  <2>10. DeliveredTo(place', frames')
    BY <2>1, <2>8, <2>9
  <2> HIDE DEF w, frame
  <2>11. place' \in Nat /\ place <= place' /\ place' <= sent /\ place' # 0 /\ place # 0
    BY <2>1, <2>4, ReaderFacts
  <2>12. QED
    BY <2>1, <2>6, <2>10, <2>11, ReaderFacts, ReaderSide
<1>3. QED
  BY <1>1, <1>2

(* The writer passes on more of what it was given.                         *)
LEMMA SpillKeeps ==
  ASSUME PInv, NEW n \in Nat, Spill(n), UNCHANGED <<closed, reader>>
  PROVE  PInv'
<1>1. /\ sent' = sent + n /\ sent + n <= wire.end
      /\ UNCHANGED <<opened, streams, timeBases, annotations, lastSyncpoint, wire, written, marks>>
  BY DEF Spill, fields
<1>2. MInv'
  BY <1>1, StayKeeps DEF PInv, fields
<1>3. sent' \in Nat /\ sent <= sent' /\ sent' <= wire.end
  BY <1>1, ReaderFacts
<1>4. WInv' /\ Grown
  BY <1>1, <1>3, StillFiles DEF PInv
<1>5. QED
  BY <1>2, <1>4, WriterSide

LEMMA InitPiped == Init => PInv
<1> SUFFICES ASSUME Init PROVE PInv
  OBVIOUS
<1>1. MInv
  BY InitKept DEF Init
<1>2. /\ wire.unit = <<>> /\ wire.end = 0 /\ sent = 0 /\ written = <<>> /\ opened = "no"
      /\ place = 0 /\ ctx = NewContext /\ frames = <<>>
  BY DEF Init, MuxerInit
<1>3. WInv
  BY <1>2 DEF WInv, Filed, Spanned, StartsOf
<1>4. Spans(ctx)
  <2>1. Known(ctx) = {}
    BY <1>2 DEF Known, Declared, NewContext
  <2>2. QED
    BY <2>1 DEF Spans
<1>5. Along /\ Delivered
  BY <1>2 DEF Along, Delivered, DeliveredTo
<1>6. QED
  BY <1>1, <1>2, <1>3, <1>4, <1>5, NewContextOK DEF PInv, RInv

LEMMA NextPiped ==
  ASSUME PInv, [Next]_vars
  PROVE  PInv'
<1>1. CASE Write
  <2>1. MInv /\ WInv /\ MuxerStep /\ UNCHANGED reader
    BY <1>1 DEF Write, PInv
  <2>2. MInv'
    BY <2>1, StepKeeps
  <2>3. WInv' /\ Grown
    BY <2>1, WriterKeeps
  <2>4. QED
    BY <2>1, <2>2, <2>3, WriterSide
<1>2. CASE Close
  <2>1. UNCHANGED <<opened, streams, wire, written>> /\ UNCHANGED <<fields, lastSyncpoint, wire, marks>>
        /\ sent' = sent /\ UNCHANGED reader
    BY <1>2 DEF Close, muxer, fields
  <2>2. MInv'
    BY <2>1, StayKeeps DEF PInv
  <2>3. WInv' /\ Grown
    BY <2>1, ReaderFacts, StillFiles DEF PInv
  <2>4. QED
    BY <2>1, <2>2, <2>3, WriterSide
<1>3. CASE Pass
  BY <1>3, ChunksAssumption, SpillKeeps DEF Pass
<1>4. CASE Drop
  <2>1. wire.end - sent \in Nat
    BY ReaderFacts
  <2>2. QED
    BY <1>4, <2>1, SpillKeeps DEF Drop
<1>5. CASE Read
  <2>1. ReadEnd => PInv'
    BY StopKeeps DEF ReadEnd
  <2>2. QED
    BY <1>5, <2>1, ReadIdentifierKeeps, ReadPacketKeeps, ReadFrameKeeps DEF Read
<1>6. CASE Over \/ UNCHANGED vars
  <2>1. UNCHANGED <<muxer, closed, place, ctx, frames>>
    BY <1>6 DEF Over, vars, reader
  <2>2. QED
    BY <2>1, StopKeeps
<1>7. QED
  BY <1>1, <1>2, <1>3, <1>4, <1>5, <1>6 DEF Next

LEMMA PipeInvariant == Spec => []PInv
<1>1. Init => PInv
  BY InitPiped
<1>2. PInv /\ [Next]_vars => PInv'
  BY NextPiped
<1>3. QED
  BY <1>1, <1>2, PTL DEF Spec

(* A demuxer hands on the frames a muxer was handed, in their order and    *)
(* with the stream, PTS, keyframe flag and bytes they went in with:        *)
(* write_packet_for against Demuxer::frame, through the coding of the PTS  *)
(* that open() declared and read_stream() took; however a writer fails in  *)
(* between, and whatever a reader's clocks say.                            *)
THEOREM FramesArriveAsWritten == Spec => []FramesAsWritten
<1>1. PInv => FramesAsWritten
  BY DEF PInv, RInv, Delivered, DeliveredTo, FramesAsWritten
<1>2. QED
  BY <1>1, PipeInvariant, PTL

-----------------------------------------------------------------------------
(* The headers a muxer writes, one by one.                                 *)

LEMMA RateUnitsSay ==
  ASSUME NEW described \in Seq(Described)
  PROVE  /\ RateUnits(described) \in Seq({RateUnit(i, described[i].rate) : i \in DOMAIN described})
         /\ \A i \in DOMAIN described :
              described[i].rate # 0 =>
                \E j \in DOMAIN RateUnits(described) :
                  RateUnits(described)[j] = RateUnit(i, described[i].rate)
<1> DEFINE n == Len(described)
           Of(i) == RateUnit(i, described[i].rate)
           R == {Of(i) : i \in DOMAIN described}
           S == Seq(R)
           More(rates, i) == IF described[i].rate = 0 THEN rates ELSE Append(rates, Of(i))
           Defines(g) ==
             g = [i \in 0 .. n |-> IF i = 0 THEN <<>> ELSE More(g[i - 1], i)]
           rates == CHOOSE g : Defines(g)
           step  == [x \in S \X (1 .. n) |-> More(x[1], x[2])]
<1>1. n \in Nat /\ DOMAIN described = 1 .. n
  OBVIOUS
<1>2. \A i \in 1 .. n : Of(i) \in R
  BY <1>1
<1>3. RateUnits(described) = rates[n]
  BY DEF RateUnits
<1> HIDE DEF n, R, Of
<1>4. \A r \in S, i \in 1 .. n : More(r, i) \in S
  BY <1>2
<1>5. step \in [S \X (1 .. n) -> S] /\ <<>> \in S
  <2> HIDE DEF More
  <2>1. QED
    BY <1>4
<1> HIDE DEF S, More
<1>6. PICK g \in [0 .. n -> S] :
        g[0] = <<>> /\ \A i \in 1 .. n : g[i] = step[<<g[i - 1], i>>]
  <2>1. Folds(S, <<>>, step, n) # {}
    <3> HIDE DEF step
    <3>1. QED
      BY <1>1, <1>5, FoldExists
  <2>2. QED
    BY <2>1 DEF Folds
<1>7. Defines(g)
  <2>1. ASSUME NEW i \in 1 .. n PROVE g[i] = More(g[i - 1], i)
    <3>1. i - 1 \in 0 .. n
      BY <1>1
    <3>2. g[i - 1] \in S
      BY <1>6, <3>1
    <3>3. step[<<g[i - 1], i>>] = More(g[i - 1], i)
      BY <3>2
    <3>4. QED
      BY <1>6, <3>3
  <2>2. QED
    BY <1>1, <1>6, <2>1
<1>8. Defines(rates)
  BY <1>7
<1> HIDE DEF rates
<1>9. rates[0] = <<>> /\ \A i \in 1 .. n : rates[i] = More(rates[i - 1], i)
  BY <1>1, <1>8
<1>10. \A i \in 0 .. n : rates[i] \in S
  <2>1. \A i \in 1 .. n : rates[i - 1] \in S => rates[i] \in S
    BY <1>4, <1>9
  <2>2. QED
    BY <1>1, <1>5, <1>9, <2>1, FoldKeeps
<1> DEFINE Has(m, i) == \E j \in DOMAIN rates[m] : rates[m][j] = Of(i)
           T == {m \in Nat : m <= n => \A i \in 1 .. m : described[i].rate # 0 => Has(m, i)}
<1>11. 0 \in T
  OBVIOUS
<1>12. ASSUME NEW m \in Nat, m \in T PROVE m + 1 \in T
  <2> SUFFICES ASSUME m + 1 <= n, NEW i \in 1 .. m + 1, described[i].rate # 0
               PROVE  Has(m + 1, i)
    OBVIOUS
  <2> DEFINE r == rates[m]
             q == Of(m + 1)
  <2>1. r \in Seq(R) /\ q \in R /\ m + 1 \in 1 .. n
        /\ rates[m + 1] = IF described[m + 1].rate = 0 THEN r ELSE Append(r, q)
    <3>1. m + 1 \in 1 .. n /\ m \in 0 .. n /\ (m + 1) - 1 = m
      BY <1>1
    <3>2. r \in Seq(R) /\ q \in R
      BY <1>2, <1>10, <3>1 DEF S
    <3>3. rates[m + 1] = More(r, m + 1)
      BY <1>9, <3>1
    <3>4. QED
      BY <3>1, <3>2, <3>3 DEF More
  <2> HIDE DEF r, q
  <2>2. /\ \A j \in DOMAIN r : j \in DOMAIN Append(r, q) /\ Append(r, q)[j] = r[j]
        /\ Len(r) + 1 \in DOMAIN Append(r, q) /\ Append(r, q)[Len(r) + 1] = q
    BY <2>1
  <2>3. \A j \in DOMAIN r : j \in DOMAIN rates[m + 1] /\ rates[m + 1][j] = r[j]
    BY <2>1, <2>2
  <2>4. CASE i = m + 1
    <3>1. rates[m + 1] = Append(r, q)
      BY <2>1, <2>4
    <3>2. QED
      BY <2>2, <2>4, <3>1 DEF q
  <2>5. CASE i \in 1 .. m
    <3>1. \E j \in DOMAIN r : r[j] = Of(i)
      BY <1>1, <1>12, <2>5 DEF r
    <3>2. QED
      BY <2>3, <3>1
  <2>6. QED
    BY <2>4, <2>5
<1> HIDE DEF T
<1>13. Nat \subseteq T
  BY <1>11, <1>12, Induction
<1>14. \A i \in 1 .. n : described[i].rate # 0 => Has(n, i)
  BY <1>1, <1>13 DEF T
<1>15. rates[n] \in Seq(R)
  BY <1>1, <1>10 DEF S
<1>16. QED
  BY <1>1, <1>3, <1>14, <1>15 DEF R, Of

(* Where the parts of a sequence are once they are joined.                 *)
Joins(r, s, t) ==
  /\ Len(r) = Len(s) + Len(t)
  /\ \A i \in 1 .. Len(s) : r[i] = s[i]
  /\ \A i \in 1 .. Len(t) : r[Len(s) + i] = t[i]

LEMMA JoinedAt ==
  ASSUME NEW S, NEW s \in Seq(S), NEW t \in Seq(S)
  PROVE  s \o t \in Seq(S) /\ Joins(s \o t, s, t)
BY DEF Joins

(* The main header, the streams' in their order, the rates.                *)
HeaderCount(o) == Len(o.streams) + (IF o.annotated THEN 1 ELSE 0)

SaysStream(u, o, i) ==
  LET bases == TimeBasesOf(o.streams)
  IN  /\ u.kind = "stream" /\ u.ok /\ u.stream = i
      /\ u.base \in DOMAIN bases
      /\ bases[u.base] = o.streams[IF i \in DOMAIN o.streams THEN i ELSE 1].base
      /\ u.body = IF i \in DOMAIN o.streams THEN o.streams[i].header ELSE FieldsLen

HeadersAre(units, o) ==
  LET c == HeaderCount(o)
  IN  /\ units \in Seq(HeaderUnitsOf(o.streams))
      /\ Len(units) \in Nat /\ c + 1 <= Len(units)
      /\ units[1] = MainUnit(TimeBasesOf(o.streams), c)
      /\ \A i \in 1 .. c : SaysStream(units[i + 1], o, i)
      /\ \A k \in c + 2 .. Len(units) :
           \E i \in DOMAIN o.streams : units[k] = RateUnit(i, o.streams[i].rate)
      /\ \A i \in DOMAIN o.streams :
           o.streams[i].rate # 0 =>
             \E k \in c + 2 .. Len(units) : units[k] = RateUnit(i, o.streams[i].rate)

LEMMA HeaderUnitsSay ==
  ASSUME NEW o \in Openings, ~Unopenable(o)
  PROVE  HeadersAre(HeaderUnits(o), o) /\ o.streams \in Seq(Described) /\ o.streams # <<>>
         /\ HeaderCount(o) \in Nat
<1> DEFINE n     == Len(o.streams)
           c     == HeaderCount(o)
           bases == TimeBasesOf(o.streams)
           main  == <<MainUnit(bases, c)>>
           each  == [i \in DOMAIN o.streams |-> StreamUnit(bases, o.streams, i)]
           last  == IF o.annotated THEN <<AnnotationUnit(bases, o.streams)>> ELSE <<>>
           rates == RateUnits(o.streams)
           H     == HeaderUnits(o)
           S     == {main[1]} \cup {each[i] : i \in DOMAIN o.streams} \cup
                    {AnnotationUnit(bases, o.streams)} \cup
                    {RateUnit(i, o.streams[i].rate) : i \in DOMAIN o.streams}
           R     == {RateUnit(i, o.streams[i].rate) : i \in DOMAIN o.streams}
<1>1. /\ o.streams \in Seq(Described) /\ o.annotated \in BOOLEAN
      /\ o.streams # <<>>
  BY MuxerAssumption DEF Unopenable
<1>2. n \in Nat \ {0} /\ DOMAIN o.streams = 1 .. n /\ \A i \in 1 .. n : o.streams[i] \in Described
  BY <1>1
<1>3. /\ c = n + (IF o.annotated THEN 1 ELSE 0) /\ c \in Nat
      /\ ~o.annotated => c = n
      /\ o.annotated => c = n + 1
  <2>1. c = n + (IF o.annotated THEN 1 ELSE 0)
    BY DEF HeaderCount
  <2> HIDE DEF c, n
  <2>2. QED
    BY <1>1, <1>2, <2>1
<1>4. /\ bases \in Seq(Rationals)
      /\ \A i \in 1 .. n : \E k \in DOMAIN bases : bases[k] = o.streams[i].base
  <2>1. /\ TimeBasesOf(o.streams) \in Seq(Rationals)
        /\ \A i \in DOMAIN o.streams :
             \E k \in DOMAIN TimeBasesOf(o.streams) :
               TimeBasesOf(o.streams)[k] = o.streams[i].base
    BY <1>1, TimeBasesNamed
  <2>2. QED
    BY <1>2, <2>1 DEF bases
<1>5. H = main \o each \o last \o rates
  BY DEF HeaderUnits, HeaderCount
<1>6. H \in Seq(HeaderUnitsOf(o.streams))
  BY HeaderUnitsType
<1> HIDE DEF bases, n, c, H
<1>7. main \in Seq(S) /\ Len(main) = 1 /\ main[1] = MainUnit(bases, c)
  <2> DEFINE m == MainUnit(bases, c)
  <2>1. m \in S
    BY <1>1
  <2>2. main = <<m>>
    OBVIOUS
  <2> HIDE DEF m, S, main
  <2>3. QED
    BY <2>1, <2>2 DEF m
<1>8. each \in Seq(S) /\ Len(each) = n /\ \A i \in 1 .. n : each[i] = StreamUnit(bases, o.streams, i)
  <2>1. each = [i \in 1 .. n |-> StreamUnit(bases, o.streams, i)]
    BY <1>2
  <2>2. \A i \in 1 .. n : StreamUnit(bases, o.streams, i) \in S
    BY <1>2
  <2> HIDE DEF S, each
  <2>3. QED
    BY <1>2, <2>1, <2>2
<1>9. /\ last \in Seq(S)
      /\ o.annotated => Len(last) = 1 /\ last[1] = AnnotationUnit(bases, o.streams)
      /\ ~o.annotated => Len(last) = 0
  <2> DEFINE a == AnnotationUnit(bases, o.streams)
  <2>1. a \in S
    OBVIOUS
  <2>2. last = IF o.annotated THEN <<a>> ELSE <<>>
    OBVIOUS
  <2> HIDE DEF a, S, last
  <2>3. QED
    BY <2>1, <2>2 DEF a
<1>10. /\ rates \in Seq(R)
       /\ \A i \in DOMAIN o.streams :
            o.streams[i].rate # 0 =>
              \E j \in DOMAIN rates : rates[j] = RateUnit(i, o.streams[i].rate)
  BY <1>1, RateUnitsSay
<1>11. rates \in Seq(S)
  <2>1. R \subseteq S
    OBVIOUS
  <2> HIDE DEF R, S, rates
  <2>2. QED
    BY <1>10, <2>1
<1>12. Len(last) = c - n /\ n <= c
  BY <1>2, <1>3, <1>9
<1> HIDE DEF main, each, last, rates, S
<1> DEFINE r == Len(rates)
<1>13. /\ r \in Nat /\ DOMAIN rates = 1 .. r
  BY <1>11
<1> HIDE DEF r
<1>14. /\ Len(H) = 1 + c + r
       /\ H[1] = main[1]
       /\ \A i \in 1 .. n : H[i + 1] = each[i]
       /\ c = n + 1 => H[n + 2] = last[1]
       /\ \A j \in 1 .. r : H[c + 1 + j] = rates[j]
  <2> DEFINE A == main \o each
             B == A \o last
  <2>1. /\ A \in Seq(S) /\ Len(A) = n + 1 /\ A[1] = main[1]
        /\ \A i \in 1 .. n : A[i + 1] = each[i]
    <3>1. /\ A \in Seq(S) /\ Len(A) = 1 + n
          /\ \A i \in 1 .. 1 : A[i] = main[i]
          /\ \A i \in 1 .. n : A[1 + i] = each[i]
      <4>1. main \in Seq(S) /\ each \in Seq(S)
        BY <1>7, <1>8
      <4>2. A \in Seq(S) /\ Joins(A, main, each)
        BY <4>1, JoinedAt, Zenon
      <4> HIDE DEF A
      <4>3. QED
        BY <1>7, <1>8, <4>2 DEF Joins
    <3> HIDE DEF A
    <3>2. QED
      BY <1>2, <3>1
  <2> HIDE DEF A
  <2>2. /\ B \in Seq(S) /\ Len(B) = c + 1
        /\ \A i \in 1 .. n + 1 : B[i] = A[i]
        /\ c = n + 1 => B[n + 2] = last[1]
    <3>1. /\ B \in Seq(S) /\ Len(B) = (n + 1) + (c - n)
          /\ \A i \in 1 .. n + 1 : B[i] = A[i]
          /\ \A i \in 1 .. c - n : B[n + 1 + i] = last[i]
      <4>1. A \in Seq(S) /\ last \in Seq(S)
        BY <1>9, <2>1
      <4>2. B \in Seq(S) /\ Joins(B, A, last)
        BY <4>1, JoinedAt, Zenon
      <4> HIDE DEF B
      <4>3. QED
        BY <1>12, <2>1, <4>2 DEF Joins
    <3> HIDE DEF B
    <3>2. QED
      BY <1>2, <1>3, <3>1
  <2> HIDE DEF B
  <2>3. /\ Len(H) = c + 1 + r
        /\ \A i \in 1 .. c + 1 : H[i] = B[i]
        /\ \A j \in 1 .. r : H[c + 1 + j] = rates[j]
    <3>1. H = B \o rates
      BY <1>5 DEF A, B
    <3>2. Joins(H, B, rates)
      <4>1. B \in Seq(S) /\ rates \in Seq(S)
        BY <1>11, <2>2
      <4>2. Joins(B \o rates, B, rates)
        BY <4>1, JoinedAt, Zenon
      <4>3. QED
        BY <3>1, <4>2
    <3>3. QED
      BY <2>2, <3>2 DEF r, Joins
  <2>4. H[1] = main[1]
    BY <1>2, <1>3, <1>12, <2>1, <2>2, <2>3
  <2>5. ASSUME NEW i \in 1 .. n PROVE H[i + 1] = each[i]
    <3>1. i + 1 \in 1 .. n + 1 /\ i + 1 \in 1 .. c + 1
      BY <1>2, <1>3, <1>12
    <3>2. QED
      BY <2>1, <2>2, <2>3, <3>1
  <2>6. c = n + 1 => H[n + 2] = last[1]
    BY <1>2, <2>2, <2>3
  <2>7. Len(H) = 1 + c + r
    BY <1>3, <1>13, <2>3
  <2>8. QED
    BY <2>3, <2>4, <2>5, <2>6, <2>7
<1> DEFINE l == Len(H)
<1>23. c \in Nat /\ r \in Nat /\ l = 1 + c + r
  BY <1>3, <1>13, <1>14
<1> HIDE DEF l
<1>24. /\ \A k \in c + 2 .. l : k - (c + 1) \in 1 .. r /\ c + 1 + (k - (c + 1)) = k
      /\ \A j \in 1 .. r : c + 1 + j \in c + 2 .. l
  BY <1>23
<1>15. ASSUME NEW i \in 1 .. n PROVE SaysStream(each[i], o, i)
  <2>1. /\ BaseOf(bases, o.streams[i]) \in DOMAIN bases
        /\ bases[BaseOf(bases, o.streams[i])] = o.streams[i].base
    BY <1>4, BaseFound
  <2>2. each[i] = StreamUnit(bases, o.streams, i) /\ i \in DOMAIN o.streams
    BY <1>2, <1>8
  <2>3. QED
    BY <2>1, <2>2 DEF SaysStream, StreamUnit, bases
<1>16. c = n + 1 => SaysStream(last[1], o, n + 1)
  <2> SUFFICES ASSUME c = n + 1 PROVE SaysStream(last[1], o, n + 1)
    OBVIOUS
  <2>1. /\ BaseOf(bases, o.streams[1]) \in DOMAIN bases
        /\ bases[BaseOf(bases, o.streams[1])] = o.streams[1].base
    BY <1>2, <1>4, BaseFound
  <2>2. last[1] = AnnotationUnit(bases, o.streams) /\ n + 1 \notin DOMAIN o.streams
    BY <1>1, <1>2, <1>3, <1>9
  <2>3. LET x == AnnotationUnit(bases, o.streams)
        IN  /\ x.kind = "stream" /\ x.ok /\ x.stream = n + 1
            /\ x.base = BaseOf(bases, o.streams[1]) /\ x.body = FieldsLen
    <3> DEFINE u == StreamUnit(bases, o.streams, 1)
    <3>1. /\ DOMAIN u = {"kind", "head", "body", "ok", "stream", "base", "span", "delay"}
          /\ u.kind = "stream" /\ u.ok /\ u.base = BaseOf(bases, o.streams[1])
          /\ AnnotationUnit(bases, o.streams) = [u EXCEPT !.body = FieldsLen, !.stream = n + 1, !.delay = 0]
      BY DEF AnnotationUnit, StreamUnit, n
    <3> HIDE DEF u
    <3>2. QED
      BY <3>1
  <2>4. QED
    BY <2>1, <2>2, <2>3 DEF SaysStream, bases
<1>17. ASSUME NEW i \in 1 .. c PROVE SaysStream(H[i + 1], o, i)
  <2>1. i \in 1 .. n \/ (i = n + 1 /\ c = n + 1)
    BY <1>2, <1>3
  <2>2. QED
    BY <1>2, <1>14, <1>15, <1>16, <2>1
<1>18. ASSUME NEW k \in c + 2 .. Len(H)
       PROVE  \E i \in DOMAIN o.streams : H[k] = RateUnit(i, o.streams[i].rate)
  <2>1. k - (c + 1) \in 1 .. r /\ c + 1 + (k - (c + 1)) = k
    BY <1>24 DEF l
  <2>2. H[k] = rates[k - (c + 1)] /\ rates[k - (c + 1)] \in R
    <3> HIDE DEF R
    <3>1. H[k] = rates[k - (c + 1)]
      BY <1>14, <2>1
    <3>2. rates[k - (c + 1)] \in R
      BY <1>10, <1>13, <2>1
    <3>3. QED
      BY <3>1, <3>2
  <2>3. QED
    BY <2>2
<1>19. ASSUME NEW i \in DOMAIN o.streams, o.streams[i].rate # 0
       PROVE  \E k \in c + 2 .. Len(H) : H[k] = RateUnit(i, o.streams[i].rate)
  <2>1. PICK j \in 1 .. r : rates[j] = RateUnit(i, o.streams[i].rate)
    BY <1>10, <1>13, <1>19
  <2>2. c + 1 + j \in c + 2 .. Len(H)
    BY <1>24 DEF l
  <2>3. QED
    BY <1>14, <2>1, <2>2
<1>20. H[1] = MainUnit(bases, c) /\ Len(H) \in Nat /\ c + 1 <= Len(H)
  BY <1>3, <1>7, <1>13, <1>14
<1>21. HeadersAre(H, o)
  BY <1>6, <1>17, <1>18, <1>19, <1>20 DEF HeadersAre, c, bases
<1>22. QED
  BY <1>1, <1>3, <1>21 DEF H, c

-----------------------------------------------------------------------------
(* Where those headers are on the wire: in their order, each behind the    *)
(* one before it.                                                          *)
PlacedAt(w, units, m, at) ==
  /\ at \in [1 .. m -> Nat]
  /\ DOMAIN w.unit = {at[i] : i \in 1 .. m}
  /\ \A i \in 1 .. m : w.unit[at[i]] = units[i]
  /\ \A i, j \in 1 .. m : i < j => at[i] < at[j]
  /\ m = 0 => w.end = FileIdLen
  /\ m > 0 => at[1] = FileIdLen

Placed(w, units, m) == \E at : PlacedAt(w, units, m, at)

LEMMA PlacedNext ==
  ASSUME NEW w \in MuxWires, NEW units, NEW m \in Nat, Placed(w, units, m),
         NEW u \in Units, u = units[m + 1]
  PROVE  Placed(Laid(w, u), units, m + 1)
<1> DEFINE v == Laid(w, u)
<1>1. PICK at : PlacedAt(w, units, m, at)
  BY DEF Placed
<1> DEFINE to == [i \in 1 .. m + 1 |-> IF i = m + 1 THEN w.end ELSE at[i]]
<1>2. /\ DOMAIN v.unit = DOMAIN w.unit \cup {w.end}
      /\ v.unit[w.end] = u
      /\ \A p \in DOMAIN w.unit : v.unit[p] = w.unit[p]
  BY LaidWire
<1>3. w.end \in Nat /\ \A p \in DOMAIN w.unit : p \in Nat /\ p < w.end
  BY MuxWireParts
<1>4. FileIdLen \in Nat
  BY MuxerAssumption
<1> HIDE DEF v
<1>5. /\ at \in [1 .. m -> Nat]
      /\ DOMAIN w.unit = {at[i] : i \in 1 .. m}
      /\ \A i \in 1 .. m : w.unit[at[i]] = units[i]
      /\ \A i, j \in 1 .. m : i < j => at[i] < at[j]
      /\ m = 0 => w.end = FileIdLen
      /\ m > 0 => at[1] = FileIdLen
  BY <1>1 DEF PlacedAt
<1>6. /\ to \in [1 .. m + 1 -> Nat]
      /\ to[m + 1] = w.end
      /\ \A i \in 1 .. m : to[i] = at[i]
  BY <1>3, <1>5
<1> HIDE DEF to
<1>7. \A i \in 1 .. m + 1 : i = m + 1 \/ i \in 1 .. m
  OBVIOUS
<1>8. DOMAIN v.unit = {to[i] : i \in 1 .. m + 1}
  BY <1>2, <1>5, <1>6, <1>7
<1>9. \A i \in 1 .. m + 1 : v.unit[to[i]] = units[i]
  <2>1. \A i \in 1 .. m : at[i] \in DOMAIN w.unit
    BY <1>5
  <2>2. QED
    BY <1>2, <1>5, <1>6, <1>7, <2>1
<1>10. ASSUME NEW i \in 1 .. m + 1, NEW j \in 1 .. m + 1, i < j PROVE to[i] < to[j]
  <2>1. i \in 1 .. m /\ to[i] = at[i] /\ at[i] \in DOMAIN w.unit
    BY <1>5, <1>6, <1>10
  <2>2. CASE j \in 1 .. m
    BY <1>5, <1>6, <1>10, <2>1, <2>2
  <2>3. CASE j = m + 1
    BY <1>3, <1>6, <2>1, <2>3
  <2>4. QED
    BY <1>7, <2>2, <2>3
<1>11. to[1] = FileIdLen
  <2>1. CASE m = 0
    BY <1>5, <1>6, <2>1
  <2>2. CASE m > 0
    BY <1>5, <1>6, <2>2
  <2>3. QED
    BY <2>1, <2>2
<1>12. PlacedAt(v, units, m + 1, to)
  BY <1>6, <1>8, <1>9, <1>10, <1>11 DEF PlacedAt
<1>13. QED
  BY <1>12 DEF Placed, v

LEMMA LaidPlaced ==
  ASSUME NEW units \in Seq(Units)
  PROVE  LaidAll(OpenWire, units) \in MuxWires
         /\ Placed(LaidAll(OpenWire, units), units, Len(units))
<1> DEFINE n == Len(units)
           w == OpenWire
           S == MuxWires
           Defines(g) == g = [i \in 0 .. n |-> IF i = 0 THEN w ELSE Laid(g[i - 1], units[i])]
           after == CHOOSE g : Defines(g)
           step  == [x \in S \X (1 .. n) |-> Laid(x[1], units[x[2]])]
<1>1. n \in Nat /\ \A i \in 1 .. n : units[i] \in Units
  OBVIOUS
<1>2. \A v \in S, i \in 1 .. n : Laid(v, units[i]) \in S
  BY <1>1, LaidWire
<1>3. step \in [S \X (1 .. n) -> S]
  BY <1>2
<1>4. LaidAll(w, units) = after[n]
  BY DEF LaidAll
<1>5. /\ w \in MuxWires /\ w.end = FileIdLen /\ DOMAIN w.unit = {}
  <2>1. OpenWire \in MuxWires
    BY OpenWireIsOne DEF HeaderWires
  <2>2. QED
    BY <2>1 DEF OpenWire
<1> HIDE DEF n, S, w
<1>6. PICK g \in [0 .. n -> S] :
        g[0] = w /\ \A i \in 1 .. n : g[i] = step[<<g[i - 1], i>>]
  <2>1. Folds(S, w, step, n) # {}
    <3> HIDE DEF step
    <3>1. w \in S
      BY <1>5 DEF S
    <3>2. QED
      BY <1>1, <1>3, <3>1, FoldExists
  <2>2. QED
    BY <2>1 DEF Folds
<1>7. Defines(g)
  <2>1. ASSUME NEW i \in 1 .. n PROVE g[i] = Laid(g[i - 1], units[i])
    <3>1. i - 1 \in 0 .. n
      BY <1>1
    <3>2. g[i - 1] \in S
      BY <1>6, <3>1
    <3>3. step[<<g[i - 1], i>>] = Laid(g[i - 1], units[i])
      BY <3>2
    <3>4. QED
      BY <1>6, <3>3
  <2>2. QED
    BY <1>1, <1>6, <2>1
<1>8. Defines(after)
  BY <1>7
<1> HIDE DEF after
<1>9. after[0] = w /\ \A i \in 1 .. n : after[i] = Laid(after[i - 1], units[i])
  BY <1>1, <1>8
<1> DEFINE T == {m \in Nat : m <= n => after[m] \in MuxWires /\ Placed(after[m], units, m)}
<1>10. 0 \in T
  <2> DEFINE at == [i \in 1 .. 0 |-> 0]
  <2>1. /\ at \in [1 .. 0 -> Nat] /\ {at[i] : i \in 1 .. 0} = {} /\ \A i \in 1 .. 0 : FALSE
    OBVIOUS
  <2> HIDE DEF at
  <2>2. PlacedAt(w, units, 0, at)
    BY <1>5, <2>1 DEF PlacedAt
  <2>3. QED
    BY <1>5, <1>9, <2>2 DEF Placed
<1>11. ASSUME NEW m \in Nat, m \in T PROVE m + 1 \in T
  <2> SUFFICES ASSUME m + 1 <= n
               PROVE  after[m + 1] \in MuxWires /\ Placed(after[m + 1], units, m + 1)
    OBVIOUS
  <2>1. m + 1 \in 1 .. n /\ (m + 1) - 1 = m /\ m <= n
    BY <1>1
  <2>2. after[m] \in MuxWires /\ Placed(after[m], units, m)
    BY <1>11, <2>1
  <2>3. after[m + 1] = Laid(after[m], units[m + 1]) /\ units[m + 1] \in Units
    BY <1>1, <1>9, <2>1
  <2>4. QED
    BY <2>2, <2>3, LaidWire, PlacedNext
<1> HIDE DEF T
<1>12. Nat \subseteq T
  BY <1>10, <1>11, Induction
<1>13. after[n] \in MuxWires /\ Placed(after[n], units, n)
  BY <1>1, <1>12 DEF T
<1>14. QED
  BY <1>4, <1>13 DEF n, w

(* As much of them as is not too wide.                                     *)
LEMMA BeforeTooWideIs ==
  ASSUME NEW S, NEW units \in Seq(S)
  PROVE  LET some == BeforeTooWide(units)
         IN  /\ some \in Seq(S)
             /\ Len(some) \in Nat /\ Len(some) <= Len(units)
             /\ \A i \in 1 .. Len(some) : some[i] = units[i]
<1>1. CASE TooWide(units) = {}
  <2>1. BeforeTooWide(units) = units
    BY <1>1 DEF BeforeTooWide
  <2>2. QED
    BY <2>1
<1>2. CASE TooWide(units) # {}
  <2>1. TooWide(units) \subseteq 1 .. Len(units) /\ Len(units) \in Nat
    BY DEF TooWide
  <2>2. \E i \in TooWide(units) : \A j \in TooWide(units) : i <= j
    <3>1. TooWide(units) \subseteq Nat
      BY <2>1
    <3>2. QED
      BY <1>2, <3>1, LeastOf
  <2>3. FirstTooWide(units) \in 1 .. Len(units)
    BY <2>1, <2>2 DEF FirstTooWide
  <2> DEFINE k == FirstTooWide(units) - 1
  <2>4. k \in Nat /\ k <= Len(units)
    BY <2>1, <2>3
  <2> HIDE DEF k
  <2>5. /\ SubSeq(units, 1, k) \in Seq(S) /\ Len(SubSeq(units, 1, k)) = k
        /\ \A i \in 1 .. k : SubSeq(units, 1, k)[i] = units[i]
    BY <2>1, <2>4
  <2>6. BeforeTooWide(units) = SubSeq(units, 1, k)
    BY <1>2 DEF BeforeTooWide, k
  <2>7. QED
    BY <2>4, <2>5, <2>6
<1>3. QED
  BY <1>1, <1>2

(* Where one unit ends and the wire does not, the next is.                 *)
Joined(w) ==
  /\ FileIdLen < w.end => FileIdLen \in DOMAIN w.unit
  /\ \A p \in DOMAIN w.unit :
       p + WidthOf(w.unit[p]) < w.end => p + WidthOf(w.unit[p]) \in DOMAIN w.unit

LEMMA CutJoined ==
  ASSUME NEW w \in MuxWires, EndToEnd(w), NEW end \in Nat, end <= w.end
  PROVE  Joined(CutAt(w, end))
<1> DEFINE v == CutAt(w, end)
<1>1. /\ v.end = end
      /\ DOMAIN v.unit = {p \in DOMAIN w.unit : p < end}
      /\ \A p \in DOMAIN v.unit : v.unit[p] = w.unit[p]
  BY CutWire
<1> HIDE DEF v
<1>2. w.end \in Nat /\ FileIdLen \in Nat
  BY MuxWireParts, MuxerAssumption
<1>3. FileIdLen \in DOMAIN w.unit \cup {w.end}
  BY DEF EndToEnd
<1>4. \A p \in DOMAIN w.unit : p + WidthOf(w.unit[p]) \in DOMAIN w.unit \cup {w.end}
  BY DEF EndToEnd, EndsOf
<1>5. FileIdLen < v.end => FileIdLen \in DOMAIN v.unit
  BY <1>1, <1>2, <1>3
<1>6. ASSUME NEW p \in DOMAIN v.unit, p + WidthOf(v.unit[p]) < v.end
      PROVE  p + WidthOf(v.unit[p]) \in DOMAIN v.unit
  <2>1. p \in DOMAIN w.unit /\ v.unit[p] = w.unit[p] /\ p + WidthOf(w.unit[p]) < end
    BY <1>1, <1>6
  <2>2. p + WidthOf(w.unit[p]) # w.end
    BY <1>2, <2>1
  <2>3. QED
    BY <1>1, <1>4, <2>1, <2>2
<1>7. QED
  BY <1>5, <1>6 DEF Joined, v

-----------------------------------------------------------------------------
(* What the wire says of the streams: the main header first, of all of     *)
(* them; then each one's header, then the frame rates; nothing else before *)
(* the frames and the syncpoints they were due.                            *)

Count == Len(streams) + Len(annotations)

Rank(kind) == CASE kind = "main" -> 1 [] kind = "stream" -> 2 [] kind = "info" -> 3 [] OTHER -> 4

MainSaid(w, p) == p = FileIdLen /\ w.unit[p] = MainUnit(timeBases, Count)

StreamSaid(w, p) ==
  LET u == w.unit[p]
  IN  /\ u.ok
      /\ u.stream \in 1 .. Count
      /\ u.base \in DOMAIN timeBases
      /\ timeBases[u.base] = streams[Media(u.stream)].base
      /\ u.body = IF u.stream \in DOMAIN streams THEN streams[u.stream].header ELSE FieldsLen

InfoSaid(w, p) ==
  LET u == w.unit[p]
  IN  /\ u.ok /\ u.body = FieldsLen /\ u.readable
      /\ u.about \in DOMAIN streams
      /\ u.rate = streams[u.about].rate
      /\ \E q \in StartsOf(w, "stream") : q < p /\ w.unit[q].stream = u.about

SyncSaid(w, p) == w.unit[p].ok /\ w.unit[p].body = FieldsLen

Said(w) ==
  \A p \in DOMAIN w.unit :
    /\ w.unit[p].kind = "main" => MainSaid(w, p)
    /\ w.unit[p].kind # "main" => p # FileIdLen
    /\ w.unit[p].kind = "stream" => StreamSaid(w, p)
    /\ w.unit[p].kind = "info" => InfoSaid(w, p)
    /\ w.unit[p].kind = "syncpoint" => SyncSaid(w, p)

InTurn(w) ==
  \A p, q \in DOMAIN w.unit : p < q => Rank(w.unit[p].kind) <= Rank(w.unit[q].kind)

AllSaid(w) ==
  /\ \A i \in 1 .. Count : \E p \in StartsOf(w, "stream") : w.unit[p].stream = i
  /\ \A i \in DOMAIN streams :
       streams[i].rate # 0 => \E p \in StartsOf(w, "info") : w.unit[p].about = i

(* A syncpoint that is all there is marked.                                *)
AllMarked(w, ms) ==
  \A p \in StartsOf(w, "syncpoint") :
    p + WidthOf(w.unit[p]) <= w.end => \E i \in DOMAIN ms : ms[i].at = p

HInv ==
  /\ annotations \in {<<>>, <<Len(streams) + 1>>}
  /\ DOMAIN wire.unit # {} => streams # <<>>
  /\ \A i \in DOMAIN streams : ChecksumLen <= streams[i].header
  /\ Said(wire) /\ InTurn(wire) /\ Joined(wire) /\ AllMarked(wire, marks)
  /\ opened = "yes" => AllSaid(wire)
  /\ \A i \in DOMAIN written : written[i].stream \in 1 .. Count /\ written[i].pts <= MaxTick

-----------------------------------------------------------------------------
(* The headers, or as much of them as was written before it failed.        *)

(* What HeaderUnits are, in the order they are in.                         *)
LEMMA HeaderOrder ==
  ASSUME NEW o \in Openings, NEW units, HeadersAre(units, o), HeaderCount(o) \in Nat
  PROVE  LET c == HeaderCount(o)
         IN  /\ units[1] = MainUnit(TimeBasesOf(o.streams), c) /\ units[1].kind = "main"
             /\ \A i \in 2 .. c + 1 : SaysStream(units[i], o, i - 1) /\ units[i].kind = "stream"
             /\ \A i \in c + 2 .. Len(units) :
                  /\ units[i].kind = "info"
                  /\ \E j \in DOMAIN o.streams : units[i] = RateUnit(j, o.streams[j].rate)
<1> DEFINE c == HeaderCount(o)
           n == Len(units)
<1>1. /\ n \in Nat /\ c + 1 <= n
      /\ units[1] = MainUnit(TimeBasesOf(o.streams), c)
      /\ \A i \in 1 .. c : SaysStream(units[i + 1], o, i)
      /\ \A k \in c + 2 .. n : \E i \in DOMAIN o.streams : units[k] = RateUnit(i, o.streams[i].rate)
  BY DEF HeadersAre
<1>2. units[1].kind = "main"
  BY <1>1 DEF MainUnit
<1>3. c \in Nat
  OBVIOUS
<1> HIDE DEF c, n
<1>4. ASSUME NEW i \in 2 .. c + 1 PROVE SaysStream(units[i], o, i - 1) /\ units[i].kind = "stream"
  <2>1. i - 1 \in 1 .. c /\ (i - 1) + 1 = i
    BY <1>3
  <2>2. SaysStream(units[i], o, i - 1)
    <3>1. SaysStream(units[(i - 1) + 1], o, i - 1)
      BY <1>1, <2>1
    <3>2. QED
      BY <2>1, <3>1
  <2>3. QED
    BY <2>2 DEF SaysStream
<1>5. ASSUME NEW i \in c + 2 .. n
      PROVE  /\ units[i].kind = "info"
             /\ \E j \in DOMAIN o.streams : units[i] = RateUnit(j, o.streams[j].rate)
  <2>1. PICK j \in DOMAIN o.streams : units[i] = RateUnit(j, o.streams[j].rate)
    BY <1>1
  <2>2. units[i].kind = "info"
    BY <2>1 DEF RateUnit
  <2>3. QED
    BY <2>1, <2>2
<1>6. QED
  BY <1>1, <1>2, <1>4, <1>5 DEF c, n

LEMMA OpenedSays ==
  ASSUME MInv, WInv, NEW o \in Openings, Open(o)
  PROVE  HInv'
<1> DEFINE H == HeaderUnits(o)
           U == BeforeTooWide(H)
           whole == LaidAll(OpenWire, U)
           c == HeaderCount(o)
           k == Len(U)
           v == wire'
<1>1. /\ opened = "no"
      /\ ~Unopenable(o)
      /\ streams' = o.streams
      /\ timeBases' = TimeBasesOf(o.streams)
      /\ annotations' = IF o.annotated THEN <<Len(o.streams) + 1>> ELSE <<>>
      /\ UNCHANGED <<marks, written>>
  BY DEF Open
<1>2. /\ HeadersAre(H, o) /\ o.streams \in Seq(Described) /\ o.streams # <<>> /\ c \in Nat
  BY <1>1, HeaderUnitsSay
<1>3. Count' = c /\ annotations' \in {<<>>, <<Len(o.streams) + 1>>}
  BY <1>1 DEF Count, HeaderCount
<1>4. H \in Seq(HeaderUnitsOf(o.streams)) /\ HeaderUnitsOf(o.streams) \subseteq Units
  BY <1>1, HeaderUnitsType DEF HeaderUnitsOf
<1>5. /\ U \in Seq(HeaderUnitsOf(o.streams)) /\ k \in Nat /\ k <= Len(H)
      /\ \A i \in 1 .. k : U[i] = H[i]
  BY <1>4, BeforeTooWideIs
<1>6. PICK end \in Ends(whole) :
        /\ wire' = CutAt(whole, end)
        /\ opened' = "yes" => TooWide(H) = {} /\ end = whole.end
  BY DEF Open
<1>7. whole \in HeaderWires(o.streams)
  BY <1>5, OpenWireIsOne, LaidHeaders
<1>8. whole \in MuxWires /\ EndToEnd(whole)
  BY <1>7 DEF HeaderWires
<1>9. Placed(whole, U, k)
  <2>1. U \in Seq(Units)
    <3> HIDE DEF U
    <3>1. QED
      BY <1>4, <1>5
  <2>2. QED
    BY <2>1, LaidPlaced
<1> HIDE DEF H, U, whole, c, k
<1>10. whole.end \in Nat /\ end \in Nat /\ end <= whole.end
  <2>1. whole.end \in Nat /\ wire.end \in Nat /\ \A n \in Tears : n \in Nat
    BY <1>8, MuxWireParts, MuxerAssumption DEF MInv, WellLaid
  <2>2. QED
    BY <2>1 DEF Ends
<1>11. /\ v.end = end
       /\ DOMAIN v.unit = {p \in DOMAIN whole.unit : p < end}
       /\ \A p \in DOMAIN v.unit : v.unit[p] = whole.unit[p]
       /\ Joined(v)
  BY <1>6, <1>8, <1>10, CutWire, CutJoined
<1>12. PICK at : PlacedAt(whole, U, k, at)
  BY <1>9 DEF Placed
<1>13. /\ at \in [1 .. k -> Nat]
       /\ DOMAIN whole.unit = {at[i] : i \in 1 .. k}
       /\ \A i \in 1 .. k : whole.unit[at[i]] = U[i]
       /\ \A i, j \in 1 .. k : i < j => at[i] < at[j]
       /\ k > 0 => at[1] = FileIdLen
  BY <1>12 DEF PlacedAt
<1> HIDE DEF v
(* Each unit is a header, and those before a unit are there before it.     *)
<1>14. \A p \in DOMAIN v.unit : \E i \in 1 .. k : p = at[i] /\ v.unit[p] = H[i]
  BY <1>5, <1>11, <1>13
<1>15. ASSUME NEW i \in 1 .. k, NEW j \in 1 .. i, at[i] \in DOMAIN v.unit
       PROVE  at[j] \in DOMAIN v.unit /\ v.unit[at[j]] = H[j]
  <2>1. j \in 1 .. k /\ at[j] \in DOMAIN whole.unit /\ whole.unit[at[j]] = H[j]
    BY <1>5, <1>13
  <2>2. at[j] \in Nat /\ at[i] \in Nat /\ (j = i \/ at[j] < at[i])
    BY <1>13, <2>1
  <2>3. at[i] < end
    BY <1>11, <1>15
  <2>4. at[j] < end
    BY <1>10, <2>2, <2>3
  <2>5. QED
    BY <1>11, <2>1, <2>4
<1>16. /\ H[1] = MainUnit(TimeBasesOf(o.streams), c) /\ H[1].kind = "main"
       /\ \A i \in 2 .. c + 1 : SaysStream(H[i], o, i - 1) /\ H[i].kind = "stream"
       /\ \A i \in c + 2 .. Len(H) :
            /\ H[i].kind = "info"
            /\ \E j \in DOMAIN o.streams : H[i] = RateUnit(j, o.streams[j].rate)
  BY <1>2, HeaderOrder DEF c
<1>17. \A i \in 1 .. k : i = 1 \/ i \in 2 .. c + 1 \/ i \in c + 2 .. Len(H)
  <2>1. Len(H) \in Nat
    BY <1>4
  <2>2. QED
    BY <1>2, <1>5, <2>1
<1>18. DOMAIN o.streams = 1 .. Len(o.streams) /\ Len(o.streams) \in Nat /\ Len(o.streams) <= c
  <2> DEFINE n == Len(o.streams)
             extra == IF o.annotated THEN 1 ELSE 0
  <2>1. c = n + extra
    BY DEF c, HeaderCount
  <2>2. DOMAIN o.streams = 1 .. n /\ n \in Nat /\ extra \in {0, 1}
    BY <1>2
  <2> HIDE DEF n, extra
  <2>3. DOMAIN o.streams = 1 .. n /\ n \in Nat /\ n <= c
    BY <2>1, <2>2
  <2>4. QED
    BY <2>3 DEF n
<1>19. Said(wire)'
  <2> SUFFICES ASSUME NEW p \in DOMAIN v.unit
               PROVE  /\ v.unit[p].kind = "main" => MainSaid(wire, p)'
                      /\ v.unit[p].kind # "main" => p # FileIdLen
                      /\ v.unit[p].kind = "stream" => StreamSaid(wire, p)'
                      /\ v.unit[p].kind = "info" => InfoSaid(wire, p)'
                      /\ v.unit[p].kind = "syncpoint" => SyncSaid(wire, p)'
    BY DEF Said, v
  <2>1. PICK i \in 1 .. k : p = at[i] /\ v.unit[p] = H[i]
    BY <1>14
  <2>2. CASE i = 1
    <3>1. k > 0
      BY <1>5
    <3>3. p = FileIdLen
      BY <1>13, <2>1, <2>2, <3>1
    <3>4. v.unit[p] = MainUnit(timeBases', Count') /\ v.unit[p].kind = "main"
      BY <1>1, <1>3, <1>16, <2>1, <2>2
    <3>2. QED
      BY <3>3, <3>4 DEF MainSaid, v
  <2>3. ASSUME i # 1 PROVE p # FileIdLen
    <3>1. 1 \in 1 .. k /\ 1 < i /\ k > 0
      BY <1>5, <2>3
    <3>2. at[1] < at[i] /\ at[1] = FileIdLen /\ at[1] \in Nat
      BY <1>13, <3>1
    <3>3. QED
      BY <2>1, <3>2
  <2>4. CASE i \in 2 .. c + 1
    <3>1. SaysStream(v.unit[p], o, i - 1) /\ v.unit[p].kind = "stream"
      BY <1>16, <2>1, <2>4
    <3>2. i - 1 \in 1 .. c
      BY <1>2, <2>4
    <3>3. StreamSaid(wire, p)'
      BY <1>1, <1>3, <3>1, <3>2 DEF SaysStream, StreamSaid, Media, v
    <3>4. i # 1
      BY <2>4
    <3>5. QED
      BY <2>3, <3>1, <3>3, <3>4
  <2>5. CASE i \in c + 2 .. Len(H)
    <3>1. PICK j \in DOMAIN o.streams : v.unit[p] = RateUnit(j, o.streams[j].rate)
      BY <1>16, <2>1, <2>5
    <3>2. j + 1 \in 1 .. i /\ j + 1 < i /\ j + 1 \in 2 .. c + 1 /\ (j + 1) - 1 = j /\ i # 1
      BY <1>2, <1>18, <2>5
    <3> DEFINE q == at[j + 1]
    <3>3. q \in DOMAIN v.unit /\ v.unit[q] = H[j + 1]
      BY <1>15, <2>1, <3>2
    <3>4. SaysStream(H[j + 1], o, j) /\ H[j + 1].kind = "stream"
      BY <1>16, <3>2
    <3>5. q < p
      <4>1. j + 1 \in 1 .. k
        BY <1>5, <3>2
      <4>2. QED
        BY <1>13, <2>1, <3>2, <4>1
    <3> HIDE DEF q
    <3>6. q \in StartsOf(v, "stream") /\ v.unit[q].stream = j
      BY <3>3, <3>4 DEF StartsOf, SaysStream
    <3>7. InfoSaid(wire, p)' /\ v.unit[p].kind = "info"
      BY <1>1, <3>1, <3>5, <3>6 DEF InfoSaid, RateUnit, v
    <3>8. QED
      BY <2>3, <3>2, <3>7
  <2>6. QED
    BY <1>17, <2>2, <2>4, <2>5
<1>20. InTurn(v)
  <2> SUFFICES ASSUME NEW p \in DOMAIN v.unit, NEW q \in DOMAIN v.unit, p < q
               PROVE  Rank(v.unit[p].kind) <= Rank(v.unit[q].kind)
    BY DEF InTurn
  <2>1. PICK i \in 1 .. k : p = at[i] /\ v.unit[p] = H[i]
    BY <1>14
  <2>2. PICK j \in 1 .. k : q = at[j] /\ v.unit[q] = H[j]
    BY <1>14
  <2>3. i < j
    <3>1. j < i => at[j] < at[i]
      BY <1>13
    <3>2. at[i] \in Nat /\ at[j] \in Nat /\ at[i] < at[j]
      BY <1>13, <2>1, <2>2
    <3>3. i # j
      BY <3>2
    <3>4. QED
      BY <1>5, <3>1, <3>2, <3>3
  <2> DEFINE R(m) == Rank(H[m].kind)
  <2>4. /\ R(1) = 1
        /\ \A m \in 2 .. c + 1 : R(m) = 2
        /\ \A m \in c + 2 .. Len(H) : R(m) = 3
    BY <1>16 DEF Rank
  <2>5. i = 1 \/ i \in 2 .. c + 1 \/ i \in c + 2 .. Len(H)
    BY <1>17
  <2>6. j = 1 \/ j \in 2 .. c + 1 \/ j \in c + 2 .. Len(H)
    BY <1>17
  <2> HIDE DEF R
  <2>7. R(i) <= R(j)
    BY <1>2, <2>3, <2>4, <2>5, <2>6
  <2>8. QED
    BY <2>1, <2>2, <2>7 DEF R
<1>21. AllMarked(wire, marks)'
  <2>1. StartsOf(v, "syncpoint") = {}
    <3>1. \A i \in 1 .. k : H[i].kind # "syncpoint"
      BY <1>16, <1>17
    <3>2. QED
      BY <1>14, <3>1 DEF StartsOf
  <2>2. QED
    BY <2>1 DEF AllMarked, v
<1>22. ASSUME opened' = "yes" PROVE AllSaid(wire)'
  <2>1. U = H /\ end = whole.end
    BY <1>6, <1>22 DEF U, BeforeTooWide
  <2>2. k = Len(H) /\ c + 1 <= k
    BY <1>2, <2>1 DEF k, HeadersAre, c
  <2>3. \A i \in 1 .. k : at[i] \in DOMAIN v.unit /\ v.unit[at[i]] = H[i]
    <3>1. \A i \in 1 .. k : at[i] \in DOMAIN whole.unit
      BY <1>13
    <3>2. \A i \in 1 .. k : at[i] < end
      BY <1>8, <2>1, <3>1, MuxWireParts
    <3>3. QED
      BY <1>11, <1>13, <2>1, <3>1, <3>2
  <2>4. ASSUME NEW i \in 1 .. c PROVE \E p \in StartsOf(v, "stream") : v.unit[p].stream = i
    <3>1. i + 1 \in 1 .. k /\ i + 1 \in 2 .. c + 1 /\ (i + 1) - 1 = i
      BY <1>2, <1>5, <2>2
    <3>2. SaysStream(H[i + 1], o, i) /\ H[i + 1].kind = "stream"
      BY <1>16, <3>1
    <3>3. at[i + 1] \in StartsOf(v, "stream") /\ v.unit[at[i + 1]].stream = i
      BY <2>3, <3>1, <3>2 DEF StartsOf, SaysStream
    <3>4. QED
      BY <3>3
  <2>5. ASSUME NEW i \in DOMAIN o.streams, o.streams[i].rate # 0
        PROVE  \E p \in StartsOf(v, "info") : v.unit[p].about = i
    <3>1. PICK j \in c + 2 .. Len(H) : H[j] = RateUnit(i, o.streams[i].rate)
      BY <1>2, <2>5 DEF HeadersAre, c
    <3>2. j \in 1 .. k
      BY <1>2, <1>5, <2>2
    <3>3. at[j] \in StartsOf(v, "info") /\ v.unit[at[j]].about = i
      BY <2>3, <3>1, <3>2 DEF StartsOf, RateUnit
    <3>4. QED
      BY <3>3
  <2>6. QED
    BY <1>1, <1>3, <2>4, <2>5 DEF AllSaid, v
<1>23. \A i \in DOMAIN streams' : ChecksumLen <= streams'[i].header
  BY <1>1, BodiesAssumption
<1>24. DOMAIN written' = {}
  BY <1>1 DEF WInv
<1>25. QED
  BY <1>1, <1>2, <1>3, <1>11, <1>19, <1>20, <1>21, <1>22, <1>23, <1>24 DEF HInv, v

-----------------------------------------------------------------------------
(* What is written once they are: frames, and the syncpoints they are due. *)

Longer(w, v) ==
  /\ DOMAIN w.unit \subseteq DOMAIN v.unit
  /\ \A p \in DOMAIN w.unit : v.unit[p] = w.unit[p]
  /\ \A p \in DOMAIN v.unit :
       \/ p \in DOMAIN w.unit
       \/ /\ w.end <= p
          /\ v.unit[p].kind \in {"syncpoint", "frame"}
          /\ v.unit[p].kind = "syncpoint" => SyncSaid(v, p)

LEMMA LongerByOne ==
  ASSUME NEW w \in MuxWires, NEW u, u.kind \in {"syncpoint", "frame"},
         u.kind = "syncpoint" => u.ok /\ u.body = FieldsLen, NEW v,
         DOMAIN v.unit = DOMAIN w.unit \cup {w.end},
         v.unit[w.end] = u,
         \A p \in DOMAIN w.unit : v.unit[p] = w.unit[p]
  PROVE  Longer(w, v) /\ w.end \in DOMAIN v.unit
<1>1. w.end <= w.end
  <2>1. w.end \in Nat
    BY MuxWireParts
  <2>2. QED
    BY <2>1
<1>2. QED
  BY <1>1 DEF Longer, SyncSaid

LEMMA LongerStill ==
  ASSUME NEW w \in MuxWires, NEW v \in MuxWires, NEW x \in MuxWires,
         Longer(w, v), Longer(v, x), w.end <= v.end
  PROVE  Longer(w, x)
<1>1. ASSUME NEW p \in DOMAIN x.unit
      PROVE  \/ p \in DOMAIN w.unit
             \/ /\ w.end <= p
                /\ x.unit[p].kind \in {"syncpoint", "frame"}
                /\ x.unit[p].kind = "syncpoint" => SyncSaid(x, p)
  <2>1. CASE p \in DOMAIN v.unit
    <3>1. x.unit[p] = v.unit[p]
      BY <2>1 DEF Longer
    <3>2. QED
      BY <2>1, <3>1 DEF Longer, SyncSaid
  <2>2. CASE p \notin DOMAIN v.unit
    <3>1. v.end <= p /\ x.unit[p].kind \in {"syncpoint", "frame"}
          /\ (x.unit[p].kind = "syncpoint" => SyncSaid(x, p))
      BY <2>2 DEF Longer
    <3>2. w.end \in Nat /\ v.end \in Nat /\ p \in Nat
      BY MuxWireParts
    <3>3. w.end <= p
      BY <3>1, <3>2
    <3>4. QED
      BY <3>1, <3>3
  <2>3. QED
    BY <2>1, <2>2
<1>2. QED
  BY <1>1 DEF Longer

LEMMA LongerSame ==
  ASSUME NEW w
  PROVE  Longer(w, w)
BY DEF Longer

LEMMA LongerSays ==
  ASSUME wire \in MuxWires, NEW v \in MuxWires, Longer(wire, v), FileIdLen < wire.end,
         Said(wire), InTurn(wire), AllSaid(wire)
  PROVE  Said(v) /\ InTurn(v) /\ AllSaid(v)
<1>1. /\ wire.end \in Nat /\ FileIdLen \in Nat
      /\ \A p \in DOMAIN wire.unit : p \in Nat /\ p < wire.end
      /\ \A p \in DOMAIN v.unit : p \in Nat
  BY MuxWireParts, MuxerAssumption
<1>2. /\ \A p \in DOMAIN wire.unit : p \in DOMAIN v.unit /\ v.unit[p] = wire.unit[p]
      /\ \A p \in DOMAIN v.unit :
           \/ p \in DOMAIN wire.unit
           \/ /\ wire.end <= p
              /\ v.unit[p].kind \in {"syncpoint", "frame"}
              /\ v.unit[p].kind = "syncpoint" => SyncSaid(v, p)
  BY DEF Longer
<1>3. \A kind : StartsOf(wire, kind) \subseteq StartsOf(v, kind)
  BY <1>2 DEF StartsOf
<1>4. Said(v)
  <2> SUFFICES ASSUME NEW p \in DOMAIN v.unit
               PROVE  /\ v.unit[p].kind = "main" => MainSaid(v, p)
                      /\ v.unit[p].kind # "main" => p # FileIdLen
                      /\ v.unit[p].kind = "stream" => StreamSaid(v, p)
                      /\ v.unit[p].kind = "info" => InfoSaid(v, p)
                      /\ v.unit[p].kind = "syncpoint" => SyncSaid(v, p)
    BY DEF Said
  <2>1. CASE p \in DOMAIN wire.unit
    <3>1. v.unit[p] = wire.unit[p]
      BY <1>2, <2>1
    <3>2. /\ wire.unit[p].kind = "main" => MainSaid(wire, p)
          /\ wire.unit[p].kind # "main" => p # FileIdLen
          /\ wire.unit[p].kind = "stream" => StreamSaid(wire, p)
          /\ wire.unit[p].kind = "info" => InfoSaid(wire, p)
          /\ wire.unit[p].kind = "syncpoint" => SyncSaid(wire, p)
      BY <2>1 DEF Said
    <3>3. InfoSaid(wire, p) => InfoSaid(v, p)
      <4> SUFFICES ASSUME InfoSaid(wire, p) PROVE InfoSaid(v, p)
        OBVIOUS
      <4>1. PICK q \in StartsOf(wire, "stream") : q < p /\ wire.unit[q].stream = wire.unit[p].about
        BY DEF InfoSaid
      <4>2. q \in StartsOf(v, "stream") /\ v.unit[q] = wire.unit[q]
        BY <1>2, <1>3 DEF StartsOf
      <4>3. QED
        BY <3>1, <4>1, <4>2 DEF InfoSaid
    <3>4. QED
      BY <3>1, <3>2, <3>3 DEF MainSaid, StreamSaid, SyncSaid
  <2>2. CASE p \notin DOMAIN wire.unit
    <3>1. /\ wire.end <= p /\ v.unit[p].kind \in {"syncpoint", "frame"}
          /\ v.unit[p].kind = "syncpoint" => SyncSaid(v, p)
      BY <1>2, <2>2
    <3>2. p # FileIdLen
      BY <1>1, <3>1
    <3>3. QED
      BY <3>1, <3>2
  <2>3. QED
    BY <2>1, <2>2
<1>5. InTurn(v)
  <2> SUFFICES ASSUME NEW p \in DOMAIN v.unit, NEW q \in DOMAIN v.unit, p < q
               PROVE  Rank(v.unit[p].kind) <= Rank(v.unit[q].kind)
    BY DEF InTurn
  <2>1. \A kind : Rank(kind) \in 1 .. 4
    BY DEF Rank
  <2>2. CASE q \in DOMAIN wire.unit
    <3>1. p \in DOMAIN wire.unit
      BY <1>1, <1>2, <2>2
    <3>2. QED
      BY <1>2, <2>2, <3>1 DEF InTurn
  <2>3. CASE q \notin DOMAIN wire.unit
    <3>1. v.unit[q].kind \in {"syncpoint", "frame"}
      BY <1>2, <2>3
    <3>2. Rank(v.unit[q].kind) = 4
      BY <3>1 DEF Rank
    <3>3. QED
      BY <2>1, <3>2
  <2>4. QED
    BY <2>2, <2>3
<1>6. AllSaid(v)
  <2>1. \A p \in StartsOf(wire, "stream") : p \in StartsOf(v, "stream") /\ v.unit[p] = wire.unit[p]
    BY <1>2, <1>3 DEF StartsOf
  <2>2. \A p \in StartsOf(wire, "info") : p \in StartsOf(v, "info") /\ v.unit[p] = wire.unit[p]
    BY <1>2, <1>3 DEF StartsOf
  <2>3. QED
    BY <2>1, <2>2 DEF AllSaid
<1>7. QED
  BY <1>4, <1>5, <1>6

(* A unit behind the last, and its mark where it is a syncpoint that is    *)
(* all there.                                                              *)
LEMMA MarkedBeside ==
  ASSUME NEW w \in MuxWires, Uncut(w), NEW ms \in Seq(Marks), AllMarked(w, ms),
         NEW u, NEW v, v.end \in Nat,
         DOMAIN v.unit = DOMAIN w.unit \cup {w.end},
         v.unit[w.end] = u,
         \A p \in DOMAIN w.unit : v.unit[p] = w.unit[p],
         NEW nu, \A i \in DOMAIN ms : i \in DOMAIN nu /\ nu[i] = ms[i],
         \/ u.kind # "syncpoint"
         \/ ~(w.end + WidthOf(u) <= v.end)
         \/ \E i \in DOMAIN nu : nu[i].at = w.end
  PROVE  AllMarked(v, nu)
<1>1. StartsOf(v, "syncpoint")
        = StartsOf(w, "syncpoint") \cup (IF u.kind = "syncpoint" THEN {w.end} ELSE {})
  BY BegunStarts
<1>2. ASSUME NEW p \in StartsOf(w, "syncpoint") PROVE \E i \in DOMAIN nu : nu[i].at = p
  <2>1. p + WidthOf(w.unit[p]) <= w.end
    BY DEF Uncut, StartsOf
  <2>2. QED
    BY <2>1 DEF AllMarked
<1>3. QED
  BY <1>1, <1>2 DEF AllMarked

LEMMA MarksAppended ==
  ASSUME NEW ms \in Seq(Marks), NEW mark \in Marks
  PROVE  /\ Append(ms, mark) \in Seq(Marks)
         /\ \A i \in DOMAIN ms : i \in DOMAIN Append(ms, mark) /\ Append(ms, mark)[i] = ms[i]
         /\ \E i \in DOMAIN Append(ms, mark) : Append(ms, mark)[i].at = mark.at
<1> DEFINE n == Len(ms)
           nu == Append(ms, mark)
<1>1. /\ n \in Nat /\ DOMAIN ms = 1 .. n /\ DOMAIN nu = 1 .. n + 1 /\ nu \in Seq(Marks)
      /\ \A i \in 1 .. n : nu[i] = ms[i]
      /\ nu[n + 1] = mark
  OBVIOUS
<1> HIDE DEF n, nu
<1>2. n + 1 \in DOMAIN nu /\ \A i \in 1 .. n : i \in DOMAIN nu
  BY <1>1
<1>3. QED
  BY <1>1, <1>2 DEF nu


(* What a frame's writing does to the wire, however it ends.               *)
Lengthened ==
  /\ wire' \in MuxWires
  /\ Longer(wire, wire')
  /\ wire.end <= wire'.end
  /\ wire.end < wire'.end => wire.end \in DOMAIN wire'.unit
  /\ Joined(wire')

MarksGrown == \A i \in DOMAIN marks : i \in DOMAIN marks' /\ marks'[i] = marks[i]

LEMMA WrittenLengthens ==
  ASSUME MInv, opened = "yes", ~Torn, Joined(wire), AllMarked(wire, marks),
         NEW id \in Nat \ {0}, NEW pts \in Nat,
         NEW key \in BOOLEAN, NEW size \in Nat, Written(id, pts, key, size)
  PROVE  Lengthened /\ MarksGrown /\ AllMarked(wire', marks')
<1> DEFINE at   == wire.end
           due  == SyncpointDue(at)
           u    == SyncpointUnit(pts, MediaBase(id))
           f    == FrameUnit(id, pts, key, size)
           base == IF due THEN Laid(wire, u) ELSE wire
           mark == [at |-> at, back |-> BackPtr(at), stream |-> id, pts |-> pts]
           file == [stream |-> id, pts |-> pts, key |-> key,
                    from |-> base.end + FrameHead, size |-> size]
           ms   == IF due THEN Append(marks, mark) ELSE marks
<1>1. Opened /\ wire \in MuxWires /\ at \in Nat /\ marks \in Seq(Marks)
  BY MuxWireParts DEF MInv, WellLaid, Marked
<1>2. Uncut(wire) /\ EndToEnd(wire)
  BY <1>1, UntornUncut DEF MInv, Laying
<1>3. MediaBase(id) \in Nat /\ Len(timeBases) \in Nat
  BY <1>1, MediaNamed
<1>4. /\ u \in Units /\ u.kind = "syncpoint"
      /\ u.ok /\ u.body = FieldsLen
  BY <1>3, SyncpointUnitType DEF SyncpointUnit
<1>5. f \in Units /\ f.kind = "frame"
  BY <1>1, FrameUnitType
<1>6. \A n \in Tears : n \in Nat
  BY MuxerAssumption
<1>7. WidthOf(u) \in Nat \ {0} /\ WidthOf(f) \in Nat \ {0}
  BY <1>4, <1>5, WidthPositive
<1> DEFINE Nothing == wire' = wire /\ marks' = marks
           Half == /\ \E end \in Nat : /\ at < end /\ end < at + WidthOf(u)
                                       /\ wire' = CutAt(Laid(wire, u), end)
                   /\ marks' = marks
           Synced == due /\ wire' = Laid(wire, u) /\ marks' = Append(marks, mark)
           Framed == /\ \E end \in Nat : /\ base.end < end /\ end <= base.end + WidthOf(f)
                                         /\ wire' = CutAt(Laid(base, f), end)
                     /\ marks' = ms
<1>8. Nothing \/ Half \/ Synced \/ Framed
  <2> HIDE DEF u, f, mark, base, file, due, ms
  <2>1. /\ u = SyncpointUnit(pts, MediaBase(id)) /\ f = FrameUnit(id, pts, key, size)
        /\ mark = [at |-> wire.end, back |-> BackPtr(wire.end), stream |-> id, pts |-> pts]
        /\ base = IF SyncpointDue(wire.end) THEN Laid(wire, u) ELSE wire
        /\ file = [stream |-> id, pts |-> pts, key |-> key,
                   from |-> base.end + FrameHead, size |-> size]
    BY DEF u, f, mark, base, file, due
  <2>2. ms = IF SyncpointDue(wire.end) THEN Append(marks, mark) ELSE marks
    BY DEF ms, due
  <2>3. due <=> SyncpointDue(wire.end)
    BY DEF due
  <2>4. QED
    BY <1>1, <1>4, <1>5, <1>6, <2>1, <2>2, <2>3, WrittenEnds
<1>9. due => BackPtr(at) \in Nat
  <2> SUFFICES ASSUME due PROVE BackPtr(at) \in Nat
    OBVIOUS
  <2>1. lastSyncpoint = IF marks = <<>> THEN <<>> ELSE <<marks[Len(marks)].at>>
    BY DEF MInv, WellLaid, Marked
  <2>2. CASE marks = <<>>
    BY <2>1, <2>2 DEF BackPtr
  <2>3. CASE marks # <<>>
    <3> DEFINE a == marks[Len(marks)].at
    <3>1. marks[Len(marks)] \in Marks
      BY <1>1, <2>3
    <3>2. a \in Nat
      BY <3>1 DEF Marks
    <3>3. lastSyncpoint = <<a>>
      BY <2>1, <2>3
    <3>4. MaxDistance \in Nat
      BY MuxerAssumption
    <3> HIDE DEF a
    <3>5. at - a >= MaxDistance
      BY <3>3 DEF SyncpointDue
    <3>6. at - a \in Nat
      <4> HIDE DEF at
      <4>1. QED
        BY <1>1, <3>2, <3>4, <3>5
    <3>7. BackPtr(at) = (at - a) \div 16
      BY <3>3 DEF BackPtr
    <3> DEFINE d == at - a
    <3>8. d \in Nat
      BY <3>6
    <3> HIDE DEF d
    <3>9. d \div 16 \in Nat
      BY <3>8
    <3>10. QED
      BY <3>7, <3>9 DEF d
  <2>4. QED
    BY <2>2, <2>3
<1>10. due => mark \in Marks /\ mark.at = at
  <2> HIDE DEF at
  <2>1. QED
    BY <1>1, <1>9 DEF Marks
<1> HIDE DEF mark
<1>11. /\ \A i \in DOMAIN marks : i \in DOMAIN ms /\ ms[i] = marks[i]
       /\ due => \E i \in DOMAIN ms : ms[i].at = at
  <2>1. CASE due
    <3>1. ms = Append(marks, mark)
      BY <2>1
    <3>2. QED
      BY <1>1, <1>10, <2>1, <3>1, MarksAppended
  <2>2. CASE ~due
    BY <2>2
  <2>3. QED
    BY <2>1, <2>2
<1> DEFINE v == Laid(wire, u)
<1>12. /\ v \in MuxWires /\ v.end = at + WidthOf(u) /\ v.end \in Nat
       /\ DOMAIN v.unit = DOMAIN wire.unit \cup {wire.end}
       /\ v.unit[wire.end] = u
       /\ \A p \in DOMAIN wire.unit : v.unit[p] = wire.unit[p]
  <2>1. /\ v \in MuxWires /\ v.end = at + WidthOf(u)
        /\ DOMAIN v.unit = DOMAIN wire.unit \cup {wire.end}
        /\ v.unit[wire.end] = u
        /\ \A p \in DOMAIN wire.unit : v.unit[p] = wire.unit[p]
    BY <1>1, <1>4, LaidWire
  <2> HIDE DEF v
  <2>2. v.end \in Nat
    BY <2>1, MuxWireParts
  <2>3. QED
    BY <2>1, <2>2
<1>13. EndToEnd(v) /\ Uncut(v)
  BY <1>1, <1>2, <1>4, <1>12, LaidEndToEnd, EndToEndUncut
<1>14. Longer(wire, v) /\ wire.end \in DOMAIN v.unit
  <2> HIDE DEF u, v
  <2>1. QED
    BY <1>1, <1>4, <1>12, LongerByOne
<1>15. at < v.end /\ at <= v.end
  <2> HIDE DEF u, v, at
  <2>1. QED
    BY <1>1, <1>7, <1>12
<1>16. CASE Nothing
  <2>1. at <= at
    <3> HIDE DEF at
    <3>1. QED
      BY <1>1
  <2>2. ~(at < at)
    <3> HIDE DEF at
    <3>1. QED
      BY <1>1
  <2>3. QED
    BY <1>1, <1>16, <2>1, <2>2, LongerSame DEF Lengthened, MarksGrown
<1>17. CASE Half
  <2>1. PICK end \in Nat : at < end /\ end < at + WidthOf(u) /\ wire' = CutAt(Laid(wire, u), end)
    BY <1>17
  <2>2. /\ wire' \in MuxWires
        /\ DOMAIN wire'.unit = DOMAIN wire.unit \cup {wire.end}
        /\ wire'.unit[wire.end] = u
        /\ \A p \in DOMAIN wire.unit : wire'.unit[p] = wire.unit[p]
        /\ wire'.end = end
    BY <1>1, <1>4, <2>1, Begun
  <2> HIDE DEF u
  <2>3. Longer(wire, wire') /\ wire.end \in DOMAIN wire'.unit
    BY <1>1, <1>4, <2>2, LongerByOne
  <2>4. at <= end /\ end <= v.end /\ ~(at + WidthOf(u) <= end)
    <3> HIDE DEF at, v
    <3>1. QED
      BY <1>1, <1>7, <1>12, <2>1
  <2>5. Joined(wire')
    <3>1. wire' = CutAt(v, end)
      BY <2>1
    <3> HIDE DEF v
    <3>2. QED
      BY <1>12, <1>13, <2>4, <3>1, CutJoined
  <2>6. marks' = marks
    BY <1>17
  <2>7. AllMarked(wire', marks)
    BY <1>1, <1>2, <2>2, <2>4, MarkedBeside
  <2>8. Lengthened
    BY <2>2, <2>3, <2>4, <2>5 DEF Lengthened
  <2>9. QED
    BY <2>6, <2>7, <2>8 DEF MarksGrown
(* The wire in front of the frame, with a syncpoint or without.            *)
<1>18. due => AllMarked(v, ms)
  <2> SUFFICES ASSUME due PROVE AllMarked(v, ms)
    OBVIOUS
  <2> HIDE DEF v, ms, u
  <2>1. QED
    BY <1>1, <1>2, <1>11, <1>12, MarkedBeside
<1>19. /\ base \in MuxWires /\ base.end \in Nat /\ at <= base.end
       /\ Uncut(base) /\ EndToEnd(base) /\ Longer(wire, base) /\ AllMarked(base, ms)
       /\ at < base.end => wire.end \in DOMAIN base.unit
  <2>1. CASE due
    <3>1. base = v
      BY <2>1
    <3> HIDE DEF v, ms
    <3>2. QED
      BY <1>12, <1>13, <1>14, <1>15, <1>18, <2>1, <3>1
  <2>2. CASE ~due
    <3>1. base = wire /\ ms = marks
      BY <2>2
    <3>2. at <= at /\ ~(at < at)
      <4> HIDE DEF at
      <4>1. QED
        BY <1>1
    <3> HIDE DEF base, ms
    <3>3. QED
      BY <1>1, <1>2, <3>1, <3>2, LongerSame
  <2>3. QED
    BY <2>1, <2>2
<1>20. CASE Synced
  <2>1. wire' = v /\ marks' = ms
    BY <1>20
  <2>2. Joined(v)
    <3>1. CutAt(v, v.end) = v /\ v.end <= v.end
      <4> HIDE DEF v
      <4>1. QED
        BY <1>12, CutNowhere
    <3> HIDE DEF v
    <3>2. QED
      BY <1>12, <1>13, <3>1, CutJoined
  <2> HIDE DEF v, ms
  <2>3. Lengthened
    BY <1>12, <1>14, <1>15, <2>1, <2>2 DEF Lengthened
  <2>4. QED
    BY <1>11, <1>18, <1>20, <2>1, <2>3 DEF MarksGrown
<1> HIDE DEF v, base, ms
<1>21. CASE Framed
  <2> HIDE DEF f
  <2>1. PICK end \in Nat :
          /\ base.end < end /\ end <= base.end + WidthOf(f)
          /\ wire' = CutAt(Laid(base, f), end)
    BY <1>21
  <2>2. /\ wire' \in MuxWires
        /\ DOMAIN wire'.unit = DOMAIN base.unit \cup {base.end}
        /\ wire'.unit[base.end] = f
        /\ \A p \in DOMAIN base.unit : wire'.unit[p] = base.unit[p]
        /\ wire'.end = end
    BY <1>5, <1>19, <2>1, Begun
  <2>3. Longer(base, wire') /\ base.end \in DOMAIN wire'.unit
    BY <1>5, <1>19, <2>2, LongerByOne
  <2>4. Longer(wire, wire')
    BY <1>1, <1>19, <2>2, <2>3, LongerStill
  <2>5. Joined(wire')
    <3>1. Laid(base, f) \in MuxWires /\ EndToEnd(Laid(base, f)) /\ end <= Laid(base, f).end
      BY <1>5, <1>19, <2>1, LaidWire, LaidEndToEnd
    <3>2. QED
      BY <2>1, <3>1, CutJoined
  <2>6. at <= end
    <3> HIDE DEF at
    <3>1. QED
      BY <1>1, <1>19, <2>1
  <2>7. wire.end \in DOMAIN wire'.unit
    <3>1. CASE at < base.end
      BY <1>19, <2>2, <3>1
    <3>2. CASE ~(at < base.end)
      <4>1. base.end = wire.end
        BY <1>1, <1>19, <3>2
      <4>2. QED
        BY <2>3, <4>1
    <3>3. QED
      BY <3>1, <3>2
  <2>8. AllMarked(wire', ms)
    <3>1. ms \in Seq(Marks)
      BY <1>1, <1>10, MarksAppended DEF ms
    <3>2. end \in Nat /\ \A i \in DOMAIN ms : i \in DOMAIN ms /\ ms[i] = ms[i]
      OBVIOUS
    <3>3. f.kind # "syncpoint"
      BY <1>5
    <3>4. QED
      BY <1>19, <2>2, <3>1, <3>2, <3>3, MarkedBeside
  <2>9. Lengthened
    BY <2>2, <2>4, <2>5, <2>6, <2>7 DEF Lengthened
  <2>10. QED
    BY <1>11, <1>21, <2>8, <2>9 DEF MarksGrown
<1> HIDE DEF Nothing, Half, Synced, Framed
<1>22. QED
  BY <1>8, <1>16, <1>17, <1>20, <1>21


LEMMA WrittenSays ==
  ASSUME MInv, WInv, HInv, NEW id \in Nat \ {0}, NEW pts \in Nat, NEW key \in BOOLEAN,
         NEW size \in Nat, WrittenBy(id, pts, key, size)
  PROVE  HInv' /\ Lengthened /\ MarksGrown
<1>1. /\ opened = "yes" /\ ~Torn /\ pts <= MaxTick
      /\ id \in DOMAIN streams \/ annotations = <<id>>
      /\ Written(id, pts, key, size)
      /\ UNCHANGED <<opened, streams, timeBases, annotations, sent>>
  BY DEF WrittenBy, fields
<1>2. Lengthened /\ MarksGrown /\ AllMarked(wire', marks')
  BY <1>1, WrittenLengthens DEF HInv
<1>3. wire \in MuxWires /\ wire' \in MuxWires /\ Opened
  BY <1>2 DEF MInv, WellLaid, Lengthened
<1>4. FileIdLen < wire.end
  <2>1. streams \in Seq(Described) /\ streams # <<>> /\ annotations \in {<<>>, <<Len(streams) + 1>>}
    BY <1>1, <1>3 DEF Opened, HInv
  <2>2. 1 \in 1 .. Count
    <3> DEFINE n == Len(streams)
               m == Len(annotations)
    <3>1. n \in Nat \ {0} /\ m \in Nat
      BY <2>1
    <3> HIDE DEF n, m
    <3>2. 1 \in 1 .. n + m
      BY <3>1
    <3>3. QED
      BY <3>2 DEF Count, n, m
  <2>3. PICK p \in StartsOf(wire, "stream") : wire.unit[p].stream = 1
    BY <1>1, <2>2 DEF HInv, AllSaid
  <2>4. p \in DOMAIN wire.unit /\ FileIdLen <= p
    BY DEF StartsOf, MInv, Laying, Apart
  <2>5. p < wire.end /\ p \in Nat /\ wire.end \in Nat /\ FileIdLen \in Nat
    BY <1>3, <2>4, MuxWireParts, MuxerAssumption
  <2>6. QED
    BY <2>4, <2>5
<1>5. Said(wire') /\ InTurn(wire') /\ AllSaid(wire')
  BY <1>1, <1>2, <1>3, <1>4, LongerSays DEF Lengthened, HInv
<1>6. (Said(wire) /\ InTurn(wire) /\ Joined(wire) /\ AllMarked(wire, marks) /\ AllSaid(wire))'
  <2>1. Said(wire)'
    BY <1>1, <1>5 DEF Said, MainSaid, StreamSaid, InfoSaid, SyncSaid, Count, Media
  <2>2. AllSaid(wire)'
    BY <1>1, <1>5 DEF AllSaid, Count
  <2>3. Joined(wire')
    BY <1>2 DEF Lengthened
  <2>4. QED
    BY <1>2, <1>5, <2>1, <2>2, <2>3
<1>7. id \in 1 .. Count
  <2> DEFINE n == Len(streams)
             m == Len(annotations)
  <2>1. streams \in Seq(Described) /\ annotations \in {<<>>, <<n + 1>>}
    BY <1>3 DEF Opened, HInv
  <2>2. n \in Nat /\ DOMAIN streams = 1 .. n
    BY <2>1
  <2>3. m \in Nat /\ (annotations = <<id>> => id = n + 1 /\ m = 1)
    <3> HIDE DEF n
    <3>1. CASE annotations = <<>>
      <4>1. m = 0 /\ annotations # <<id>>
        BY <3>1
      <4>2. QED
        BY <4>1
    <3>2. CASE annotations = <<n + 1>>
      <4>1. m = 1 /\ annotations[1] = n + 1
        BY <3>2
      <4>2. annotations = <<id>> => annotations[1] = id
        OBVIOUS
      <4>3. QED
        BY <4>1, <4>2
    <3>3. QED
      BY <2>1, <3>1, <3>2
  <2> HIDE DEF n, m
  <2>4. id \in 1 .. n + m
    BY <1>1, <2>2, <2>3
  <2>5. QED
    BY <2>4 DEF Count, n, m
<1>8. PICK file : /\ written' \in {written, Append(written, file)}
                  /\ file.stream = id /\ file.pts = pts
  <2> DEFINE synced == IF SyncpointDue(wire.end) THEN Laid(wire, SyncpointUnit(pts, MediaBase(id))) ELSE wire
             file == [stream |-> id, pts |-> pts, key |-> key,
                      from |-> synced.end + FrameHead, size |-> size]
  <2>1. written' \in {written, Append(written, file)}
    BY <1>1 DEF Written
  <2>2. file.stream = id /\ file.pts = pts
    OBVIOUS
  <2>3. QED
    BY <2>1, <2>2
<1>9. \A i \in DOMAIN written' : written'[i].stream \in 1 .. Count /\ written'[i].pts <= MaxTick
  <2> DEFINE Fits(f) == f.stream \in 1 .. Count /\ f.pts <= MaxTick
  <2>1. written \in Seq(Files) /\ \A i \in DOMAIN written : Fits(written[i])
    BY DEF WInv, Filed, HInv
  <2>2. Fits(file)
    BY <1>1, <1>7, <1>8
  <2> HIDE DEF Fits
  <2>3. ASSUME NEW i \in DOMAIN written' PROVE Fits(written'[i])
    <3>1. CASE written' = written
      BY <2>1, <3>1
    <3>2. CASE written' = Append(written, file)
      <4> DEFINE n == Len(written)
                 nu == Append(written, file)
      <4>1. /\ n \in Nat /\ DOMAIN written = 1 .. n /\ DOMAIN nu = 1 .. n + 1
            /\ \A j \in 1 .. n : nu[j] = written[j]
            /\ nu[n + 1] = file
        BY <2>1
      <4> HIDE DEF n, nu
      <4>2. i \in DOMAIN nu /\ written' = nu
        BY <3>2 DEF nu
      <4>3. i \in 1 .. n \/ i = n + 1
        BY <4>1, <4>2
      <4>4. QED
        BY <2>1, <2>2, <4>1, <4>2, <4>3
    <3>3. QED
      BY <1>8, <3>1, <3>2
  <2>4. QED
    BY <2>3 DEF Fits
<1>10. DOMAIN wire'.unit # {} => streams' # <<>>
  BY <1>1, <1>3 DEF Opened
<1>11. Count' = Count
  BY <1>1 DEF Count
<1>12. HInv'
  BY <1>1, <1>6, <1>9, <1>10, <1>11 DEF HInv
<1>13. QED
  BY <1>2, <1>12

LEMMA StaysSaid ==
  ASSUME HInv, opened' = opened \/ opened' # "yes",
         UNCHANGED <<streams, timeBases, annotations, wire, written, marks>>
  PROVE  HInv'
<1>1. Said(wire)' /\ InTurn(wire)' /\ Joined(wire)' /\ AllMarked(wire, marks)'
  BY DEF HInv, Said, MainSaid, StreamSaid, InfoSaid, SyncSaid, Count, Media, InTurn, Joined, AllMarked
<1>2. AllSaid(wire) => AllSaid(wire)'
  BY DEF AllSaid, Count
<1>3. Count' = Count
  BY DEF Count
<1>4. QED
  BY <1>1, <1>2, <1>3 DEF HInv

-----------------------------------------------------------------------------
(* What the reader has learnt of that by its place: the time bases and how *)
(* many streams there are, the header of each stream whose unit it has     *)
(* passed, and each frame rate it has passed.                              *)

MainLearnt(c) ==
  /\ c.bases = timeBases /\ Len(c.streams) = Count /\ c.elision = <<(<<>>)>>
  /\ FieldsLen <= MaxHeader

HeadersLearnt(c) ==
  \A i \in Known(c) :
    /\ Header(c, i).base = streams[Media(i)].base
    /\ i \in DOMAIN streams => Header(c, i).rate \in {0, streams[i].rate}

Passed(at) == {p \in DOMAIN wire.unit : p < at}

PassedLearnt(c, at) ==
  \A p \in Passed(at) :
    /\ wire.unit[p].kind = "stream" => wire.unit[p].stream \in Known(c)
    /\ wire.unit[p].kind = "info" => Header(c, wire.unit[p].about).rate = wire.unit[p].rate

Learnt(c, at) ==
  /\ at <= FileIdLen => c = NewContext
  /\ at > FileIdLen => MainLearnt(c)
  /\ HeadersLearnt(c)
  /\ PassedLearnt(c, at)

KInv ==
  /\ place = 0 => stage \notin {"refused", "panic"}
  /\ place > 0 => FileIdLen <= place /\ (place < wire.end => place \in DOMAIN wire.unit)
  /\ Learnt(ctx, place)
  /\ NothingRefused

(* What is here of the units before a place.                               *)
LEMMA NothingPassed ==
  ASSUME wire \in MuxWires, Apart(wire), NEW at \in Nat, at <= FileIdLen
  PROVE  Passed(at) = {}
<1>1. \A p \in DOMAIN wire.unit : p \in Nat /\ FileIdLen <= p
  BY MuxWireParts DEF Apart
<1>2. FileIdLen \in Nat
  BY MuxerAssumption
<1>3. \A p \in DOMAIN wire.unit : ~(p < at)
  BY <1>1, <1>2
<1>4. QED
  BY <1>3 DEF Passed

LEMMA PassedOne ==
  ASSUME wire \in MuxWires, Apart(wire), NEW at \in DOMAIN wire.unit
  PROVE  Passed(at + WidthOf(wire.unit[at])) = Passed(at) \cup {at}
<1> DEFINE w == WidthOf(wire.unit[at])
<1>1. at \in Nat /\ w \in Nat \ {0} /\ \A p \in DOMAIN wire.unit : p \in Nat
  BY MuxWireParts, WidthPositive
<1>2. \A p \in DOMAIN wire.unit : at < p => at + w <= p
  BY DEF Apart
<1> HIDE DEF w
<1>3. ASSUME NEW p \in DOMAIN wire.unit PROVE p < at + w <=> p < at \/ p = at
  BY <1>1, <1>2
<1>4. {p \in DOMAIN wire.unit : p < at + w} = {p \in DOMAIN wire.unit : p < at} \cup {at}
  BY <1>3
<1>5. QED
  BY <1>4 DEF Passed, w

(* A unit that says nothing of the streams leaves what is known of them.   *)
LEMMA KeepsLearnt ==
  ASSUME wire \in MuxWires, Apart(wire), NEW at \in DOMAIN wire.unit, at > FileIdLen,
         wire.unit[at].kind \in {"syncpoint", "frame"},
         NEW c, Learnt(c, at), NEW d,
         d.bases = c.bases, d.streams = c.streams, d.elision = c.elision
  PROVE  Learnt(d, at + WidthOf(wire.unit[at]))
<1> DEFINE to == at + WidthOf(wire.unit[at])
<1>1. to > FileIdLen /\ ~(to <= FileIdLen)
  <2> DEFINE w == WidthOf(wire.unit[at])
  <2>1. at \in Nat /\ w \in Nat /\ FileIdLen \in Nat
    BY MuxWireParts, WidthPositive, MuxerAssumption
  <2> HIDE DEF w
  <2>2. at + w > FileIdLen /\ ~(at + w <= FileIdLen)
    BY <2>1
  <2>3. QED
    BY <2>2 DEF w
<1>2. Passed(to) = Passed(at) \cup {at}
  BY PassedOne
<1> HIDE DEF to
<1>3. Known(d) = Known(c) /\ \A i : Header(d, i) = Header(c, i)
  BY DEF Known, Declared, Header
<1>4. MainLearnt(d)
  BY DEF Learnt, MainLearnt
<1>5. HeadersLearnt(d)
  BY <1>3 DEF Learnt, HeadersLearnt
<1>6. PassedLearnt(d, to)
  BY <1>2, <1>3 DEF Learnt, PassedLearnt
<1>7. Learnt(d, to)
  BY <1>1, <1>4, <1>5, <1>6 DEF Learnt
<1>8. QED
  BY <1>7 DEF to

LEMMA BeyondMain ==
  ASSUME wire \in MuxWires, Apart(wire), NEW at \in DOMAIN wire.unit
  PROVE  LET to == at + WidthOf(wire.unit[at])
         IN  /\ to \in Nat /\ at < to
             /\ to > FileIdLen /\ ~(to <= FileIdLen)
<1> DEFINE w == WidthOf(wire.unit[at])
<1>1. at \in Nat /\ w \in Nat \ {0} /\ FileIdLen \in Nat /\ FileIdLen <= at
  BY MuxWireParts, WidthPositive, MuxerAssumption DEF Apart
<1> HIDE DEF w
<1>2. at + w \in Nat /\ at < at + w /\ at + w > FileIdLen /\ ~(at + w <= FileIdLen)
  BY <1>1
<1>3. QED
  BY <1>2 DEF w

LEMMA MainRead ==
  ASSUME wire \in MuxWires, Apart(wire), Said(wire), NEW at \in DOMAIN wire.unit,
         wire.unit[at].kind = "main", FieldsLen <= MaxHeader, Count \in Nat,
         Learnt(NewContext, at)
  PROVE  Learnt(ReadMain(NewContext, wire.unit[at]), at + WidthOf(wire.unit[at]))
<1> DEFINE u  == wire.unit[at]
           to == at + WidthOf(wire.unit[at])
           d  == ReadMain(NewContext, u)
<1>1. at = FileIdLen /\ u = MainUnit(timeBases, Count)
  BY DEF Said, MainSaid
<1>2. ~(to <= FileIdLen) /\ Passed(to) = Passed(at) \cup {at} /\ Passed(at) = {}
  <2>1. at \in Nat /\ at <= FileIdLen
    <3>1. at \in Nat
      BY MuxWireParts
    <3>2. QED
      BY <1>1, <3>1
  <2>2. Passed(at) = {}
    BY <2>1, NothingPassed
  <2>3. QED
    BY <2>2, BeyondMain, PassedOne
<1>3. u.count = Count /\ u.bases = timeBases /\ u.elision = <<>> /\ u.kind = "main"
  BY <1>1 DEF MainUnit
<1> HIDE DEF u
<1>4. /\ d.bases = timeBases
      /\ d.elision = <<(<<>>)>> \o <<>>
      /\ d.streams = [i \in 1 .. Count |-> <<>>]
  <2>1. CASE Count = 0
    <3>1. Len(NewContext.streams) = u.count
      BY <1>3, <2>1 DEF NewContext
    <3>2. d = [NewContext EXCEPT !.bases = u.bases, !.elision = <<(<<>>)>> \o u.elision]
      BY <3>1 DEF ReadMain
    <3>3. d.streams = <<>> /\ d.bases = u.bases /\ d.elision = <<(<<>>)>> \o u.elision
      BY <3>2 DEF NewContext
    <3>4. [i \in 1 .. Count |-> <<>>] = <<>>
      BY <2>1
    <3>5. QED
      BY <1>3, <3>3, <3>4
  <2>2. CASE Count # 0
    <3>1. Len(NewContext.streams) # u.count
      BY <1>3, <2>2 DEF NewContext
    <3>2. /\ d.bases = u.bases /\ d.elision = <<(<<>>)>> \o u.elision
          /\ d.streams = [i \in 1 .. u.count |-> <<>>]
      BY <3>1 DEF ReadMain, NewContext
    <3>3. QED
      BY <1>3, <3>2
  <2>3. QED
    BY <2>1, <2>2
<1> HIDE DEF d
<1>5. d.elision = <<(<<>>)>>
  BY <1>4
<1>6. Len(d.streams) = Count /\ Known(d) = {}
  <2>1. Len(d.streams) = Count
    BY <1>4
  <2>2. Known(d) = {}
    BY <1>4 DEF Known, Declared
  <2>3. QED
    BY <2>1, <2>2
<1>7. MainLearnt(d) /\ HeadersLearnt(d)
  BY <1>4, <1>5, <1>6 DEF MainLearnt, HeadersLearnt
<1>8. PassedLearnt(d, to)
  BY <1>2, <1>3 DEF PassedLearnt, u
<1>9. Learnt(d, to)
  BY <1>2, <1>7, <1>8 DEF Learnt
<1>10. QED
  BY <1>9 DEF d, u

LEMMA StreamRead ==
  ASSUME wire \in MuxWires, Apart(wire), Said(wire), InTurn(wire),
         NEW at \in DOMAIN wire.unit, at > FileIdLen, wire.unit[at].kind = "stream",
         NEW c, ContextOK(c), Learnt(c, at), ~StreamRefused(c, wire.unit[at])
  PROVE  Learnt(ReadStream(c, wire.unit[at]), at + WidthOf(wire.unit[at]))
<1> DEFINE u  == wire.unit[at]
           to == at + WidthOf(wire.unit[at])
           d  == ReadStream(c, u)
           s  == u.stream
           header == [base |-> c.bases[u.base], span |-> u.span, delay |-> u.delay, rate |-> 0]
<1>1. StreamSaid(wire, at)
  BY DEF Said
<1>2. ~(to <= FileIdLen) /\ Passed(to) = Passed(at) \cup {at}
  BY BeyondMain, PassedOne
<1>3. /\ d.bases = c.bases /\ d.elision = c.elision
      /\ d.streams = [c.streams EXCEPT ![s] = <<header>>]
  BY DEF ContextOK, IsContext, ReadStream
<1>4. MainLearnt(c) /\ HeadersLearnt(c) /\ PassedLearnt(c, at)
  BY DEF Learnt
<1>5. header.base = streams[Media(s)].base /\ header.rate = 0
  BY <1>1, <1>4 DEF StreamSaid, MainLearnt
<1>6. s \in DOMAIN c.streams /\ c.streams \in Seq(Options)
  BY DEF StreamRefused, Declared, ContextOK
<1> HIDE DEF d, header
<1>7. Len(d.streams) = Len(c.streams) /\ DOMAIN d.streams = DOMAIN c.streams
  BY <1>3, <1>6
<1>8. d.streams[s] = <<header>> /\ \A i \in DOMAIN c.streams : i # s => d.streams[i] = c.streams[i]
  BY <1>3, <1>6
<1>9. Known(d) = Known(c) \cup {s} /\ Header(d, s) = header
      /\ \A i \in Known(c) : i # s => Header(d, i) = Header(c, i)
  <2> HIDE DEF s
  <2>1. <<header>> # <<>>
    OBVIOUS
  <2>2. Known(d) = Known(c) \cup {s}
    BY <1>6, <1>7, <1>8, <2>1 DEF Known, Declared
  <2>3. Header(d, s) = header
    BY <1>8 DEF Header
  <2>4. \A i \in Known(c) : i # s => Header(d, i) = Header(c, i)
    BY <1>8 DEF Known, Declared, Header
  <2>5. QED
    BY <2>2, <2>3, <2>4
<1>10. MainLearnt(d)
  BY <1>3, <1>4, <1>7 DEF MainLearnt
<1>11. HeadersLearnt(d)
  BY <1>4, <1>5, <1>9 DEF HeadersLearnt
<1>12. \A p \in Passed(at) : wire.unit[p].kind # "info"
  <2>1. ASSUME NEW p \in Passed(at) PROVE wire.unit[p].kind # "info"
    <3>1. p \in DOMAIN wire.unit /\ p < at
      BY DEF Passed
    <3>2. Rank(wire.unit[p].kind) <= Rank(wire.unit[at].kind)
      BY <3>1 DEF InTurn
    <3>3. Rank("stream") = 2 /\ Rank("info") = 3
      BY DEF Rank
    <3>4. QED
      BY <3>2, <3>3
  <2>2. QED
    BY <2>1
<1>13. PassedLearnt(d, to)
  <2>1. wire.unit[at].kind = "stream" /\ wire.unit[at].stream = s
    OBVIOUS
  <2> HIDE DEF u, s, to
  <2>2. QED
    BY <1>2, <1>4, <1>9, <1>12, <2>1 DEF PassedLearnt, to
<1>14. Learnt(d, to)
  BY <1>2, <1>10, <1>11, <1>13 DEF Learnt
<1>15. QED
  BY <1>14 DEF d

LEMMA InfoRead ==
  ASSUME wire \in MuxWires, Apart(wire), Said(wire), NEW at \in DOMAIN wire.unit,
         at > FileIdLen, wire.unit[at].kind = "info",
         streams \in Seq(Described),
         NEW c, ContextOK(c), Learnt(c, at)
  PROVE  Learnt(ApplyInfo(ApplyTags(c, wire.unit[at]), wire.unit[at]),
                at + WidthOf(wire.unit[at]))
<1> DEFINE u  == wire.unit[at]
           to == at + WidthOf(wire.unit[at])
           e  == ApplyTags(c, u)
           d  == ApplyInfo(e, u)
           a  == u.about
<1>1. InfoSaid(wire, at)
  BY DEF Said
<1>2. ~(to <= FileIdLen) /\ Passed(to) = Passed(at) \cup {at}
  BY BeyondMain, PassedOne
<1>3. MainLearnt(c) /\ HeadersLearnt(c) /\ PassedLearnt(c, at)
  BY DEF Learnt
<1>4. a \in DOMAIN streams /\ a # 0 /\ u.rate = streams[a].rate /\ a \in Known(c)
  <2>1. a \in DOMAIN streams /\ u.rate = streams[a].rate
    BY <1>1 DEF InfoSaid
  <2>2. PICK q \in StartsOf(wire, "stream") : q < at /\ wire.unit[q].stream = a
    BY <1>1 DEF InfoSaid
  <2>3. q \in Passed(at) /\ wire.unit[q].kind = "stream"
    BY <2>2 DEF Passed, StartsOf
  <2>4. a \in Known(c)
    BY <1>3, <2>2, <2>3 DEF PassedLearnt
  <2>5. a # 0
    BY <2>1
  <2>6. QED
    BY <2>1, <2>4, <2>5
<1>5. e.streams = c.streams /\ e.bases = c.bases /\ e.elision = c.elision
  BY DEF ContextOK, IsContext, ApplyTags
<1>6. ContextOK(e)
  <2>1. u \in InfoUnits
    BY MuxWireParts, UnitKinds
  <2>2. QED
    BY <2>1, ApplyTagsKeeps
<1> HIDE DEF e
<1>7. /\ d.bases = e.bases /\ d.elision = e.elision
      /\ d.streams = [i \in DOMAIN e.streams |->
                        IF i \in Known(e) /\ u.about \in {0, i} THEN <<Rated(Header(e, i), u.rate)>>
                                                              ELSE e.streams[i]]
  BY <1>6 DEF ContextOK, IsContext, ApplyInfo
<1>8. Known(e) = Known(c) /\ \A i : Header(e, i) = Header(c, i)
  BY <1>5 DEF Known, Declared, Header
<1>9. c.streams \in Seq(Options)
  BY DEF ContextOK
<1> HIDE DEF d
<1>10. DOMAIN d.streams = DOMAIN c.streams /\ Len(d.streams) = Len(c.streams)
  <2>1. DOMAIN d.streams = DOMAIN c.streams
    BY <1>5, <1>7
  <2>2. d.streams \in Seq({d.streams[i] : i \in DOMAIN c.streams})
    <3> DEFINE n == Len(c.streams)
    <3>1. n \in Nat /\ DOMAIN c.streams = 1 .. n
      BY <1>9
    <3> HIDE DEF n
    <3>2. d.streams = [i \in 1 .. n |-> d.streams[i]]
      BY <1>5, <1>7, <3>1
    <3>3. QED
      BY <2>1, <3>1, <3>2
  <2>3. QED
    BY <1>9, <2>1, <2>2
<1>11. ASSUME NEW i \in DOMAIN c.streams
       PROVE  /\ i \in Known(c) /\ i = a => d.streams[i] = <<Rated(Header(c, i), u.rate)>>
              /\ ~(i \in Known(c) /\ i = a) => d.streams[i] = c.streams[i]
  BY <1>4, <1>5, <1>7, <1>8
<1>12. /\ Known(d) = Known(c)
       /\ Header(d, a) = Rated(Header(c, a), u.rate)
       /\ \A i \in Known(c) : i # a => Header(d, i) = Header(c, i)
  <2>1. a \in DOMAIN c.streams /\ c.streams[a] # <<>>
    BY <1>4 DEF Known, Declared
  <2>2. d.streams[a] = <<Rated(Header(c, a), u.rate)>>
    BY <1>4, <1>11, <2>1
  <2>3. \A i \in DOMAIN c.streams : i # a => d.streams[i] = c.streams[i]
    BY <1>11
  <2> HIDE DEF a
  <2>4. <<Rated(Header(c, a), u.rate)>> # <<>>
    OBVIOUS
  <2>5. Known(d) = Known(c)
    BY <1>10, <2>1, <2>2, <2>3, <2>4 DEF Known, Declared
  <2>6. Header(d, a) = Rated(Header(c, a), u.rate)
    BY <2>2 DEF Header
  <2>7. \A i \in Known(c) : i # a => Header(d, i) = Header(c, i)
    BY <2>3 DEF Header, Known, Declared
  <2>8. QED
    BY <2>5, <2>6, <2>7
<1>13. Header(c, a) \in Headers /\ Header(c, a).base = streams[Media(a)].base
       /\ Header(c, a).rate \in {0, streams[a].rate}
  BY <1>3, <1>4, KnownHeader DEF HeadersLearnt
<1>14. Header(d, a).base = streams[Media(a)].base /\ Header(d, a).rate = streams[a].rate
  <2>1. CASE u.rate = 0
    BY <1>4, <1>12, <1>13, <2>1 DEF Rated
  <2>2. CASE u.rate # 0
    <3> DEFINE h == Header(c, a)
               r == u.rate
    <3>1. Header(d, a) = [h EXCEPT !.rate = r]
      BY <1>12, <2>2 DEF Rated
    <3> HIDE DEF h, r
    <3>2. h \in Headers
      BY <1>13 DEF h
    <3>3. Header(d, a).rate = r /\ Header(d, a).base = h.base
      BY <3>1, <3>2 DEF Headers
    <3>4. QED
      BY <1>4, <1>13, <3>3 DEF h, r
  <2>3. QED
    BY <2>1, <2>2
<1>15. MainLearnt(d)
  BY <1>3, <1>5, <1>7, <1>10 DEF MainLearnt
<1>16. HeadersLearnt(d)
  <2> HIDE DEF a
  <2>1. QED
    BY <1>3, <1>12, <1>14 DEF HeadersLearnt
<1>17. PassedLearnt(d, to)
  <2> SUFFICES ASSUME NEW p \in Passed(to)
               PROVE  /\ wire.unit[p].kind = "stream" => wire.unit[p].stream \in Known(d)
                      /\ wire.unit[p].kind = "info" =>
                           Header(d, wire.unit[p].about).rate = wire.unit[p].rate
    BY DEF PassedLearnt
  <2>1. p \in DOMAIN wire.unit
    BY DEF Passed
  <2>2. CASE p = at
    BY <1>4, <1>14, <2>2
  <2>3. CASE p \in Passed(at)
    <3>1. wire.unit[p].kind = "stream" => wire.unit[p].stream \in Known(d)
      BY <1>3, <1>12, <2>3 DEF PassedLearnt
    <3>2. ASSUME wire.unit[p].kind = "info"
          PROVE  Header(d, wire.unit[p].about).rate = wire.unit[p].rate
      <4> DEFINE b == wire.unit[p].about
      <4>1. InfoSaid(wire, p)
        BY <2>1, <3>2 DEF Said
      <4>2. wire.unit[p].rate = streams[b].rate
        BY <4>1 DEF InfoSaid
      <4>3. PICK q \in StartsOf(wire, "stream") : q < p /\ wire.unit[q].stream = b
        BY <4>1 DEF InfoSaid
      <4>4. q \in Passed(at) /\ wire.unit[q].kind = "stream"
        <5>1. q \in DOMAIN wire.unit /\ wire.unit[q].kind = "stream"
          BY DEF StartsOf
        <5>2. q \in Nat /\ p \in Nat /\ at \in Nat /\ p < at
          BY <2>1, <2>3, <5>1, MuxWireParts DEF Passed
        <5>3. q < at
          BY <4>3, <5>2
        <5>4. QED
          BY <5>1, <5>3 DEF Passed
      <4>5. b \in Known(c)
        BY <1>3, <4>3, <4>4 DEF PassedLearnt
      <4>6. Header(c, b).rate = wire.unit[p].rate
        BY <1>3, <2>3, <3>2 DEF PassedLearnt
      <4> HIDE DEF a
      <4>7. CASE b = a
        BY <1>14, <4>2, <4>7
      <4>8. CASE b # a
        BY <1>12, <4>5, <4>6, <4>8
      <4>9. QED
        BY <4>7, <4>8
    <3>3. QED
      BY <3>1, <3>2
  <2>4. QED
    BY <1>2, <2>2, <2>3
<1>18. Learnt(d, to)
  BY <1>2, <1>15, <1>16, <1>17 DEF Learnt
<1>19. QED
  BY <1>18 DEF d, e

-----------------------------------------------------------------------------
(* What the reader comes upon is nothing it refuses, within limits.        *)

LEMMA SaidFacts ==
  ASSUME PInv, HInv
  PROVE  /\ wire \in MuxWires /\ Apart(wire) /\ Said(wire) /\ InTurn(wire) /\ Joined(wire)
         /\ streams \in Seq(Described) /\ timeBases \in Seq(Rationals)
         /\ Count \in Nat
         /\ DOMAIN wire.unit # {} => Count # 0
         /\ written # <<>> => opened = "yes"
<1>1. /\ streams \in Seq(Described) /\ timeBases \in Seq(Rationals)
      /\ wire \in MuxWires /\ Apart(wire)
  BY DEF PInv, MInv, Opened, WellLaid, Laying
<1>2. annotations \in {<<>>, <<Len(streams) + 1>>} /\ (DOMAIN wire.unit # {} => streams # <<>>)
  BY DEF HInv
<1>3. Count \in Nat /\ (DOMAIN wire.unit # {} => Count # 0)
  <2> DEFINE n == Len(streams)
             m == Len(annotations)
  <2>1. n \in Nat /\ (streams # <<>> => n # 0)
    BY <1>1
  <2>2. m \in {0, 1}
    <3> HIDE DEF n
    <3>1. CASE annotations = <<>>
      BY <3>1
    <3>2. CASE annotations = <<n + 1>>
      BY <3>2
    <3>3. QED
      BY <1>2, <3>1, <3>2 DEF n
  <2> HIDE DEF n, m
  <2>3. n + m \in Nat /\ (n # 0 => n + m # 0)
    BY <2>1, <2>2
  <2>4. QED
    BY <1>2, <2>1, <2>3 DEF Count, n, m
<1>4. written # <<>> => opened = "yes"
  BY DEF PInv, WInv
<1>5. QED
  BY <1>1, <1>3, <1>4 DEF HInv

LEMMA LimitFacts ==
  ASSUME WithinLimits
  PROVE  /\ Count <= MaxStreams
         /\ FieldsLen <= MaxHeader
         /\ \A i \in DOMAIN written : written[i].size <= MaxFrame
         /\ \A i \in DOMAIN streams : streams[i].header <= MaxHeader
BY DEF WithinLimits, Count

LEMMA LengthFits ==
  ASSUME PInv, HInv, WithinLimits, NEW at \in DOMAIN wire.unit, wire.unit[at].kind # "frame"
  PROVE  ~LengthRefused(wire.unit[at]) /\ wire.unit[at].ok
<1> DEFINE u == wire.unit[at]
<1>1. /\ ChecksumLen \in Nat /\ FieldsLen \in Nat /\ MaxHeader \in Nat
      /\ ChecksumLen <= FieldsLen /\ FieldsLen <= MaxHeader
  BY LimitsAssumption, MuxerAssumption, BodiesAssumption, LimitFacts
<1>2. \A i \in DOMAIN streams : /\ streams[i].header \in Nat
                                /\ ChecksumLen <= streams[i].header
                                /\ streams[i].header <= MaxHeader
  <2>1. \A i \in DOMAIN streams : streams[i] \in Described
    BY SaidFacts
  <2>2. QED
    BY <2>1, LimitFacts DEF Described, HInv
<1>3. u.kind \in {"main", "stream", "info", "syncpoint"}
  BY DEF PInv, WInv, Spanned, HeaderKinds
<1>4. Said(wire)
  BY SaidFacts
<1>5. u.ok /\ (u.body = FieldsLen \/ \E i \in DOMAIN streams : u.body = streams[i].header)
  <2>1. CASE u.kind = "main"
    <3>1. u = MainUnit(timeBases, Count)
      BY <1>4, <2>1 DEF Said, MainSaid
    <3>2. QED
      BY <3>1 DEF MainUnit
  <2>2. CASE u.kind = "stream"
    BY <1>4, <2>2 DEF Said, StreamSaid
  <2>3. CASE u.kind = "info"
    BY <1>4, <2>3 DEF Said, InfoSaid
  <2>4. CASE u.kind = "syncpoint"
    BY <1>4, <2>4 DEF Said, SyncSaid
  <2>5. QED
    BY <1>3, <2>1, <2>2, <2>3, <2>4
<1> HIDE DEF u
<1>6. ChecksumLen <= u.body /\ u.body <= MaxHeader /\ u.body \in Nat
  BY <1>1, <1>2, <1>5
<1>7. ~(u.body < ChecksumLen) /\ ~(u.body > MaxHeader)
  BY <1>1, <1>6
<1>8. ~LengthRefused(u) /\ u.ok
  BY <1>5, <1>7 DEF LengthRefused
<1>9. QED
  BY <1>8 DEF u

(* A syncpoint tells a time that every stream's clock can be set to.       *)
LEMMA SyncpointFits ==
  ASSUME PInv, HInv, WithinLimits, NEW at \in DOMAIN wire.unit,
         wire.unit[at].kind = "syncpoint", at + WidthOf(wire.unit[at]) <= wire.end,
         MainLearnt(ctx), HeadersLearnt(ctx)
  PROVE  HasMain(ctx) /\ SyncStopsAt(ctx, wire.unit[at]) = {}
<1> DEFINE u == wire.unit[at]
           n == Len(timeBases)
<1>1. PICK m \in DOMAIN marks : marks[m].at = at
  BY DEF HInv, AllMarked, StartsOf
<1> DEFINE pts == marks[m].pts
           of  == streams[Media(marks[m].stream)].base
<1>2. opened = "yes" /\ Opened
  <2>1. marks # <<>>
    BY <1>1
  <2>2. QED
    BY <2>1 DEF PInv, MInv, Opened
<1>3. timeBases # <<>>
  <2>1. 1 \in DOMAIN streams
    BY <1>2 DEF Opened
  <2>2. \E k \in DOMAIN timeBases : timeBases[k] = streams[1].base
    BY <1>2, <2>1 DEF Opened
  <2>3. QED
    BY <2>2
<1>4. /\ FitsSyncpoint(pts)
      /\ \A k \in DOMAIN timeBases :
           ~RescalePanics(pts, of, timeBases[k]) /\ ~RescaleRefused(pts, of, timeBases[k])
  BY DEF WithinLimits, Sayable
<1>5. /\ SyncTicks(u.coded, n) = pts
      /\ timeBases[SyncBase(u.coded, n)] = of
  <2>1. SyncpointsTellTheTime
    BY SyncpointsTold DEF PInv
  <2>2. QED
    BY <1>1, <1>4, <2>1 DEF SyncpointsTellTheTime
<1> HIDE DEF u, n, pts, of
<1>6. ctx.bases = timeBases
  BY DEF MainLearnt
<1>7. SyncTime(ctx, u) = pts /\ SyncFrom(ctx, u) = of
  BY <1>5, <1>6 DEF SyncTime, SyncFrom, n
<1>8. ASSUME NEW i \in Known(ctx) PROVE ~SyncPanicsAt(ctx, u, i) /\ ~SyncRefusedAt(ctx, u, i)
  <2>1. Header(ctx, i).base = streams[Media(i)].base
    BY DEF HeadersLearnt
  <2>2. \E k \in DOMAIN timeBases : timeBases[k] = streams[Media(i)].base
    <3>1. Media(i) \in DOMAIN streams
      BY <1>2 DEF Opened, Media
    <3>2. QED
      BY <1>2, <3>1 DEF Opened
  <2>3. QED
    BY <1>4, <1>7, <2>1, <2>2 DEF SyncPanicsAt, SyncRefusedAt
<1>9. SyncStopsAt(ctx, u) = {}
  BY <1>8 DEF SyncStopsAt
<1>10. HasMain(ctx)
  BY <1>3, <1>6 DEF HasMain
<1>11. QED
  BY <1>9, <1>10 DEF u

LEMMA PacketFits ==
  ASSUME PInv, HInv, KInv, WithinLimits, NEW at \in DOMAIN wire.unit, at = place,
         wire.unit[at].kind # "frame", at + WidthOf(wire.unit[at]) <= wire.end
  PROVE  LET u == wire.unit[at]
         IN  ~BodyPanics(ctx, u) /\ ~LengthRefused(u) /\ ~BodyRefused(ctx, u)
<1> DEFINE u == wire.unit[at]
<1>1. ~LengthRefused(u) /\ u.ok
  BY LengthFits
<1>2. u.kind \in {"main", "stream", "info", "syncpoint"}
  BY DEF PInv, WInv, Spanned, HeaderKinds
<1>3. /\ Said(wire) /\ Count \in Nat /\ Count # 0 /\ Count <= MaxStreams
      /\ MaxStreams \in Nat /\ at \in Nat /\ FileIdLen \in Nat /\ FileIdLen <= at
  BY SaidFacts, LimitFacts, LimitsAssumption, MuxerAssumption, MuxWireParts DEF Apart
<1>4. u.kind # "main" => MainLearnt(ctx) /\ HeadersLearnt(ctx)
  <2> SUFFICES ASSUME u.kind # "main" PROVE MainLearnt(ctx) /\ HeadersLearnt(ctx)
    OBVIOUS
  <2>1. at # FileIdLen
    BY <1>3 DEF Said
  <2>2. at > FileIdLen
    BY <1>3, <2>1
  <2>3. QED
    BY <2>2 DEF KInv, Learnt
<1>5. CASE u.kind = "main"
  <2>1. u = MainUnit(timeBases, Count)
    BY <1>3, <1>5 DEF Said, MainSaid
  <2>2. u.count = Count
    BY <2>1 DEF MainUnit
  <2>3. Count \in 1 .. MaxStreams
    BY <1>3
  <2> HIDE DEF u
  <2>4. QED
    BY <1>1, <1>5, <2>2, <2>3 DEF BodyPanics, BodyRefused, MainRefused, u
<1>6. CASE u.kind = "stream"
  <2>1. StreamSaid(wire, at)
    BY <1>3, <1>6 DEF Said
  <2>2. MainLearnt(ctx)
    BY <1>4, <1>6
  <2>3. u.base \in DOMAIN ctx.bases /\ ctx.bases = timeBases /\ timeBases # <<>>
    BY <2>1, <2>2 DEF StreamSaid, MainLearnt
  <2>4. u.stream \in Declared(ctx)
    <3>1. Len(ctx.streams) = Count /\ u.stream \in 1 .. Count
      BY <2>1, <2>2 DEF StreamSaid, MainLearnt
    <3>2. ctx.streams \in Seq(Options)
      BY DEF PInv, RInv, ContextOK
    <3>3. DOMAIN ctx.streams = 1 .. Len(ctx.streams)
      BY <3>2
    <3>4. QED
      BY <3>1, <3>3 DEF Declared
  <2> HIDE DEF u
  <2>5. ~StreamRefused(ctx, u)
    BY <2>3, <2>4 DEF StreamRefused, HasMain
  <2>6. QED
    BY <1>1, <1>6, <2>5 DEF BodyPanics, BodyRefused, u
<1>7. CASE u.kind = "syncpoint"
  <2>1. HasMain(ctx) /\ SyncStopsAt(ctx, u) = {}
    BY <1>4, <1>7, SyncpointFits
  <2> HIDE DEF u
  <2>2. ~SyncPanics(ctx, u) /\ ~SyncRefused(ctx, u)
    BY <2>1 DEF SyncPanics, SyncRefused, SyncStop
  <2>3. QED
    BY <1>1, <1>7, <2>2 DEF BodyPanics, BodyRefused, u
<1>8. CASE u.kind = "info"
  <2> HIDE DEF u
  <2>1. QED
    BY <1>1, <1>8 DEF BodyPanics, BodyRefused, u
<1>9. QED
  BY <1>2, <1>5, <1>6, <1>7, <1>8

(* Before a frame is every header.                                         *)
LEMMA HeadersBefore ==
  ASSUME PInv, HInv, NEW at \in DOMAIN wire.unit, wire.unit[at].kind = "frame",
         opened = "yes", NEW p \in DOMAIN wire.unit, wire.unit[p].kind \in {"stream", "info"}
  PROVE  p \in Passed(at)
<1>1. at \in Nat /\ p \in Nat /\ InTurn(wire)
  BY SaidFacts, MuxWireParts
<1>2. at # p
  OBVIOUS
<1>3. ASSUME at < p PROVE FALSE
  <2>1. Rank(wire.unit[at].kind) <= Rank(wire.unit[p].kind)
    BY <1>1, <1>3 DEF InTurn
  <2>2. Rank(wire.unit[at].kind) = 4 /\ Rank(wire.unit[p].kind) \in {2, 3}
    BY DEF Rank
  <2>3. QED
    BY <2>1, <2>2
<1>4. p < at
  BY <1>1, <1>2, <1>3
<1>5. QED
  BY <1>4 DEF Passed

LEMMA FrameFits ==
  ASSUME PInv, HInv, KInv, WithinLimits, NEW at \in DOMAIN wire.unit, at = place,
         wire.unit[at].kind = "frame", at + WidthOf(wire.unit[at]) <= wire.end
  PROVE  LET u == wire.unit[at]
         IN  ~FramePanics(ctx, u, u.head) /\ ~FrameRefused(ctx, u, u.head, MaxFrame)
<1> DEFINE u == wire.unit[at]
<1>1. PICK i \in DOMAIN written : Start(written[i]) = at
  BY DEF PInv, WInv, Filed, StartsOf
<1> DEFINE file == written[i]
           span == SpanAmong(streams, file.stream)
<1>2. u = UnitOf(file)
  BY <1>1 DEF PInv, WInv, Filed
<1>3. file \in Files /\ file.stream \in 1 .. Count /\ file.pts <= MaxTick /\ file.size <= MaxFrame
  <2>1. written \in Seq(Files)
    BY DEF PInv, WInv, Filed
  <2>2. file.stream \in 1 .. Count /\ file.pts <= MaxTick
    BY DEF HInv
  <2>3. file \in Files
    BY <2>1
  <2>4. QED
    BY <2>2, <2>3, LimitFacts
<1>4. opened = "yes"
  <2>1. written # <<>>
    OBVIOUS
  <2>2. QED
    BY <2>1, SaidFacts
<1>5. /\ u.stream = file.stream /\ u.size = file.size /\ u.coded = TRUE /\ u.pts = file.pts + span
      /\ u.ok = TRUE /\ u.valid = TRUE /\ u.header = 0
  BY <1>2 DEF UnitOf, FrameUnit, CodedWhole, Media, SpanAmong
<1>6. MainLearnt(ctx) /\ PassedLearnt(ctx, at)
  <2>1. at # FileIdLen /\ FileIdLen <= at /\ at \in Nat /\ FileIdLen \in Nat
    BY SaidFacts, MuxWireParts, MuxerAssumption DEF Said, Apart
  <2>2. at > FileIdLen
    BY <2>1
  <2>3. QED
    BY <2>2 DEF KInv, Learnt
<1>7. Declared(ctx) = 1 .. Count /\ ContextOK(ctx) /\ Spans(ctx)
  <2>1. ctx.streams \in Seq(Options) /\ Len(ctx.streams) = Count
    BY <1>6 DEF PInv, RInv, ContextOK, MainLearnt
  <2>2. QED
    BY <2>1 DEF PInv, RInv, Declared
<1>8. ASSUME NEW j \in 1 .. Count PROVE j \in Known(ctx)
  <2>1. PICK p \in StartsOf(wire, "stream") : wire.unit[p].stream = j
    BY <1>4 DEF HInv, AllSaid
  <2>2. p \in Passed(at) /\ wire.unit[p].kind = "stream"
    BY <1>4, HeadersBefore DEF StartsOf
  <2>3. QED
    BY <1>6, <2>1, <2>2 DEF PassedLearnt
<1> HIDE DEF u, file
<1>9. Known(ctx) = Declared(ctx)
  BY <1>7, <1>8 DEF Known
<1>10. HasMain(ctx)
  <2>1. 1 \in DOMAIN streams /\ Opened
    BY <1>4 DEF PInv, MInv, Opened
  <2>2. timeBases # <<>>
    BY <1>4, <2>1 DEF Opened
  <2>3. QED
    BY <1>6, <2>2 DEF MainLearnt, HasMain
<1>11. HeadersComplete(ctx)
  BY <1>9, <1>10 DEF HeadersComplete
<1>12. u.stream \in Known(ctx) /\ u.stream \in Declared(ctx)
  BY <1>3, <1>5, <1>7, <1>8
<1>13. FrameSpan(ctx, u) = span /\ span \in Nat /\ file.pts \in Nat /\ MaxTick \in Nat
  <2>1. Header(ctx, u.stream) \in Headers
    BY <1>7, <1>12, KnownHeader
  <2>2. Header(ctx, u.stream).span = span
    BY <1>5, <1>7, <1>12 DEF Spans
  <2>3. file.pts \in Nat
    BY <1>3 DEF Files
  <2>4. QED
    BY <2>1, <2>2, <2>3, MaxTickAssumption DEF FrameSpan, Headers
<1> HIDE DEF span
<1>14. ~(file.pts + span < span) /\ ~(file.pts + span - span > MaxTick)
  BY <1>3, <1>13
<1>15. ~PtsPanics(ctx, u) /\ ~PtsRefused(ctx, u)
  <2>1. ~CodedPtsPanics(span, FrameLast(ctx, u), file.pts + span)
    BY <1>14 DEF CodedPtsPanics
  <2>2. ~CodedPtsRefused(span, file.pts + span)
    <3> DEFINE x == file.pts + span
    <3>0. x \in Nat /\ x - span = file.pts
      BY <1>13
    <3> HIDE DEF x
    <3>1. ~(x - span > MaxTick)
      BY <1>3, <1>13, <3>0
    <3>2. ~CodedPtsRefused(span, x)
      BY <3>1 DEF CodedPtsRefused
    <3>3. QED
      BY <3>2 DEF x
  <2>3. QED
    BY <1>5, <1>13, <2>1, <2>2 DEF PtsPanics, PtsRefused
<1>16. u.header + 1 \in DOMAIN ctx.elision /\ Elided(ctx, u) = <<>>
  <2>1. ctx.elision = <<(<<>>)>>
    BY <1>6 DEF MainLearnt
  <2>2. u.header + 1 = 1
    BY <1>5
  <2>3. QED
    BY <2>1, <2>2 DEF Elided
<1>17. ~(Len(Elided(ctx, u)) > u.size) /\ ~(u.size > MaxFrame)
  <2>1. u.size \in Nat /\ u.size <= MaxFrame /\ MaxFrame \in Nat
    BY <1>3, <1>5, LimitsAssumption DEF Files
  <2>2. Len(Elided(ctx, u)) = 0
    BY <1>16
  <2>3. QED
    BY <2>1, <2>2
<1>18. ~FramePanics(ctx, u, u.head)
  BY <1>15 DEF FramePanics
<1>19. ~FrameRefused(ctx, u, u.head, MaxFrame)
  BY <1>5, <1>11, <1>12, <1>15, <1>16, <1>17 DEF FrameRefused
<1>20. QED
  BY <1>18, <1>19 DEF u

-----------------------------------------------------------------------------
(* The reader's steps.                                                     *)

LEMMA ReaderFinds ==
  ASSUME PInv, KInv, UnitArrived
  PROVE  /\ place \in DOMAIN wire.unit /\ Here = wire.unit[place]
         /\ place + WidthOf(Here) <= wire.end
<1>1. place > 0 /\ place < sent /\ place + WidthOf(Here) <= sent
  BY DEF UnitArrived
<1>2. place \in Nat /\ sent \in Nat /\ sent <= wire.end /\ wire.end \in Nat
  BY ReaderFacts
<1>3. place < wire.end
  BY <1>1, <1>2
<1>4. place \in DOMAIN wire.unit
  BY <1>1, <1>3 DEF KInv
<1>5. Here = wire.unit[place]
  BY <1>4 DEF Here, UnitAt
<1>6. WidthOf(Here) \in Nat
  BY <1>4, <1>5, ReaderFacts, MuxWireParts, WidthPositive
<1> DEFINE w == WidthOf(Here)
<1> HIDE DEF w
<1>7. place + w <= wire.end
  BY <1>1, <1>2, <1>6 DEF w
<1>8. QED
  BY <1>4, <1>5, <1>7 DEF w

(* Behind a unit is the next, or nothing yet.                              *)
LEMMA ReaderLands ==
  ASSUME PInv, HInv, NEW at \in DOMAIN wire.unit
  PROVE  LET to == at + WidthOf(wire.unit[at])
         IN  /\ to # 0 /\ FileIdLen <= to
             /\ to < wire.end => to \in DOMAIN wire.unit
<1> DEFINE to == at + WidthOf(wire.unit[at])
<1>1. to \in Nat /\ to > FileIdLen /\ FileIdLen \in Nat
  BY SaidFacts, BeyondMain, MuxerAssumption
<1>2. to < wire.end => to \in DOMAIN wire.unit
  BY SaidFacts DEF Joined
<1> HIDE DEF to
<1>3. to # 0 /\ FileIdLen <= to
  BY <1>1
<1>4. QED
  BY <1>2, <1>3 DEF to

LEMMA ReaderLearns ==
  ASSUME HInv, UNCHANGED <<fields, wire, written, marks>>,
         place' = 0 => stage' \notin {"refused", "panic"},
         place' > 0 => FileIdLen <= place' /\ (place' < wire.end => place' \in DOMAIN wire.unit),
         Learnt(ctx', place'),
         WithinLimits => stage' \notin {"refused", "panic"}
  PROVE  HInv' /\ KInv'
<1>1. UNCHANGED <<opened, streams, timeBases, annotations, wire, written, marks>>
  BY DEF fields
<1>2. HInv'
  BY <1>1, StaysSaid
<1>3. Count' = Count
  BY <1>1 DEF Count
<1>4. MainLearnt(ctx') <=> MainLearnt(ctx)'
  BY <1>1, <1>3 DEF MainLearnt
<1>5. HeadersLearnt(ctx') <=> HeadersLearnt(ctx)'
  BY <1>1 DEF HeadersLearnt, Media
<1>6. PassedLearnt(ctx', place') <=> PassedLearnt(ctx, place)'
  BY <1>1 DEF PassedLearnt, Passed
<1>7. Learnt(ctx, place)'
  BY <1>4, <1>5, <1>6 DEF Learnt
<1>8. WithinLimits' => WithinLimits
  BY <1>1 DEF WithinLimits, Sayable, FitsSyncpoint, Media
<1>9. NothingRefused'
  BY <1>8 DEF NothingRefused
<1>10. (place > 0 => FileIdLen <= place /\ (place < wire.end => place \in DOMAIN wire.unit))'
  BY <1>1
<1>11. QED
  BY <1>2, <1>7, <1>9, <1>10 DEF KInv

(* A reader that stops where it is, and not for what it read.              *)
LEMMA StopLearns ==
  ASSUME HInv, KInv, UNCHANGED <<fields, wire, written, marks, place, ctx>>,
         place = 0 => stage' \notin {"refused", "panic"},
         WithinLimits => stage' \notin {"refused", "panic"}
  PROVE  HInv' /\ KInv'
<1>1. place' = place /\ ctx' = ctx /\ UNCHANGED <<fields, wire, written, marks>>
  OBVIOUS
<1>2. /\ place > 0 => FileIdLen <= place /\ (place < wire.end => place \in DOMAIN wire.unit)
      /\ Learnt(ctx, place)
  BY DEF KInv
<1>3. QED
  BY <1>1, <1>2, ReaderLearns

LEMMA IdentifierLearns ==
  ASSUME PInv, HInv, KInv, ReadIdentifier
  PROVE  HInv' /\ KInv'
<1>1. /\ stage = "reading" /\ place = 0 /\ place' = FileIdLen /\ FileIdLen \in Nat \ {0}
      /\ ctx' = ctx /\ stage' = stage /\ UNCHANGED <<fields, wire, written, marks>>
  BY MuxerAssumption DEF ReadIdentifier, muxer
<1>2. /\ FileIdLen < wire.end => FileIdLen \in DOMAIN wire.unit
      /\ wire \in MuxWires /\ Apart(wire)
  BY SaidFacts DEF Joined
<1>3. FileIdLen <= FileIdLen /\ ~(FileIdLen > FileIdLen) /\ 0 <= FileIdLen
  BY <1>1
<1>4. ctx = NewContext
  BY <1>1, ReaderFacts DEF PInv, RInv, Along
<1>5. Passed(FileIdLen) = {}
  BY <1>1, <1>2, <1>3, NothingPassed
<1>6. Learnt(ctx, FileIdLen)
  <2>1. HeadersLearnt(ctx)
    BY DEF KInv, Learnt
  <2>2. PassedLearnt(ctx, FileIdLen)
    BY <1>5 DEF PassedLearnt
  <2>3. QED
    BY <1>3, <1>4, <2>1, <2>2 DEF Learnt
<1>7. QED
  BY <1>1, <1>2, <1>3, <1>6, ReaderLearns

(* What reading a packet leaves learnt.                                    *)
LEMMA PacketLearnt ==
  ASSUME PInv, HInv, KInv, place \in DOMAIN wire.unit, wire.unit[place].kind # "frame",
         ~LengthRefused(wire.unit[place]),
         SteppedOver(wire.unit[place]) \/ ~BodyRefused(ctx, wire.unit[place])
  PROVE  LET u == wire.unit[place]
         IN  Learnt(IF SteppedOver(u) THEN ctx ELSE PacketRead(ctx, u), place + WidthOf(u))
<1> DEFINE u == wire.unit[place]
<1>1. u.kind \in {"main", "stream", "info", "syncpoint"}
  BY DEF PInv, WInv, Spanned, HeaderKinds
<1>2. /\ wire \in MuxWires /\ Apart(wire) /\ Said(wire) /\ InTurn(wire)
      /\ streams \in Seq(Described) /\ Count \in Nat
      /\ ContextOK(ctx) /\ Learnt(ctx, place)
      /\ place \in Nat /\ FileIdLen \in Nat /\ FileIdLen <= place
  BY SaidFacts, ReaderFacts, MuxWireParts, MuxerAssumption DEF Apart, KInv
<1>3. u.kind # "main" => place > FileIdLen
  <2>1. u.kind # "main" => place # FileIdLen
    BY <1>2 DEF Said
  <2>2. QED
    BY <1>2, <2>1
<1>4. FieldsLen \in Nat /\ MaxHeader \in Nat
  BY LimitsAssumption, MuxerAssumption
<1>5. CASE u.kind = "main"
  <2>1. place = FileIdLen /\ u = MainUnit(timeBases, Count)
    BY <1>2, <1>5 DEF Said, MainSaid
  <2>2. ctx = NewContext
    <3>1. place <= FileIdLen
      BY <1>2, <2>1
    <3>2. QED
      BY <1>2, <3>1 DEF Learnt
  <2>3. FieldsLen <= MaxHeader
    <3>1. ~(FieldsLen > MaxHeader)
      BY <2>1 DEF LengthRefused, Held, MainUnit
    <3>2. QED
      BY <1>4, <3>1
  <2>4. Learnt(ReadMain(ctx, u), place + WidthOf(u))
    BY <1>2, <1>5, <2>2, <2>3, MainRead
  <2> HIDE DEF u
  <2>5. ~SteppedOver(u) /\ PacketRead(ctx, u) = ReadMain(ctx, u)
    BY <1>5 DEF SteppedOver, PacketRead
  <2>6. QED
    BY <2>4, <2>5 DEF u
<1>6. CASE u.kind = "stream"
  <2>1. ~StreamRefused(ctx, u)
    <3> HIDE DEF u
    <3>1. ~SteppedOver(u)
      BY <1>6 DEF SteppedOver
    <3>2. QED
      BY <1>6, <3>1 DEF BodyRefused, u
  <2>2. Learnt(ReadStream(ctx, u), place + WidthOf(u))
    BY <1>2, <1>3, <1>6, <2>1, StreamRead
  <2> HIDE DEF u
  <2>3. ~SteppedOver(u) /\ PacketRead(ctx, u) = ReadStream(ctx, u)
    BY <1>6 DEF SteppedOver, PacketRead
  <2>4. QED
    BY <2>2, <2>3 DEF u
<1>7. CASE u.kind = "info"
  <2>1. Learnt(ApplyInfo(ApplyTags(ctx, u), u), place + WidthOf(u))
    BY <1>2, <1>3, <1>7, InfoRead
  <2>2. u.readable /\ u.body = FieldsLen
    BY <1>2, <1>7 DEF Said, InfoSaid
  <2>3. FieldsLen <= MaxHeader
    BY <1>2, <1>3, <1>7 DEF Learnt, MainLearnt
  <2> HIDE DEF u
  <2>4. ~(u.body > MaxHeader)
    BY <1>4, <2>2, <2>3
  <2>5. ~SteppedOver(u)
    BY <1>7, <2>4 DEF SteppedOver
  <2>6. PacketRead(ctx, u) = ApplyInfo(ApplyTags(ctx, u), u)
    BY <1>7, <2>2 DEF PacketRead
  <2>7. QED
    BY <2>1, <2>5, <2>6 DEF u
<1>8. CASE u.kind = "syncpoint"
  <2> DEFINE e == ReadSyncpoint(ctx, u)
             d == HeadersClosed(e)
  <2>1. e.bases = ctx.bases /\ e.streams = ctx.streams /\ e.elision = ctx.elision
    BY <1>2 DEF ContextOK, IsContext, ReadSyncpoint
  <2>2. IsContext(e)
    BY <1>2, ReadSyncpointType DEF ContextOK
  <2> HIDE DEF e
  <2>3. d.bases = e.bases /\ d.streams = e.streams /\ d.elision = e.elision
    BY <2>2 DEF IsContext, HeadersClosed
  <2> HIDE DEF d
  <2>4. Learnt(d, place + WidthOf(u))
    BY <1>2, <1>3, <1>8, <2>1, <2>3, KeepsLearnt
  <2> HIDE DEF u
  <2>5. ~SteppedOver(u) /\ PacketRead(ctx, u) = d
    BY <1>8 DEF SteppedOver, PacketRead, d, e
  <2>6. QED
    BY <2>4, <2>5 DEF u
<1>9. QED
  BY <1>1, <1>5, <1>6, <1>7, <1>8

LEMMA PacketLearns ==
  ASSUME PInv, HInv, KInv, ReadPacket
  PROVE  HInv' /\ KInv'
<1> DEFINE u == wire.unit[place]
           w == WidthOf(u)
<1>1. /\ place \in DOMAIN wire.unit /\ Here = u
      /\ place + w <= wire.end /\ u.kind # "frame" /\ place # 0 /\ stage = "reading"
  <2>1. UnitArrived /\ Here.kind # "frame"
    BY DEF ReadPacket
  <2>2. place > 0 /\ place \in Nat /\ stage = "reading"
    BY <2>1, ReaderFacts DEF UnitArrived
  <2>3. place # 0
    BY <2>2
  <2>4. QED
    BY <2>1, <2>2, <2>3, ReaderFinds
<1> DEFINE Refused == LengthRefused(u) \/ (~SteppedOver(u) /\ BodyRefused(ctx, u))
<1>2. CASE Refused \/ BodyPanics(ctx, u)
  <2>1. UNCHANGED <<fields, wire, written, marks, place, ctx>>
    BY <1>1, <1>2 DEF ReadPacket, Stops, muxer
  <2>2. ~WithinLimits
    BY <1>1, <1>2, PacketFits
  <2>3. QED
    BY <1>1, <2>1, <2>2, StopLearns
<1>3. CASE ~(Refused \/ BodyPanics(ctx, u))
  <2>1. /\ ctx' = (IF SteppedOver(u) THEN ctx ELSE PacketRead(ctx, u))
        /\ place' = place + w
        /\ stage' = stage /\ UNCHANGED <<fields, wire, written, marks>>
    BY <1>1, <1>3 DEF ReadPacket, muxer
  <2>2. Learnt(ctx', place')
    BY <1>1, <1>3, <2>1, PacketLearnt
  <2>3. place' # 0 /\ FileIdLen <= place' /\ (place' < wire.end => place' \in DOMAIN wire.unit)
    BY <1>1, <2>1, ReaderLands
  <2>4. QED
    BY <1>1, <2>1, <2>2, <2>3, ReaderLearns
<1>4. QED
  BY <1>2, <1>3

LEMMA FrameLearns ==
  ASSUME PInv, HInv, KInv, ReadFrame
  PROVE  HInv' /\ KInv'
<1> DEFINE u == wire.unit[place]
           w == WidthOf(u)
<1>1. /\ place \in DOMAIN wire.unit /\ Here = u
      /\ place + w <= wire.end /\ u.kind = "frame" /\ place # 0 /\ stage = "reading"
  <2>1. UnitArrived /\ Here.kind = "frame"
    BY DEF ReadFrame
  <2>2. place > 0 /\ place \in Nat /\ stage = "reading"
    BY <2>1, ReaderFacts DEF UnitArrived
  <2>3. place # 0
    BY <2>2
  <2>4. QED
    BY <2>1, <2>2, <2>3, ReaderFinds
<1>2. CASE FramePanics(ctx, u, u.head) \/ FrameRefused(ctx, u, u.head, MaxFrame)
  <2>1. UNCHANGED <<fields, wire, written, marks, place, ctx>>
    BY <1>1, <1>2 DEF ReadFrame, Stops, muxer
  <2>2. ~WithinLimits
    BY <1>1, <1>2, FrameFits
  <2>3. QED
    BY <1>1, <2>1, <2>2, StopLearns
<1>3. CASE ~(FramePanics(ctx, u, u.head) \/ FrameRefused(ctx, u, u.head, MaxFrame))
  <2> DEFINE e == HeadersClosed(ctx)
             d == FrameRead(e, u)
  <2>1. /\ ctx' = d /\ place' = place + w
        /\ stage' = stage /\ UNCHANGED <<fields, wire, written, marks>>
    BY <1>1, <1>3 DEF ReadFrame, muxer
  <2>2. /\ wire \in MuxWires /\ Apart(wire) /\ Said(wire)
        /\ ContextOK(ctx) /\ Learnt(ctx, place)
        /\ place \in Nat /\ FileIdLen \in Nat /\ FileIdLen <= place
    BY <1>1, SaidFacts, ReaderFacts, MuxWireParts, MuxerAssumption DEF Apart, KInv
  <2>3. place > FileIdLen
    <3>1. place # FileIdLen
      BY <1>1, <2>2 DEF Said
    <3>2. QED
      BY <2>2, <3>1
  <2>4. ContextOK(e) /\ e.bases = ctx.bases /\ e.streams = ctx.streams /\ e.elision = ctx.elision
    <3>1. e.bases = ctx.bases /\ e.streams = ctx.streams /\ e.elision = ctx.elision
      BY <2>2 DEF ContextOK, IsContext, HeadersClosed
    <3>2. QED
      BY <2>2, <3>1, HeadersClosedKeeps
  <2> HIDE DEF e
  <2>5. d.bases = e.bases /\ d.streams = e.streams /\ d.elision = e.elision
    BY <2>4 DEF ContextOK, IsContext, FrameRead
  <2> HIDE DEF d
  <2>6. Learnt(d, place + w)
    BY <1>1, <2>2, <2>3, <2>4, <2>5, KeepsLearnt
  <2>7. place' # 0 /\ FileIdLen <= place' /\ (place' < wire.end => place' \in DOMAIN wire.unit)
    BY <1>1, <2>1, ReaderLands
  <2>8. QED
    BY <1>1, <2>1, <2>6, <2>7, ReaderLearns
<1>4. QED
  BY <1>2, <1>3

-----------------------------------------------------------------------------
(* The writer's steps.                                                     *)

(* Before there is a wire there is nothing to have learnt.                 *)
LEMMA OpeningLearns ==
  ASSUME PInv, KInv, opened = "no", UNCHANGED reader, wire' \in MuxWires
  PROVE  KInv'
<1>1. place = 0 /\ ctx = NewContext /\ place' = place /\ ctx' = ctx /\ stage' = stage
  BY DEF PInv, RInv, Along, reader
<1>2. stage' \notin {"refused", "panic"}
  BY <1>1 DEF KInv
<1>3. FileIdLen \in Nat \ {0} /\ \A p \in DOMAIN wire'.unit : p \in Nat
  BY MuxerAssumption, MuxWireParts
<1>4. Passed(place)' = {}
  <2>1. \A p \in DOMAIN wire'.unit : ~(p < 0)
    BY <1>3
  <2>2. QED
    BY <1>1, <2>1 DEF Passed
<1>5. Known(ctx') = {}
  BY <1>1 DEF Known, Declared, NewContext
<1>6. HeadersLearnt(ctx)' /\ PassedLearnt(ctx, place)'
  BY <1>4, <1>5 DEF HeadersLearnt, PassedLearnt
<1>7. ~(place' > FileIdLen) /\ ~(place' > 0)
  BY <1>1, <1>3
<1>8. Learnt(ctx, place)'
  BY <1>1, <1>6, <1>7 DEF Learnt
<1>9. QED
  BY <1>2, <1>7, <1>8 DEF KInv, NothingRefused

(* More on the wire is more to come.                                       *)
LEMMA WrittenLearns ==
  ASSUME PInv, KInv, WInv', Grown, Lengthened, MarksGrown, UNCHANGED <<fields, reader>>
  PROVE  KInv'
<1>1. /\ place' = place /\ ctx' = ctx /\ stage' = stage
      /\ UNCHANGED <<opened, streams, timeBases, annotations>>
  BY DEF reader, fields
<1>2. /\ place \in Nat /\ sent \in Nat /\ place <= sent /\ sent <= wire.end /\ wire.end \in Nat
      /\ wire \in MuxWires /\ wire' \in MuxWires /\ Longer(wire, wire')
  BY ReaderFacts DEF Lengthened
<1>3. place <= wire.end /\ wire'.end \in Nat /\ \A p \in DOMAIN wire'.unit : p \in Nat
  <2>1. place <= wire.end
    BY <1>2
  <2>2. wire'.end \in Nat /\ \A p \in DOMAIN wire'.unit : p \in Nat
    <3>1. wire' \in MuxWires
      BY <1>2
    <3>2. QED
      BY <3>1, MuxWireParts
  <2>3. QED
    BY <2>1, <2>2
<1>4. ASSUME NEW p \in DOMAIN wire'.unit, p < place
      PROVE  p \in DOMAIN wire.unit /\ wire'.unit[p] = wire.unit[p]
  <2>1. ~(wire.end <= p)
    BY <1>2, <1>3, <1>4
  <2>2. QED
    BY <1>2, <2>1 DEF Longer
<1>5. PassedLearnt(ctx, place)'
  <2>1. PassedLearnt(ctx, place)
    BY DEF KInv, Learnt
  <2>2. ASSUME NEW p \in Passed(place)' PROVE p \in Passed(place) /\ wire'.unit[p] = wire.unit[p]
    <3>1. p \in DOMAIN wire'.unit /\ p < place
      BY <1>1 DEF Passed
    <3>2. QED
      BY <1>4, <3>1 DEF Passed
  <2>3. QED
    BY <1>1, <2>1, <2>2 DEF PassedLearnt
<1>6. Learnt(ctx, place)'
  <2>1. Count' = Count
    BY <1>1 DEF Count
  <2>2. HeadersLearnt(ctx)'
    BY <1>1 DEF KInv, Learnt, HeadersLearnt, Media
  <2>3. MainLearnt(ctx) => MainLearnt(ctx)'
    BY <1>1, <2>1 DEF MainLearnt
  <2>4. Learnt(ctx, place)
    BY DEF KInv
  <2>5. QED
    BY <1>1, <1>5, <2>2, <2>3, <2>4 DEF Learnt
<1>7. WithinLimits' => WithinLimits
  <2> SUFFICES ASSUME WithinLimits' PROVE WithinLimits
    OBVIOUS
  <2>1. \A i \in DOMAIN written : i \in DOMAIN written' /\ written'[i] = written[i]
    <3> DEFINE n == Len(written)
               m == Len(written')
    <3>1. written \in Seq(Files) /\ written' \in Seq(Files)
      BY DEF PInv, WInv, Filed
    <3>2. /\ n \in Nat /\ m \in Nat /\ DOMAIN written = 1 .. n /\ DOMAIN written' = 1 .. m
      BY <3>1
    <3>3. n <= m /\ \A i \in DOMAIN written : written'[i] = written[i]
      BY DEF Grown, Behind
    <3> HIDE DEF n, m
    <3>4. QED
      BY <3>2, <3>3
  <2>2. \A i \in DOMAIN written : written[i].size <= MaxFrame
    BY <2>1 DEF WithinLimits
  <2>3. \A i \in DOMAIN marks : Sayable(marks[i].pts, streams[Media(marks[i].stream)].base)
    BY <1>1 DEF WithinLimits, MarksGrown, Sayable, FitsSyncpoint, Media
  <2>4. /\ Len(streams) + Len(annotations) <= MaxStreams
        /\ FieldsLen <= MaxHeader
        /\ \A i \in DOMAIN streams : streams[i].header <= MaxHeader
    BY <1>1 DEF WithinLimits
  <2>5. QED
    BY <2>2, <2>3, <2>4 DEF WithinLimits
<1>8. NothingRefused'
  BY <1>1, <1>7 DEF KInv, NothingRefused
<1>9. ASSUME place > 0, place < wire'.end PROVE place \in DOMAIN wire'.unit
  <2>1. CASE place < wire.end
    BY <1>2, <1>9, <2>1 DEF KInv, Longer
  <2>2. CASE ~(place < wire.end)
    <3>1. place = wire.end
      BY <1>2, <1>3, <2>2
    <3>2. QED
      BY <1>9, <3>1 DEF Lengthened
  <2>3. QED
    BY <2>1, <2>2
<1>10. QED
  BY <1>1, <1>6, <1>8, <1>9 DEF KInv

LEMMA WriteLearns ==
  ASSUME PInv, HInv, KInv, MuxerStep, UNCHANGED reader
  PROVE  HInv' /\ KInv'
<1>1. MInv /\ WInv /\ MInv' /\ WInv' /\ Grown
  <2>1. MInv /\ WInv
    BY DEF PInv
  <2>2. QED
    BY <2>1, StepKeeps, WriterKeeps
<1>2. wire' \in MuxWires
  BY <1>1 DEF MInv, WellLaid
<1>3. ASSUME NEW o \in Openings, OpenRefused(o) \/ Open(o) PROVE HInv' /\ KInv'
  <2>1. opened = "no"
    BY <1>3 DEF OpenRefused, Open
  <2>2. KInv'
    BY <1>2, <2>1, OpeningLearns
  <2>3. CASE OpenRefused(o)
    <3>1. opened' # "yes" /\ UNCHANGED <<streams, timeBases, annotations, wire, written, marks>>
      BY <2>3 DEF OpenRefused
    <3>2. QED
      BY <2>2, <3>1, StaysSaid
  <2>4. CASE Open(o)
    BY <1>1, <2>2, <2>4, OpenedSays
  <2>5. QED
    BY <1>3, <2>3, <2>4
<1>4. CASE Still
  <2>1. UNCHANGED <<fields, wire, written, marks, place, ctx>> /\ stage' = stage
    BY <1>4 DEF Still, reader
  <2>2. QED
    BY <2>1, StopLearns DEF KInv, NothingRefused
<1>5. ASSUME NEW id \in Nat \ {0}, NEW pts \in Nat, NEW key \in BOOLEAN, NEW size \in Nat,
             WrittenBy(id, pts, key, size)
      PROVE  HInv' /\ KInv'
  <2>1. HInv' /\ Lengthened /\ MarksGrown
    BY <1>1, <1>5, WrittenSays
  <2>2. UNCHANGED <<fields, reader>>
    BY <1>5 DEF WrittenBy
  <2>3. QED
    BY <1>1, <2>1, <2>2, WrittenLearns
<1>6. QED
  BY <1>1, <1>3, <1>4, <1>5, MuxerSteps

-----------------------------------------------------------------------------
(* What is said and what is learnt of it, together.                        *)

QInv == PInv /\ HInv /\ KInv

LEMMA InitSaid == Init => QInv
<1> SUFFICES ASSUME Init PROVE QInv
  OBVIOUS
<1>1. PInv
  BY InitPiped
<1>2. /\ wire.unit = <<>> /\ wire.end = 0 /\ written = <<>> /\ opened = "no" /\ marks = <<>>
      /\ streams = <<>> /\ annotations = <<>>
      /\ place = 0 /\ ctx = NewContext /\ stage = "reading"
  BY DEF Init, MuxerInit
<1>3. FileIdLen \in Nat \ {0}
  BY MuxerAssumption
<1>4. HInv
  <2>1. ~(FileIdLen < wire.end)
    BY <1>2, <1>3
  <2>2. DOMAIN wire.unit = {}
    BY <1>2
  <2>3. Said(wire) /\ InTurn(wire) /\ Joined(wire) /\ AllMarked(wire, marks)
    BY <2>1, <2>2 DEF Said, InTurn, Joined, AllMarked, StartsOf
  <2>4. QED
    BY <1>2, <2>2, <2>3 DEF HInv
<1>5. KInv
  <2>1. ~(place > FileIdLen) /\ ~(place > 0)
    BY <1>2, <1>3
  <2>2. Passed(place) = {} /\ Known(ctx) = {}
    BY <1>2 DEF Passed, Known, Declared, NewContext
  <2>3. Learnt(ctx, place)
    BY <1>2, <2>1, <2>2 DEF Learnt, HeadersLearnt, PassedLearnt
  <2>4. QED
    BY <1>2, <2>1, <2>3 DEF KInv, NothingRefused
<1>6. QED
  BY <1>1, <1>4, <1>5 DEF QInv

LEMMA NextSaid ==
  ASSUME QInv, [Next]_vars
  PROVE  QInv'
<1>1. PInv /\ HInv /\ KInv /\ PInv'
  BY NextPiped DEF QInv
<1> SUFFICES HInv' /\ KInv'
  BY <1>1 DEF QInv
<1>2. ASSUME UNCHANGED <<fields, wire, written, marks, place, ctx>>,
             stage' \in {stage, "ended", "truncated"}
      PROVE  HInv' /\ KInv'
  BY <1>1, <1>2, StopLearns DEF KInv, NothingRefused
<1>3. CASE Write
  BY <1>1, <1>3, WriteLearns DEF Write
<1>4. CASE Close
  BY <1>2, <1>4 DEF Close, muxer, reader
<1>5. CASE Pass \/ Drop
  BY <1>2, <1>5 DEF Pass, Drop, Spill, reader
<1>6. CASE Read
  <2>1. ReadEnd => HInv' /\ KInv'
    BY <1>2 DEF ReadEnd, muxer
  <2>2. QED
    BY <1>1, <1>6, <2>1, IdentifierLearns, PacketLearns, FrameLearns DEF Read
<1>7. CASE Over \/ UNCHANGED vars
  BY <1>2, <1>7 DEF Over, vars, muxer, reader
<1>8. QED
  BY <1>3, <1>4, <1>5, <1>6, <1>7 DEF Next

LEMMA SaidInvariant == Spec => []QInv
<1>1. Init => QInv
  BY InitSaid
<1>2. QInv /\ [Next]_vars => QInv'
  BY NextSaid
<1>3. QED
  BY <1>1, <1>2, PTL DEF Spec

(* Where a frame is behind the reader, so is every header there is.        *)
LEMMA RatesPassed ==
  ASSUME QInv
  PROVE  RatesKnownAtFrames
<1> SUFFICES ASSUME frames # <<>>, NEW i \in DOMAIN streams
             PROVE  Header(ctx, i).rate = streams[i].rate
  BY DEF RatesKnownAtFrames
<1>1. PInv /\ HInv /\ KInv /\ DeliveredTo(place, frames)
  BY ReaderFacts DEF QInv
<1>2. /\ wire \in MuxWires /\ Filed(wire, written) /\ InTurn(wire)
      /\ place \in Nat /\ FileIdLen \in Nat
  BY <1>1, SaidFacts, ReaderFacts, MuxerAssumption
<1>3. /\ 1 \in DOMAIN written /\ Start(written[1]) < place
  <2> DEFINE n == Len(written)
             k == Len(frames)
  <2>1. frames \in Seq(Files) /\ written \in Seq(Files)
    BY <1>1, <1>2 DEF DeliveredTo, Filed
  <2>2. n \in Nat /\ DOMAIN written = 1 .. n /\ k \in Nat /\ k # 0
    BY <2>1
  <2>3. k <= n /\ \A j \in DOMAIN written : Start(written[j]) < place <=> j <= k
    BY <1>1 DEF DeliveredTo
  <2> HIDE DEF n, k
  <2>4. 1 \in 1 .. n /\ 1 <= k
    BY <2>2, <2>3
  <2>5. QED
    BY <2>2, <2>3, <2>4
<1> DEFINE at == Start(written[1])
<1>4. at \in DOMAIN wire.unit /\ wire.unit[at].kind = "frame" /\ at < place
  <2>1. at \in DOMAIN wire.unit /\ wire.unit[at] = UnitOf(written[1]) /\ at < place
    BY <1>2, <1>3 DEF Filed
  <2>2. UnitOf(written[1]).kind = "frame"
    BY DEF UnitOf, FrameUnit
  <2> HIDE DEF at
  <2>3. QED
    BY <2>1, <2>2
<1>5. opened = "yes" /\ AllSaid(wire)
  <2>1. written # <<>>
    BY <1>3
  <2>2. QED
    BY <1>1, <2>1, SaidFacts DEF HInv
<1> HIDE DEF at
<1>6. ASSUME NEW p \in DOMAIN wire.unit, wire.unit[p].kind \in {"stream", "info"}
      PROVE  p \in Passed(place)
  <2>1. p \in Passed(at)
    BY <1>1, <1>4, <1>5, <1>6, HeadersBefore
  <2>2. p < at /\ at \in Nat /\ p \in Nat
    BY <1>2, <1>4, <2>1, MuxWireParts DEF Passed
  <2>3. p < place
    BY <1>2, <1>4, <2>2
  <2>4. QED
    BY <2>3 DEF Passed
<1>7. PassedLearnt(ctx, place) /\ HeadersLearnt(ctx)
  BY <1>1 DEF KInv, Learnt
<1>8. CASE streams[i].rate # 0
  <2>1. PICK p \in StartsOf(wire, "info") : wire.unit[p].about = i
    BY <1>5, <1>8 DEF AllSaid
  <2>2. p \in DOMAIN wire.unit /\ wire.unit[p].kind = "info"
    BY DEF StartsOf
  <2>3. p \in Passed(place)
    BY <1>6, <2>2
  <2>4. wire.unit[p].rate = streams[i].rate
    BY <1>1, <2>1, <2>2, SaidFacts DEF Said, InfoSaid
  <2>5. QED
    BY <1>7, <2>1, <2>2, <2>3, <2>4 DEF PassedLearnt
<1>9. CASE streams[i].rate = 0
  <2>1. i \in 1 .. Count
    <3> DEFINE n == Len(streams)
               m == Len(annotations)
    <3>1. n \in Nat /\ DOMAIN streams = 1 .. n
      BY <1>1, SaidFacts
    <3>2. m \in Nat
      BY <1>1 DEF PInv, MInv, Opened
    <3> HIDE DEF n, m
    <3>3. i \in 1 .. n + m
      BY <3>1, <3>2
    <3>4. QED
      BY <3>3 DEF Count, n, m
  <2>2. PICK p \in StartsOf(wire, "stream") : wire.unit[p].stream = i
    BY <1>5, <2>1 DEF AllSaid
  <2>3. p \in DOMAIN wire.unit /\ wire.unit[p].kind = "stream"
    BY DEF StartsOf
  <2>4. i \in Known(ctx)
    BY <1>6, <1>7, <2>2, <2>3 DEF PassedLearnt
  <2>5. QED
    BY <1>7, <1>9, <2>4 DEF HeadersLearnt
<1>10. QED
  BY <1>8, <1>9

(* A reader knows every stream's frame rate before it hands on a frame of  *)
(* any: open() writes the info packets behind the stream headers and before*)
(* it returns, apply_info() takes each to its stream, and nothing that is  *)
(* read after takes it back.                                               *)
THEOREM RatesAreKnown == Spec => []RatesKnownAtFrames
<1>1. QInv => RatesKnownAtFrames
  BY RatesPassed
<1>2. QED
  BY <1>1, SaidInvariant, PTL

(* A demuxer refuses and overflows on nothing a muxer writes, up to its    *)
(* limits and as long as a syncpoint can say the times: read_main,         *)
(* read_stream, read_syncpoint, read_info and frame() against open(),      *)
(* write_syncpoint and write_packet_for, also where a writer has failed.   *)
THEOREM NothingIsRefused == Spec => []NothingRefused
<1>1. QInv => NothingRefused
  BY DEF QInv, KInv
<1>2. QED
  BY <1>1, SaidInvariant, PTL

=============================================================================
