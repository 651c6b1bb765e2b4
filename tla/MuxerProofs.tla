---------------------------- MODULE MuxerProofs ----------------------------
(***************************************************************************)
(* Where a muxer's syncpoints are and what they say, for every opening,    *)
(* every size of frame and every way the writer underneath may fail.       *)
(***************************************************************************)
EXTENDS Muxer, NutContextProofs

-----------------------------------------------------------------------------
(* The wires a muxer makes: units that start before the end, the headers   *)
(* first, and, where none is torn, each where the one before ends.         *)

MuxWires ==
  {w \in [nut : BOOLEAN, unit : UNION {[P -> Units] : P \in SUBSET Nat}, end : Nat] :
     \A p \in DOMAIN w.unit : p < w.end}

Uncut(w) == \A p \in DOMAIN w.unit : p + WidthOf(w.unit[p]) <= w.end

EndsOf(w)   == {p + WidthOf(w.unit[p]) : p \in DOMAIN w.unit}
EndToEnd(w) == DOMAIN w.unit \cup {w.end} = {FileIdLen} \cup EndsOf(w)

Apart(w) ==
  /\ \A p \in DOMAIN w.unit : FileIdLen <= p
  /\ \A p, q \in DOMAIN w.unit : p < q => p + WidthOf(w.unit[p]) <= q

StartsOf(w, kind) == {p \in DOMAIN w.unit : w.unit[p].kind = kind}

(* The headers of what a muxer is opened with: each stream's says how its  *)
(* PTS are coded; those of no stream here, as the first stream's are.      *)
SpanAmong(described, id) == described[IF id \in DOMAIN described THEN id ELSE 1].span

HeaderKinds == {"main", "stream", "info"}
HeaderUnitsOf(described) ==
  {u \in Units :
     /\ u.kind \in HeaderKinds
     /\ u.kind = "stream" => u.span = SpanAmong(described, u.stream)}

HeaderWires(described) ==
  {w \in MuxWires :
     /\ w.nut
     /\ EndToEnd(w)
     /\ Apart(w)
     /\ \A p \in DOMAIN w.unit : w.unit[p] \in HeaderUnitsOf(described)}

-----------------------------------------------------------------------------
(* The invariant.                                                          *)

(* A muxer there is has streams, each with its time base among those of    *)
(* the main header; and before there is one nothing is written but headers.*)
Opened ==
  /\ opened \in {"no", "yes", "refused"}
  /\ streams \in Seq(Described)
  /\ timeBases \in Seq(Rationals)
  /\ annotations \in {<<>>} \cup {<<i>> : i \in Nat \ {0}}
  /\ opened = "yes" =>
       /\ streams # <<>>
       /\ \A i \in DOMAIN streams : \E k \in DOMAIN timeBases : timeBases[k] = streams[i].base
  /\ opened # "yes" =>
       /\ marks = <<>>
       /\ \A p \in DOMAIN wire.unit : wire.unit[p].kind \in HeaderKinds

Laying ==
  /\ Apart(wire)
  /\ opened = "yes" /\ Uncut(wire) => wire.nut /\ EndToEnd(wire)

(* Each syncpoint that was written whole is marked, with the way back to   *)
(* the one before; a muxer remembers the last.                             *)
Marks == [at : Nat, back : Nat, stream : Nat, pts : Nat]

Marked(w, last, ms) ==
  /\ ms \in Seq(Marks)
  /\ last = IF ms = <<>> THEN <<>> ELSE <<ms[Len(ms)].at>>
  /\ \A i \in DOMAIN ms : ms[i].at \in StartsOf(w, "syncpoint")
  /\ \A i \in 2 .. Len(ms) :
       /\ ms[i].at - ms[i - 1].at >= MaxDistance
       /\ ms[i].back = (ms[i].at - ms[i - 1].at) \div 16

(* Syncpoints keep their distance, and none is after the one remembered    *)
(* but where the wire ends inside it.                                      *)
Spread(w, last) ==
  /\ \A p, q \in StartsOf(w, "syncpoint") : p < q => q - p >= MaxDistance
  /\ Uncut(w) => \A p \in StartsOf(w, "syncpoint") : last # <<>> /\ p <= last[1]

FramesNear(w) ==
  \A p \in StartsOf(w, "frame") :
    \E s \in StartsOf(w, "syncpoint") : s < p /\ p - s < MaxDistance

WellLaid(w, last, ms) == w \in MuxWires /\ Marked(w, last, ms) /\ Spread(w, last) /\ FramesNear(w)

(* What is said at a mark.                                                 *)
Told(w, ms) ==
  \A i \in DOMAIN ms :
    w.unit[ms[i].at].coded =
      Wrapped(SyncpointField(ms[i].pts, MediaBase(ms[i].stream)), MaxTick)

MInv ==
  /\ Opened
  /\ Laying
  /\ WellLaid(wire, lastSyncpoint, marks)
  /\ Told(wire, marks)

-----------------------------------------------------------------------------
(* Laying a unit, and cutting the wire short.                              *)

LEMMA WidthPositive ==
  ASSUME NEW u \in Units
  PROVE  WidthOf(u) \in Nat \ {0}
<1>1. CASE u.kind = "frame"
  BY <1>1, FrameFields DEF WidthOf
<1>2. CASE u.kind # "frame"
  BY <1>2, PacketFields DEF WidthOf
<1>3. QED
  BY <1>1, <1>2

LEMMA MuxWireParts ==
  ASSUME NEW w \in MuxWires
  PROVE  /\ w = [nut |-> w.nut, unit |-> w.unit, end |-> w.end]
         /\ w.nut \in BOOLEAN
         /\ w.end \in Nat
         /\ DOMAIN w.unit \subseteq Nat
         /\ w.unit = [p \in DOMAIN w.unit |-> w.unit[p]]
         /\ \A p \in DOMAIN w.unit : w.unit[p] \in Units /\ p < w.end
BY DEF MuxWires

LEMMA MuxWireOf ==
  ASSUME NEW nut \in BOOLEAN, NEW end \in Nat, NEW P, P \subseteq Nat,
         NEW unit \in [P -> Units], \A p \in P : p < end
  PROVE  [nut |-> nut, unit |-> unit, end |-> end] \in MuxWires
<1>1. unit \in UNION {[Q -> Units] : Q \in SUBSET Nat}
  OBVIOUS
<1>2. DOMAIN unit = P
  OBVIOUS
<1>3. QED
  BY <1>1, <1>2 DEF MuxWires

LEMMA LaidWire ==
  ASSUME NEW w \in MuxWires, NEW u \in Units
  PROVE  /\ Laid(w, u) \in MuxWires
         /\ Laid(w, u).nut = w.nut
         /\ Laid(w, u).end = w.end + WidthOf(u)
         /\ DOMAIN Laid(w, u).unit = DOMAIN w.unit \cup {w.end}
         /\ Laid(w, u).unit[w.end] = u
         /\ \A p \in DOMAIN w.unit : Laid(w, u).unit[p] = w.unit[p]
<1> DEFINE P == DOMAIN w.unit \cup {w.end}
           unit == [p \in P |-> IF p = w.end THEN u ELSE w.unit[p]]
           end  == w.end + WidthOf(u)
<1>1. /\ w = [nut |-> w.nut, unit |-> w.unit, end |-> w.end]
      /\ w.nut \in BOOLEAN /\ w.end \in Nat /\ DOMAIN w.unit \subseteq Nat
      /\ \A p \in DOMAIN w.unit : w.unit[p] \in Units /\ p < w.end
  BY MuxWireParts
<1>2. WidthOf(u) \in Nat /\ WidthOf(u) # 0
  BY WidthPositive
<1>3. unit \in [P -> Units] /\ P \subseteq Nat
  BY <1>1
<1>4. end \in Nat /\ \A p \in P : p < end
  BY <1>1, <1>2
<1>5. Laid(w, u) = [nut |-> w.nut, unit |-> unit, end |-> end]
  <2>1. Laid(w, u) = [w EXCEPT !.unit = unit, !.end = end]
    BY DEF Laid
  <2> HIDE DEF unit, end
  <2>2. QED
    BY <2>1 DEF MuxWires
<1>6. /\ DOMAIN unit = P
      /\ unit[w.end] = u
      /\ \A p \in DOMAIN w.unit : unit[p] = w.unit[p]
  BY <1>1
<1> HIDE DEF unit, end
<1>7. [nut |-> w.nut, unit |-> unit, end |-> end] \in MuxWires
  BY <1>1, <1>3, <1>4, MuxWireOf
<1>8. QED
  BY <1>5, <1>6, <1>7 DEF end

LEMMA CutWire ==
  ASSUME NEW w \in MuxWires, NEW end \in Nat
  PROVE  /\ CutAt(w, end) \in MuxWires
         /\ CutAt(w, end).nut = w.nut
         /\ CutAt(w, end).end = end
         /\ DOMAIN CutAt(w, end).unit = {p \in DOMAIN w.unit : p < end}
         /\ \A p \in DOMAIN CutAt(w, end).unit : CutAt(w, end).unit[p] = w.unit[p]
<1> DEFINE P == {p \in DOMAIN w.unit : p < end}
           unit == [p \in P |-> w.unit[p]]
<1>1. /\ w = [nut |-> w.nut, unit |-> w.unit, end |-> w.end]
      /\ w.nut \in BOOLEAN /\ w.end \in Nat /\ DOMAIN w.unit \subseteq Nat
      /\ \A p \in DOMAIN w.unit : w.unit[p] \in Units /\ p < w.end
  BY MuxWireParts
<1>2. unit \in [P -> Units] /\ P \subseteq Nat /\ \A p \in P : p < end
  BY <1>1
<1>3. CutAt(w, end) = [nut |-> w.nut, unit |-> unit, end |-> end]
  <2>1. CutAt(w, end) = [w EXCEPT !.unit = unit, !.end = end]
    BY DEF CutAt
  <2> HIDE DEF unit
  <2>2. QED
    BY <2>1 DEF MuxWires
<1>4. DOMAIN unit = P /\ \A p \in P : unit[p] = w.unit[p]
  OBVIOUS
<1> HIDE DEF unit, P
<1>5. [nut |-> w.nut, unit |-> unit, end |-> end] \in MuxWires
  BY <1>1, <1>2, MuxWireOf
<1>6. QED
  BY <1>3, <1>4, <1>5 DEF P

(* All of a wire is itself.                                                *)
LEMMA CutNowhere ==
  ASSUME NEW w \in MuxWires
  PROVE  CutAt(w, w.end) = w
<1>1. /\ w = [nut |-> w.nut, unit |-> w.unit, end |-> w.end]
      /\ w.unit = [p \in DOMAIN w.unit |-> w.unit[p]]
      /\ \A p \in DOMAIN w.unit : p < w.end
  BY MuxWireParts
<1>2. {p \in DOMAIN w.unit : p < w.end} = DOMAIN w.unit
  BY <1>1
<1>3. QED
  BY <1>1, <1>2 DEF CutAt

LEMMA LaidEndToEnd ==
  ASSUME NEW w \in MuxWires, EndToEnd(w), NEW u \in Units
  PROVE  EndToEnd(Laid(w, u))
<1> DEFINE v == Laid(w, u)
<1>1. /\ v.end = w.end + WidthOf(u)
      /\ DOMAIN v.unit = DOMAIN w.unit \cup {w.end}
      /\ v.unit[w.end] = u
      /\ \A p \in DOMAIN w.unit : v.unit[p] = w.unit[p]
  BY LaidWire
<1> HIDE DEF v
<1>2. EndsOf(v) = EndsOf(w) \cup {v.end}
  <2>1. \A p \in DOMAIN w.unit : p + WidthOf(v.unit[p]) = p + WidthOf(w.unit[p])
    BY <1>1
  <2>2. w.end + WidthOf(v.unit[w.end]) = v.end
    BY <1>1
  <2>3. QED
    BY <1>1, <2>1, <2>2 DEF EndsOf
<1>3. EndToEnd(v)
  BY <1>1, <1>2 DEF EndToEnd
<1>4. QED
  BY <1>3 DEF v

LEMMA EndToEndUncut ==
  ASSUME NEW w \in MuxWires, EndToEnd(w)
  PROVE  Uncut(w)
<1> SUFFICES ASSUME NEW p \in DOMAIN w.unit PROVE p + WidthOf(w.unit[p]) <= w.end
  BY DEF Uncut
<1>1. p + WidthOf(w.unit[p]) \in DOMAIN w.unit \cup {w.end}
  BY DEF EndToEnd, EndsOf
<1>2. w.end \in Nat /\ \A q \in DOMAIN w.unit : q \in Nat /\ q < w.end
  BY MuxWireParts
<1>3. QED
  BY <1>1, <1>2

(* A unit behind the last, whole or not, is apart from those before it.    *)
LEMMA BegunApart ==
  ASSUME NEW w \in MuxWires, Apart(w), EndToEnd(w), NEW u, NEW v,
         DOMAIN v.unit = DOMAIN w.unit \cup {w.end},
         v.unit[w.end] = u,
         \A p \in DOMAIN w.unit : v.unit[p] = w.unit[p]
  PROVE  Apart(v)
<1>1. /\ w.end \in Nat
      /\ \A p \in DOMAIN w.unit : p \in Nat /\ p < w.end /\ w.unit[p] \in Units
  BY MuxWireParts
<1>2. \A p \in DOMAIN w.unit : p + WidthOf(w.unit[p]) <= w.end
  BY EndToEndUncut DEF Uncut
<1>3. FileIdLen \in Nat
  BY MuxerAssumption
<1>4. FileIdLen <= w.end
  <2>1. w.end = FileIdLen \/ \E p \in DOMAIN w.unit : FileIdLen <= p
    BY DEF Apart, EndToEnd, EndsOf
  <2>2. QED
    BY <1>1, <1>3, <2>1
<1>5. \A p \in DOMAIN v.unit : FileIdLen <= p
  BY <1>4 DEF Apart
<1>6. ASSUME NEW p \in DOMAIN v.unit, NEW q \in DOMAIN v.unit, p < q
      PROVE  p + WidthOf(v.unit[p]) <= q
  <2>1. p \in DOMAIN w.unit
    BY <1>1, <1>6
  <2>2. CASE q \in DOMAIN w.unit
    BY <1>6, <2>1, <2>2 DEF Apart
  <2>3. CASE q = w.end
    BY <1>2, <2>1, <2>3
  <2>4. QED
    BY <2>2, <2>3
<1>7. QED
  BY <1>5, <1>6 DEF Apart

-----------------------------------------------------------------------------
(* What a muxer is opened with, and the headers it makes of that.          *)

LEMMA NamedKeeps ==
  ASSUME NEW bases \in Seq(Rationals), NEW stream \in Described
  PROVE  /\ Named(bases, stream) \in Seq(Rationals)
         /\ \A k \in DOMAIN bases :
              k \in DOMAIN Named(bases, stream) /\ Named(bases, stream)[k] = bases[k]
         /\ \E k \in DOMAIN Named(bases, stream) : Named(bases, stream)[k] = stream.base
<1>1. stream.base \in Rationals
  BY DEF Described
<1>2. CASE \E k \in DOMAIN bases : bases[k] = stream.base
  BY <1>2 DEF Named
<1>3. CASE ~\E k \in DOMAIN bases : bases[k] = stream.base
  <2>1. Named(bases, stream) = Append(bases, stream.base)
    BY <1>3 DEF Named
  <2> DEFINE b == stream.base
  <2> HIDE DEF b
  <2>2. /\ Append(bases, b) \in Seq(Rationals)
        /\ \A k \in DOMAIN bases : k \in DOMAIN Append(bases, b) /\ Append(bases, b)[k] = bases[k]
        /\ Len(bases) + 1 \in DOMAIN Append(bases, b)
        /\ Append(bases, b)[Len(bases) + 1] = b
    BY <1>1 DEF b
  <2>3. QED
    BY <2>1, <2>2 DEF b
<1>4. QED
  BY <1>2, <1>3

LEMMA TimeBasesNamed ==
  ASSUME NEW described \in Seq(Described)
  PROVE  /\ TimeBasesOf(described) \in Seq(Rationals)
         /\ \A i \in DOMAIN described :
              \E k \in DOMAIN TimeBasesOf(described) :
                TimeBasesOf(described)[k] = described[i].base
<1> DEFINE n == Len(described)
           S == Seq(Rationals)
           Defines(g) ==
             g = [i \in 0 .. n |-> IF i = 0 THEN <<>> ELSE Named(g[i - 1], described[i])]
           named == CHOOSE g : Defines(g)
           step  == [x \in S \X (1 .. n) |-> Named(x[1], described[x[2]])]
<1>1. n \in Nat /\ DOMAIN described = 1 .. n /\ \A i \in 1 .. n : described[i] \in Described
  OBVIOUS
<1>2. \A b \in S, i \in 1 .. n : Named(b, described[i]) \in S
  BY <1>1, NamedKeeps
<1>3. step \in [S \X (1 .. n) -> S] /\ <<>> \in S
  BY <1>2
<1>4. TimeBasesOf(described) = named[n]
  BY DEF TimeBasesOf
<1> HIDE DEF n, S
<1>5. PICK g \in [0 .. n -> S] :
        g[0] = <<>> /\ \A i \in 1 .. n : g[i] = step[<<g[i - 1], i>>]
  <2>1. Folds(S, <<>>, step, n) # {}
    <3> HIDE DEF step
    <3>1. QED
      BY <1>1, <1>3, FoldExists
  <2>2. QED
    BY <2>1 DEF Folds
<1>6. Defines(g)
  <2>1. ASSUME NEW i \in 1 .. n PROVE g[i] = Named(g[i - 1], described[i])
    <3>1. i - 1 \in 0 .. n
      BY <1>1
    <3>2. g[i - 1] \in S
      BY <1>5, <3>1
    <3>3. step[<<g[i - 1], i>>] = Named(g[i - 1], described[i])
      BY <3>2
    <3>4. QED
      BY <1>5, <3>3
  <2>2. QED
    BY <1>1, <1>5, <2>1
<1>7. Defines(named)
  BY <1>6
<1> HIDE DEF named
<1>8. named[0] = <<>> /\ \A i \in 1 .. n : named[i] = Named(named[i - 1], described[i])
  BY <1>1, <1>7
<1>9. \A i \in 0 .. n : named[i] \in S
  <2>1. \A i \in 1 .. n : named[i - 1] \in S => named[i] \in S
    BY <1>2, <1>8
  <2>2. QED
    BY <1>1, <1>3, <1>8, <2>1, FoldKeeps
<1> DEFINE Has(m, i) == \E k \in DOMAIN named[m] : named[m][k] = described[i].base
           T == {m \in Nat : m <= n => \A i \in 1 .. m : Has(m, i)}
<1>10. 0 \in T
  OBVIOUS
<1>11. ASSUME NEW m \in Nat, m \in T PROVE m + 1 \in T
  <2> SUFFICES ASSUME m + 1 <= n, NEW i \in 1 .. m + 1 PROVE Has(m + 1, i)
    OBVIOUS
  <2>1. /\ named[m] \in S
        /\ described[m + 1] \in Described
        /\ named[m + 1] = Named(named[m], described[m + 1])
    BY <1>1, <1>8, <1>9
  <2>2. named[m] \in Seq(Rationals)
    BY <2>1 DEF S
  <2>3. /\ \A k \in DOMAIN named[m] :
             /\ k \in DOMAIN Named(named[m], described[m + 1])
             /\ Named(named[m], described[m + 1])[k] = named[m][k]
        /\ \E k \in DOMAIN Named(named[m], described[m + 1]) :
             Named(named[m], described[m + 1])[k] = described[m + 1].base
    BY <2>1, <2>2, NamedKeeps
  <2>4. /\ \A k \in DOMAIN named[m] : k \in DOMAIN named[m + 1] /\ named[m + 1][k] = named[m][k]
        /\ \E k \in DOMAIN named[m + 1] : named[m + 1][k] = described[m + 1].base
    BY <2>1, <2>3
  <2>5. CASE i = m + 1
    BY <2>4, <2>5
  <2>6. CASE i \in 1 .. m
    <3>1. Has(m, i)
      BY <1>1, <1>11, <2>6
    <3>2. QED
      BY <2>4, <3>1
  <2>7. QED
    BY <2>5, <2>6
<1> HIDE DEF T
<1>12. Nat \subseteq T
  BY <1>10, <1>11, Induction
<1>13. \A i \in 1 .. n : Has(n, i)
  BY <1>1, <1>12 DEF T
<1>14. n \in 0 .. n
  BY <1>1
<1>15. named[n] \in Seq(Rationals)
  BY <1>9, <1>14 DEF S
<1>16. QED
  BY <1>1, <1>4, <1>13, <1>15

LEMMA RateUnitsType ==
  ASSUME NEW described \in Seq(Described)
  PROVE  RateUnits(described) \in Seq(InfoUnits)
<1> DEFINE n == Len(described)
           S == Seq(InfoUnits)
           More(rates, i) ==
             IF described[i].rate = 0 THEN rates
             ELSE Append(rates, RateUnit(i, described[i].rate))
           Defines(g) ==
             g = [i \in 0 .. n |-> IF i = 0 THEN <<>> ELSE More(g[i - 1], i)]
           rates == CHOOSE g : Defines(g)
           step  == [x \in S \X (1 .. n) |-> More(x[1], x[2])]
<1>1. n \in Nat /\ \A i \in 1 .. n : described[i] \in Described
  OBVIOUS
<1>2. \A r \in S, i \in 1 .. n : More(r, i) \in S
  <2> TAKE r \in S, i \in 1 .. n
  <2>1. described[i].rate \in Nat /\ i \in Nat
    BY <1>1 DEF Described
  <2>2. RateUnit(i, described[i].rate) \in InfoUnits
    <3>1. <<(<<0, described[i].rate>>)>> \in Seq(Nat \X Nat)
      BY <2>1
    <3>2. PacketHead \in Nat \ {0} /\ FieldsLen \in Nat
      BY MuxerAssumption
    <3>3. QED
      BY <2>1, <3>1, <3>2 DEF RateUnit, InfoUnits
  <2>3. QED
    BY <2>2
<1>3. step \in [S \X (1 .. n) -> S] /\ <<>> \in S
  <2> HIDE DEF More
  <2>1. QED
    BY <1>2
<1>4. RateUnits(described) = rates[n]
  BY DEF RateUnits
<1> HIDE DEF n, S, More
<1>5. PICK g \in [0 .. n -> S] :
        g[0] = <<>> /\ \A i \in 1 .. n : g[i] = step[<<g[i - 1], i>>]
  <2>1. Folds(S, <<>>, step, n) # {}
    <3> HIDE DEF step
    <3>1. QED
      BY <1>1, <1>3, FoldExists
  <2>2. QED
    BY <2>1 DEF Folds
<1>6. Defines(g)
  <2>1. ASSUME NEW i \in 1 .. n PROVE g[i] = More(g[i - 1], i)
    <3>1. i - 1 \in 0 .. n
      BY <1>1
    <3>2. g[i - 1] \in S
      BY <1>5, <3>1
    <3>3. step[<<g[i - 1], i>>] = More(g[i - 1], i)
      BY <3>2
    <3>4. QED
      BY <1>5, <3>3
  <2>2. QED
    BY <1>1, <1>5, <2>1
<1>7. Defines(rates)
  BY <1>6
<1> HIDE DEF rates
<1>8. rates[0] = <<>> /\ \A i \in 1 .. n : rates[i] = More(rates[i - 1], i)
  BY <1>1, <1>7
<1>9. \A i \in 0 .. n : rates[i] \in S
  <2>1. \A i \in 1 .. n : rates[i - 1] \in S => rates[i] \in S
    BY <1>2, <1>8
  <2>2. QED
    BY <1>1, <1>3, <1>8, <2>1, FoldKeeps
<1>10. QED
  BY <1>1, <1>4, <1>9 DEF S

LEMMA BaseFound ==
  ASSUME NEW bases \in Seq(Rationals), NEW stream,
         \E k \in DOMAIN bases : bases[k] = stream.base
  PROVE  /\ BaseOf(bases, stream) \in 1 .. Len(bases)
         /\ bases[BaseOf(bases, stream)] = stream.base
BY DEF BaseOf

LEMMA HeaderUnitsType ==
  ASSUME NEW o \in Openings, ~Unopenable(o)
  PROVE  HeaderUnits(o) \in Seq(HeaderUnitsOf(o.streams))
<1> DEFINE n     == Len(o.streams)
           bases == TimeBasesOf(o.streams)
           main  == <<MainUnit(bases, Len(o.streams) + (IF o.annotated THEN 1 ELSE 0))>>
           each  == [i \in DOMAIN o.streams |-> StreamUnit(bases, o.streams, i)]
           last  == IF o.annotated THEN <<AnnotationUnit(bases, o.streams)>> ELSE <<>>
           rates == RateUnits(o.streams)
           H     == HeaderUnitsOf(o.streams)
<1>1. /\ o.streams \in Seq(Described) /\ o.annotated \in BOOLEAN
      /\ PacketHead \in Nat \ {0} /\ FieldsLen \in Nat
  BY MuxerAssumption
<1>2. n \in Nat \ {0} /\ DOMAIN o.streams = 1 .. n /\ \A i \in 1 .. n : o.streams[i] \in Described
  BY <1>1 DEF Unopenable
<1>3. /\ bases \in Seq(Rationals)
      /\ \A i \in 1 .. n : \E k \in DOMAIN bases : bases[k] = o.streams[i].base
  <2> HIDE DEF n, bases
  <2>1. /\ TimeBasesOf(o.streams) \in Seq(Rationals)
        /\ \A i \in DOMAIN o.streams :
             \E k \in DOMAIN TimeBasesOf(o.streams) :
               TimeBasesOf(o.streams)[k] = o.streams[i].base
    BY <1>1, TimeBasesNamed
  <2>2. QED
    BY <1>2, <2>1 DEF bases
<1>4. HeaderUnits(o) = main \o each \o last \o rates
  BY DEF HeaderUnits
<1> HIDE DEF bases, n
<1>5. main \in Seq(H)
  <2>1. bases # <<>>
    BY <1>2, <1>3
  <2>2. n + (IF o.annotated THEN 1 ELSE 0) \in Nat
    BY <1>1, <1>2
  <2>3. MainUnit(bases, n + (IF o.annotated THEN 1 ELSE 0)) \in MainUnits
    BY <1>1, <1>3, <2>1, <2>2 DEF MainUnit, MainUnits
  <2>4. MainUnits \subseteq H
    BY DEF MainUnits, Units, Packets, HeaderUnitsOf, HeaderKinds
  <2> DEFINE m == MainUnit(bases, n + (IF o.annotated THEN 1 ELSE 0))
  <2>5. m \in H /\ main = <<m>>
    BY <2>3, <2>4 DEF n
  <2> HIDE DEF m, main, H
  <2>6. QED
    BY <2>5
<1>6. \A i \in 1 .. n : /\ StreamUnit(bases, o.streams, i) \in StreamUnits
                        /\ StreamUnit(bases, o.streams, i).span = SpanAmong(o.streams, i)
                        /\ StreamUnit(bases, o.streams, i).stream = i
  <2> TAKE i \in 1 .. n
  <2>1. BaseOf(bases, o.streams[i]) \in Nat
    BY <1>3, BaseFound
  <2>2. o.streams[i] \in Described /\ i \in Nat \ {0}
    BY <1>2
  <2>3. StreamUnit(bases, o.streams, i) \in StreamUnits
    BY <1>1, <2>1, <2>2 DEF StreamUnit, StreamUnits, Described
  <2>4. QED
    BY <1>2, <2>3 DEF StreamUnit, SpanAmong
<1>7. /\ \A u \in StreamUnits : u.span = SpanAmong(o.streams, u.stream) => u \in H
      /\ InfoUnits \subseteq H
  BY DEF StreamUnits, InfoUnits, Units, Packets, HeaderUnitsOf, HeaderKinds
<1>8. each \in Seq(H)
  <2>1. each = [i \in 1 .. n |-> StreamUnit(bases, o.streams, i)]
    BY <1>2
  <2>2. QED
    BY <1>2, <1>6, <1>7, <2>1
<1>9. last \in Seq(H)
  <2>1. /\ StreamUnit(bases, o.streams, 1) \in StreamUnits
        /\ StreamUnit(bases, o.streams, 1).span = o.streams[1].span
    BY <1>2, <1>6 DEF SpanAmong
  <2> DEFINE u == StreamUnit(bases, o.streams, 1)
             a == AnnotationUnit(bases, o.streams)
  <2>2. a \in StreamUnits /\ a.span = o.streams[1].span /\ a.stream = n + 1
    <3>1. AnnotationUnit(bases, o.streams)
            = [u EXCEPT !.body = FieldsLen, !.stream = n + 1, !.delay = 0]
      BY DEF AnnotationUnit, n
    <3> HIDE DEF u
    <3>2. n + 1 \in Nat \ {0}
      BY <1>2
    <3>3. u \in StreamUnits /\ u.span = o.streams[1].span
      BY <2>1 DEF u
    <3> DEFINE x == [u EXCEPT !.body = FieldsLen, !.stream = n + 1, !.delay = 0]
    <3>4. x \in StreamUnits /\ x.span = u.span /\ x.stream = n + 1
      BY <1>1, <3>2, <3>3 DEF StreamUnits
    <3>5. QED
      BY <3>1, <3>3, <3>4
  <2>3. a.span = SpanAmong(o.streams, a.stream)
    <3>1. n + 1 \notin DOMAIN o.streams
      BY <1>2
    <3>2. QED
      BY <2>2, <3>1 DEF SpanAmong
  <2> HIDE DEF a
  <2>4. a \in H
    BY <1>7, <2>2, <2>3
  <2>5. AnnotationUnit(bases, o.streams) \in H
    BY <2>4 DEF a
  <2> HIDE DEF H
  <2>6. QED
    BY <2>5
<1>10. rates \in Seq(H)
  <2>1. rates \in Seq(InfoUnits)
    BY <1>1, RateUnitsType
  <2>2. QED
    BY <1>7, <2>1
<1> HIDE DEF main, each, last, rates, H
<1>11. main \o each \o last \o rates \in Seq(H)
  BY <1>5, <1>8, <1>9, <1>10
<1>12. QED
  BY <1>4, <1>11 DEF H

LEMMA BeforeTooWideType ==
  ASSUME NEW described, NEW units \in Seq(HeaderUnitsOf(described))
  PROVE  BeforeTooWide(units) \in Seq(HeaderUnitsOf(described))
<1>1. CASE TooWide(units) = {}
  BY <1>1 DEF BeforeTooWide
<1>2. CASE TooWide(units) # {}
  <2>1. TooWide(units) \subseteq 1 .. Len(units) /\ Len(units) \in Nat
    BY DEF TooWide
  <2>2. \E i \in TooWide(units) : \A j \in TooWide(units) : i <= j
    <3>1. TooWide(units) \subseteq Nat
      BY <2>1
    <3>2. QED
      BY <1>2, <3>1, LeastOf
  <2>3. FirstTooWide(units) \in 1 .. Len(units)
    BY <2>1, <2>2 DEF FirstTooWide
  <2> DEFINE k == FirstTooWide(units) - 1
  <2>4. k \in Nat /\ k <= Len(units)
    BY <2>1, <2>3
  <2> HIDE DEF k
  <2>5. SubSeq(units, 1, k) \in Seq(HeaderUnitsOf(described))
    BY <2>1, <2>4
  <2>6. QED
    BY <1>2, <2>5 DEF BeforeTooWide, k
<1>3. QED
  BY <1>1, <1>2

LEMMA LaidHeader ==
  ASSUME NEW described, NEW w \in HeaderWires(described), NEW u \in HeaderUnitsOf(described)
  PROVE  Laid(w, u) \in HeaderWires(described)
<1>1. w \in MuxWires /\ w.nut /\ EndToEnd(w) /\ Apart(w) /\ u \in Units
  BY DEF HeaderWires, HeaderUnitsOf
<1> DEFINE v == Laid(w, u)
<1>2. /\ v \in MuxWires
      /\ v.nut = w.nut
      /\ DOMAIN v.unit = DOMAIN w.unit \cup {w.end}
      /\ v.unit[w.end] = u
      /\ \A p \in DOMAIN w.unit : v.unit[p] = w.unit[p]
  BY <1>1, LaidWire
<1>3. EndToEnd(v)
  BY <1>1, LaidEndToEnd
<1> HIDE DEF v
<1>4. \A p \in DOMAIN v.unit : v.unit[p] \in HeaderUnitsOf(described)
  BY <1>2 DEF HeaderWires
<1>5. Apart(v)
  BY <1>1, <1>2, BegunApart
<1>6. v \in HeaderWires(described)
  BY <1>1, <1>2, <1>3, <1>4, <1>5 DEF HeaderWires
<1>7. QED
  BY <1>6 DEF v

LEMMA LaidHeaders ==
  ASSUME NEW described, NEW w \in HeaderWires(described),
         NEW units \in Seq(HeaderUnitsOf(described))
  PROVE  LaidAll(w, units) \in HeaderWires(described)
<1> DEFINE n == Len(units)
           H == HeaderWires(described)
           Defines(g) == g = [i \in 0 .. n |-> IF i = 0 THEN w ELSE Laid(g[i - 1], units[i])]
           after == CHOOSE g : Defines(g)
           step  == [x \in H \X (1 .. n) |-> Laid(x[1], units[x[2]])]
<1>1. n \in Nat /\ \A i \in 1 .. n : units[i] \in HeaderUnitsOf(described)
  OBVIOUS
<1>2. \A v \in H, i \in 1 .. n : Laid(v, units[i]) \in H
  BY <1>1, LaidHeader
<1>3. step \in [H \X (1 .. n) -> H]
  BY <1>2
<1>4. LaidAll(w, units) = after[n]
  BY DEF LaidAll
<1> HIDE DEF n, H
<1>5. PICK g \in [0 .. n -> H] :
        g[0] = w /\ \A i \in 1 .. n : g[i] = step[<<g[i - 1], i>>]
  <2>1. Folds(H, w, step, n) # {}
    <3> HIDE DEF step
    <3>1. w \in H
      BY DEF H
    <3>2. QED
      BY <1>1, <1>3, <3>1, FoldExists
  <2>2. QED
    BY <2>1 DEF Folds
<1>6. Defines(g)
  <2>1. ASSUME NEW i \in 1 .. n PROVE g[i] = Laid(g[i - 1], units[i])
    <3>1. i - 1 \in 0 .. n
      BY <1>1
    <3>2. g[i - 1] \in H
      BY <1>5, <3>1
    <3>3. step[<<g[i - 1], i>>] = Laid(g[i - 1], units[i])
      BY <3>2
    <3>4. QED
      BY <1>5, <3>3
  <2>2. QED
    BY <1>1, <1>5, <2>1
<1>7. Defines(after)
  BY <1>6
<1> HIDE DEF after
<1>8. after[0] = w /\ \A i \in 1 .. n : after[i] = Laid(after[i - 1], units[i])
  BY <1>1, <1>7
<1>9. \A i \in 0 .. n : after[i] \in H
  <2>1. \A i \in 1 .. n : after[i - 1] \in H => after[i] \in H
    BY <1>2, <1>8
  <2>2. after[0] \in H
    BY <1>8 DEF H
  <2>3. QED
    BY <1>1, <2>1, <2>2, FoldKeeps
<1>10. QED
  BY <1>1, <1>4, <1>9 DEF H

LEMMA OpenWireIsOne ==
  ASSUME NEW described
  PROVE  OpenWire \in HeaderWires(described)
<1>1. <<>> \in [{} -> Units] /\ DOMAIN <<>> = {}
  OBVIOUS
<1>2. FileIdLen \in Nat
  BY MuxerAssumption
<1>3. OpenWire \in MuxWires
  BY <1>1, <1>2, MuxWireOf DEF OpenWire
<1>4. EndToEnd(OpenWire)
  BY <1>1 DEF EndToEnd, EndsOf, OpenWire
<1>5. QED
  BY <1>1, <1>3, <1>4 DEF HeaderWires, OpenWire, Apart

-----------------------------------------------------------------------------
(* A syncpoint, a frame behind one that is near enough, and either of them *)
(* where the writer underneath failed.                                     *)

LEMMA CutLaid ==
  ASSUME NEW w \in MuxWires, NEW u \in Units, NEW end \in Nat, end <= w.end
  PROVE  CutAt(Laid(w, u), end) = CutAt(w, end)
<1> DEFINE v == Laid(w, u)
           P == {p \in DOMAIN w.unit : p < end}
<1>1. /\ v \in MuxWires
      /\ v.nut = w.nut
      /\ DOMAIN v.unit = DOMAIN w.unit \cup {w.end}
      /\ \A p \in DOMAIN w.unit : v.unit[p] = w.unit[p]
  BY LaidWire
<1>2. w.end \in Nat
  BY MuxWireParts
<1> HIDE DEF v
<1>3. {p \in DOMAIN v.unit : p < end} = P
  BY <1>1, <1>2
<1>4. [p \in {q \in DOMAIN v.unit : q < end} |-> v.unit[p]] = [p \in P |-> w.unit[p]]
  BY <1>1, <1>3
<1>5. CutAt(v, end) = [nut |-> w.nut, unit |-> [p \in P |-> w.unit[p]], end |-> end]
  <2> DEFINE unit == [p \in {q \in DOMAIN v.unit : q < end} |-> v.unit[p]]
  <2>1. CutAt(v, end) = [v EXCEPT !.unit = unit, !.end = end]
    BY DEF CutAt
  <2>2. unit = [p \in P |-> w.unit[p]]
    BY <1>4
  <2> HIDE DEF unit, P
  <2>3. QED
    BY <1>1, <2>1, <2>2 DEF MuxWires
<1>6. CutAt(w, end) = [nut |-> w.nut, unit |-> [p \in P |-> w.unit[p]], end |-> end]
  <2> DEFINE unit == [p \in P |-> w.unit[p]]
  <2>1. CutAt(w, end) = [w EXCEPT !.unit = unit, !.end = end]
    BY DEF CutAt
  <2> HIDE DEF unit
  <2>2. CutAt(w, end) = [nut |-> w.nut, unit |-> unit, end |-> end]
    BY <2>1 DEF MuxWires
  <2>3. QED
    BY <2>2 DEF unit
<1>7. QED
  BY <1>5, <1>6 DEF v

(* What starts where after a unit, or part of it.                          *)
LEMMA Begun ==
  ASSUME NEW w \in MuxWires, NEW u \in Units, NEW end \in Nat, w.end < end
  PROVE  LET v == CutAt(Laid(w, u), end)
         IN  /\ v \in MuxWires
             /\ DOMAIN v.unit = DOMAIN w.unit \cup {w.end}
             /\ v.unit[w.end] = u
             /\ \A p \in DOMAIN w.unit : v.unit[p] = w.unit[p]
             /\ v.end = end
<1> DEFINE l == Laid(w, u)
           v == CutAt(l, end)
<1>1. /\ l \in MuxWires
      /\ DOMAIN l.unit = DOMAIN w.unit \cup {w.end}
      /\ l.unit[w.end] = u
      /\ \A p \in DOMAIN w.unit : l.unit[p] = w.unit[p]
  BY LaidWire
<1>2. w.end \in Nat /\ \A p \in DOMAIN w.unit : p < w.end /\ p \in Nat
  BY MuxWireParts
<1> HIDE DEF l
<1>3. /\ v \in MuxWires
      /\ v.end = end
      /\ DOMAIN v.unit = {p \in DOMAIN l.unit : p < end}
      /\ \A p \in DOMAIN v.unit : v.unit[p] = l.unit[p]
  BY <1>1, CutWire
<1> HIDE DEF v
<1>4. DOMAIN v.unit = DOMAIN w.unit \cup {w.end}
  BY <1>1, <1>2, <1>3
<1>5. /\ v.unit[w.end] = u
      /\ \A p \in DOMAIN w.unit : v.unit[p] = w.unit[p]
  BY <1>1, <1>3, <1>4
<1>6. QED
  BY <1>3, <1>4, <1>5 DEF v, l

LEMMA BegunStarts ==
  ASSUME NEW w \in MuxWires, NEW u, NEW v,
         DOMAIN v.unit = DOMAIN w.unit \cup {w.end},
         v.unit[w.end] = u,
         \A p \in DOMAIN w.unit : v.unit[p] = w.unit[p],
         NEW kind
  PROVE  StartsOf(v, kind) = StartsOf(w, kind) \cup (IF u.kind = kind THEN {w.end} ELSE {})
<1>1. \A p \in DOMAIN w.unit : p # w.end
  <2>1. w.end \in Nat /\ \A p \in DOMAIN w.unit : p \in Nat /\ p < w.end
    BY MuxWireParts
  <2>2. QED
    BY <2>1
<1>2. QED
  BY <1>1 DEF StartsOf

LEMMA SyncpointLaid ==
  ASSUME NEW w, NEW last, NEW ms, WellLaid(w, last, ms), Uncut(w),
         NEW u \in Units, u.kind = "syncpoint",
         \A i \in DOMAIN last : w.end - last[i] >= MaxDistance,
         NEW mark \in Marks, mark.at = w.end,
         mark.back = IF last = <<>> THEN 0 ELSE (w.end - last[1]) \div 16
  PROVE  WellLaid(Laid(w, u), <<w.end>>, Append(ms, mark))
<1> DEFINE v  == Laid(w, u)
           n  == Len(ms)
           nu == Append(ms, mark)
           S(x) == StartsOf(x, "syncpoint")
<1>1. /\ w \in MuxWires /\ w.end \in Nat
      /\ \A p \in S(w) : p \in Nat /\ p < w.end
      /\ MaxDistance \in Nat
  <2>1. w \in MuxWires
    BY DEF WellLaid
  <2>2. QED
    BY <2>1, MuxWireParts, MuxerAssumption DEF StartsOf
<1>2. /\ v \in MuxWires
      /\ DOMAIN v.unit = DOMAIN w.unit \cup {w.end}
      /\ v.unit[w.end] = u
      /\ \A p \in DOMAIN w.unit : v.unit[p] = w.unit[p]
  BY <1>1, LaidWire
<1> HIDE DEF v
<1>3. S(v) = S(w) \cup {w.end} /\ StartsOf(v, "frame") = StartsOf(w, "frame")
  <2>1. \A kind : StartsOf(v, kind) = StartsOf(w, kind) \cup (IF u.kind = kind THEN {w.end} ELSE {})
    BY <1>1, <1>2, BegunStarts
  <2>2. QED
    BY <2>1
<1>4. /\ ms \in Seq(Marks) /\ n \in Nat /\ DOMAIN ms = 1 .. n
      /\ last = IF ms = <<>> THEN <<>> ELSE <<ms[n].at>>
      /\ \A i \in 1 .. n : ms[i].at \in S(w)
      /\ \A i \in 2 .. n : /\ ms[i].at - ms[i - 1].at >= MaxDistance
                           /\ ms[i].back = (ms[i].at - ms[i - 1].at) \div 16
  BY DEF WellLaid, Marked
<1>5. \A p \in S(w) : w.end - p >= MaxDistance
  <2> TAKE p \in S(w)
  <2>1. last # <<>> /\ p <= last[1]
    BY DEF WellLaid, Spread
  <2>2. last = <<ms[n].at>> /\ ms[n].at \in S(w)
    BY <1>4, <2>1
  <2>3. w.end - last[1] >= MaxDistance
    BY <2>2
  <2>4. QED
    BY <1>1, <2>1, <2>2, <2>3
<1>6. /\ nu \in Seq(Marks) /\ Len(nu) = n + 1 /\ nu # <<>>
      /\ \A i \in 1 .. n : nu[i] = ms[i]
      /\ nu[n + 1] = mark
  <2>1. ms \in Seq(Marks)
    BY <1>4
  <2>2. QED
    BY <2>1
<1> HIDE DEF n, nu, S
<1>7. Marked(v, <<w.end>>, nu)
  <2>1. ASSUME NEW i \in 1 .. n + 1 PROVE nu[i].at \in S(v)
    <3>1. CASE i \in 1 .. n
      BY <1>3, <1>4, <1>6, <3>1
    <3>2. CASE i = n + 1
      BY <1>3, <1>6, <3>2
    <3>3. QED
      BY <1>4, <3>1, <3>2
  <2>2. ASSUME NEW i \in 2 .. n + 1
        PROVE  /\ nu[i].at - nu[i - 1].at >= MaxDistance
               /\ nu[i].back = (nu[i].at - nu[i - 1].at) \div 16
    <3>1. CASE i \in 2 .. n
      <4>1. i - 1 \in 1 .. n /\ i \in 1 .. n
        BY <1>4, <3>1
      <4>2. QED
        BY <1>4, <1>6, <3>1, <4>1
    <3>2. CASE i = n + 1
      <4>1. i - 1 = n /\ n \in 1 .. n
        BY <1>4, <3>2
      <4>2. last = <<ms[n].at>> /\ ms[n].at \in S(w)
        BY <1>4, <4>1
      <4>3. nu[i] = mark /\ nu[i - 1] = ms[n]
        BY <1>6, <3>2, <4>1
      <4>4. last # <<>> /\ last[1] = ms[n].at
        BY <4>2
      <4>5. QED
        BY <1>5, <4>2, <4>3, <4>4
    <3>3. QED
      BY <1>4, <3>1, <3>2
  <2>3. <<w.end>> = IF nu = <<>> THEN <<>> ELSE <<nu[Len(nu)].at>>
    BY <1>6
  <2>4. QED
    BY <1>4, <1>6, <2>1, <2>2, <2>3 DEF Marked, S
<1>8. Spread(v, <<w.end>>)
  <2>1. ASSUME NEW p \in S(v), NEW q \in S(v), p < q PROVE q - p >= MaxDistance
    <3>1. p \in S(w)
      BY <1>1, <1>3, <2>1
    <3>2. CASE q \in S(w)
      BY <2>1, <3>1, <3>2 DEF WellLaid, Spread, S
    <3>3. CASE q = w.end
      BY <1>5, <3>1, <3>3
    <3>4. QED
      BY <1>3, <3>2, <3>3
  <2>2. \A p \in S(v) : <<w.end>> # <<>> /\ p <= <<w.end>>[1]
    BY <1>1, <1>3
  <2>3. QED
    BY <2>1, <2>2 DEF Spread, S
<1>9. FramesNear(v)
  BY <1>3 DEF WellLaid, FramesNear, S
<1>10. WellLaid(v, <<w.end>>, nu)
  BY <1>2, <1>7, <1>8, <1>9 DEF WellLaid
<1>11. QED
  BY <1>10 DEF v, nu

LEMMA MarkedStays ==
  ASSUME NEW w, NEW v, NEW last, NEW ms, Marked(w, last, ms),
         StartsOf(w, "syncpoint") \subseteq StartsOf(v, "syncpoint")
  PROVE  Marked(v, last, ms)
BY DEF Marked

LEMMA FrameLaid ==
  ASSUME NEW w, NEW last, NEW ms, WellLaid(w, last, ms), Uncut(w),
         NEW u \in Units, u.kind = "frame",
         last # <<>>, w.end - last[1] < MaxDistance,
         NEW end \in Nat, w.end < end
  PROVE  WellLaid(CutAt(Laid(w, u), end), last, ms)
<1> DEFINE v == CutAt(Laid(w, u), end)
           S(x) == StartsOf(x, "syncpoint")
           F(x) == StartsOf(x, "frame")
<1>1. /\ w \in MuxWires /\ w.end \in Nat
      /\ \A p \in S(w) : p \in Nat /\ p < w.end
  <2>1. w \in MuxWires
    BY DEF WellLaid
  <2>2. QED
    BY <2>1, MuxWireParts DEF StartsOf
<1>2. /\ v \in MuxWires
      /\ DOMAIN v.unit = DOMAIN w.unit \cup {w.end}
      /\ v.unit[w.end] = u
      /\ \A p \in DOMAIN w.unit : v.unit[p] = w.unit[p]
  BY <1>1, Begun
<1> HIDE DEF v
<1>3. S(v) = S(w) /\ F(v) = F(w) \cup {w.end}
  <2>1. \A kind : StartsOf(v, kind) = StartsOf(w, kind) \cup (IF u.kind = kind THEN {w.end} ELSE {})
    BY <1>1, <1>2, BegunStarts
  <2>2. QED
    BY <2>1
<1> HIDE DEF S, F
<1>4. Marked(v, last, ms)
  BY <1>3, MarkedStays DEF WellLaid, S
<1>5. Spread(v, last)
  BY <1>3 DEF WellLaid, Spread, S
<1>6. last[1] \in S(w)
  <2>1. /\ ms \in Seq(Marks) /\ last = <<ms[Len(ms)].at>> /\ ms # <<>>
        /\ \A i \in DOMAIN ms : ms[i].at \in S(w)
    BY DEF WellLaid, Marked, S
  <2>2. Len(ms) \in DOMAIN ms
    BY <2>1
  <2>3. QED
    BY <2>1, <2>2
<1>7. FramesNear(v)
  <2> SUFFICES ASSUME NEW p \in F(v) PROVE \E s \in S(v) : s < p /\ p - s < MaxDistance
    BY DEF FramesNear, S, F
  <2>1. CASE p \in F(w)
    BY <1>3, <2>1 DEF WellLaid, FramesNear, S, F
  <2>2. CASE p = w.end
    BY <1>1, <1>3, <1>6, <2>2
  <2>3. QED
    BY <1>3, <2>1, <2>2
<1>8. WellLaid(v, last, ms)
  BY <1>2, <1>4, <1>5, <1>7 DEF WellLaid
<1>9. QED
  BY <1>8 DEF v

LEMMA SyncpointTorn ==
  ASSUME NEW w, NEW last, NEW ms, WellLaid(w, last, ms), Uncut(w),
         NEW u \in Units, u.kind = "syncpoint",
         \A i \in DOMAIN last : w.end - last[i] >= MaxDistance,
         NEW end \in Nat, w.end < end, end < w.end + WidthOf(u)
  PROVE  /\ WellLaid(CutAt(Laid(w, u), end), last, ms)
         /\ ~Uncut(CutAt(Laid(w, u), end))
<1> DEFINE v == CutAt(Laid(w, u), end)
           S(x) == StartsOf(x, "syncpoint")
<1>1. /\ w \in MuxWires /\ w.end \in Nat
      /\ \A p \in S(w) : p \in Nat /\ p < w.end
      /\ MaxDistance \in Nat
  <2>1. w \in MuxWires
    BY DEF WellLaid
  <2>2. QED
    BY <2>1, MuxWireParts, MuxerAssumption DEF StartsOf
<1>2. /\ v \in MuxWires
      /\ v.end = end
      /\ DOMAIN v.unit = DOMAIN w.unit \cup {w.end}
      /\ v.unit[w.end] = u
      /\ \A p \in DOMAIN w.unit : v.unit[p] = w.unit[p]
  BY <1>1, Begun
<1>3. WidthOf(u) \in Nat
  BY WidthPositive
<1> HIDE DEF v
<1>4. S(v) = S(w) \cup {w.end} /\ StartsOf(v, "frame") = StartsOf(w, "frame")
  <2>1. \A kind : StartsOf(v, kind) = StartsOf(w, kind) \cup (IF u.kind = kind THEN {w.end} ELSE {})
    BY <1>1, <1>2, BegunStarts
  <2>2. QED
    BY <2>1
<1> HIDE DEF S
<1>5. Marked(v, last, ms)
  BY <1>4, MarkedStays DEF WellLaid, S
<1>6. ~Uncut(v)
  <2>1. ~(w.end + WidthOf(v.unit[w.end]) <= v.end)
    BY <1>1, <1>2, <1>3
  <2>2. QED
    BY <1>2, <2>1 DEF Uncut
<1>7. Spread(v, last)
  <2>1. ASSUME NEW p \in S(v), NEW q \in S(v), p < q PROVE q - p >= MaxDistance
    <3>1. p \in S(w)
      BY <1>1, <1>4, <2>1
    <3>2. CASE q \in S(w)
      BY <2>1, <3>1, <3>2 DEF WellLaid, Spread, S
    <3>3. CASE q = w.end
      <4>1. last # <<>> /\ p <= last[1]
        BY <3>1 DEF WellLaid, Spread, S
      <4>2. /\ ms \in Seq(Marks) /\ last = <<ms[Len(ms)].at>> /\ ms # <<>>
            /\ \A i \in DOMAIN ms : ms[i].at \in S(w)
        BY <4>1 DEF WellLaid, Marked, S
      <4>3. Len(ms) \in DOMAIN ms
        BY <4>2
      <4>4. last[1] \in S(w) /\ w.end - last[1] >= MaxDistance
        BY <4>2, <4>3
      <4>5. QED
        BY <1>1, <3>1, <3>3, <4>1, <4>4
    <3>4. QED
      BY <1>4, <3>2, <3>3
  <2>2. QED
    BY <1>6, <2>1 DEF Spread, S
<1>8. FramesNear(v)
  BY <1>4 DEF WellLaid, FramesNear, S
<1>9. WellLaid(v, last, ms)
  BY <1>2, <1>5, <1>7, <1>8 DEF WellLaid
<1>10. QED
  BY <1>6, <1>9 DEF v

-----------------------------------------------------------------------------
(* What a method leaves of the wire.                                       *)

LEMMA MediaNamed ==
  ASSUME Opened, opened = "yes", NEW id
  PROVE  /\ Media(id) \in DOMAIN streams
         /\ streams[Media(id)] \in Described
         /\ MediaBase(id) \in 1 .. Len(timeBases)
         /\ timeBases[MediaBase(id)] = streams[Media(id)].base
         /\ Len(timeBases) \in Nat
<1>1. /\ streams \in Seq(Described) /\ streams # <<>> /\ timeBases \in Seq(Rationals)
      /\ \A i \in DOMAIN streams : \E k \in DOMAIN timeBases : timeBases[k] = streams[i].base
  BY DEF Opened
<1>2. Media(id) \in DOMAIN streams
  <2>1. 1 \in DOMAIN streams
    BY <1>1
  <2>2. QED
    BY <2>1 DEF Media
<1>3. streams[Media(id)] \in Described
  BY <1>1, <1>2
<1>4. /\ BaseOf(timeBases, streams[Media(id)]) \in 1 .. Len(timeBases)
      /\ timeBases[BaseOf(timeBases, streams[Media(id)])] = streams[Media(id)].base
  BY <1>1, <1>2, BaseFound
<1>5. QED
  BY <1>1, <1>2, <1>3, <1>4 DEF MediaBase

LEMMA FrameUnitType ==
  ASSUME Opened, opened = "yes", NEW id \in Nat \ {0}, NEW pts \in Nat, NEW key \in BOOLEAN,
         NEW size \in Nat
  PROVE  FrameUnit(id, pts, key, size) \in Units /\ FrameUnit(id, pts, key, size).kind = "frame"
<1>1. streams[Media(id)].span \in Nat
  BY MediaNamed DEF Described
<1>2. CodedWhole(id, pts) \in Nat
  BY <1>1 DEF CodedWhole
<1>3. FrameHead \in Nat /\ FrameHead # 0
  BY MuxerAssumption
<1>4. FrameUnit(id, pts, key, size) \in FrameUnits
  BY <1>2, <1>3 DEF FrameUnit, FrameUnits
<1>5. QED
  BY <1>4 DEF Units, FrameUnit

LEMMA SyncpointUnitType ==
  ASSUME NEW pts \in Nat, NEW base \in Nat, Len(timeBases) \in Nat
  PROVE  /\ SyncpointUnit(pts, base) \in Units
         /\ SyncpointUnit(pts, base).kind = "syncpoint"
         /\ SyncpointUnit(pts, base).coded = Wrapped(SyncpointField(pts, base), MaxTick)
         /\ WidthOf(SyncpointUnit(pts, base)) = PacketHead + FieldsLen
<1> DEFINE field == SyncpointField(pts, base)
<1>1. field \in Int
  <2> DEFINE product == pts * Len(timeBases)
             words == MaxWord + 1
  <2>1. product \in Nat
    OBVIOUS
  <2>2. words \in Nat /\ words > 0
    BY MaxTickAssumption DEF MaxWord
  <2> HIDE DEF product, words
  <2>3. (product % words) \in Int
    BY <2>1, <2>2
  <2>4. QED
    BY <2>3 DEF SyncpointField, product, words
<1> HIDE DEF field
<1>2. Wrapped(field, MaxTick) \in Ticks
  BY <1>1, WrappedInTicks
<1>3. PacketHead \in Nat \ {0} /\ FieldsLen \in Nat
  BY MuxerAssumption
<1>4. SyncpointUnit(pts, base)
        = [kind |-> "syncpoint", head |-> PacketHead, body |-> FieldsLen, ok |-> TRUE,
           coded |-> Wrapped(field, MaxTick)]
  BY DEF SyncpointUnit, field
<1>5. SyncpointUnit(pts, base) \in SyncUnits
  BY <1>2, <1>3, <1>4 DEF SyncUnits
<1>6. SyncpointUnit(pts, base) \in Units
  BY <1>5 DEF Units, Packets
<1>7. QED
  BY <1>4, <1>6 DEF WidthOf, field

(* The four ways a frame's writing ends: before its first byte, inside a   *)
(* syncpoint, behind it, or inside or behind the frame.                    *)
LEMMA WrittenEnds ==
  ASSUME wire \in MuxWires, \A n \in Tears : n \in Nat,
         NEW id, NEW pts, NEW key, NEW size, Written(id, pts, key, size),
         NEW u \in Units, u = SyncpointUnit(pts, MediaBase(id)),
         NEW f \in Units, f = FrameUnit(id, pts, key, size),
         NEW mark, mark = [at |-> wire.end, back |-> BackPtr(wire.end), stream |-> id, pts |-> pts],
         NEW base, base = IF SyncpointDue(wire.end) THEN Laid(wire, u) ELSE wire,
         NEW frame, frame = [stream |-> id, pts |-> pts, key |-> key,
                             from |-> base.end + FrameHead, size |-> size]
  PROVE  \/ wire' = wire /\ UNCHANGED <<lastSyncpoint, marks, written>>
         \/ /\ SyncpointDue(wire.end)
            /\ \E end \in Nat : /\ wire.end < end /\ end < wire.end + WidthOf(u)
                                /\ wire' = CutAt(Laid(wire, u), end)
            /\ UNCHANGED <<lastSyncpoint, marks, written>>
         \/ /\ SyncpointDue(wire.end)
            /\ wire' = Laid(wire, u)
            /\ lastSyncpoint' = <<wire.end>>
            /\ marks' = Append(marks, mark)
            /\ UNCHANGED written
         \/ /\ \E end \in Nat :
                 /\ base.end < end /\ end <= base.end + WidthOf(f)
                 /\ wire' = CutAt(Laid(base, f), end)
                 /\ written' = IF end = base.end + WidthOf(f) THEN Append(written, frame)
                                                             ELSE written
            /\ lastSyncpoint' = IF SyncpointDue(wire.end) THEN <<wire.end>> ELSE lastSyncpoint
            /\ marks' = IF SyncpointDue(wire.end) THEN Append(marks, mark) ELSE marks
<1> DEFINE at == wire.end
           due == SyncpointDue(at)
           whole == Laid(base, f)
<1>1. PICK end \in Ends(whole) :
        /\ wire' = CutAt(whole, end)
        /\ lastSyncpoint' = IF due THEN Remembered(at, base.end, end) ELSE lastSyncpoint
        /\ marks' = IF due /\ end >= base.end THEN Append(marks, mark) ELSE marks
        /\ written' = IF end = whole.end THEN Append(written, frame) ELSE written
  BY DEF Written
<1>2. base \in MuxWires /\ base.end = IF due THEN at + WidthOf(u) ELSE at
  BY LaidWire
<1>3. /\ at \in Nat /\ base.end \in Nat
      /\ WidthOf(u) \in Nat /\ WidthOf(u) > 0
      /\ WidthOf(f) \in Nat /\ WidthOf(f) > 0
  <2>1. wire.end \in Nat /\ base.end \in Nat
    BY <1>2, MuxWireParts
  <2>2. WidthOf(u) \in Nat \ {0} /\ WidthOf(f) \in Nat \ {0}
    BY WidthPositive
  <2>3. QED
    BY <2>1, <2>2
<1>4. whole.end = base.end + WidthOf(f)
  BY <1>2, LaidWire
<1>5. end \in Nat /\ at <= end /\ end <= whole.end
  <2>1. CASE end = whole.end
    BY <1>2, <1>3, <1>4, <2>1
  <2>2. CASE end # whole.end
    <3>1. PICK n \in Tears : end = at + n /\ end < whole.end
      BY <2>2 DEF Ends
    <3>2. n \in Nat
      OBVIOUS
    <3>3. QED
      BY <1>3, <1>4, <3>1, <3>2
  <2>3. QED
    BY <2>1, <2>2
<1> HIDE DEF due, at, whole
<1>6. CASE end > base.end
  <2>1. wire' = CutAt(Laid(base, f), end)
    BY <1>1 DEF whole
  <2>2. lastSyncpoint' = IF due THEN <<at>> ELSE lastSyncpoint
    BY <1>1, <1>3, <1>5, <1>6 DEF Remembered
  <2>3. marks' = IF due THEN Append(marks, mark) ELSE marks
    BY <1>1, <1>3, <1>5, <1>6
  <2>4. base.end < end /\ end <= base.end + WidthOf(f)
    BY <1>3, <1>4, <1>5, <1>6
  <2>5. written' = IF end = base.end + WidthOf(f) THEN Append(written, frame) ELSE written
    BY <1>1, <1>4
  <2>6. QED
    BY <1>5, <2>1, <2>2, <2>3, <2>4, <2>5 DEF due, at
<1>7. CASE end <= base.end
  <2>1. UNCHANGED written
    BY <1>1, <1>3, <1>4, <1>5, <1>7
  <2>2. wire' = CutAt(base, end)
    BY <1>1, <1>2, <1>5, <1>7, CutLaid DEF whole
  <2>3. CASE ~due
    <3>1. end = wire.end /\ base = wire
      BY <1>2, <1>3, <1>5, <1>7, <2>3 DEF due, at
    <3>2. wire' = wire
      BY <2>2, <3>1, CutNowhere
    <3>3. UNCHANGED <<lastSyncpoint, marks, written>>
      BY <1>1, <2>3, <2>1
    <3>4. QED
      BY <3>2, <3>3
  <2>4. CASE due /\ end = base.end
    <3>1. base = Laid(wire, u)
      BY <2>4 DEF due, at
    <3>2. wire' = base
      BY <1>2, <2>2, <2>4, CutNowhere
    <3>3. lastSyncpoint' = <<at>> /\ marks' = Append(marks, mark) /\ UNCHANGED written
      BY <1>1, <1>3, <2>4, <2>1 DEF Remembered
    <3>4. QED
      BY <2>4, <3>1, <3>2, <3>3 DEF due, at
  <2>5. CASE due /\ end < base.end
    <3>1. base = Laid(wire, u) /\ base.end = wire.end + WidthOf(u)
      BY <1>2, <2>5 DEF due, at
    <3>2. UNCHANGED <<lastSyncpoint, marks, written>>
      BY <1>1, <1>3, <1>5, <2>5, <2>1 DEF Remembered
    <3>3. CASE end = wire.end
      <4>1. wire' = CutAt(wire, wire.end)
        BY <1>5, <2>2, <3>1, <3>3, CutLaid
      <4>2. QED
        BY <3>2, <4>1, CutNowhere
    <3>4. CASE end # wire.end
      <4>1. wire.end < end /\ end < wire.end + WidthOf(u)
        BY <1>3, <1>5, <2>5, <3>1, <3>4 DEF at
      <4>2. QED
        BY <1>5, <2>2, <2>5, <3>1, <3>2, <4>1 DEF due, at
    <3>5. QED
      BY <3>3, <3>4
  <2>6. QED
    BY <1>3, <1>5, <1>7, <2>3, <2>4, <2>5
<1>8. QED
  BY <1>3, <1>5, <1>6, <1>7

LEMMA UntornUncut ==
  ASSUME wire \in MuxWires, ~Torn
  PROVE  Uncut(wire)
<1> SUFFICES ASSUME NEW p \in DOMAIN wire.unit
             PROVE  p + WidthOf(wire.unit[p]) <= wire.end
  BY DEF Uncut
<1>1. ~(p + WidthOf(wire.unit[p]) > wire.end)
  BY DEF Torn
<1>2. p \in Nat /\ wire.end \in Nat /\ wire.unit[p] \in Units
  BY MuxWireParts
<1>3. WidthOf(wire.unit[p]) \in Nat
  BY <1>2, WidthPositive
<1>4. QED
  BY <1>1, <1>2, <1>3

LEMMA WrittenKeeps ==
  ASSUME MInv, opened = "yes", ~Torn, NEW id \in Nat \ {0}, NEW pts \in Nat,
         NEW key \in BOOLEAN, NEW size \in Nat, Written(id, pts, key, size)
  PROVE  /\ WellLaid(wire', lastSyncpoint', marks')
         /\ Told(wire', marks')
         /\ Apart(wire')
         /\ Uncut(wire') => wire'.nut /\ EndToEnd(wire')
<1> DEFINE at   == wire.end
           due  == SyncpointDue(at)
           u    == SyncpointUnit(pts, MediaBase(id))
           f    == FrameUnit(id, pts, key, size)
           base == IF due THEN Laid(wire, u) ELSE wire
           mark == [at |-> at, back |-> BackPtr(at), stream |-> id, pts |-> pts]
           last == IF due THEN <<at>> ELSE lastSyncpoint
           ms   == IF due THEN Append(marks, mark) ELSE marks
<1>1. /\ Opened /\ Told(wire, marks)
      /\ WellLaid(wire, lastSyncpoint, marks)
      /\ wire \in MuxWires
  BY DEF MInv, WellLaid
<1>2. Uncut(wire) /\ wire.nut /\ EndToEnd(wire) /\ Apart(wire)
  BY <1>1, UntornUncut DEF MInv, Laying
<1>3. /\ MediaBase(id) \in Nat
      /\ Len(timeBases) \in Nat
  BY <1>1, MediaNamed
<1>4. /\ u \in Units /\ u.kind = "syncpoint" /\ WidthOf(u) = PacketHead + FieldsLen
      /\ u.coded = Wrapped(SyncpointField(pts, MediaBase(id)), MaxTick)
  BY <1>3, SyncpointUnitType
<1>5. f \in Units /\ f.kind = "frame"
  BY <1>1, FrameUnitType
<1>6. /\ at \in Nat
      /\ \A n \in Tears : n \in Nat
      /\ PacketHead + FieldsLen < MaxDistance
      /\ {PacketHead, FieldsLen, MaxDistance} \subseteq Nat
      /\ \A p \in DOMAIN wire.unit : p < at /\ p \in Nat
  BY <1>1, MuxWireParts, MuxerAssumption
<1>7. /\ marks \in Seq(Marks)
      /\ lastSyncpoint = IF marks = <<>> THEN <<>> ELSE <<marks[Len(marks)].at>>
      /\ \A i \in DOMAIN marks : marks[i].at \in Starts("syncpoint")
  BY <1>1 DEF WellLaid, Marked, StartsOf, Starts
<1>8. lastSyncpoint # <<>> => lastSyncpoint[1] \in Nat /\ lastSyncpoint[1] < at
  <2> SUFFICES ASSUME lastSyncpoint # <<>>
               PROVE  lastSyncpoint[1] \in Nat /\ lastSyncpoint[1] < at
    OBVIOUS
  <2>1. marks # <<>> /\ lastSyncpoint[1] = marks[Len(marks)].at
    BY <1>7
  <2>2. Len(marks) \in DOMAIN marks
    BY <1>7, <2>1
  <2>3. QED
    BY <1>6, <1>7, <2>1, <2>2 DEF Starts
<1>9. mark \in Marks /\ mark.at = at
      /\ mark.back = IF lastSyncpoint = <<>> THEN 0 ELSE (at - lastSyncpoint[1]) \div 16
  <2>1. BackPtr(at) \in Nat
    BY <1>6, <1>8 DEF BackPtr
  <2>2. QED
    BY <1>6, <2>1 DEF Marks, BackPtr
<1> DEFINE Nothing == wire' = wire /\ UNCHANGED <<lastSyncpoint, marks>>
           Half == /\ due
                   /\ \E end \in Nat : /\ at < end /\ end < at + WidthOf(u)
                                       /\ wire' = CutAt(Laid(wire, u), end)
                   /\ UNCHANGED <<lastSyncpoint, marks>>
           Synced == /\ due
                     /\ wire' = Laid(wire, u)
                     /\ lastSyncpoint' = <<at>>
                     /\ marks' = Append(marks, mark)
           Framed == /\ \E end \in Nat : /\ base.end < end /\ end <= base.end + WidthOf(f)
                                         /\ wire' = CutAt(Laid(base, f), end)
                     /\ lastSyncpoint' = last
                     /\ marks' = ms
<1>10. Nothing \/ Half \/ Synced \/ Framed
  <2> HIDE DEF u, f, mark, base, due
  <2>1. u = SyncpointUnit(pts, MediaBase(id)) /\ f = FrameUnit(id, pts, key, size)
        /\ mark = [at |-> wire.end, back |-> BackPtr(wire.end), stream |-> id, pts |-> pts]
        /\ base = IF SyncpointDue(wire.end) THEN Laid(wire, u) ELSE wire
    BY DEF u, f, mark, base, due
  <2> DEFINE frame == [stream |-> id, pts |-> pts, key |-> key,
                       from |-> base.end + FrameHead, size |-> size]
  <2>2. frame = [stream |-> id, pts |-> pts, key |-> key,
                 from |-> base.end + FrameHead, size |-> size]
    OBVIOUS
  <2> HIDE DEF frame
  <2>3. QED
    BY <1>1, <1>4, <1>5, <1>6, <2>1, <2>2, WrittenEnds DEF due
<1>11. due => \A i \in DOMAIN lastSyncpoint : at - lastSyncpoint[i] >= MaxDistance
  BY DEF SyncpointDue
<1>12. ~due => lastSyncpoint # <<>> /\ at - lastSyncpoint[1] < MaxDistance
  <2> SUFFICES ASSUME ~due PROVE lastSyncpoint # <<>> /\ at - lastSyncpoint[1] < MaxDistance
    OBVIOUS
  <2>1. PICK i \in DOMAIN lastSyncpoint : ~(at - lastSyncpoint[i] >= MaxDistance)
    BY DEF SyncpointDue
  <2>2. i = 1 /\ lastSyncpoint # <<>>
    BY <1>7, <2>1
  <2>3. QED
    BY <1>6, <1>8, <2>1, <2>2
<1> HIDE DEF due, u, f, mark
(* Behind the syncpoint, where one is due.                                 *)
<1>13. due => /\ WellLaid(Laid(wire, u), <<at>>, Append(marks, mark))
              /\ EndToEnd(Laid(wire, u))
              /\ Laid(wire, u).nut
              /\ Laid(wire, u) \in MuxWires
              /\ Apart(Laid(wire, u))
              /\ Laid(wire, u).end = at + WidthOf(u)
  <2> SUFFICES ASSUME due PROVE /\ WellLaid(Laid(wire, u), <<at>>, Append(marks, mark))
                                /\ EndToEnd(Laid(wire, u))
                                /\ Laid(wire, u).nut
                                /\ Laid(wire, u) \in MuxWires
                                /\ Apart(Laid(wire, u))
                                /\ Laid(wire, u).end = at + WidthOf(u)
    OBVIOUS
  <2>1. WellLaid(Laid(wire, u), <<at>>, Append(marks, mark))
    BY <1>1, <1>2, <1>4, <1>9, <1>11, SyncpointLaid
  <2>2. EndToEnd(Laid(wire, u))
    BY <1>1, <1>2, <1>4, LaidEndToEnd
  <2> DEFINE v == Laid(wire, u)
  <2>3. /\ DOMAIN v.unit = DOMAIN wire.unit \cup {wire.end}
        /\ v.unit[wire.end] = u
        /\ \A p \in DOMAIN wire.unit : v.unit[p] = wire.unit[p]
    BY <1>1, <1>4, LaidWire
  <2> HIDE DEF v
  <2>4. Apart(v)
    BY <1>1, <1>2, <2>3, BegunApart
  <2>5. QED
    BY <1>1, <1>2, <1>4, <2>1, <2>2, <2>4, LaidWire DEF v
<1>14. /\ WellLaid(base, last, ms) /\ EndToEnd(base) /\ base.nut /\ base \in MuxWires
       /\ Apart(base)
       /\ base.end \in Nat
       /\ last # <<>> /\ base.end - last[1] < MaxDistance
  <2>1. CASE due
    <3>1. base = Laid(wire, u) /\ last = <<at>> /\ ms = Append(marks, mark)
      BY <2>1
    <3> HIDE DEF base, last, ms
    <3>2. base.end = at + WidthOf(u) /\ last[1] = at /\ last # <<>>
      BY <1>13, <2>1, <3>1
    <3>3. QED
      BY <1>4, <1>6, <1>13, <2>1, <3>1, <3>2
  <2>2. CASE ~due
    <3>1. base = wire /\ last = lastSyncpoint /\ ms = marks
      BY <2>2
    <3> HIDE DEF base, last, ms
    <3>2. QED
      BY <1>1, <1>2, <1>6, <1>12, <2>2, <3>1
  <2>3. QED
    BY <2>1, <2>2
(* Each mark's unit has been there, or is the one before the frame.        *)
<1>15. Told(base, ms)
  <2>1. CASE due
    <3>1. \A p \in DOMAIN wire.unit : Laid(wire, u).unit[p] = wire.unit[p]
      BY <1>1, <1>4, LaidWire
    <3>2. Laid(wire, u).unit[at] = u
      BY <1>1, <1>4, LaidWire
    <3> DEFINE nu == Append(marks, mark)
               n  == Len(marks)
    <3>3. /\ n \in Nat /\ DOMAIN nu = 1 .. n + 1 /\ DOMAIN marks = 1 .. n
          /\ \A i \in 1 .. n : nu[i] = marks[i]
          /\ nu[n + 1] = mark
      BY <1>7, <1>9
    <3> HIDE DEF nu, n
    <3>4. ASSUME NEW i \in 1 .. n + 1
          PROVE  Laid(wire, u).unit[nu[i].at].coded
                   = Wrapped(SyncpointField(nu[i].pts, MediaBase(nu[i].stream)), MaxTick)
      <4>1. CASE i \in 1 .. n
        <5>1. nu[i] = marks[i] /\ marks[i].at \in DOMAIN wire.unit
          BY <1>7, <3>3, <4>1 DEF Starts
        <5>2. wire.unit[marks[i].at].coded
                = Wrapped(SyncpointField(marks[i].pts, MediaBase(marks[i].stream)), MaxTick)
          BY <1>1, <3>3, <4>1 DEF Told
        <5>3. QED
          BY <3>1, <5>1, <5>2
      <4>2. CASE i = n + 1
        <5>1. nu[i].at = at /\ nu[i].pts = pts /\ nu[i].stream = id
          BY <3>3, <4>2 DEF mark
        <5>2. QED
          BY <1>4, <3>2, <5>1
      <4>3. QED
        BY <3>3, <4>1, <4>2
    <3>5. Told(Laid(wire, u), nu)
      BY <3>3, <3>4 DEF Told
    <3>6. QED
      BY <2>1, <3>5 DEF nu
  <2>2. CASE ~due
    BY <1>1, <2>2
  <2>3. QED
    BY <2>1, <2>2
<1>16. \A i \in DOMAIN ms : ms[i].at \in DOMAIN base.unit
  BY <1>14 DEF WellLaid, Marked, StartsOf
<1>17. CASE Nothing
  BY <1>1, <1>2, <1>17
<1>18. CASE Half
  <2>1. PICK end \in Nat : /\ at < end /\ end < at + WidthOf(u)
                           /\ wire' = CutAt(Laid(wire, u), end)
    BY <1>18
  <2>2. WellLaid(wire', lastSyncpoint, marks) /\ ~Uncut(wire')
    BY <1>1, <1>2, <1>4, <1>11, <1>18, <2>1, SyncpointTorn
  <2>3. /\ DOMAIN wire'.unit = DOMAIN wire.unit \cup {wire.end}
        /\ wire'.unit[wire.end] = u
        /\ \A p \in DOMAIN wire.unit : wire'.unit[p] = wire.unit[p]
    BY <1>1, <1>4, <2>1, Begun
  <2>4. Told(wire', marks)
    BY <1>1, <1>7, <2>3 DEF Told, Starts
  <2>5. Apart(wire')
    BY <1>1, <1>2, <2>3, BegunApart
  <2>6. QED
    BY <1>18, <2>2, <2>4, <2>5
<1>19. CASE Synced
  <2>1. base = Laid(wire, u) /\ ms = Append(marks, mark)
    BY <1>19
  <2>2. QED
    BY <1>13, <1>15, <1>19, <2>1
<1>20. CASE Framed
  <2> HIDE DEF base, last, ms
  <2>1. PICK end \in Nat : /\ base.end < end /\ end <= base.end + WidthOf(f)
                           /\ wire' = CutAt(Laid(base, f), end)
    BY <1>20
  <2>2. Uncut(base)
    BY <1>14, EndToEndUncut
  <2>3. WellLaid(wire', last, ms)
    BY <1>5, <1>14, <2>1, <2>2, FrameLaid
  <2>4. /\ DOMAIN wire'.unit = DOMAIN base.unit \cup {base.end}
        /\ wire'.unit[base.end] = f
        /\ \A p \in DOMAIN base.unit : wire'.unit[p] = base.unit[p]
        /\ wire'.end = end
    BY <1>5, <1>14, <2>1, Begun
  <2>5. Told(wire', ms)
    BY <1>15, <1>16, <2>4 DEF Told
  <2>6. Uncut(wire') => wire'.nut /\ EndToEnd(wire')
    <3> SUFFICES ASSUME Uncut(wire') PROVE wire'.nut /\ EndToEnd(wire')
      OBVIOUS
    <3>1. base.end + WidthOf(f) <= end
      BY <2>4 DEF Uncut
    <3>2. end = Laid(base, f).end /\ Laid(base, f) \in MuxWires /\ Laid(base, f).nut = base.nut
      <4>1. WidthOf(f) \in Nat
        BY <1>5, WidthPositive
      <4>2. Laid(base, f).end = base.end + WidthOf(f)
            /\ Laid(base, f) \in MuxWires /\ Laid(base, f).nut = base.nut
        BY <1>5, <1>14, LaidWire
      <4>3. QED
        BY <1>14, <2>1, <3>1, <4>1, <4>2
    <3>3. wire' = Laid(base, f)
      BY <2>1, <3>2, CutNowhere
    <3>4. EndToEnd(Laid(base, f))
      BY <1>5, <1>14, LaidEndToEnd
    <3>5. QED
      BY <1>14, <3>2, <3>3, <3>4
  <2>7. Apart(wire')
    BY <1>14, <2>4, BegunApart
  <2>8. QED
    BY <1>20, <2>3, <2>5, <2>6, <2>7
<1> HIDE DEF Nothing, Half, Synced, Framed
<1>21. QED
  BY <1>10, <1>17, <1>18, <1>19, <1>20

-----------------------------------------------------------------------------
(* Every method keeps the invariant.                                       *)

LEMMA InitKept == MuxerInit => MInv
<1> SUFFICES ASSUME MuxerInit PROVE MInv
  OBVIOUS
<1>1. /\ opened = "no" /\ streams = <<>> /\ timeBases = <<>> /\ annotations = <<>>
      /\ lastSyncpoint = <<>> /\ marks = <<>>
      /\ wire = [nut |-> FALSE, unit |-> <<>>, end |-> 0]
  BY DEF MuxerInit
<1>2. DOMAIN wire.unit = {} /\ <<>> \in [{} -> Units]
  BY <1>1
<1>3. wire \in MuxWires
  BY <1>1, <1>2, MuxWireOf
<1>4. \A kind : StartsOf(wire, kind) = {}
  BY <1>2 DEF StartsOf
<1>5. WellLaid(wire, lastSyncpoint, marks)
  BY <1>1, <1>3, <1>4 DEF WellLaid, Marked, Spread, FramesNear
<1>6. Opened /\ Laying /\ Told(wire, marks)
  BY <1>1, <1>2 DEF Opened, Laying, Told, Apart
<1>7. QED
  BY <1>5, <1>6 DEF MInv

LEMMA StayKeeps ==
  ASSUME MInv, UNCHANGED <<fields, lastSyncpoint, wire, marks>>
  PROVE  MInv'
<1>1. UNCHANGED <<opened, streams, timeBases, annotations, lastSyncpoint, wire, marks>>
  BY DEF fields
<1>2. Opened' /\ Laying'
  BY <1>1 DEF MInv, Opened, Laying
<1>3. WellLaid(wire', lastSyncpoint', marks')
  BY <1>1 DEF MInv
<1>4. Told(wire, marks)'
  BY <1>1 DEF MInv, Told, MediaBase, Media, SyncpointField
<1>5. QED
  BY <1>2, <1>3, <1>4 DEF MInv

LEMMA OpenRefusedKeeps ==
  ASSUME MInv, NEW o \in Openings, OpenRefused(o)
  PROVE  MInv'
<1>1. /\ opened = "no" /\ opened' = "refused"
      /\ UNCHANGED <<streams, timeBases, annotations, lastSyncpoint, wire, marks>>
  BY DEF OpenRefused
<1>2. Opened' /\ Laying'
  BY <1>1 DEF MInv, Opened, Laying
<1>3. WellLaid(wire', lastSyncpoint', marks')
  BY <1>1 DEF MInv
<1>4. Told(wire, marks)'
  BY <1>1 DEF MInv, Told, MediaBase, Media, SyncpointField
<1>5. QED
  BY <1>2, <1>3, <1>4 DEF MInv

(* The headers, or as much of them as was written before it failed.        *)
LEMMA OpenedWire ==
  ASSUME wire \in MuxWires, NEW o \in Openings, Open(o)
  PROVE  /\ wire' \in MuxWires
         /\ Apart(wire')
         /\ \A p \in DOMAIN wire'.unit : wire'.unit[p] \in HeaderUnitsOf(o.streams)
         /\ opened' \in {"yes", "refused"}
         /\ opened' = "yes" => wire'.nut /\ EndToEnd(wire')
         /\ sent' \in {sent, wire'.end}
<1> DEFINE whole == LaidAll(OpenWire, BeforeTooWide(HeaderUnits(o)))
<1>1. whole \in HeaderWires(o.streams)
  <2>1. HeaderUnits(o) \in Seq(HeaderUnitsOf(o.streams))
    BY HeaderUnitsType DEF Open
  <2>2. BeforeTooWide(HeaderUnits(o)) \in Seq(HeaderUnitsOf(o.streams))
    BY <2>1, BeforeTooWideType
  <2>3. QED
    BY <2>2, OpenWireIsOne, LaidHeaders
<1>2. PICK end \in Ends(whole) :
        /\ wire' = CutAt(whole, end)
        /\ \/ opened' = "yes" /\ end = whole.end
           \/ opened' = "refused"
        /\ sent' \in {sent, end}
  BY DEF Open, FlushedWhere
<1> HIDE DEF whole
<1>3. whole \in MuxWires
  BY <1>1 DEF HeaderWires
<1>4. end \in Nat
  <2>1. whole.end \in Nat /\ wire.end \in Nat /\ \A n \in Tears : n \in Nat
    BY <1>3, MuxWireParts, MuxerAssumption
  <2>2. QED
    BY <2>1 DEF Ends
<1>5. /\ wire' \in MuxWires
      /\ wire'.end = end
      /\ DOMAIN wire'.unit = {p \in DOMAIN whole.unit : p < end}
      /\ \A p \in DOMAIN wire'.unit : wire'.unit[p] = whole.unit[p]
  BY <1>2, <1>3, <1>4, CutWire
<1>6. \A p \in DOMAIN wire'.unit : wire'.unit[p] \in HeaderUnitsOf(o.streams)
  BY <1>1, <1>5 DEF HeaderWires
<1>7. Apart(wire')
  BY <1>1, <1>5 DEF HeaderWires, Apart
<1>8. opened' = "yes" => wire'.nut /\ EndToEnd(wire')
  <2> SUFFICES ASSUME opened' = "yes" PROVE wire'.nut /\ EndToEnd(wire')
    OBVIOUS
  <2>1. wire' = whole
    BY <1>2, <1>3, CutNowhere
  <2>2. QED
    BY <1>1, <2>1 DEF HeaderWires
<1>9. QED
  BY <1>2, <1>5, <1>6, <1>7, <1>8

LEMMA OpenKeeps ==
  ASSUME MInv, NEW o \in Openings, Open(o)
  PROVE  MInv'
<1>1. /\ wire' \in MuxWires
      /\ Apart(wire')
      /\ \A p \in DOMAIN wire'.unit : wire'.unit[p].kind \in HeaderKinds
      /\ opened' \in {"yes", "refused"}
      /\ opened' = "yes" => wire'.nut /\ EndToEnd(wire')
  BY OpenedWire DEF MInv, WellLaid, HeaderUnitsOf
<1>2. /\ opened = "no"
      /\ ~Unopenable(o)
      /\ streams' = o.streams
      /\ timeBases' = TimeBasesOf(o.streams)
      /\ annotations' = IF o.annotated THEN <<Len(o.streams) + 1>> ELSE <<>>
      /\ UNCHANGED <<lastSyncpoint, marks>>
  BY DEF Open
<1>3. marks' = <<>> /\ lastSyncpoint' = <<>>
  BY <1>2 DEF MInv, Opened, WellLaid, Marked
<1>4. Opened'
  <2>1. o.streams \in Seq(Described) /\ o.streams # <<>> /\ o.annotated \in BOOLEAN
    BY <1>2, MuxerAssumption DEF Unopenable
  <2>2. /\ TimeBasesOf(o.streams) \in Seq(Rationals)
        /\ \A i \in DOMAIN o.streams :
             \E k \in DOMAIN TimeBasesOf(o.streams) :
               TimeBasesOf(o.streams)[k] = o.streams[i].base
    BY <2>1, TimeBasesNamed
  <2>3. Len(o.streams) + 1 \in Nat \ {0}
    BY <2>1
  <2>4. annotations' \in {<<>>} \cup {<<i>> : i \in Nat \ {0}}
    BY <1>2, <2>3
  <2>5. QED
    BY <1>1, <1>2, <1>3, <2>1, <2>2, <2>4 DEF Opened
<1>5. Laying'
  BY <1>1 DEF Laying
<1>6. WellLaid(wire', lastSyncpoint', marks')
  <2>1. StartsOf(wire', "syncpoint") = {} /\ StartsOf(wire', "frame") = {}
    BY <1>1 DEF StartsOf, HeaderKinds
  <2>2. QED
    BY <1>1, <1>3, <2>1 DEF WellLaid, Marked, Spread, FramesNear
<1>7. Told(wire, marks)'
  BY <1>3 DEF Told
<1>8. QED
  BY <1>4, <1>5, <1>6, <1>7 DEF MInv

LEMMA WritePacketForKeeps ==
  ASSUME MInv, Ready, NEW id \in Nat \ {0}, NEW pts \in Ticks, NEW key \in BOOLEAN,
         NEW size \in Nat, WritePacketFor(id, pts, key, size), UNCHANGED fields
  PROVE  MInv'
<1>1. CASE UNCHANGED <<lastSyncpoint, wire, marks>>
  BY <1>1, StayKeeps
<1>2. CASE pts >= 0 /\ Written(id, pts, key, size)
  <2>1. opened = "yes" /\ ~Torn
    BY DEF Ready
  <2>2. pts \in Nat
    BY <1>2, MaxTickAssumption DEF Ticks, MinTick
  <2>3. /\ WellLaid(wire', lastSyncpoint', marks')
        /\ Told(wire', marks')
        /\ Apart(wire')
        /\ Uncut(wire') => wire'.nut /\ EndToEnd(wire')
    BY <1>2, <2>1, <2>2, WrittenKeeps
  <2>4. UNCHANGED <<opened, streams, timeBases, annotations>>
    BY DEF fields
  <2>5. Opened' /\ Laying'
    BY <2>1, <2>3, <2>4 DEF MInv, Opened, Laying
  <2>6. Told(wire, marks)'
    BY <2>3, <2>4 DEF Told, MediaBase, Media, SyncpointField
  <2>7. QED
    BY <2>3, <2>5, <2>6 DEF MInv
<1>3. QED
  BY <1>1, <1>2 DEF WritePacketFor, WriteRefused

LEMMA StepKeeps ==
  ASSUME MInv, [MuxerStep]_muxer
  PROVE  MInv'
<1>1. /\ Stamps \subseteq Ticks
      /\ DataSizes \subseteq Nat
      /\ MaxStreams \in Nat
  BY MuxerAssumption, LimitsAssumption
<1>2. ASSUME NEW o \in Openings, OpenRefused(o) PROVE MInv'
  BY <1>2, OpenRefusedKeeps
<1>3. ASSUME NEW o \in Openings, Open(o) PROVE MInv'
  BY <1>3, OpenKeeps
<1>4. ASSUME NEW id \in 1 .. MaxStreams + 1, NEW pts \in Stamps, NEW size \in DataSizes,
             WriteFrame(id, pts, size)
      PROVE  MInv'
  <2>1. id \in Nat \ {0} /\ pts \in Ticks /\ size \in Nat
    BY <1>1
  <2>2. CASE WriteRefused
    BY <1>4, <2>2, StayKeeps DEF WriteFrame, WriteRefused
  <2>3. CASE WritePacketFor(id, pts, TRUE, size)
    BY <1>4, <2>1, <2>3, WritePacketForKeeps DEF WriteFrame
  <2>4. QED
    BY <1>4, <2>2, <2>3 DEF WriteFrame
<1>5. ASSUME NEW id \in 1 .. MaxStreams + 1, NEW pts \in Stamps, NEW size \in DataSizes,
             NEW key \in BOOLEAN, WriteCoded(id, pts, key, size)
      PROVE  MInv'
  <2>1. id \in Nat \ {0} /\ pts \in Ticks /\ size \in Nat
    BY <1>1
  <2>2. CASE WriteRefused
    BY <1>5, <2>2, StayKeeps DEF WriteCoded, WriteRefused
  <2>3. CASE WritePacketFor(id, pts, key, size)
    BY <1>5, <2>1, <2>3, WritePacketForKeeps DEF WriteCoded
  <2>4. QED
    BY <1>5, <2>2, <2>3 DEF WriteCoded
<1>6. ASSUME NEW pts \in Stamps, NEW size \in DataSizes, WriteRows(pts, size)
      PROVE  MInv'
  <2>1. pts \in Ticks /\ size \in Nat
    BY <1>1
  <2>2. CASE WriteRefused
    BY <1>6, <2>2, StayKeeps DEF WriteRows, WriteRefused
  <2>3. CASE annotations # <<>> /\ WritePacketFor(annotations[1], pts, TRUE, size)
    <3>1. annotations[1] \in Nat \ {0}
      BY <2>3 DEF MInv, Opened
    <3>2. QED
      BY <1>6, <2>1, <2>3, <3>1, WritePacketForKeeps DEF WriteRows
  <2>4. QED
    BY <1>6, <2>2, <2>3 DEF WriteRows
<1>7. CASE WriteNoRows
  BY <1>7, StayKeeps DEF WriteNoRows
<1>8. CASE WriteTrailingNotJson
  BY <1>8, StayKeeps DEF WriteTrailingNotJson, WriteRefused
<1>9. CASE Flush
  BY <1>9, StayKeeps DEF Flush
<1>10. CASE UNCHANGED muxer
  BY <1>10, StayKeeps DEF muxer
<1>11. QED
  BY <1>2, <1>3, <1>4, <1>5, <1>6, <1>7, <1>8, <1>9, <1>10 DEF MuxerStep

LEMMA MuxerInvariant == MuxerSpec => []MInv
<1>1. MuxerInit => MInv
  BY InitKept
<1>2. MInv /\ [MuxerStep]_muxer => MInv'
  BY StepKeeps
<1>3. QED
  BY <1>1, <1>2, PTL DEF MuxerSpec

-----------------------------------------------------------------------------
(* However frames of all streams come between, whatever their sizes, and   *)
(* wherever the writer failed (write_packet_for, MAX_DISTANCE): a frame has*)
(* a syncpoint before it that starts less than MAX_DISTANCE before it does.*)
THEOREM FramesStayNear == MuxerSpec => []FramesNearSyncpoint
<1>1. MInv => FramesNearSyncpoint
  BY DEF MInv, WellLaid, FramesNear, FramesNearSyncpoint, Starts, StartsOf
<1>2. QED
  BY <1>1, MuxerInvariant, PTL

(* A back pointer counts in units of 16 bytes, so what it leads to is a    *)
(* window of 16: the syncpoint before it starts in there, and no other     *)
(* does, torn ones included, for any distance the units fit in. The crate's*)
(* MAX_DISTANCE is 32768 (src/lib.rs).                                     *)
THEOREM BackPointersFind ==
  ASSUME 16 <= MaxDistance
  PROVE  MuxerSpec => []BackPointersLead
<1>1. MInv => BackPointersLead
  <2> SUFFICES ASSUME MInv, NEW i \in 2 .. Len(marks)
               PROVE  LET led == marks[i].at - 16 * marks[i].back
                      IN  Starts("syncpoint") \cap (led - 15 .. led) = {marks[i - 1].at}
    BY DEF BackPointersLead
  <2> DEFINE at   == marks[i].at
             from == marks[i - 1].at
             led  == at - 16 * marks[i].back
  <2>1. /\ wire \in MuxWires
        /\ marks \in Seq(Marks)
        /\ \A k \in DOMAIN marks : marks[k].at \in Starts("syncpoint")
        /\ \A k \in 2 .. Len(marks) :
             /\ marks[k].at - marks[k - 1].at >= MaxDistance
             /\ marks[k].back = (marks[k].at - marks[k - 1].at) \div 16
        /\ \A p, q \in Starts("syncpoint") : p < q => q - p >= MaxDistance
    BY DEF MInv, WellLaid, Marked, Spread, Starts, StartsOf
  <2>2. MaxDistance \in Nat /\ \A p \in Starts("syncpoint") : p \in Nat
    BY <2>1, MuxWireParts, MuxerAssumption DEF Starts
  <2>3. i \in DOMAIN marks /\ i - 1 \in DOMAIN marks
    BY <2>1
  <2>4. /\ at \in Starts("syncpoint") /\ from \in Starts("syncpoint")
        /\ at - from >= MaxDistance
        /\ marks[i].back = (at - from) \div 16
    BY <2>1, <2>3
  <2> HIDE DEF at, from
  <2>5. from <= led /\ led <= from + 15 /\ led \in Int
    <3> DEFINE far == at - from
               back == far \div 16
               rest == far % 16
    <3>1. far \in Int
      BY <2>2, <2>4
    <3> HIDE DEF far
    <3>2. back \in Int /\ far = 16 * back + rest
      BY <3>1, DivMod
    <3>3. rest \in 0 .. 16 - 1
      BY <3>1, ModRange
    <3>4. led = at - 16 * back /\ at \in Int /\ from \in Int /\ far = at - from
      BY <2>2, <2>4 DEF far, at
    <3> HIDE DEF led, back, rest
    <3>5. QED
      BY <3>2, <3>3, <3>4
  <2> HIDE DEF led
  <2>6. from \in led - 15 .. led
    BY <2>2, <2>4, <2>5
  <2>7. ASSUME NEW p \in Starts("syncpoint"), p \in led - 15 .. led PROVE p = from
    <3>1. CASE p < from
      <4>1. from - p >= MaxDistance
        BY <2>1, <2>4, <3>1
      <4>2. QED
        BY <2>2, <2>4, <2>5, <2>7, <4>1
    <3>2. CASE from < p
      <4>1. p - from >= MaxDistance
        BY <2>1, <2>4, <3>2
      <4>2. QED
        BY <2>2, <2>4, <2>5, <2>7, <4>1
    <3>3. QED
      BY <2>2, <2>4, <3>1, <3>2
  <2>8. Starts("syncpoint") \cap (led - 15 .. led) = {from}
    BY <2>4, <2>6, <2>7
  <2>9. QED
    BY <2>8 DEF led, at, from
<1>2. QED
  BY <1>1, MuxerInvariant, PTL

(* The field of a syncpoint comes apart as it was put together: a PTS and  *)
(* a time base below the count of them.                                    *)
LEMMA FieldApart ==
  ASSUME NEW pts \in Nat, NEW n \in Nat, NEW b \in 1 .. n, pts * n + n - 1 <= MaxTick
  PROVE  LET coded == Wrapped(((pts * n) % (MaxWord + 1)) + b - 1, MaxTick)
         IN  SyncTicks(coded, n) = pts /\ SyncBase(coded, n) = b
<1> DEFINE product == pts * n
           x       == product + b - 1
<1>1. product \in Nat /\ n \in Nat \ {0} /\ b - 1 \in 0 .. n - 1
  OBVIOUS
<1>2. MaxTick \in Nat /\ MaxWord + 1 = 2 * MaxTick + 2
  BY MaxTickAssumption DEF MaxWord
<1>3. product <= MaxTick
  <2> HIDE DEF product
  <2>1. product + n - 1 <= MaxTick
    BY DEF product
  <2>2. QED
    BY <1>1, <1>2, <2>1
<1>4. (product % (MaxWord + 1)) = product
  <2> DEFINE words == MaxWord + 1
  <2>1. words \in Nat \ {0} /\ product \in 0 .. words - 1
    <3> HIDE DEF product
    <3>1. QED
      BY <1>1, <1>2, <1>3
  <2> HIDE DEF words, product
  <2>2. (words * 0 + product) % words = product
    BY <2>1, ModUnique
  <2>3. words * 0 + product = product
    BY <1>1, <2>1
  <2>4. (product % words) = product
    BY <2>2, <2>3
  <2>5. QED
    BY <2>4 DEF words
<1>5. x \in -MaxTick - 1 .. MaxTick
  <2> HIDE DEF product
  <2>1. product + n - 1 <= MaxTick
    BY DEF product
  <2>2. QED
    BY <1>1, <1>2, <2>1
<1>6. Wrapped(x, MaxTick) = x
  <2> HIDE DEF x
  <2>1. QED
    BY <1>2, <1>5, WrappedSame
<1>7. x = n * pts + (b - 1)
  <2>1. pts * n = n * pts /\ n * pts \in Int
    OBVIOUS
  <2>2. QED
    BY <1>1, <2>1
<1>8. (x % n) = b - 1
  <2>1. (n * pts + (b - 1)) % n = b - 1
    <3> DEFINE r == b - 1
    <3>1. r \in 0 .. n - 1
      BY <1>1
    <3> HIDE DEF r
    <3>2. (n * pts + r) % n = r
      BY <1>1, <3>1, ModUnique
    <3>3. QED
      BY <3>2 DEF r
  <2>2. QED
    BY <1>7, <2>1
<1>9. (x \div n) = pts
  <2> DEFINE q == x \div n
  <2>1. x \in Int
    BY <1>5, <1>2
  <2> HIDE DEF x
  <2>2. q \in Int /\ x = n * q + (x % n)
    BY <1>1, <2>1, DivMod
  <2> HIDE DEF q
  <2>3. n * q = n * pts
    <3>1. n * q \in Int /\ n * pts \in Int
      BY <1>1, <2>2
    <3>2. QED
      BY <1>1, <1>7, <1>8, <2>2, <3>1
  <2>4. q = pts
    BY <1>1, <2>2, <2>3
  <2>5. QED
    BY <2>4 DEF q
<1> HIDE DEF x
<1>10. SyncTicks(x, n) = pts /\ SyncBase(x, n) = b
  BY <1>1, <1>8, <1>9 DEF SyncTicks, SyncBase
<1>11. Wrapped(((pts * n) % (MaxWord + 1)) + b - 1, MaxTick) = x
  BY <1>4, <1>6 DEF x
<1>12. QED
  BY <1>10, <1>11

LEMMA SyncpointsTold ==
  ASSUME MInv
  PROVE  SyncpointsTellTheTime
<1> SUFFICES ASSUME NEW i \in DOMAIN marks, FitsSyncpoint(marks[i].pts)
             PROVE  LET coded == wire.unit[marks[i].at].coded
                    IN  /\ SyncTicks(coded, Len(timeBases)) = marks[i].pts
                        /\ timeBases[SyncBase(coded, Len(timeBases))]
                             = streams[Media(marks[i].stream)].base
  BY DEF SyncpointsTellTheTime
<1> DEFINE pts == marks[i].pts
           n   == Len(timeBases)
           b   == MediaBase(marks[i].stream)
           coded == wire.unit[marks[i].at].coded
<1>1. marks \in Seq(Marks) /\ marks # <<>> /\ Opened
  BY DEF MInv, WellLaid, Marked
<1>2. opened = "yes"
  BY <1>1 DEF Opened
<1>3. /\ b \in 1 .. n /\ n \in Nat
      /\ timeBases[b] = streams[Media(marks[i].stream)].base
  BY <1>1, <1>2, MediaNamed
<1>4. pts \in Nat
  <2>1. marks[i] \in Marks
    BY <1>1
  <2>2. QED
    BY <2>1 DEF Marks
<1>5. coded = Wrapped(((pts * n) % (MaxWord + 1)) + b - 1, MaxTick)
  BY DEF MInv, Told, SyncpointField
<1>6. pts * n + n - 1 <= MaxTick
  BY DEF FitsSyncpoint
<1> HIDE DEF pts, n, b, coded
<1>7. SyncTicks(coded, n) = pts /\ SyncBase(coded, n) = b
  BY <1>3, <1>4, <1>5, <1>6, FieldApart
<1>8. QED
  BY <1>3, <1>7 DEF pts, n, b, coded

(* What write_packet_for packs into a syncpoint, read_syncpoint takes apart*)
(* into the PTS and the time base of the frame it was written for, for any *)
(* number of time bases and whichever streams' frames a syncpoint was due  *)
(* at, as long as 64 bits hold the field.                                  *)
THEOREM SyncpointsTellTimes == MuxerSpec => []SyncpointsTellTheTime
BY SyncpointsTold, MuxerInvariant, PTL

(* What a muxer writes is a wire as its readers know it: units, of kinds   *)
(* and fields they have, and wherever the writer underneath did not fail   *)
(* inside one, the identifier and unit after unit up to the end, with no   *)
(* byte between two of them or in both.                                    *)
WritesUnits ==
  /\ IsWire(wire)
  /\ Apart(wire)
  /\ opened = "yes" /\ ~Torn => wire.nut /\ EndToEnd(wire)

THEOREM WritesAWire == MuxerSpec => []WritesUnits
<1>1. MInv => WritesUnits
  <2> SUFFICES ASSUME MInv PROVE WritesUnits
    OBVIOUS
  <2>1. wire \in MuxWires
    BY DEF MInv, WellLaid
  <2>2. IsWire(wire)
    BY <2>1, MuxWireParts DEF IsWire
  <2>3. ~Torn => Uncut(wire)
    BY <2>1, UntornUncut
  <2>4. QED
    BY <2>2, <2>3 DEF WritesUnits, MInv, Laying
<1>2. QED
  BY <1>1, MuxerInvariant, PTL

=============================================================================
