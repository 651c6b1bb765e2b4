-------------------------- MODULE NutContextProofs --------------------------
(***************************************************************************)
(* What every unit of the wire leaves of the demuxer's context, for every  *)
(* limit, every number of streams and every length of tag list.            *)
(***************************************************************************)
EXTENDS NutContext, TimestampsProofs

-----------------------------------------------------------------------------
(* Induction over the natural numbers, for a set of them; and functions    *)
(* that recur on them, for a set of values.                                *)

LEMMA Induction ==
  ASSUME NEW S, 0 \in S, \A n \in Nat : n \in S => n + 1 \in S
  PROVE  Nat \subseteq S
<1> DEFINE T == Nat \ S
<1> SUFFICES ASSUME T # {} PROVE FALSE
  OBVIOUS
<1>1. T \subseteq Nat
  OBVIOUS
<1> HIDE DEF T
<1>2. PICK x \in T : \A y \in T : x <= y
  BY <1>1, LeastOf
<1> USE DEF T
<1>3. x # 0 /\ x \in Nat
  OBVIOUS
<1>4. x - 1 \in Nat /\ (x - 1) + 1 = x
  BY <1>3
<1>5. x - 1 \notin T
  BY <1>2, <1>4
<1>6. QED
  BY <1>4, <1>5

(* A function that recurs on the naturals up to n from its value at zero   *)
(* exists where each step stays in a set, and what each step keeps all of  *)
(* it has.                                                                 *)
Folds(S, base, step, n) ==
  {g \in [0 .. n -> S] :
     g[0] = base /\ \A i \in 1 .. n : g[i] = step[<<g[i - 1], i>>]}

LEMMA FoldExists ==
  ASSUME NEW S, NEW base \in S, NEW n \in Nat, NEW step \in [S \X (1 .. n) -> S]
  PROVE  Folds(S, base, step, n) # {}
<1> DEFINE Upto(m) == Folds(S, base, step, m)
           T == {m \in Nat : m <= n => Upto(m) # {}}
<1> USE DEF Folds
<1>1. 0 \in T
  <2>1. [i \in 0 .. 0 |-> base] \in Upto(0)
    OBVIOUS
  <2>2. QED
    BY <2>1
<1>2. ASSUME NEW m \in Nat, m \in T PROVE m + 1 \in T
  <2> SUFFICES ASSUME m + 1 <= n PROVE Upto(m + 1) # {}
    OBVIOUS
  <2>1. PICK g \in [0 .. m -> S] : g[0] = base /\ \A i \in 1 .. m : g[i] = step[<<g[i - 1], i>>]
    BY <1>2
  <2> DEFINE h == [i \in 0 .. m + 1 |-> IF i = m + 1 THEN step[<<g[m], m + 1>>] ELSE g[i]]
  <2>2. step[<<g[m], m + 1>>] \in S
    <3>1. g[m] \in S /\ m + 1 \in 1 .. n
      OBVIOUS
    <3>2. QED
      BY <3>1
  <2>3. h \in [0 .. m + 1 -> S] /\ h[0] = base
    BY <2>1, <2>2
  <2>4. ASSUME NEW i \in 1 .. m + 1 PROVE h[i] = step[<<h[i - 1], i>>]
    <3>1. h[i - 1] = g[i - 1]
      OBVIOUS
    <3>2. CASE i = m + 1
      <4>1. h[m + 1] = step[<<g[m], m + 1>>] /\ i - 1 = m
        BY <3>2
      <4> HIDE DEF h
      <4>2. QED
        BY <3>1, <3>2, <4>1
    <3>3. CASE i \in 1 .. m
      BY <2>1, <3>1, <3>3
    <3>4. QED
      BY <3>2, <3>3
  <2> HIDE DEF h
  <2>5. h \in Upto(m + 1)
    BY <2>3, <2>4
  <2>6. QED
    BY <2>5
<1> HIDE DEF T
<1>3. Nat \subseteq T
  BY <1>1, <1>2, Induction
<1>4. QED
  BY <1>3 DEF T

LEMMA FoldKeeps ==
  ASSUME NEW S, NEW n \in Nat, NEW after, after[0] \in S,
         \A i \in 1 .. n : after[i - 1] \in S => after[i] \in S
  PROVE  \A i \in 0 .. n : after[i] \in S
<1> DEFINE T == {i \in Nat : i <= n => after[i] \in S}
<1>1. 0 \in T
  OBVIOUS
<1>2. ASSUME NEW i \in Nat, i \in T PROVE i + 1 \in T
  <2> SUFFICES ASSUME i + 1 <= n PROVE after[i + 1] \in S
    OBVIOUS
  <2>1. i + 1 \in 1 .. n /\ (i + 1) - 1 = i /\ after[i] \in S
    BY <1>2
  <2>2. QED
    BY <2>1
<1> HIDE DEF T
<1>3. Nat \subseteq T
  BY <1>1, <1>2, Induction
<1>4. QED
  BY <1>3 DEF T

-----------------------------------------------------------------------------
(* Sequences of which only that is known.                                  *)

IsRow(s) == Len(s) \in Nat /\ s = [i \in 1 .. Len(s) |-> s[i]]

LEMMA RowSequence ==
  ASSUME NEW s, IsRow(s)
  PROVE  s \in Seq({s[i] : i \in 1 .. Len(s)})
BY DEF IsRow

LEMMA RowAppend ==
  ASSUME NEW s, IsRow(s), NEW e
  PROVE  IsRow(Append(s, e))
<1> DEFINE S == {s[i] : i \in 1 .. Len(s)} \cup {e}
<1>1. s \in Seq(S) /\ e \in S
  BY DEF IsRow
<1> HIDE DEF S
<1>2. Append(s, e) \in Seq(S)
  BY <1>1
<1>3. ASSUME NEW t \in Seq(S) PROVE IsRow(t)
  BY DEF IsRow
<1>4. QED
  BY <1>2, <1>3

LEMMA RowJoin ==
  ASSUME NEW s, IsRow(s), NEW e
  PROVE  /\ s \o <<e>> = Append(s, e)
         /\ s \o <<>> = s
<1> DEFINE S == {s[i] : i \in 1 .. Len(s)} \cup {e}
<1>1. s \in Seq(S) /\ e \in S
  BY DEF IsRow
<1> HIDE DEF S
<1>2. QED
  BY <1>1

LEMMA Appended ==
  ASSUME NEW l, IsRow(l), NEW e
  PROVE  /\ Len(l) \in Nat
         /\ Len(Append(l, e)) = Len(l) + 1
         /\ \A i \in 1 .. Len(l) : Append(l, e)[i] = l[i]
         /\ Append(l, e)[Len(l) + 1] = e
<1> DEFINE S == {l[i] : i \in 1 .. Len(l)} \cup {e}
<1>1. l \in Seq(S) /\ e \in S
  BY DEF IsRow
<1> HIDE DEF S
<1>2. QED
  BY <1>1

-----------------------------------------------------------------------------
(* What a wire has in front of a reader is always a unit, and its fields.  *)

LEMMA UnitsEverywhere ==
  ASSUME NEW w, IsWire(w), NEW p
  PROVE  UnitAt(w, p) \in Units
<1>1. NoUnit \in FrameUnits
  BY DEF NoUnit, FrameUnits
<1>2. QED
  BY <1>1 DEF IsWire, UnitAt, Units

LEMMA PacketFields ==
  ASSUME NEW u \in Units, u.kind # "frame"
  PROVE  u.head \in Nat \ {0} /\ u.body \in Nat
BY DEF Units, Packets, MainUnits, StreamUnits, SyncUnits, InfoUnits, OtherUnits, FrameUnits

LEMMA FrameFields ==
  ASSUME NEW u \in Units, u.kind = "frame"
  PROVE  /\ u.head \in Nat \ {0}
         /\ u.size \in Nat
         /\ u.header \in Nat
         /\ u.streamAt \in Nat
         /\ u.ptsAt \in Nat
         /\ u.streamAt <= u.ptsAt
         /\ u.ptsAt <= u.head
BY DEF Units, Packets, MainUnits, StreamUnits, SyncUnits, InfoUnits, OtherUnits, FrameUnits

LEMMA MainFields ==
  ASSUME NEW u \in Units, u.kind = "main"
  PROVE  u.elision \in Seq(Seq(ElidedBytes))
BY DEF Units, Packets, MainUnits, StreamUnits, SyncUnits, InfoUnits, OtherUnits, FrameUnits

-----------------------------------------------------------------------------
(* Every handler leaves a context.                                         *)

LEMMA HeadersClosedType ==
  ASSUME NEW c, IsContext(c)
  PROVE  IsContext(HeadersClosed(c))
BY DEF IsContext, HeadersClosed

LEMMA ReadMainType ==
  ASSUME NEW c, IsContext(c), NEW u, u.elision \in Seq(Seq(ElidedBytes))
  PROVE  IsContext(ReadMain(c, u))
<1>1. <<(<<>>)>> \o u.elision \in Seq(Seq(ElidedBytes))
  OBVIOUS
<1>2. QED
  BY <1>1 DEF IsContext, ReadMain

LEMMA StreamsType ==
  ASSUME NEW c, IsContext(c), NEW streams
  PROVE  IsContext([c EXCEPT !.streams = streams])
BY DEF IsContext

LEMMA ClocksType ==
  ASSUME NEW c, IsContext(c), NEW clocks
  PROVE  IsContext([c EXCEPT !.clocks = clocks])
BY DEF IsContext

LEMMA ReadStreamType ==
  ASSUME NEW c, IsContext(c), NEW u
  PROVE  IsContext(ReadStream(c, u))
<1> DEFINE header  == <<[base |-> c.bases[u.base], span |-> u.span, delay |-> u.delay, rate |-> 0]>>
           streams == [c.streams EXCEPT ![u.stream] = header]
           buffer  == IF Len(c.clocks[u.stream].buffer) = u.delay + 1
                        THEN c.clocks[u.stream].buffer ELSE EmptyBuffer(u.delay)
           clocks  == [c.clocks EXCEPT ![u.stream].buffer = buffer]
           c1 == [c EXCEPT !.streams = streams]
<1>1. ReadStream(c, u) = [c1 EXCEPT !.clocks = clocks]
  BY DEF ReadStream
<1> HIDE DEF streams, clocks
<1>2. IsContext(c1)
  BY StreamsType
<1> HIDE DEF c1
<1>3. QED
  BY <1>1, <1>2, ClocksType

LEMMA ReadSyncpointType ==
  ASSUME NEW c, IsContext(c), NEW u
  PROVE  IsContext(ReadSyncpoint(c, u))
<1> DEFINE clocks ==
      [i \in DOMAIN c.clocks |->
         IF i \in Known(c) /\ \A j \in SyncStopsAt(c, u) : i < j
           THEN [c.clocks[i] EXCEPT !.last = SyncedPts(c, u, i)]
           ELSE c.clocks[i]]
<1>1. ReadSyncpoint(c, u) = [c EXCEPT !.clocks = clocks]
  BY DEF ReadSyncpoint
<1> HIDE DEF clocks
<1>2. QED
  BY <1>1 DEF IsContext

LEMMA ApplyInfoType ==
  ASSUME NEW c, IsContext(c), NEW u
  PROVE  IsContext(ApplyInfo(c, u))
BY DEF IsContext, ApplyInfo

LEMMA ApplyTagsType ==
  ASSUME NEW c, IsContext(c), NEW u
  PROVE  IsContext(ApplyTags(c, u))
BY DEF IsContext, ApplyTags

LEMMA FrameReadType ==
  ASSUME NEW c, IsContext(c), NEW u
  PROVE  IsContext(FrameRead(c, u))
<1> DEFINE clock ==
      [last   |-> FramePts(c, u),
       buffer |-> IF u.eor THEN c.clocks[u.stream].buffer
                  ELSE LandPts(c.clocks[u.stream].buffer, FramePts(c, u))]
           clocks == [c.clocks EXCEPT ![u.stream] = clock]
<1>1. FrameRead(c, u) = [c EXCEPT !.clocks = clocks]
  BY DEF FrameRead
<1> HIDE DEF clocks
<1>2. QED
  BY <1>1 DEF IsContext

LEMMA PacketReadType ==
  ASSUME NEW c, IsContext(c), NEW u \in Units, u.kind # "frame", ~SteppedOver(u)
  PROVE  IsContext(PacketRead(c, u))
<1>1. u.kind \in {"main", "stream", "syncpoint", "info"}
  BY DEF SteppedOver, Units, Packets, MainUnits, StreamUnits, SyncUnits, InfoUnits,
         OtherUnits, FrameUnits
<1>2. CASE u.kind = "main"
  BY <1>2, MainFields, ReadMainType DEF PacketRead
<1>3. CASE u.kind = "stream"
  BY <1>3, ReadStreamType DEF PacketRead
<1>4. CASE u.kind = "syncpoint"
  BY <1>4, ReadSyncpointType, HeadersClosedType DEF PacketRead
<1>5. CASE u.kind = "info"
  BY <1>5, ApplyTagsType, ApplyInfoType DEF PacketRead
<1>6. QED
  BY <1>1, <1>2, <1>3, <1>4, <1>5

LEMMA BodyRefusedType ==
  ASSUME NEW c, IsContext(c), NEW u
  PROVE  IsContext(BodyRefusedLeaves(c, u))
BY ReadSyncpointType DEF BodyRefusedLeaves

(* What is left of a frame on the wire once its header is accepted.        *)
LEMMA FrameOnWire ==
  ASSUME NEW c, IsContext(c), NEW u \in Units, u.kind = "frame", NEW have, NEW ceiling,
         FrameReads(c, u, have, ceiling)
  PROVE  /\ Elided(c, u) \in Seq(ElidedBytes)
         /\ OnWire(c, u) \in Nat
         /\ have >= u.head
<1>1. u.size \in Nat
  BY FrameFields
<1>2. u.header + 1 \in DOMAIN c.elision /\ ~(Len(Elided(c, u)) > u.size) /\ have >= u.head
  BY DEF FrameReads, FrameRefused, HeadSeen
<1>3. Elided(c, u) \in Seq(ElidedBytes)
  BY <1>2 DEF IsContext, Elided
<1>4. QED
  BY <1>1, <1>2, <1>3 DEF OnWire

-----------------------------------------------------------------------------
(* Lists of tags: bounded, and no name in them twice.                      *)

HeldTags ==
  {t \in Seq(Nat \X Nat) :
     /\ Len(t) <= MaxTags
     /\ \A i, j \in DOMAIN t : t[i][1] = t[j][1] => i = j}

LEMMA HoldTagKeeps ==
  ASSUME NEW held \in HeldTags, NEW tag \in Nat \X Nat
  PROVE  HoldTag(held, tag) \in HeldTags
<1> DEFINE at  == {i \in DOMAIN held : held[i][1] = tag[1]}
           new == [i \in DOMAIN held |-> IF i \in at THEN tag ELSE held[i]]
           n   == Len(held)
<1>1. /\ held \in Seq(Nat \X Nat)
      /\ n \in Nat
      /\ n <= MaxTags
      /\ DOMAIN held = 1 .. n
      /\ \A i \in 1 .. n : held[i] \in Nat \X Nat
      /\ \A i, j \in 1 .. n : held[i][1] = held[j][1] => i = j
  BY DEF HeldTags
<1>2. MaxTags \in Nat
  BY LimitsAssumption
<1>3. CASE at # {}
  <2>1. HoldTag(held, tag) = new
    BY <1>3 DEF HoldTag
  <2>2. new \in Seq(Nat \X Nat) /\ DOMAIN new = 1 .. n /\ Len(new) = n
    BY <1>1
  <2>3. ASSUME NEW i \in 1 .. n PROVE new[i][1] = held[i][1]
    BY <1>1
  <2> HIDE DEF new
  <2>4. QED
    BY <1>1, <2>1, <2>2, <2>3 DEF HeldTags
<1>4. CASE at = {} /\ n < MaxTags
  <2>1. HoldTag(held, tag) = Append(held, tag)
    BY <1>4 DEF HoldTag
  <2>2. /\ Append(held, tag) \in Seq(Nat \X Nat)
        /\ Len(Append(held, tag)) = n + 1
        /\ \A i \in 1 .. n : Append(held, tag)[i] = held[i]
        /\ Append(held, tag)[n + 1] = tag
    BY <1>1
  <2>3. \A i \in 1 .. n : held[i][1] # tag[1]
    BY <1>1, <1>4
  <2> DEFINE more == Append(held, tag)
  <2> HIDE DEF more, n
  <2>4. Len(more) <= MaxTags
    BY <1>1, <1>2, <1>4, <2>2 DEF more
  <2>5. ASSUME NEW i \in 1 .. n + 1, NEW j \in 1 .. n + 1, more[i][1] = more[j][1]
        PROVE  i = j
    <3>1. CASE i \in 1 .. n /\ j \in 1 .. n
      BY <1>1, <2>2, <2>5, <3>1 DEF more
    <3>2. CASE i = n + 1 /\ j = n + 1
      BY <3>2
    <3>3. CASE i = n + 1 /\ j \in 1 .. n
      BY <2>2, <2>3, <2>5, <3>3 DEF more
    <3>4. CASE i \in 1 .. n /\ j = n + 1
      BY <2>2, <2>3, <2>5, <3>4 DEF more
    <3>5. QED
      BY <1>1, <3>1, <3>2, <3>3, <3>4
  <2>6. more \in Seq(Nat \X Nat) /\ DOMAIN more = 1 .. n + 1
    BY <2>2 DEF more
  <2>7. QED
    BY <2>1, <2>4, <2>5, <2>6 DEF HeldTags, more
<1>5. CASE at = {} /\ ~(n < MaxTags)
  BY <1>5 DEF HoldTag
<1>6. QED
  BY <1>3, <1>4, <1>5

LEMMA HoldTagsKeeps ==
  ASSUME NEW held \in HeldTags, NEW tags \in Seq(Nat \X Nat)
  PROVE  HoldTags(held, tags) \in HeldTags
<1> DEFINE n == Len(tags)
           Defines(g) == g = [i \in 0 .. n |-> IF i = 0 THEN held ELSE HoldTag(g[i - 1], tags[i])]
           after == CHOOSE g : Defines(g)
           step == [x \in HeldTags \X (1 .. n) |-> HoldTag(x[1], tags[x[2]])]
<1>1. n \in Nat /\ \A i \in 1 .. n : tags[i] \in Nat \X Nat
  OBVIOUS
<1>2. \A h \in HeldTags, i \in 1 .. n : HoldTag(h, tags[i]) \in HeldTags
  BY <1>1, HoldTagKeeps
<1>3. step \in [HeldTags \X (1 .. n) -> HeldTags]
  BY <1>2
<1> HIDE DEF n
<1>4. Folds(HeldTags, held, step, n) # {}
  <2> HIDE DEF step
  <2>1. QED
    BY <1>1, <1>3, FoldExists
<1>5. PICK g \in [0 .. n -> HeldTags] :
        g[0] = held /\ \A i \in 1 .. n : g[i] = step[<<g[i - 1], i>>]
  BY <1>4 DEF Folds
<1>6. Defines(g)
  <2>1. ASSUME NEW i \in 1 .. n PROVE g[i] = HoldTag(g[i - 1], tags[i])
    <3>1. i - 1 \in 0 .. n
      BY <1>1
    <3>2. g[i - 1] \in HeldTags
      BY <1>5, <3>1
    <3>3. step[<<g[i - 1], i>>] = HoldTag(g[i - 1], tags[i])
      BY <3>2
    <3>4. QED
      BY <1>5, <3>3
  <2>2. QED
    BY <1>1, <1>5, <2>1
<1>7. Defines(after)
  BY <1>6
<1>8. HoldTags(held, tags) = after[n]
  BY DEF HoldTags, n
<1> HIDE DEF after
<1>9. after[0] = held /\ \A i \in 1 .. n : after[i] = HoldTag(after[i - 1], tags[i])
  BY <1>1, <1>7
<1>10. \A i \in 0 .. n : after[i] \in HeldTags
  <2>1. \A i \in 1 .. n : after[i - 1] \in HeldTags => after[i] \in HeldTags
    BY <1>2, <1>9
  <2>2. QED
    BY <1>1, <1>9, <2>1, FoldKeeps
<1>11. QED
  BY <1>1, <1>8, <1>10

-----------------------------------------------------------------------------
(* The context a demuxer can be in: every declared stream has a clock and  *)
(* a list of tags, every clock a time an i64 holds and a reorder buffer in *)
(* order, and the buffer is as deep as the stream's header says.           *)

Headers == [base: Rationals, span: Nat \ {0}, delay: Nat, rate: Nat]
Options == {<<>>} \cup {<<h>> : h \in Headers}

Ordered(b) == \A i, j \in DOMAIN b : i <= j => b[i] <= b[j]

Clocks == [last: Ticks, buffer: {b \in Seq(Times) : Len(b) > 0 /\ Ordered(b)}]

DeepAsDeclared(c) ==
  \A i \in Known(c) : Len(c.clocks[i].buffer) = Header(c, i).delay + 1

ContextOK(c) ==
  /\ IsContext(c)
  /\ c.bases \in Seq(Rationals)
  /\ c.streams \in Seq(Options)
  /\ c.clocks \in [DOMAIN c.streams -> Clocks]
  /\ c.tags \in [DOMAIN c.streams -> HeldTags]
  /\ c.fileTags \in HeldTags
  /\ c.done \in BOOLEAN
  /\ DeepAsDeclared(c)

LEMMA ContextFields ==
  ASSUME NEW c, ContextOK(c)
  PROVE  /\ IsContext(c)
         /\ c.bases \in Seq(Rationals)
         /\ c.streams \in Seq(Options)
         /\ c.clocks \in [DOMAIN c.streams -> Clocks]
         /\ c.tags \in [DOMAIN c.streams -> HeldTags]
         /\ c.fileTags \in HeldTags
         /\ c.done \in BOOLEAN
         /\ DeepAsDeclared(c)
BY DEF ContextOK

LEMMA EmptyClocks ==
  ASSUME NEW d \in Nat
  PROVE  /\ EmptyBuffer(d) \in {b \in Seq(Times) : Len(b) > 0 /\ Ordered(b)}
         /\ Len(EmptyBuffer(d)) = d + 1
<1>1. NoTime \in Times /\ NoTime \in Int
  BY TimesAreIntegers
<1>2. EmptyBuffer(d) \in Seq(Times) /\ Len(EmptyBuffer(d)) = d + 1
  BY <1>1 DEF EmptyBuffer
<1>3. Ordered(EmptyBuffer(d))
  BY <1>1 DEF Ordered, EmptyBuffer
<1>4. QED
  BY <1>2, <1>3

LEMMA EmptyTags == <<>> \in HeldTags
BY LimitsAssumption DEF HeldTags

LEMMA NewContextOK == ContextOK(NewContext)
<1>1. IsContext(NewContext)
  BY DEF IsContext, NewContext
<1>2. Known(NewContext) = {} /\ DOMAIN NewContext.streams = {}
  BY DEF Known, Declared, NewContext
<1>3. QED
  BY <1>1, <1>2, EmptyTags DEF ContextOK, DeepAsDeclared, NewContext

LEMMA KnownHeader ==
  ASSUME NEW c, ContextOK(c), NEW i \in Known(c)
  PROVE  /\ i \in DOMAIN c.streams
         /\ Header(c, i) \in Headers
         /\ c.streams[i] = <<Header(c, i)>>
         /\ c.clocks[i] \in Clocks
<1>1. i \in DOMAIN c.streams /\ c.streams[i] # <<>>
  BY DEF Known, Declared
<1>2. c.streams[i] \in Options
  BY <1>1 DEF ContextOK
<1>3. QED
  BY <1>1, <1>2 DEF ContextOK, Options, Header

LEMMA HeadersClosedKeeps ==
  ASSUME NEW c, ContextOK(c)
  PROVE  ContextOK(HeadersClosed(c))
<1> DEFINE d == HeadersClosed(c)
<1>1. IsContext(d)
  BY HeadersClosedType DEF ContextOK
<1>2. /\ d.bases = c.bases /\ d.streams = c.streams /\ d.clocks = c.clocks
      /\ d.tags = c.tags /\ d.fileTags = c.fileTags
      /\ d.done = (c.done \/ HeadersComplete(c))
  BY DEF ContextOK, IsContext, HeadersClosed
<1>3. d.done \in BOOLEAN
  BY <1>2 DEF ContextOK, HeadersComplete
<1> HIDE DEF d
<1>4. DeepAsDeclared(d)
  BY <1>2 DEF ContextOK, DeepAsDeclared, Known, Declared, Header
<1>5. c.streams \in Seq(Options) /\ c.bases \in Seq(Rationals) /\ c.fileTags \in HeldTags
  BY ContextFields
<1>6. c.clocks \in [DOMAIN c.streams -> Clocks] /\ c.tags \in [DOMAIN c.streams -> HeldTags]
  BY ContextFields
<1>7. d.streams \in Seq(Options) /\ d.bases \in Seq(Rationals) /\ d.fileTags \in HeldTags
  BY <1>2, <1>5
<1>8. d.clocks \in [DOMAIN d.streams -> Clocks] /\ d.tags \in [DOMAIN d.streams -> HeldTags]
  BY <1>2, <1>6
<1>9. QED
  BY <1>1, <1>3, <1>4, <1>7, <1>8 DEF ContextOK, d

LEMMA ReadMainKeeps ==
  ASSUME NEW c, ContextOK(c), NEW u \in MainUnits, ~MainRefused(u)
  PROVE  ContextOK(ReadMain(c, u))
<1> DEFINE d == ReadMain(c, u)
<1>1. IsContext(d)
  BY ReadMainType DEF ContextOK, MainUnits
<1>2. u.count \in Nat /\ u.bases \in Seq(Rationals)
  BY DEF MainUnits
<1>3. CASE Len(c.streams) = u.count
  <2>1. /\ d.bases = u.bases /\ d.streams = c.streams /\ d.clocks = c.clocks
        /\ d.tags = c.tags /\ d.fileTags = c.fileTags /\ d.done = c.done
    BY <1>3 DEF ContextOK, IsContext, ReadMain
  <2> HIDE DEF d
  <2>2. DeepAsDeclared(d)
    BY <2>1 DEF ContextOK, DeepAsDeclared, Known, Declared, Header
  <2>3. c.streams \in Seq(Options) /\ c.fileTags \in HeldTags /\ c.done \in BOOLEAN
    BY ContextFields
  <2>4. c.clocks \in [DOMAIN c.streams -> Clocks] /\ c.tags \in [DOMAIN c.streams -> HeldTags]
    BY ContextFields
  <2>5. d.streams \in Seq(Options) /\ d.fileTags \in HeldTags /\ d.done \in BOOLEAN
    BY <2>1, <2>3
  <2>6. d.clocks \in [DOMAIN d.streams -> Clocks] /\ d.tags \in [DOMAIN d.streams -> HeldTags]
    BY <2>1, <2>4
  <2>7. d.bases \in Seq(Rationals)
    BY <1>2, <2>1
  <2>8. QED
    BY <1>1, <2>2, <2>5, <2>6, <2>7 DEF ContextOK, d
<1>4. CASE Len(c.streams) # u.count
  <2> DEFINE clock == [last |-> 0, buffer |-> EmptyBuffer(0)]
             n     == u.count
  <2>1. /\ d.bases = u.bases /\ d.fileTags = <<>> /\ d.done = FALSE
        /\ d.streams = [i \in 1 .. n |-> <<>>]
        /\ d.clocks = [i \in 1 .. n |-> clock]
        /\ d.tags = [i \in 1 .. n |-> <<>>]
    BY <1>4 DEF ContextOK, IsContext, ReadMain
  <2>2. clock \in Clocks
    BY EmptyClocks, MaxTickAssumption DEF Clocks, Ticks, MinTick
  <2> HIDE DEF d, clock
  <2>3. d.streams \in Seq(Options) /\ DOMAIN d.streams = 1 .. n
    BY <1>2, <2>1 DEF Options
  <2>4. Known(d) = {}
    BY <2>1 DEF Known, Declared
  <2>5. DeepAsDeclared(d)
    BY <2>4 DEF DeepAsDeclared
  <2>6. d.clocks \in [DOMAIN d.streams -> Clocks] /\ d.tags \in [DOMAIN d.streams -> HeldTags]
    BY <2>1, <2>2, <2>3, EmptyTags
  <2>7. d.bases \in Seq(Rationals) /\ d.fileTags \in HeldTags /\ d.done \in BOOLEAN
    BY <1>2, <2>1, EmptyTags
  <2>8. QED
    BY <1>1, <2>3, <2>5, <2>6, <2>7 DEF ContextOK, d
<1>5. QED
  BY <1>3, <1>4

LEMMA ReadStreamKeeps ==
  ASSUME NEW c, ContextOK(c), NEW u \in StreamUnits, ~StreamRefused(c, u)
  PROVE  ContextOK(ReadStream(c, u))
<1> DEFINE d == ReadStream(c, u)
           s == u.stream
           header == [base |-> c.bases[u.base], span |-> u.span, delay |-> u.delay, rate |-> 0]
           old    == c.clocks[s]
           buffer == IF Len(old.buffer) = u.delay + 1 THEN old.buffer ELSE EmptyBuffer(u.delay)
           clock  == [old EXCEPT !.buffer = buffer]
<1>1. IsContext(d)
  BY ReadStreamType DEF ContextOK
<1>2. s \in DOMAIN c.streams /\ u.base \in DOMAIN c.bases
  BY DEF StreamRefused, Declared
<1>3. c.bases[u.base] \in Rationals /\ u.delay \in Nat /\ u.span \in Nat \ {0}
  BY <1>2 DEF ContextOK, StreamUnits
<1>4. header \in Headers /\ <<header>> \in Options /\ header.delay = u.delay
  BY <1>3 DEF Headers, Options
<1>5. old \in Clocks
  BY <1>2 DEF ContextOK
<1>6. /\ d.bases = c.bases /\ d.tags = c.tags /\ d.fileTags = c.fileTags /\ d.done = c.done
      /\ d.streams = [c.streams EXCEPT ![s] = <<header>>]
      /\ d.clocks = [c.clocks EXCEPT ![s] = clock]
  BY <1>2 DEF ContextOK, IsContext, ReadStream
<1>7. /\ buffer \in {b \in Seq(Times) : Len(b) > 0 /\ Ordered(b)}
      /\ Len(buffer) = u.delay + 1
  BY <1>3, <1>5, EmptyClocks DEF Clocks
<1>8. clock \in Clocks /\ clock.buffer = buffer
  <2> HIDE DEF buffer
  <2>1. QED
    BY <1>5, <1>7 DEF Clocks
<1> HIDE DEF d, header, clock
<1>9. /\ d.streams \in Seq(Options)
      /\ DOMAIN d.streams = DOMAIN c.streams
      /\ d.clocks \in [DOMAIN c.streams -> Clocks]
  BY <1>2, <1>4, <1>6, <1>8 DEF ContextOK
<1>10. ASSUME NEW i \in Known(d)
       PROVE  Len(d.clocks[i].buffer) = Header(d, i).delay + 1
  <2>1. i \in DOMAIN c.streams /\ d.streams[i] # <<>>
    BY <1>9 DEF Known, Declared
  <2>2. CASE i = s
    <3>1. d.clocks[i] = clock /\ Header(d, i) = header
      BY <1>2, <1>6, <2>2 DEF ContextOK, Header
    <3>2. QED
      BY <1>4, <1>7, <1>8, <3>1
  <2>3. CASE i # s
    <3>1. d.clocks[i] = c.clocks[i] /\ d.streams[i] = c.streams[i]
      BY <1>6, <2>1, <2>3 DEF ContextOK
    <3>2. i \in Known(c) /\ Header(d, i) = Header(c, i)
      BY <2>1, <3>1 DEF Known, Declared, Header
    <3>3. QED
      BY <3>1, <3>2 DEF ContextOK, DeepAsDeclared
  <2>4. QED
    BY <2>2, <2>3
<1>11. DeepAsDeclared(d)
  BY <1>10 DEF DeepAsDeclared
<1>12. /\ c.bases \in Seq(Rationals) /\ c.fileTags \in HeldTags /\ c.done \in BOOLEAN
       /\ c.tags \in [DOMAIN c.streams -> HeldTags]
  BY ContextFields
<1>13. d.bases \in Seq(Rationals) /\ d.fileTags \in HeldTags /\ d.done \in BOOLEAN
  BY <1>6, <1>12
<1>14. d.clocks \in [DOMAIN d.streams -> Clocks] /\ d.tags \in [DOMAIN d.streams -> HeldTags]
  BY <1>6, <1>9, <1>12
<1>15. QED
  BY <1>1, <1>9, <1>11, <1>13, <1>14 DEF ContextOK, d

(* A handler that moves clocks and nothing else keeps the context, if each *)
(* clock stays one and keeps the depth of its buffer.                      *)
LEMMA ClocksKeep ==
  ASSUME NEW c, ContextOK(c), NEW clocks \in [DOMAIN c.streams -> Clocks],
         \A i \in Known(c) : Len(clocks[i].buffer) = Len(c.clocks[i].buffer)
  PROVE  ContextOK([c EXCEPT !.clocks = clocks])
<1> DEFINE d == [c EXCEPT !.clocks = clocks]
<1>1. IsContext(d)
  BY ClocksType DEF ContextOK
<1>2. /\ d.bases = c.bases /\ d.streams = c.streams /\ d.clocks = clocks
      /\ d.tags = c.tags /\ d.fileTags = c.fileTags /\ d.done = c.done
  BY DEF ContextOK, IsContext
<1> HIDE DEF d
<1>3. DeepAsDeclared(d)
  <2>1. \A i \in Known(c) : Len(clocks[i].buffer) = Header(c, i).delay + 1
    BY DEF ContextOK, DeepAsDeclared
  <2>2. QED
    BY <1>2, <2>1 DEF DeepAsDeclared, Known, Declared, Header
<1>4. /\ c.bases \in Seq(Rationals) /\ c.fileTags \in HeldTags /\ c.done \in BOOLEAN
      /\ c.tags \in [DOMAIN c.streams -> HeldTags] /\ c.streams \in Seq(Options)
  BY ContextFields
<1>5. /\ d.bases \in Seq(Rationals) /\ d.fileTags \in HeldTags /\ d.done \in BOOLEAN
      /\ d.streams \in Seq(Options)
  BY <1>2, <1>4
<1>6. d.clocks \in [DOMAIN d.streams -> Clocks] /\ d.tags \in [DOMAIN d.streams -> HeldTags]
  BY <1>2, <1>4
<1>7. QED
  BY <1>1, <1>3, <1>5, <1>6 DEF ContextOK, d

(* A clock is set only to a time its stream's ticks have room for: those   *)
(* before the first stream the syncpoint cannot be carried to.             *)
LEMMA ReadSyncpointKeeps ==
  ASSUME NEW c, ContextOK(c), NEW u
  PROVE  ContextOK(ReadSyncpoint(c, u))
<1> DEFINE set(i)  == i \in Known(c) /\ \A j \in SyncStopsAt(c, u) : i < j
           clocks == [i \in DOMAIN c.clocks |->
                        IF set(i) THEN [c.clocks[i] EXCEPT !.last = SyncedPts(c, u, i)]
                                  ELSE c.clocks[i]]
<1>1. ReadSyncpoint(c, u) = [c EXCEPT !.clocks = clocks]
  BY DEF ReadSyncpoint
<1>2. c.clocks \in [DOMAIN c.streams -> Clocks] /\ DOMAIN c.streams \subseteq Nat
  BY DEF ContextOK
<1>3. ASSUME NEW i, set(i) PROVE SyncedPts(c, u, i) \in Ticks
  <2>1. i \in Nat /\ i \in Known(c)
    BY <1>2, <1>3 DEF Known, Declared
  <2>2. i \notin SyncStopsAt(c, u)
    BY <1>3, <2>1
  <2>3. QED
    BY <2>1, <2>2 DEF SyncStopsAt, SyncRefusedAt, RescaleRefused, SyncedPts
<1>4. ASSUME NEW i \in DOMAIN c.streams
      PROVE  clocks[i] \in Clocks /\ clocks[i].buffer = c.clocks[i].buffer
  <2>1. c.clocks[i] \in Clocks /\ i \in DOMAIN c.clocks
    BY <1>2
  <2>2. CASE set(i)
    <3>1. SyncedPts(c, u, i) \in Ticks
      BY <1>3, <2>2
    <3> DEFINE t == SyncedPts(c, u, i)
               k == c.clocks[i]
    <3>2. clocks[i] = [k EXCEPT !.last = t]
      BY <2>1, <2>2
    <3> HIDE DEF t, k, clocks
    <3>3. QED
      BY <2>1, <3>1, <3>2 DEF Clocks, t, k
  <2>3. CASE ~set(i)
    BY <2>1, <2>3
  <2>4. QED
    BY <2>2, <2>3
<1>5. DOMAIN clocks = DOMAIN c.streams
  BY <1>2
<1>6. clocks = [i \in DOMAIN c.streams |-> clocks[i]]
  BY <1>5
<1> HIDE DEF clocks
<1>7. clocks \in [DOMAIN c.streams -> Clocks]
  BY <1>4, <1>6
<1>8. \A i \in Known(c) : Len(clocks[i].buffer) = Len(c.clocks[i].buffer)
  BY <1>4 DEF Known, Declared
<1>9. QED
  BY <1>1, <1>7, <1>8, ClocksKeep

LEMMA ApplyInfoKeeps ==
  ASSUME NEW c, ContextOK(c), NEW u \in InfoUnits
  PROVE  ContextOK(ApplyInfo(c, u))
<1> DEFINE d == ApplyInfo(c, u)
           rated(i) == i \in Known(c) /\ u.about \in {0, i}
           streams  == [i \in DOMAIN c.streams |->
                          IF rated(i) THEN <<Rated(Header(c, i), u.rate)>> ELSE c.streams[i]]
<1>1. IsContext(d)
  BY ApplyInfoType DEF ContextOK
<1>2. /\ d.bases = c.bases /\ d.streams = streams /\ d.clocks = c.clocks
      /\ d.tags = c.tags /\ d.fileTags = c.fileTags /\ d.done = c.done
  BY DEF ContextOK, IsContext, ApplyInfo
<1>3. u.rate \in Nat
  BY DEF InfoUnits
<1>4. c.streams \in Seq(Options)
  BY ContextFields
<1>5. ASSUME NEW i \in DOMAIN c.streams
      PROVE  /\ streams[i] \in Options
             /\ (streams[i] = <<>>) = (c.streams[i] = <<>>)
             /\ streams[i] # <<>> => streams[i][1].delay = c.streams[i][1].delay
  <2>1. CASE rated(i)
    <3>1. Header(c, i) \in Headers /\ c.streams[i] = <<Header(c, i)>>
      BY <2>1, KnownHeader
    <3>2. Rated(Header(c, i), u.rate) \in Headers
      BY <1>3, <3>1 DEF Rated, Headers
    <3>3. Rated(Header(c, i), u.rate).delay = Header(c, i).delay
      BY <3>1 DEF Rated, Headers
    <3>4. streams[i] = <<Rated(Header(c, i), u.rate)>>
      BY <2>1
    <3> HIDE DEF streams
    <3>5. QED
      BY <3>1, <3>2, <3>3, <3>4 DEF Options
  <2>2. CASE ~rated(i)
    BY <1>4, <2>2
  <2>3. QED
    BY <2>1, <2>2
<1>6. DOMAIN streams = DOMAIN c.streams /\ streams \in Seq(Options)
  <2>1. DOMAIN c.streams = 1 .. Len(c.streams) /\ Len(c.streams) \in Nat
    BY <1>4
  <2>2. DOMAIN streams = 1 .. Len(c.streams)
    BY <2>1
  <2>3. streams = [i \in 1 .. Len(c.streams) |-> streams[i]]
    BY <2>2
  <2> HIDE DEF streams
  <2>4. \A i \in 1 .. Len(c.streams) : streams[i] \in Options
    BY <1>5, <2>1
  <2>5. streams \in [1 .. Len(c.streams) -> Options]
    BY <2>3, <2>4
  <2>6. QED
    BY <2>1, <2>2, <2>5
<1> HIDE DEF d, streams
<1>7. DeepAsDeclared(d)
  BY <1>2, <1>5, <1>6 DEF ContextOK, DeepAsDeclared, Known, Declared, Header
<1>8. /\ c.bases \in Seq(Rationals) /\ c.fileTags \in HeldTags /\ c.done \in BOOLEAN
      /\ c.clocks \in [DOMAIN c.streams -> Clocks]
      /\ c.tags \in [DOMAIN c.streams -> HeldTags]
  BY ContextFields
<1>9. /\ d.bases \in Seq(Rationals) /\ d.fileTags \in HeldTags /\ d.done \in BOOLEAN
      /\ d.streams \in Seq(Options)
  BY <1>2, <1>6, <1>8
<1>10. d.clocks \in [DOMAIN d.streams -> Clocks] /\ d.tags \in [DOMAIN d.streams -> HeldTags]
  BY <1>2, <1>6, <1>8
<1>11. QED
  BY <1>1, <1>7, <1>9, <1>10 DEF ContextOK, d

LEMMA ApplyTagsKeeps ==
  ASSUME NEW c, ContextOK(c), NEW u \in InfoUnits
  PROVE  ContextOK(ApplyTags(c, u))
<1> DEFINE d == ApplyTags(c, u)
<1>1. IsContext(d)
  BY ApplyTagsType DEF ContextOK
<1>2. u.tags \in Seq(Nat \X Nat)
  BY DEF InfoUnits
<1>3. /\ c.bases \in Seq(Rationals) /\ c.fileTags \in HeldTags /\ c.done \in BOOLEAN
      /\ c.clocks \in [DOMAIN c.streams -> Clocks]
      /\ c.tags \in [DOMAIN c.streams -> HeldTags]
      /\ c.streams \in Seq(Options)
      /\ DeepAsDeclared(c)
  BY ContextFields
<1>4. /\ d.bases = c.bases /\ d.streams = c.streams /\ d.clocks = c.clocks /\ d.done = c.done
  BY DEF ContextOK, IsContext, ApplyTags
<1>5. d.fileTags \in HeldTags
  <2>1. d.fileTags = c.fileTags \/ d.fileTags = HoldTags(c.fileTags, u.tags)
    BY DEF ContextOK, IsContext, ApplyTags
  <2>2. QED
    BY <1>2, <1>3, <2>1, HoldTagsKeeps
<1>6. d.tags \in [DOMAIN c.streams -> HeldTags]
  <2>1. \/ d.tags = c.tags
        \/ /\ u.about \in DOMAIN c.streams
           /\ d.tags = [c.tags EXCEPT ![u.about] = HoldTags(c.tags[u.about], u.tags)]
    BY DEF ContextOK, IsContext, ApplyTags, Declared
  <2>2. ASSUME u.about \in DOMAIN c.streams
        PROVE  HoldTags(c.tags[u.about], u.tags) \in HeldTags
    BY <1>2, <1>3, <2>2, HoldTagsKeeps
  <2>3. QED
    BY <1>3, <2>1, <2>2
<1> HIDE DEF d
<1>7. DeepAsDeclared(d)
  BY <1>3, <1>4 DEF DeepAsDeclared, Known, Declared, Header
<1>8. /\ d.bases \in Seq(Rationals) /\ d.done \in BOOLEAN /\ d.streams \in Seq(Options)
  BY <1>3, <1>4
<1>9. d.clocks \in [DOMAIN d.streams -> Clocks] /\ d.tags \in [DOMAIN d.streams -> HeldTags]
  BY <1>3, <1>4, <1>6
<1>10. QED
  BY <1>1, <1>5, <1>7, <1>8, <1>9 DEF ContextOK, d

-----------------------------------------------------------------------------
(* A frame moves the clock of its stream to a time an i64 holds, and its   *)
(* PTS lands in a reorder buffer of the same depth.                        *)

LEMMA FramePtsType ==
  ASSUME NEW c, ContextOK(c), NEW u \in FrameUnits, u.stream \in Known(c),
         ~PtsRefused(c, u)
  PROVE  FramePts(c, u) \in Ticks
<1>1. Header(c, u.stream) \in Headers /\ c.clocks[u.stream] \in Clocks
  BY KnownHeader
<1>2. FrameSpan(c, u) \in Nat \ {0} /\ FrameLast(c, u) \in Ticks
  BY <1>1 DEF FrameSpan, FrameLast, Headers, Clocks
<1>3. CASE u.coded
  <2>1. u.pts \in Nat
    BY <1>3 DEF FrameUnits
  <2>2. ~CodedPtsRefused(FrameSpan(c, u), u.pts)
    BY <1>3 DEF PtsRefused
  <2>3. CodedPts(FrameSpan(c, u), FrameLast(c, u), u.pts) \in Ticks
    BY <1>2, <2>1, <2>2, CodedPtsType
  <2>4. QED
    BY <1>3, <2>3 DEF FramePts
<1>4. CASE ~u.coded
  BY <1>4 DEF PtsRefused, FramePts
<1>5. QED
  BY <1>3, <1>4

LEMMA LandedBuffer ==
  ASSUME NEW b \in Seq(Times), Len(b) > 0, Ordered(b), NEW pts \in Ticks
  PROVE  /\ LandPts(b, pts) \in Seq(Times)
         /\ Len(LandPts(b, pts)) = Len(b)
         /\ Ordered(LandPts(b, pts))
<1> DEFINE d == Len(b) - 1
<1>1. d \in Nat /\ Len(b) = d + 1 /\ DOMAIN b = 1 .. d + 1 /\ b \in [1 .. d + 1 -> Times]
  OBVIOUS
<1>2. InOrder(b, d)
  BY <1>1 DEF Ordered, InOrder
<1> HIDE DEF d
<1>3. LandPts(b, pts) \in [1 .. d + 1 -> Times]
  BY <1>1, LandPtsType
<1>4. InOrder(LandPts(b, pts), d)
  BY <1>1, <1>2, LandPtsInOrder
<1> DEFINE l == LandPts(b, pts)
<1> HIDE DEF l
<1>5. l \in Seq(Times) /\ Len(l) = d + 1 /\ DOMAIN l = 1 .. d + 1
  BY <1>1, <1>3 DEF l
<1>6. Ordered(l)
  BY <1>4, <1>5 DEF Ordered, InOrder, l
<1>7. QED
  BY <1>1, <1>5, <1>6 DEF l

LEMMA FrameReadKeeps ==
  ASSUME NEW c, ContextOK(c), NEW u \in FrameUnits, u.stream \in Known(c),
         ~PtsRefused(c, u)
  PROVE  ContextOK(FrameRead(c, u))
<1> DEFINE s   == u.stream
           old == c.clocks[s]
           pts == FramePts(c, u)
           buffer == IF u.eor THEN old.buffer ELSE LandPts(old.buffer, pts)
           clock  == [last |-> pts, buffer |-> buffer]
           clocks == [c.clocks EXCEPT ![s] = clock]
<1>1. FrameRead(c, u) = [c EXCEPT !.clocks = clocks]
  BY DEF FrameRead
<1>2. pts \in Ticks
  BY FramePtsType
<1>3. old \in Clocks /\ s \in DOMAIN c.streams
  BY KnownHeader
<1>4. c.clocks \in [DOMAIN c.streams -> Clocks]
  BY ContextFields
<1>5. /\ buffer \in {b \in Seq(Times) : Len(b) > 0 /\ Ordered(b)}
      /\ Len(buffer) = Len(old.buffer)
  <2>1. old.buffer \in Seq(Times) /\ Len(old.buffer) > 0 /\ Ordered(old.buffer)
    BY <1>3 DEF Clocks
  <2> HIDE DEF old, pts
  <2>2. QED
    BY <1>2, <2>1, LandedBuffer
<1> HIDE DEF pts, buffer
<1>6. clock \in Clocks /\ clock.buffer = buffer
  BY <1>2, <1>5 DEF Clocks
<1> HIDE DEF clock
<1>7. clocks \in [DOMAIN c.streams -> Clocks]
  BY <1>3, <1>4, <1>6
<1>8. \A i \in Known(c) : Len(clocks[i].buffer) = Len(c.clocks[i].buffer)
  BY <1>3, <1>4, <1>5, <1>6
<1> HIDE DEF clocks
<1>9. QED
  BY <1>1, <1>7, <1>8, ClocksKeep

-----------------------------------------------------------------------------
(* So every packet that is read, or refused half way, leaves a context.    *)

LEMMA UnitKinds ==
  ASSUME NEW u \in Units
  PROVE  /\ u.kind = "main" => u \in MainUnits
         /\ u.kind = "stream" => u \in StreamUnits
         /\ u.kind = "info" => u \in InfoUnits
         /\ u.kind = "frame" => u \in FrameUnits
BY DEF Units, Packets, MainUnits, StreamUnits, SyncUnits, InfoUnits, OtherUnits, FrameUnits

LEMMA PacketKinds ==
  ASSUME NEW u \in Units, u.kind # "frame", ~SteppedOver(u)
  PROVE  u.kind \in {"main", "stream", "syncpoint", "info"}
BY DEF SteppedOver, Units, Packets, MainUnits, StreamUnits, SyncUnits, InfoUnits,
       OtherUnits, FrameUnits

LEMMA PacketReadKeeps ==
  ASSUME NEW c, ContextOK(c), NEW u \in Units,
         u.kind \in {"main", "stream", "syncpoint", "info"}, ~BodyRefused(c, u)
  PROVE  ContextOK(PacketRead(c, u))
<1>1. CASE u.kind = "main"
  <2>1. u \in MainUnits /\ ~MainRefused(u)
    BY <1>1, UnitKinds DEF BodyRefused
  <2>2. QED
    BY <1>1, <2>1, ReadMainKeeps DEF PacketRead
<1>2. CASE u.kind = "stream"
  <2>1. u \in StreamUnits /\ ~StreamRefused(c, u)
    BY <1>2, UnitKinds DEF BodyRefused
  <2>2. QED
    BY <1>2, <2>1, ReadStreamKeeps DEF PacketRead
<1>3. CASE u.kind = "syncpoint"
  BY <1>3, ReadSyncpointKeeps, HeadersClosedKeeps DEF PacketRead
<1>4. CASE u.kind = "info"
  <2>1. u \in InfoUnits
    BY <1>4, UnitKinds
  <2>2. ContextOK(ApplyInfo(ApplyTags(c, u), u))
    BY <2>1, ApplyTagsKeeps, ApplyInfoKeeps
  <2>3. QED
    BY <1>4, <2>2 DEF PacketRead
<1>5. QED
  BY <1>1, <1>2, <1>3, <1>4

LEMMA BodyRefusedKeeps ==
  ASSUME NEW c, ContextOK(c), NEW u
  PROVE  ContextOK(BodyRefusedLeaves(c, u))
BY ReadSyncpointKeeps DEF BodyRefusedLeaves

(* The header of a frame is read only of a stream whose own is here.       *)
LEMMA FrameReadsKnown ==
  ASSUME NEW c, NEW u, NEW have, NEW ceiling, FrameReads(c, u, have, ceiling)
  PROVE  u.stream \in Known(c) /\ ~PtsRefused(c, u) /\ ~PtsPanics(c, u)
BY DEF FrameReads, HeadSeen, PtsSeen, StreamSeen, HeadersComplete
=============================================================================
