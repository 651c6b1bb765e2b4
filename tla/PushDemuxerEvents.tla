------------------------- MODULE PushDemuxerEvents -------------------------
(***************************************************************************)
(* What the push demuxer keeps of the stream and what it tells of it, for  *)
(* every wire, every way of cutting it into pieces and every limit: the    *)
(* reorder buffers, the tags, the times it lifts, and the order of events. *)
(***************************************************************************)
EXTENDS PushDemuxerProofs

-----------------------------------------------------------------------------
(* The context stays one a demuxer can be in.                              *)

CInv == Inv /\ ContextOK(ctx)

LEMMA InitContext == Init => ContextOK(ctx)
BY NewContextOK DEF Init

(* Every step that touches the context.                                    *)
LEMMA ContextSteps ==
  ASSUME [Next]_vars
  PROVE  \/ UNCHANGED ctx
         \/ InputEnds
         \/ HeadersEnd
         \/ PacketBodyRefused
         \/ PacketBodyRead
         \/ FrameHeadRead /\ AtFrame
<1>1. CASE Caller \/ Closed \/ UNCHANGED vars
  BY <1>1 DEF Caller, Closed, vars, Feed, FillPayload, Finish, TakePayload, SetStreamLimit,
              CallNextEvent
<1>2. CASE NextEvent
  BY <1>2 DEF NextEvent, IdentifierShort, IdentifierRead, SkipPart, SkipRest, PayloadPart,
              PayloadRest, UnitAwaited, EndedAgain, PacketShort, PacketLengthRefused,
              PacketSteppedOver, FrameShort, FrameHeadRefused, RelevanceEnds, FrameBegins,
              FrameHeadRead
<1>3. QED
  BY <1>1, <1>2 DEF Next

LEMMA FrontFrame ==
  ASSUME Inv, FrameHeadRead
  PROVE  /\ Front \in FrameUnits
         /\ Front.stream \in Known(ctx)
         /\ ~PtsRefused(ctx, Front) /\ ~PtsPanics(ctx, Front)
<1>1. Front \in Units /\ Front.kind = "frame"
  BY InvFront DEF FrameHeadRead, AtFrame
<1>2. FrameReads(ctx, Front, Buffered, Ceiling(ceilings, Front.stream))
  BY DEF FrameHeadRead
<1>3. QED
  BY <1>1, <1>2, UnitKinds, FrameReadsKnown

LEMMA NextContext ==
  ASSUME CInv, [Next]_vars
  PROVE  ContextOK(ctx')
<1>1. ContextOK(ctx) /\ Front \in Units
  BY InvFront DEF CInv
<1>2. CASE UNCHANGED ctx
  BY <1>1, <1>2
<1>3. CASE InputEnds \/ HeadersEnd
  <2>1. ctx' = HeadersClosed(ctx)
    BY <1>3 DEF InputEnds, HeadersEnd
  <2>2. QED
    BY <1>1, <2>1, HeadersClosedKeeps
<1>4. CASE PacketBodyRefused
  <2>1. ctx' = BodyRefusedLeaves(ctx, Front)
    BY <1>4 DEF PacketBodyRefused
  <2>2. QED
    BY <1>1, <2>1, BodyRefusedKeeps
<1>5. CASE PacketBodyRead
  <2>1. /\ ctx' = PacketRead(ctx, Front) /\ ~BodyRefused(ctx, Front)
        /\ Front.kind # "frame" /\ ~SteppedOver(Front)
    BY <1>5 DEF PacketBodyRead, PacketWhole, AtPacket
  <2>2. QED
    BY <1>1, <2>1, PacketKinds, PacketReadKeeps
<1>6. CASE FrameHeadRead
  <2>1. ctx' = FrameRead(ctx, Front)
    BY <1>6 DEF FrameHeadRead
  <2>2. QED
    BY <1>1, <1>6, <2>1, FrontFrame, FrameReadKeeps DEF CInv
<1>7. QED
  BY <1>2, <1>3, <1>4, <1>5, <1>6, ContextSteps

LEMMA InitCInv == Init => CInv
BY InitInv, InitContext DEF CInv

LEMMA NextCInv == CInv /\ [Next]_vars => CInv'
BY NextInv, NextContext DEF CInv

(* Through any headers, restated or new, and any frames, the buffer a DTS  *)
(* falls out of is as deep as the stream says, and in order.               *)
THEOREM ReordersAsDeclared == Spec => []ReorderAsDeclared
<1>1. CInv => ReorderAsDeclared
  <2> SUFFICES ASSUME CInv, NEW i \in Known(ctx)
               PROVE  /\ Len(ctx.clocks[i].buffer) = Header(ctx, i).delay + 1
                      /\ \A j \in 1 .. Header(ctx, i).delay :
                           ctx.clocks[i].buffer[j] <= ctx.clocks[i].buffer[j + 1]
    BY DEF ReorderAsDeclared
  <2> DEFINE b == ctx.clocks[i].buffer
             d == Header(ctx, i).delay
  <2>1. ContextOK(ctx)
    BY DEF CInv
  <2>2. Len(b) = d + 1
    BY <2>1 DEF ContextOK, DeepAsDeclared
  <2>3. d \in Nat /\ b \in Seq(Times) /\ Ordered(b)
    BY <2>1, KnownHeader DEF Headers, Clocks
  <2> HIDE DEF b, d
  <2>4. ASSUME NEW j \in 1 .. d PROVE b[j] <= b[j + 1]
    BY <2>2, <2>3 DEF Ordered
  <2>5. QED
    BY <2>2, <2>4 DEF b, d
<1>2. QED
  BY InitCInv, NextCInv, <1>1, PTL DEF Spec

(* However often info packets say a name again, it is held once, and never *)
(* are more held than MAX_TAGS.                                            *)
THEOREM TagsHeldOnce == Spec => []TagsReplaced
<1>1. CInv => TagsReplaced
  <2> SUFFICES ASSUME CInv, NEW tags \in TagLists PROVE tags \in HeldTags
    BY DEF TagsReplaced, HeldTags
  <2>1. ctx.fileTags \in HeldTags /\ ctx.tags \in [DOMAIN ctx.streams -> HeldTags]
    BY DEF CInv, ContextOK
  <2>2. QED
    BY <2>1 DEF TagLists
<1>2. QED
  BY InitCInv, NextCInv, <1>1, PTL DEF Spec

(* Of a checked build: a PTS that came as its low bits alone has those     *)
(* bits, and no other that has them is nearer to the last one. A build     *)
(* that does not check wraps at the ends of what an i64 holds.             *)
THEOREM LowBitsNearest ==
  ASSUME OverflowChecks
  PROVE  Spec => LowBitsLiftToNearest
<1> DEFINE Step ==
      FrameHeadRead /\ Front.coded /\ Front.pts < FrameSpan(ctx, Front) =>
       LET pts == ctx'.clocks[Front.stream].last
           off == pts - FrameLast(ctx, Front)
       IN  /\ pts % FrameSpan(ctx, Front) = Front.pts
           /\ 2 * off <= FrameSpan(ctx, Front)
           /\ -2 * off <= FrameSpan(ctx, Front)
<1>1. CInv /\ [Next]_vars => Step
  <2> DEFINE span == FrameSpan(ctx, Front)
             last == FrameLast(ctx, Front)
             pts  == FramePts(ctx, Front)
             low  == Front.pts
  <2> SUFFICES ASSUME CInv, FrameHeadRead, Front.coded, low < span
               PROVE  /\ ctx'.clocks[Front.stream].last % span = low
                      /\ 2 * (ctx'.clocks[Front.stream].last - last) <= span
                      /\ -2 * (ctx'.clocks[Front.stream].last - last) <= span
    OBVIOUS
  <2>1. /\ Front \in FrameUnits /\ Front.stream \in Known(ctx)
        /\ ~PtsRefused(ctx, Front) /\ ~PtsPanics(ctx, Front)
    BY FrontFrame DEF CInv
  <2>2. ContextOK(ctx)
    BY DEF CInv
  <2>3. Header(ctx, Front.stream) \in Headers /\ ctx.clocks[Front.stream] \in Clocks
        /\ Front.stream \in DOMAIN ctx.streams
    BY <2>1, <2>2, KnownHeader
  <2>4. span \in Nat \ {0} /\ last \in Ticks
    BY <2>3 DEF FrameSpan, FrameLast, Headers, Clocks
  <2>5. low \in 0 .. span - 1
    <3>1. low \in Nat
      BY <2>1 DEF FrameUnits
    <3> HIDE DEF low, span
    <3>2. QED
      BY <2>4, <3>1
  <2>6. ctx'.clocks[Front.stream].last = pts
    <3>1. ctx' = FrameRead(ctx, Front)
      BY DEF FrameHeadRead
    <3>2. Front.stream \in DOMAIN ctx.clocks
      BY <2>2, <2>3 DEF ContextOK
    <3>3. QED
      BY <2>2, <3>1, <3>2 DEF FrameRead, ContextOK, IsContext
  <2>7. ~LiftOverflows(span, last, low)
    BY <2>1 DEF PtsPanics, CodedPtsPanics
  <2>8. Lifted(span, last, low) \in Ticks
    BY <2>7 DEF LiftOverflows
  <2>9. pts = Lifted(span, last, low)
    <3>1. pts = CodedPts(span, last, low)
      BY DEF FramePts
    <3>2. ~(low >= span)
      BY <2>4, <2>5
    <3>3. QED
      BY <2>8, <3>1, <3>2, WrappedTick DEF CodedPts
  <2>10. /\ Lifted(span, last, low) % span = low
         /\ 2 * (Lifted(span, last, low) - last) <= span
         /\ -2 * (Lifted(span, last, low) - last) <= span
    BY <2>4, <2>5, LiftedNearest
  <2> HIDE DEF pts, span, last, low
  <2>11. QED
    BY <2>6, <2>9, <2>10
<1>2. CInv /\ [Next]_vars => [Step]_vars
  BY <1>1
<1> HIDE DEF Step
<1>3. Spec => [][Step]_vars
  BY InitCInv, NextCInv, <1>2, PTL DEF Spec
<1>4. QED
  BY <1>3 DEF LowBitsLiftToNearest, Step

-----------------------------------------------------------------------------
(* Syncpoints. One that is read is carried to every stream.                *)

LEMMA SyncReachesAll ==
  ASSUME NEW c, ContextOK(c), NEW u, ~SyncPanics(c, u), ~SyncRefused(c, u)
  PROVE  SyncStopsAt(c, u) = {}
<1> DEFINE S == SyncStopsAt(c, u)
<1> SUFFICES ASSUME S # {} PROVE FALSE
  OBVIOUS
<1>1. DOMAIN c.streams \subseteq Nat
  BY ContextFields
<1>2. S \subseteq Nat
  BY <1>1 DEF SyncStopsAt, Known, Declared
<1> HIDE DEF S
<1>3. PICK i \in S : \A j \in S : i <= j
  BY <1>2, LeastOf
<1>4. i \in SyncStop(c, u)
  BY <1>3 DEF SyncStop, S
<1>5. SyncPanicsAt(c, u, i) \/ SyncRefusedAt(c, u, i)
  BY <1>3 DEF SyncStopsAt, S
<1>6. QED
  BY <1>4, <1>5 DEF SyncPanics, SyncRefused

(* The time a syncpoint sets on a stream, to within a tick of the stream.  *)
LEMMA SyncedNear ==
  ASSUME OverflowChecks, NEW c, ContextOK(c), HasMain(c), NEW u \in SyncUnits,
         SyncStopsAt(c, u) = {}, NEW i \in Known(c)
  PROVE  LET a == Header(c, i).base
             f == SyncFrom(c, u)
             t == SyncTime(c, u)
             r == ReadSyncpoint(c, u).clocks[i].last
         IN  /\ a[1] \in Nat \ {0} /\ a[2] \in Nat \ {0}
             /\ f[1] \in Nat \ {0} /\ f[2] \in Nat \ {0}
             /\ t \in Int
             /\ r \in Int
             /\ (f[2] * a[1]) * r - (t * f[1]) * a[2] < f[2] * a[1]
             /\ (t * f[1]) * a[2] - (f[2] * a[1]) * r < f[2] * a[1]
<1> DEFINE a == Header(c, i).base
           f == SyncFrom(c, u)
           t == SyncTime(c, u)
           n == Len(c.bases)
           r == ReadSyncpoint(c, u).clocks[i].last
<1>1. Header(c, i) \in Headers /\ i \in DOMAIN c.streams /\ c.clocks[i] \in Clocks
  BY KnownHeader
<1>2. a \in Rationals
  BY <1>1 DEF Headers
<1>3. c.bases \in Seq(Rationals) /\ c.bases # <<>>
  BY ContextFields DEF HasMain
<1>4. n \in Nat \ {0}
  BY <1>3
<1>5. u.coded \in Int
  BY MaxTickAssumption DEF SyncUnits, Ticks, MinTick
<1>6. t \in Int /\ u.coded % n \in 0 .. n - 1
  <2> HIDE DEF n
  <2>1. u.coded \div n \in Int /\ u.coded % n \in 0 .. n - 1
    BY <1>4, <1>5, DivMod, ModRange
  <2>2. QED
    BY <2>1 DEF SyncTime, SyncTicks, n
<1>7. f \in Rationals
  <2>1. SyncBase(u.coded, n) \in 1 .. n
    <3> HIDE DEF n
    <3>1. QED
      BY <1>4, <1>6 DEF SyncBase
  <2>2. QED
    BY <1>3, <2>1 DEF SyncFrom
<1>8. r = Rescaled(t, f, a)
  <2>1. c.clocks \in [DOMAIN c.streams -> Clocks] /\ IsContext(c)
    BY ContextFields
  <2>2. ReadSyncpoint(c, u).clocks[i] = [c.clocks[i] EXCEPT !.last = SyncedPts(c, u, i)]
    BY <1>1, <2>1 DEF ReadSyncpoint, IsContext
  <2>3. QED
    BY <1>1, <2>2 DEF SyncedPts, Clocks
<1>9. ~RescalePanics(t, f, a)
  BY DEF SyncStopsAt, SyncPanicsAt
<1> HIDE DEF a, f, t, n, r
<1>10. /\ a = <<a[1], a[2]>> /\ a[1] \in Nat \ {0} /\ a[2] \in Nat \ {0}
       /\ f = <<f[1], f[2]>> /\ f[1] \in Nat \ {0} /\ f[2] \in Nat \ {0}
  BY <1>2, <1>7 DEF Rationals
<1> DEFINE a1 == a[1]
           a2 == a[2]
           f1 == f[1]
           f2 == f[2]
<1> HIDE DEF a1, a2, f1, f2
<1>11. /\ a1 \in Nat \ {0} /\ a2 \in Nat \ {0} /\ f1 \in Nat \ {0} /\ f2 \in Nat \ {0}
       /\ a = <<a1, a2>> /\ f = <<f1, f2>>
  BY <1>10 DEF a1, a2, f1, f2
<1>12. r = Rescaled(t, <<f1, f2>>, <<a1, a2>>) /\ ~RescalePanics(t, <<f1, f2>>, <<a1, a2>>)
  BY <1>8, <1>9, <1>11
<1>13. /\ r \in Int
       /\ (f2 * a1) * r - (t * f1) * a2 < f2 * a1
       /\ (t * f1) * a2 - (f2 * a1) * r < f2 * a1
  BY <1>6, <1>11, <1>12, RescaledNear
<1>14. QED
  BY <1>6, <1>10, <1>13 DEF a1, a2, f1, f2, a, f, t, r

(* Of a checked build: after a syncpoint any two clocks say the same       *)
(* instant, to within a tick of each, whatever their time bases.           *)
THEOREM SyncpointsAgree ==
  ASSUME OverflowChecks
  PROVE  Spec => SyncpointSetsOneInstant
<1>1. CInv /\ [Next]_vars => (PacketBodyRead /\ Front.kind = "syncpoint" => AllTogether')
  <2> SUFFICES ASSUME CInv, PacketBodyRead, Front.kind = "syncpoint" PROVE AllTogether'
    OBVIOUS
  <2> DEFINE d == ReadSyncpoint(ctx, Front)
  <2>1. ContextOK(ctx) /\ IsContext(ctx) /\ Front \in Units
    BY InvFront DEF CInv, ContextOK
  <2>2. /\ ctx' = HeadersClosed(d) /\ ~SyncPanics(ctx, Front) /\ ~SyncRefused(ctx, Front)
        /\ HasMain(ctx)
    BY DEF PacketBodyRead, PacketRead, BodyRefused, BodyPanics, SyncRefused
  <2>3. ctx'.streams = ctx.streams /\ ctx'.clocks = d.clocks
    <3>1. IsContext(d) /\ d.streams = ctx.streams
      BY <2>1, ReadSyncpointType DEF ReadSyncpoint, IsContext
    <3> HIDE DEF d
    <3>2. QED
      BY <2>2, <3>1 DEF HeadersClosed, IsContext
  <2>4. Known(ctx)' = Known(ctx) /\ \A i \in Known(ctx) : Header(ctx, i)' = Header(ctx, i)
    BY <2>3 DEF Known, Declared, Header
  <2>5. SyncStopsAt(ctx, Front) = {}
    BY <2>1, <2>2, SyncReachesAll
  <2>6. Front \in SyncUnits
    BY <2>1 DEF Units, Packets, MainUnits, StreamUnits, SyncUnits, InfoUnits, OtherUnits,
               FrameUnits
  <2> DEFINE base(i) == Header(ctx, i).base
             last(i) == d.clocks[i].last
  <2>7. ASSUME NEW i \in Known(ctx), NEW j \in Known(ctx)
        PROVE  /\ last(i) * base(i)[1] * base(j)[2] - last(j) * base(j)[1] * base(i)[2]
                    < base(i)[1] * base(j)[2] + base(j)[1] * base(i)[2]
               /\ last(i) * base(i)[1] * base(j)[2] \in Int
               /\ base(i)[1] * base(j)[2] \in Int
    <3> DEFINE a1 == base(i)[1]
               a2 == base(i)[2]
               b1 == base(j)[1]
               b2 == base(j)[2]
               f1 == SyncFrom(ctx, Front)[1]
               f2 == SyncFrom(ctx, Front)[2]
               R  == SyncTime(ctx, Front) * f1
               r  == last(i)
               s  == last(j)
    <3>1. /\ a1 \in Nat \ {0} /\ a2 \in Nat \ {0} /\ f1 \in Nat \ {0} /\ f2 \in Nat \ {0}
          /\ SyncTime(ctx, Front) \in Int /\ r \in Int
          /\ (f2 * a1) * r - R * a2 < f2 * a1
      BY <2>1, <2>2, <2>5, <2>6, SyncedNear
    <3>2. /\ b1 \in Nat \ {0} /\ b2 \in Nat \ {0} /\ s \in Int
          /\ R * b2 - (f2 * b1) * s < f2 * b1
      BY <2>1, <2>2, <2>5, <2>6, SyncedNear
    <3>3. R \in Int
      BY <3>1
    <3> HIDE DEF a1, a2, b1, b2, f1, f2, R, r, s
    <3>4. r * a1 * b2 - s * b1 * a2 < a1 * b2 + b1 * a2
      BY <3>1, <3>2, <3>3, CarriedTogether
    <3>5. r * a1 * b2 \in Int /\ a1 * b2 \in Int
      BY <3>1, <3>2
    <3>6. QED
      BY <3>4, <3>5 DEF a1, a2, b1, b2, r, s
  <2> HIDE DEF d
  <2>8. ASSUME NEW i \in Known(ctx), NEW j \in Known(ctx)
        PROVE  Together(i, j)'
    <3> DEFINE p == last(i) * base(i)[1] * base(j)[2]
               q == last(j) * base(j)[1] * base(i)[2]
               u == base(i)[1] * base(j)[2]
               v == base(j)[1] * base(i)[2]
    <3>1. p - q < u + v /\ p \in Int /\ u \in Int
      BY <2>7
    <3>2. q - p < v + u /\ q \in Int /\ v \in Int
      BY <2>7
    <3>3. /\ Instant(i, j)' = [time |-> p, tick |-> u]
          /\ Instant(j, i)' = [time |-> q, tick |-> v]
      BY <2>3, <2>4 DEF Instant
    <3> HIDE DEF p, q, u, v
    <3>4. -(u + v) < p - q /\ p - q < u + v
      BY <3>1, <3>2
    <3>5. QED
      BY <3>3, <3>4 DEF Together
  <2>9. QED
    BY <2>4, <2>8 DEF AllTogether
<1>2. CInv /\ [Next]_vars => [PacketBodyRead /\ Front.kind = "syncpoint" => AllTogether']_vars
  BY <1>1
<1>3. QED
  BY InitCInv, NextCInv, <1>2, PTL DEF Spec, SyncpointSetsOneInstant

-----------------------------------------------------------------------------
(* The order of events. What an event answers for is decided by the events *)
(* before it, so it is stated of a log l and a place in it.                *)

Said(l, i, kind) == l[i].kind = kind

(* The main header at j declares another set of streams than the one       *)
(* before it.                                                              *)
Declares(l, j) ==
  /\ Said(l, j, "MainHeader")
  /\ \A k \in 1 .. j - 1 : Said(l, k, "MainHeader") =>
       (\E m \in k + 1 .. j - 1 : Said(l, m, "MainHeader")) \/ l[k].count # l[j].count

(* The set in force at i was declared at s.                                *)
InForce(l, i, s) ==
  s \in 1 .. i /\ Declares(l, s) /\ \A j \in s + 1 .. i : ~Declares(l, j)

EveryHeader(l, s, i) ==
  \A stream \in 1 .. l[s].count :
    \E k \in s .. i : Said(l, k, "StreamHeader") /\ l[k].stream = stream

EndAnnounced(l, s, i) == \E k \in s .. i : Said(l, k, "EndOfHeaders")

EventOK(l, i) ==
  /\ Said(l, i, "EndOfHeaders") =>
       \E s : InForce(l, i, s) /\ EveryHeader(l, s, i) /\ ~EndAnnounced(l, s, i - 1)
  /\ Said(l, i, "Frame") =>
       \E s : /\ InForce(l, i, s)
              /\ EndAnnounced(l, s, i)
              /\ l[i].packet.stream \in 1 .. l[s].count

(* The context and the log tell the same tale. Before the first main       *)
(* header there is neither a stream nor an end of headers; after it the    *)
(* streams are those of the set in force, every one whose header is here   *)
(* was announced in it, and the end of headers was announced in it, or is  *)
(* pending, exactly when the context has passed it.                        *)
NothingDeclared(l, c) ==
  /\ ~HasMain(c) /\ c.streams = <<>> /\ ~c.done
  /\ \A j \in 1 .. Len(l) : l[j].kind \notin {"MainHeader", "EndOfHeaders", "Frame"}

LastCount(l, c) ==
  \E j \in 1 .. Len(l) :
    /\ Said(l, j, "MainHeader") /\ l[j].count = Len(c.streams)
    /\ \A k \in j + 1 .. Len(l) : ~Said(l, k, "MainHeader")

SetDeclared(l, c, s) ==
  /\ InForce(l, Len(l), s)
  /\ l[s].count = Len(c.streams)
  /\ \A i \in Known(c) :
       \E k \in s .. Len(l) : Said(l, k, "StreamHeader") /\ l[k].stream = i

TaleOf(l, c, p) ==
  \/ NothingDeclared(l, c) /\ p = <<>>
  \/ /\ HasMain(c)
     /\ LastCount(l, c)
     /\ \E s : SetDeclared(l, c, s) /\ (EndAnnounced(l, s, Len(l)) <=> c.done /\ p = <<>>)

PayloadOK(st, c) ==
  st.in = "payload" => HasMain(c) /\ c.done /\ st.packet.stream \in Declared(c)

EndOK(l, st) ==
  \A i \in 1 .. Len(l) :
    Said(l, i, "EndOfInput") => l[i] = EndOfInput /\ i = Len(l) /\ st = Ended

Tale ==
  /\ \A i \in 1 .. Len(log) : EventOK(log, i)
  /\ TaleOf(log, ctx, pending)
  /\ pending # <<>> => ctx.done /\ HeadersComplete(ctx)
  /\ PayloadOK(state, ctx)
  /\ EndOK(log, state)

LEMMA DeclaresAppended ==
  ASSUME NEW l, IsRow(l), NEW e, NEW j \in 1 .. Len(l)
  PROVE  Declares(Append(l, e), j) <=> Declares(l, j)
<1> DEFINE m == Append(l, e)
<1>1. Len(l) \in Nat /\ \A i \in 1 .. Len(l) : m[i] = l[i]
  BY Appended
<1> HIDE DEF m
<1>2. \A i \in 1 .. j : m[i] = l[i]
  BY <1>1
<1>3. QED
  BY <1>2 DEF Declares, Said, m

LEMMA InForceAppended ==
  ASSUME NEW l, IsRow(l), NEW e, NEW i \in 1 .. Len(l), NEW s
  PROVE  InForce(Append(l, e), i, s) <=> InForce(l, i, s)
<1>1. Len(l) \in Nat
  BY DEF IsRow
<1>2. \A j \in 1 .. i : Declares(Append(l, e), j) <=> Declares(l, j)
  BY <1>1, DeclaresAppended
<1> DEFINE m == Append(l, e)
<1> HIDE DEF m
<1>3. \A j \in 1 .. i : Declares(m, j) <=> Declares(l, j)
  BY <1>2 DEF m
<1>4. s \in 1 .. i => \A j \in s + 1 .. i : j \in 1 .. i
  OBVIOUS
<1>5. QED
  BY <1>3, <1>4 DEF InForce, m

LEMMA EventAppended ==
  ASSUME NEW l, IsRow(l), NEW e, NEW i \in 1 .. Len(l), EventOK(l, i)
  PROVE  EventOK(Append(l, e), i)
<1> DEFINE m == Append(l, e)
<1>1. Len(l) \in Nat /\ \A j \in 1 .. Len(l) : m[j] = l[j]
  BY Appended
<1>2. \A s : InForce(m, i, s) <=> InForce(l, i, s)
  BY InForceAppended
<1> HIDE DEF m
<1>3. \A j \in 1 .. i : m[j] = l[j]
  BY <1>1
<1>4. CASE Said(l, i, "EndOfHeaders")
  <2>1. PICK s : InForce(l, i, s) /\ EveryHeader(l, s, i) /\ ~EndAnnounced(l, s, i - 1)
    BY <1>4 DEF EventOK
  <2>2. s \in 1 .. i
    BY <2>1 DEF InForce
  <2>3. EveryHeader(m, s, i)
    BY <1>3, <2>1, <2>2 DEF EveryHeader, Said
  <2>4. ~EndAnnounced(m, s, i - 1)
    BY <1>3, <2>1, <2>2 DEF EndAnnounced, Said
  <2>5. ~Said(m, i, "Frame")
    BY <1>3, <1>4 DEF Said
  <2>6. QED
    BY <1>2, <2>1, <2>3, <2>4, <2>5 DEF EventOK, m
<1>5. CASE Said(l, i, "Frame")
  <2>1. PICK s : /\ InForce(l, i, s) /\ EndAnnounced(l, s, i)
                 /\ l[i].packet.stream \in 1 .. l[s].count
    BY <1>5 DEF EventOK
  <2>2. s \in 1 .. i
    BY <2>1 DEF InForce
  <2>3. EndAnnounced(m, s, i)
    BY <1>3, <2>1, <2>2 DEF EndAnnounced, Said
  <2>4. m[i].packet.stream \in 1 .. m[s].count
    BY <1>3, <2>1, <2>2
  <2>5. ~Said(m, i, "EndOfHeaders")
    BY <1>3, <1>5 DEF Said
  <2>6. QED
    BY <1>2, <2>1, <2>3, <2>4, <2>5 DEF EventOK, m
<1>6. CASE ~Said(l, i, "EndOfHeaders") /\ ~Said(l, i, "Frame")
  BY <1>3, <1>6 DEF EventOK, Said, m
<1>7. QED
  BY <1>4, <1>5, <1>6

(* An event that is no main header leaves the set in force.                *)
LEMMA InForceStays ==
  ASSUME NEW l, IsRow(l), NEW e, e.kind # "MainHeader", NEW s, InForce(l, Len(l), s)
  PROVE  InForce(Append(l, e), Len(l) + 1, s)
<1> DEFINE m == Append(l, e)
           n == Len(l)
<1>1. n \in Nat /\ m[n + 1] = e
  BY Appended
<1>2. s \in 1 .. n /\ n \in 1 .. n
  BY <1>1 DEF InForce
<1>3. InForce(m, n, s)
  BY <1>2, InForceAppended
<1>4. ~Declares(m, n + 1)
  BY <1>1 DEF Declares, Said
<1> HIDE DEF m, n
<1>5. \A j \in s + 1 .. n + 1 : j \in s + 1 .. n \/ j = n + 1
  BY <1>1, <1>2
<1>6. QED
  BY <1>1, <1>2, <1>3, <1>4, <1>5 DEF InForce, m, n

-----------------------------------------------------------------------------
(* Contexts that tell the same tale.                                       *)
Alike(c, d) ==
  /\ HasMain(d) = HasMain(c)
  /\ Len(d.streams) = Len(c.streams)
  /\ c.streams = <<>> => d.streams = <<>>
  /\ Declared(d) = Declared(c) /\ Known(d) = Known(c)

LEMMA TaleAlike ==
  ASSUME NEW l, NEW c, NEW d, NEW p, NEW q, TaleOf(l, c, p), Alike(c, d),
         d.done /\ q = <<>> <=> c.done /\ p = <<>>,
         ~HasMain(c) => q = <<>>
  PROVE  TaleOf(l, d, q)
<1>1. CASE NothingDeclared(l, c) /\ p = <<>>
  BY <1>1 DEF TaleOf, NothingDeclared, Alike
<1>2. CASE HasMain(c) /\ LastCount(l, c)
           /\ \E s : SetDeclared(l, c, s) /\ (EndAnnounced(l, s, Len(l)) <=> c.done /\ p = <<>>)
  <2>1. HasMain(d) /\ LastCount(l, d)
    BY <1>2 DEF Alike, LastCount
  <2>2. \A s : SetDeclared(l, c, s) => SetDeclared(l, d, s)
    BY DEF Alike, SetDeclared
  <2>3. QED
    BY <1>2, <2>1, <2>2 DEF TaleOf
<1>3. QED
  BY <1>1, <1>2 DEF TaleOf

(* A step that tells nothing.                                              *)
LEMMA TaleStands ==
  ASSUME Tale, UNCHANGED <<log, pending>>, Alike(ctx, ctx'), ctx'.done = ctx.done,
         PayloadOK(state', ctx'), state = Ended => state' = Ended
  PROVE  Tale'
<1>1. TaleOf(log', ctx', pending')
  <2>1. TaleOf(log, ctx, pending)
    BY DEF Tale
  <2>2. ~HasMain(ctx) => pending = <<>>
    BY <2>1 DEF TaleOf
  <2>3. ctx'.done /\ pending = <<>> <=> ctx.done /\ pending = <<>>
    OBVIOUS
  <2>4. TaleOf(log, ctx', pending)
    BY <2>1, <2>2, <2>3, TaleAlike
  <2>5. QED
    BY <2>4
<1>2. EndOK(log', state')
  BY DEF Tale, EndOK
<1>3. pending' # <<>> => ctx'.done /\ HeadersComplete(ctx')
  BY DEF Tale, Alike, HeadersComplete
<1>4. QED
  BY <1>1, <1>2, <1>3 DEF Tale

(* A step that tells an event: what the log says up to it stands, and the  *)
(* event has to be in order itself.                                        *)
LEMMA TaleGrows ==
  ASSUME Tale, IsRow(log), NEW e, log' = Append(log, e), state # Ended,
         e.kind = "EndOfInput" => e = EndOfInput /\ state' = Ended,
         EventOK(log', Len(log')),
         TaleOf(log', ctx', pending'),
         pending' # <<>> => ctx'.done /\ HeadersComplete(ctx'),
         PayloadOK(state', ctx')
  PROVE  Tale'
<1>1. Len(log) \in Nat /\ Len(log') = Len(log) + 1
      /\ (\A i \in 1 .. Len(log) : log'[i] = log[i]) /\ log'[Len(log) + 1] = e
  BY Appended
<1>2. ASSUME NEW i \in 1 .. Len(log') PROVE EventOK(log', i)
  <2>1. CASE i \in 1 .. Len(log)
    BY <2>1, EventAppended DEF Tale
  <2>2. CASE i = Len(log')
    BY <2>2
  <2>3. QED
    BY <1>1, <2>1, <2>2
<1>3. EndOK(log', state')
  BY <1>1 DEF Tale, EndOK, Said
<1>4. QED
  BY <1>2, <1>3 DEF Tale

(* An event that is neither a header nor the end of them, and no frame.    *)
LEMMA TaleNeutral ==
  ASSUME NEW l, IsRow(l), NEW e, e.kind \notin {"MainHeader", "EndOfHeaders", "Frame"},
         NEW c, NEW p, TaleOf(l, c, p)
  PROVE  /\ TaleOf(Append(l, e), c, p)
         /\ EventOK(Append(l, e), Len(Append(l, e)))
<1> DEFINE m == Append(l, e)
           n == Len(l)
<1>1. n \in Nat /\ Len(m) = n + 1 /\ (\A i \in 1 .. n : m[i] = l[i]) /\ m[n + 1] = e
  BY Appended
<1>2. \A s : InForce(l, n, s) => InForce(m, n + 1, s)
  BY InForceStays
<1> HIDE DEF m, n
<1>3. EventOK(m, Len(m))
  BY <1>1 DEF EventOK, Said
<1>4. CASE NothingDeclared(l, c) /\ p = <<>>
  <2>1. NothingDeclared(m, c)
    BY <1>1, <1>4 DEF NothingDeclared, n
  <2>2. QED
    BY <1>3, <1>4, <2>1 DEF TaleOf, m
<1>5. CASE HasMain(c) /\ LastCount(l, c)
           /\ \E s : SetDeclared(l, c, s) /\ (EndAnnounced(l, s, Len(l)) <=> c.done /\ p = <<>>)
  <2>1. LastCount(m, c)
    BY <1>1, <1>5 DEF LastCount, Said, n
  <2>2. PICK s : SetDeclared(l, c, s) /\ (EndAnnounced(l, s, n) <=> c.done /\ p = <<>>)
    BY <1>5 DEF n
  <2>3. s \in 1 .. n /\ InForce(m, n + 1, s)
    BY <1>2, <2>2 DEF SetDeclared, InForce, n
  <2>4. SetDeclared(m, c, s)
    BY <1>1, <2>2, <2>3 DEF SetDeclared, Said, n
  <2>5. EndAnnounced(m, s, n + 1) <=> EndAnnounced(l, s, n)
    BY <1>1, <2>3 DEF EndAnnounced, Said
  <2>6. QED
    BY <1>1, <1>3, <1>5, <2>1, <2>2, <2>4, <2>5 DEF TaleOf, m
<1>6. QED
  BY <1>4, <1>5 DEF TaleOf

(* The end of the headers, told when every stream's header is here.        *)
LEMMA TaleEnd ==
  ASSUME NEW l, IsRow(l), NEW c, NEW d, NEW p, TaleOf(l, c, p),
         c.streams \in Seq(Options), HeadersComplete(c), ~(c.done /\ p = <<>>),
         Alike(c, d), d.done
  PROVE  /\ TaleOf(Append(l, EndOfHeaders), d, <<>>)
         /\ EventOK(Append(l, EndOfHeaders), Len(l) + 1)
<1> DEFINE m == Append(l, EndOfHeaders)
           n == Len(l)
<1>1. n \in Nat /\ Len(m) = n + 1 /\ (\A i \in 1 .. n : m[i] = l[i]) /\ m[n + 1] = EndOfHeaders
  BY Appended
<1>2. EndOfHeaders.kind = "EndOfHeaders"
  BY DEF EndOfHeaders
<1>3. \A s : InForce(l, n, s) => InForce(m, n + 1, s)
  BY <1>2, InForceStays
<1> HIDE DEF m, n
<1>4. HasMain(c) /\ LastCount(l, c) /\ HasMain(d)
  BY DEF TaleOf, NothingDeclared, HeadersComplete, Alike
<1>5. PICK s : SetDeclared(l, c, s) /\ ~EndAnnounced(l, s, n)
  BY <1>4 DEF TaleOf, NothingDeclared, n
<1>6. s \in 1 .. n /\ InForce(m, n + 1, s)
  BY <1>3, <1>5 DEF SetDeclared, InForce, n
<1>7. EveryHeader(m, s, n + 1)
  <2>1. Known(c) = 1 .. l[s].count
    <3>1. l[s].count = Len(c.streams)
      BY <1>5 DEF SetDeclared
    <3>2. Known(c) = DOMAIN c.streams
      BY DEF HeadersComplete, Declared
    <3>3. DOMAIN c.streams = 1 .. Len(c.streams)
      OBVIOUS
    <3>4. QED
      BY <3>1, <3>2, <3>3
  <2>2. \A i \in Known(c) : \E k \in s .. n : Said(l, k, "StreamHeader") /\ l[k].stream = i
    BY <1>5 DEF SetDeclared, n
  <2>3. \A k \in s .. n : k \in s .. n + 1 /\ m[k] = l[k]
    BY <1>1, <1>6
  <2>4. QED
    BY <1>1, <1>6, <2>1, <2>2, <2>3 DEF EveryHeader, Said
<1>8. ~EndAnnounced(m, s, (n + 1) - 1)
  BY <1>1, <1>5, <1>6 DEF EndAnnounced, Said
<1>9. EventOK(m, n + 1)
  BY <1>1, <1>2, <1>6, <1>7, <1>8 DEF EventOK, Said
<1>10. LastCount(m, d)
  <2>1. PICK j \in 1 .. n :
          /\ Said(l, j, "MainHeader") /\ l[j].count = Len(c.streams)
          /\ \A k \in j + 1 .. n : ~Said(l, k, "MainHeader")
    BY <1>4 DEF LastCount, n
  <2>2. /\ j \in 1 .. n + 1 /\ j \in Nat /\ m[j] = l[j]
        /\ \A k \in j + 1 .. n + 1 : k = n + 1 \/ (k \in j + 1 .. n /\ m[k] = l[k])
    BY <1>1, <2>1
  <2>3. /\ Said(m, j, "MainHeader") /\ m[j].count = Len(d.streams)
        /\ \A k \in j + 1 .. n + 1 : ~Said(m, k, "MainHeader")
    BY <1>1, <1>2, <2>1, <2>2 DEF Said, Alike
  <2>4. QED
    BY <1>1, <2>2, <2>3 DEF LastCount
<1>11. SetDeclared(m, d, s)
  BY <1>1, <1>5, <1>6 DEF SetDeclared, Said, Alike, n
<1>12. EndAnnounced(m, s, n + 1)
  BY <1>1, <1>2, <1>6 DEF EndAnnounced, Said
<1>13. TaleOf(m, d, <<>>)
  BY <1>1, <1>4, <1>10, <1>11, <1>12 DEF TaleOf
<1>14. QED
  BY <1>9, <1>13 DEF m, n

(* A stream's header.                                                      *)
LEMMA TaleStream ==
  ASSUME NEW l, IsRow(l), NEW e, e.kind = "StreamHeader",
         NEW c, TaleOf(l, c, <<>>), HasMain(c),
         NEW d, HasMain(d), Len(d.streams) = Len(c.streams),
         Known(d) = Known(c) \cup {e.stream}, d.done = c.done
  PROVE  TaleOf(Append(l, e), d, <<>>)
<1> DEFINE m == Append(l, e)
           n == Len(l)
<1>1. n \in Nat /\ Len(m) = n + 1 /\ (\A i \in 1 .. n : m[i] = l[i]) /\ m[n + 1] = e
  BY Appended
<1>2. \A s : InForce(l, n, s) => InForce(m, n + 1, s)
  BY InForceStays
<1> HIDE DEF m, n
<1>3. LastCount(l, c)
  BY DEF TaleOf, NothingDeclared
<1>4. PICK s : SetDeclared(l, c, s) /\ (EndAnnounced(l, s, n) <=> c.done)
  BY DEF TaleOf, NothingDeclared, n
<1>5. s \in 1 .. n /\ InForce(m, n + 1, s)
  BY <1>2, <1>4 DEF SetDeclared, InForce, n
<1>6. LastCount(m, d)
  BY <1>1, <1>3 DEF LastCount, Said, n
<1>7. SetDeclared(m, d, s)
  <2>1. m[s].count = Len(d.streams)
    BY <1>1, <1>4, <1>5 DEF SetDeclared
  <2>2. ASSUME NEW i \in Known(c)
        PROVE  \E k \in s .. n + 1 : Said(m, k, "StreamHeader") /\ m[k].stream = i
    BY <1>1, <1>4, <1>5 DEF SetDeclared, Said, n
  <2>3. n + 1 \in s .. n + 1 /\ Said(m, n + 1, "StreamHeader") /\ m[n + 1].stream = e.stream
    BY <1>1, <1>5 DEF Said
  <2>4. QED
    BY <1>1, <1>5, <2>1, <2>2, <2>3 DEF SetDeclared
<1>8. EndAnnounced(m, s, n + 1) <=> EndAnnounced(l, s, n)
  BY <1>1, <1>5 DEF EndAnnounced, Said
<1>9. QED
  BY <1>1, <1>4, <1>6, <1>7, <1>8 DEF TaleOf, m

(* A main header: of the same number of streams it changes nothing, of     *)
(* another it puts a new set in force.                                     *)
LEMMA TaleMainAgain ==
  ASSUME NEW l, IsRow(l), NEW e, e.kind = "MainHeader",
         NEW c, TaleOf(l, c, <<>>), e.count = Len(c.streams), e.count # 0,
         NEW d, HasMain(d), d.streams = c.streams, d.done = c.done
  PROVE  TaleOf(Append(l, e), d, <<>>)
<1> DEFINE m == Append(l, e)
           n == Len(l)
<1>1. n \in Nat /\ Len(m) = n + 1 /\ (\A i \in 1 .. n : m[i] = l[i]) /\ m[n + 1] = e
  BY Appended
<1>2. \A j \in 1 .. n : Declares(m, j) <=> Declares(l, j)
  BY DeclaresAppended
<1> HIDE DEF m, n
<1>3. HasMain(c) /\ LastCount(l, c)
  BY DEF TaleOf, NothingDeclared
<1>4. PICK s : SetDeclared(l, c, s) /\ (EndAnnounced(l, s, n) <=> c.done)
  BY <1>3 DEF TaleOf, NothingDeclared, n
<1>5. ~Declares(m, n + 1)
  <2>1. PICK j \in 1 .. n : /\ Said(l, j, "MainHeader") /\ l[j].count = Len(c.streams)
                            /\ \A k \in j + 1 .. n : ~Said(l, k, "MainHeader")
    BY <1>3 DEF LastCount, n
  <2>2. j \in 1 .. (n + 1) - 1 /\ Said(m, j, "MainHeader") /\ m[j].count = m[n + 1].count
    BY <1>1, <2>1 DEF Said
  <2>3. ~\E k \in j + 1 .. (n + 1) - 1 : Said(m, k, "MainHeader")
    BY <1>1, <2>1 DEF Said
  <2>4. QED
    BY <2>2, <2>3 DEF Declares
<1>6. s \in 1 .. n /\ InForce(m, n + 1, s)
  <2>1. InForce(l, n, s) /\ s \in 1 .. n
    BY <1>4 DEF SetDeclared, InForce, n
  <2>2. \A j \in s + 1 .. n + 1 : j \in s + 1 .. n \/ j = n + 1
    BY <1>1, <2>1
  <2>3. s + 1 .. n \subseteq 1 .. n
    BY <1>1, <2>1
  <2>4. QED
    BY <1>1, <1>2, <1>5, <2>1, <2>2, <2>3 DEF InForce
<1>7. LastCount(m, d)
  <2>1. n + 1 \in 1 .. n + 1 /\ Said(m, n + 1, "MainHeader") /\ m[n + 1].count = Len(d.streams)
    BY <1>1 DEF Said
  <2>2. (n + 1) + 1 .. n + 1 = {}
    BY <1>1
  <2>3. QED
    BY <1>1, <2>1, <2>2 DEF LastCount
<1>8. SetDeclared(m, d, s)
  <2>1. m[s].count = Len(d.streams) /\ Known(d) = Known(c)
    BY <1>1, <1>4, <1>6 DEF SetDeclared, Known, Declared
  <2>2. ASSUME NEW i \in Known(c)
        PROVE  \E k \in s .. n + 1 : Said(m, k, "StreamHeader") /\ m[k].stream = i
    BY <1>1, <1>4, <1>6 DEF SetDeclared, Said, n
  <2>3. QED
    BY <1>1, <1>6, <2>1, <2>2 DEF SetDeclared
<1>9. EndAnnounced(m, s, n + 1) <=> EndAnnounced(l, s, n)
  BY <1>1, <1>6 DEF EndAnnounced, Said
<1>10. QED
  BY <1>1, <1>4, <1>7, <1>8, <1>9 DEF TaleOf, m

LEMMA TaleMainNew ==
  ASSUME NEW l, IsRow(l), NEW e, e.kind = "MainHeader",
         NEW c, TaleOf(l, c, <<>>), e.count # Len(c.streams),
         NEW d, HasMain(d), Len(d.streams) = e.count, Known(d) = {}, ~d.done
  PROVE  TaleOf(Append(l, e), d, <<>>)
<1> DEFINE m == Append(l, e)
           n == Len(l)
<1>1. n \in Nat /\ Len(m) = n + 1 /\ (\A i \in 1 .. n : m[i] = l[i]) /\ m[n + 1] = e
  BY Appended
<1> HIDE DEF m, n
<1>2. Declares(m, n + 1)
  <2> SUFFICES ASSUME NEW k \in 1 .. n, Said(m, k, "MainHeader"), m[k].count = e.count
               PROVE  \E i \in k + 1 .. n : Said(m, i, "MainHeader")
    BY <1>1 DEF Declares, Said
  <2>1. LastCount(l, c)
    BY <1>1 DEF TaleOf, NothingDeclared, Said, n
  <2>2. PICK j \in 1 .. n : /\ Said(l, j, "MainHeader") /\ l[j].count = Len(c.streams)
                            /\ \A i \in j + 1 .. n : ~Said(l, i, "MainHeader")
    BY <2>1 DEF LastCount, n
  <2>3. k # j /\ ~(k > j)
    BY <1>1, <2>2 DEF Said
  <2>4. j \in k + 1 .. n /\ Said(m, j, "MainHeader")
    BY <1>1, <2>2, <2>3 DEF Said
  <2>5. QED
    BY <2>4
<1>3. (n + 1) + 1 .. n + 1 = {} /\ n + 1 \in 1 .. n + 1
  BY <1>1
<1>4. InForce(m, n + 1, n + 1)
  BY <1>1, <1>2, <1>3 DEF InForce
<1>5. LastCount(m, d)
  BY <1>1, <1>3 DEF LastCount, Said
<1>6. SetDeclared(m, d, n + 1)
  BY <1>1, <1>4 DEF SetDeclared
<1>7. ~EndAnnounced(m, n + 1, n + 1)
  BY <1>1 DEF EndAnnounced, Said
<1>8. QED
  BY <1>1, <1>5, <1>6, <1>7 DEF TaleOf, m

(* A frame of a declared stream, once the headers have ended.              *)
LEMMA TaleFrame ==
  ASSUME NEW l, IsRow(l), NEW e, e.kind = "Frame",
         NEW c, TaleOf(l, c, <<>>), HasMain(c), c.done, c.streams \in Seq(Options),
         e.packet.stream \in Declared(c)
  PROVE  /\ TaleOf(Append(l, e), c, <<>>)
         /\ EventOK(Append(l, e), Len(l) + 1)
<1> DEFINE m == Append(l, e)
           n == Len(l)
<1>1. n \in Nat /\ Len(m) = n + 1 /\ (\A i \in 1 .. n : m[i] = l[i]) /\ m[n + 1] = e
  BY Appended
<1>2. \A s : InForce(l, n, s) => InForce(m, n + 1, s)
  BY InForceStays
<1> HIDE DEF m, n
<1>3. LastCount(l, c)
  BY DEF TaleOf, NothingDeclared
<1>4. PICK s : SetDeclared(l, c, s) /\ EndAnnounced(l, s, n)
  BY DEF TaleOf, NothingDeclared, n
<1>5. s \in 1 .. n /\ InForce(m, n + 1, s)
  BY <1>2, <1>4 DEF SetDeclared, InForce, n
<1>6. EndAnnounced(m, s, n + 1)
  BY <1>1, <1>4, <1>5 DEF EndAnnounced, Said
<1>7. m[n + 1].packet.stream \in 1 .. m[s].count
  <2>1. DOMAIN c.streams = 1 .. Len(c.streams)
    OBVIOUS
  <2>2. m[s].count = Len(c.streams)
    BY <1>1, <1>4, <1>5 DEF SetDeclared
  <2>3. QED
    BY <1>1, <2>1, <2>2 DEF Declared
<1>8. EventOK(m, n + 1)
  BY <1>1, <1>5, <1>6, <1>7 DEF EventOK, Said
<1>9. LastCount(m, c)
  BY <1>1, <1>3 DEF LastCount, Said, n
<1>10. SetDeclared(m, c, s)
  BY <1>1, <1>4, <1>5 DEF SetDeclared, Said, n
<1>11. TaleOf(m, c, <<>>)
  BY <1>1, <1>6, <1>9, <1>10 DEF TaleOf
<1>12. QED
  BY <1>8, <1>11 DEF m, n

-----------------------------------------------------------------------------
(* What the handlers leave of the tale.                                    *)

LEMMA AlikeItself == ASSUME NEW c PROVE Alike(c, c)
BY DEF Alike

LEMMA HeadersClosedAlike ==
  ASSUME NEW c, IsContext(c)
  PROVE  /\ Alike(c, HeadersClosed(c))
         /\ HeadersClosed(c).done = (c.done \/ HeadersComplete(c))
<1> DEFINE d == HeadersClosed(c)
<1>1. d.bases = c.bases /\ d.streams = c.streams /\ d.done = (c.done \/ HeadersComplete(c))
  BY DEF IsContext, HeadersClosed
<1> HIDE DEF d
<1>2. Alike(c, d)
  BY <1>1 DEF Alike, HasMain, Declared, Known
<1>3. QED
  BY <1>1, <1>2 DEF d

LEMMA ReadSyncpointAlike ==
  ASSUME NEW c, IsContext(c), NEW u
  PROVE  /\ Alike(c, ReadSyncpoint(c, u)) /\ ReadSyncpoint(c, u).done = c.done
         /\ HeadersComplete(ReadSyncpoint(c, u)) = HeadersComplete(c)
<1> DEFINE d == ReadSyncpoint(c, u)
<1>1. d.bases = c.bases /\ d.streams = c.streams /\ d.done = c.done
  BY DEF IsContext, ReadSyncpoint
<1> HIDE DEF d
<1>2. Alike(c, d)
  BY <1>1 DEF Alike, HasMain, Declared, Known
<1>3. QED
  BY <1>1, <1>2 DEF d, HeadersComplete, HasMain, Declared, Known

LEMMA BodyRefusedAlike ==
  ASSUME NEW c, IsContext(c), NEW u
  PROVE  Alike(c, BodyRefusedLeaves(c, u)) /\ BodyRefusedLeaves(c, u).done = c.done
BY ReadSyncpointAlike, AlikeItself DEF BodyRefusedLeaves

LEMMA FrameReadAlike ==
  ASSUME NEW c, IsContext(c), NEW u
  PROVE  Alike(c, FrameRead(c, u)) /\ FrameRead(c, u).done = c.done
<1> DEFINE d == FrameRead(c, u)
<1>1. d.bases = c.bases /\ d.streams = c.streams /\ d.done = c.done
  BY DEF IsContext, FrameRead
<1> HIDE DEF d
<1>2. Alike(c, d)
  BY <1>1 DEF Alike, HasMain, Declared, Known
<1>3. QED
  BY <1>1, <1>2 DEF d

LEMMA ApplyTagsAlike ==
  ASSUME NEW c, IsContext(c), NEW u
  PROVE  /\ ApplyTags(c, u).bases = c.bases /\ ApplyTags(c, u).streams = c.streams
         /\ ApplyTags(c, u).done = c.done
BY DEF IsContext, ApplyTags

LEMMA ApplyInfoAlike ==
  ASSUME NEW c, IsContext(c), c.streams \in Seq(Options), NEW u
  PROVE  Alike(c, ApplyInfo(c, u)) /\ ApplyInfo(c, u).done = c.done
<1> DEFINE d == ApplyInfo(c, u)
           streams == [i \in DOMAIN c.streams |->
                         IF i \in Known(c) /\ u.about \in {0, i}
                           THEN <<Rated(Header(c, i), u.rate)>> ELSE c.streams[i]]
<1>1. d.bases = c.bases /\ d.streams = streams /\ d.done = c.done
  BY DEF IsContext, ApplyInfo
<1>2. DOMAIN c.streams = 1 .. Len(c.streams) /\ Len(c.streams) \in Nat
  OBVIOUS
<1>3. Len(streams) = Len(c.streams) /\ DOMAIN streams = DOMAIN c.streams
  BY <1>2
<1>4. \A i \in DOMAIN c.streams : streams[i] # <<>> <=> c.streams[i] # <<>>
  BY DEF Known, Declared
<1>5. c.streams = <<>> => streams = <<>>
  OBVIOUS
<1> HIDE DEF d, streams
<1>6. Alike(c, d)
  BY <1>1, <1>3, <1>4, <1>5 DEF Alike, HasMain, Declared, Known
<1>7. QED
  BY <1>1, <1>6 DEF d

LEMMA ReadStreamTells ==
  ASSUME NEW c, IsContext(c), c.streams \in Seq(Options), NEW u, u.stream \in DOMAIN c.streams
  PROVE  /\ ReadStream(c, u).bases = c.bases /\ ReadStream(c, u).done = c.done
         /\ Len(ReadStream(c, u).streams) = Len(c.streams)
         /\ Known(ReadStream(c, u)) = Known(c) \cup {u.stream}
<1> DEFINE d == ReadStream(c, u)
           h == [base |-> c.bases[u.base], span |-> u.span, delay |-> u.delay, rate |-> 0]
<1>1. d.bases = c.bases /\ d.streams = [c.streams EXCEPT ![u.stream] = <<h>>] /\ d.done = c.done
  BY DEF IsContext, ReadStream
<1>2. <<h>> # <<>>
  OBVIOUS
<1> HIDE DEF d, h
<1>3. Len(d.streams) = Len(c.streams) /\ DOMAIN d.streams = DOMAIN c.streams
  BY <1>1
<1>4. Known(d) = Known(c) \cup {u.stream}
  BY <1>1, <1>2, <1>3 DEF Known, Declared
<1>5. QED
  BY <1>1, <1>3, <1>4 DEF d

LEMMA ReadMainTells ==
  ASSUME NEW c, IsContext(c), NEW u \in MainUnits
  PROVE  /\ HasMain(ReadMain(c, u))
         /\ Len(c.streams) = u.count =>
              ReadMain(c, u).streams = c.streams /\ ReadMain(c, u).done = c.done
         /\ Len(c.streams) # u.count =>
              /\ Len(ReadMain(c, u).streams) = u.count
              /\ Known(ReadMain(c, u)) = {}
              /\ ~ReadMain(c, u).done
<1> DEFINE d == ReadMain(c, u)
<1>1. u.bases # <<>> /\ u.count \in Nat
  BY DEF MainUnits
<1>2. CASE Len(c.streams) = u.count
  <2>1. d.bases = u.bases /\ d.streams = c.streams /\ d.done = c.done
    BY <1>2 DEF IsContext, ReadMain
  <2> HIDE DEF d
  <2>2. QED
    BY <1>1, <1>2, <2>1 DEF HasMain, d
<1>3. CASE Len(c.streams) # u.count
  <2>1. d.bases = u.bases /\ d.streams = [i \in 1 .. u.count |-> <<>>] /\ d.done = FALSE
    BY <1>3 DEF IsContext, ReadMain
  <2> HIDE DEF d
  <2>2. Len(d.streams) = u.count /\ Known(d) = {} /\ HasMain(d) /\ ~d.done
    BY <1>1, <2>1 DEF Known, Declared, HasMain
  <2>3. QED
    BY <1>3, <2>2 DEF d
<1>4. QED
  BY <1>2, <1>3

-----------------------------------------------------------------------------
(* The inductive invariant: the types, the context and the tale, and that  *)
(* the log is a sequence.                                                  *)
TInv == CInv /\ Settled /\ Tale

LEMMA TInvFacts ==
  ASSUME TInv
  PROVE  /\ Inv /\ IsContext(ctx) /\ ctx.streams \in Seq(Options)
         /\ IsRow(log) /\ Tale /\ TaleOf(log, ctx, pending)
         /\ pending \in {<<>>, <<EndOfHeaders>>}
         /\ calling => pending = <<>>
         /\ Front \in Units
BY RunningHasNothingPending, InvFront DEF TInv, CInv, Settled, Tale, Inv, TypeOK, ContextOK

LEMMA InitTale == Init => Tale
<1> SUFFICES ASSUME Init PROVE Tale
  OBVIOUS
<1>1. Len(log) = 0 /\ 1 .. Len(log) = {} /\ state = Identifier /\ pending = <<>>
  BY DEF Init
<1>2. ~HasMain(ctx) /\ ctx.streams = <<>> /\ ~ctx.done
  BY DEF Init, NewContext, HasMain
<1>3. QED
  BY <1>1, <1>2 DEF Tale, TaleOf, NothingDeclared, PayloadOK, EndOK, Identifier

(* Steps that tell nothing and leave the context as it is.                 *)
LEMMA QuietTale ==
  ASSUME TInv, UNCHANGED <<log, pending, ctx>>, state = Ended => state' = Ended,
         state'.in = "payload" => state.in = "payload" /\ state'.packet = state.packet
  PROVE  Tale'
<1>1. PayloadOK(state', ctx')
  BY DEF TInv, Tale, PayloadOK
<1>2. QED
  BY <1>1, AlikeItself, TaleStands DEF TInv

LEMMA NotEnded ==
  ASSUME Inv, state.in # "ended"
  PROVE  state # Ended
BY DEF Ended

LEMMA CallerTale == ASSUME TInv, Caller PROVE Tale'
<1>1. CASE CallNextEvent /\ pending # <<>>
  <2>1. pending = <<EndOfHeaders>> /\ state = AtUnit
    BY <1>1, TInvFacts DEF Inv, EventsBetweenUnits
  <2>2. /\ log' = Append(log, EndOfHeaders) /\ pending' = <<>>
        /\ state' = state /\ ctx' = ctx
    BY <1>1, <2>1, TInvFacts, RowJoin DEF CallNextEvent
  <2>3. ctx.done /\ HeadersComplete(ctx)
    BY <1>1 DEF TInv, Tale
  <2>4. /\ TaleOf(log', ctx', <<>>)
        /\ EventOK(log', Len(log) + 1)
    BY <1>1, <2>2, <2>3, TInvFacts, TaleEnd, AlikeItself
  <2>5. Len(log') = Len(log) + 1
    BY <2>2, TInvFacts, Appended
  <2>6. PayloadOK(state', ctx')
    BY <2>1, <2>2 DEF PayloadOK, AtUnit
  <2>7. state # Ended /\ EndOfHeaders.kind # "EndOfInput"
    BY <2>1 DEF AtUnit, Ended, EndOfHeaders
  <2>8. QED
    BY <2>2, <2>4, <2>5, <2>6, <2>7, TInvFacts, TaleGrows
<1>2. CASE \E n \in Chunks : FillPayload(n)
  <2>1. state.in = "payload" /\ \E n : state' = [state EXCEPT !.filled = @ + n]
    BY <1>2 DEF FillPayload
  <2>2. state' # Ended /\ state # Ended /\ state'.packet = state.packet
    BY <2>1, TInvFacts, InvPayload DEF Payload, Ended
  <2>3. UNCHANGED <<log, pending, ctx>>
    BY <1>2 DEF FillPayload, call
  <2>4. QED
    BY <2>1, <2>2, <2>3, QuietTale
<1>3. CASE \/ \E n \in Chunks : Feed(n)
           \/ Finish \/ TakePayload
           \/ \E stream \in 1 .. MaxStreams, limit \in CeilingChoices : SetStreamLimit(stream, limit)
           \/ CallNextEvent /\ pending = <<>>
  <2>1. UNCHANGED <<log, pending, ctx, state>>
    BY <1>3 DEF Feed, Finish, TakePayload, SetStreamLimit, CallNextEvent, call
  <2>2. QED
    BY <2>1, QuietTale
<1>4. QED
  BY <1>1, <1>2, <1>3 DEF Caller

LEMMA QuietSteps ==
  ASSUME TInv,
         \/ IdentifierShort \/ IdentifierRead \/ SkipPart \/ SkipRest \/ PayloadPart
         \/ UnitAwaited \/ PacketShort \/ PacketLengthRefused \/ PacketSteppedOver
         \/ FrameShort \/ FrameHeadRefused
  PROVE  Tale'
<1>1. CASE PayloadPart
  <2>1. state.in = "payload" /\ \E n : state' = [state EXCEPT !.filled = @ + n]
    BY <1>1 DEF PayloadPart
  <2>2. state # Ended /\ state'.packet = state.packet
    BY <2>1, TInvFacts, InvPayload DEF Payload, Ended
  <2>3. UNCHANGED <<log, pending, ctx>>
    BY <1>1 DEF PayloadPart, More, Answer
  <2>4. QED
    BY <2>1, <2>2, <2>3, QuietTale
<1>2. CASE \/ IdentifierShort \/ UnitAwaited \/ PacketShort \/ PacketLengthRefused
           \/ FrameShort \/ FrameHeadRefused
  <2>1. UNCHANGED <<log, pending, ctx, state>>
    BY <1>2 DEF IdentifierShort, UnitAwaited, PacketShort, PacketLengthRefused, FrameShort,
                FrameHeadRefused, More, Answer
  <2>2. QED
    BY <2>1, QuietTale
<1>3. CASE IdentifierRead \/ SkipPart \/ SkipRest \/ PacketSteppedOver
  <2>1. UNCHANGED <<log, pending, ctx>> /\ state.in # "ended"
    BY <1>3 DEF IdentifierRead, SkipPart, SkipRest, PacketSteppedOver, AtPacket, More, Answer, call
  <2>2. state'.in = "payload" => state' = state
    BY <1>3 DEF IdentifierRead, SkipPart, SkipRest, PacketSteppedOver, AtUnit, Skip
  <2>3. QED
    BY <2>1, <2>2, QuietTale, NotEnded, TInvFacts
<1>4. QED
  BY <1>1, <1>2, <1>3

LEMMA PayloadRestTale == ASSUME TInv, PayloadRest PROVE Tale'
<1> DEFINE e == FrameEvent(state.packet, payload')
<1>1. /\ log' = Append(log, e) /\ calling /\ state.in = "payload"
      /\ state' = AtUnit /\ pending' = pending /\ ctx' = ctx
  BY DEF PayloadRest, Emit
<1>2. e.kind = "Frame" /\ e.packet = state.packet
  BY DEF FrameEvent
<1>3. HasMain(ctx) /\ ctx.done /\ state.packet.stream \in Declared(ctx)
  BY <1>1 DEF TInv, Tale, PayloadOK
<1> HIDE DEF e
<1>4. pending = <<>> /\ IsRow(log) /\ TaleOf(log, ctx, <<>>) /\ ctx.streams \in Seq(Options)
  BY <1>1, TInvFacts
<1>5. TaleOf(log', ctx, <<>>) /\ EventOK(log', Len(log) + 1)
  BY <1>1, <1>2, <1>3, <1>4, TaleFrame
<1>6. Len(log') = Len(log) + 1
  BY <1>1, <1>4, Appended
<1>7. state # Ended /\ PayloadOK(state', ctx')
  BY <1>1 DEF Ended, AtUnit, PayloadOK
<1>8. QED
  BY <1>1, <1>2, <1>4, <1>5, <1>6, <1>7, TInvFacts, TaleGrows

LEMMA EndOfInputTale ==
  ASSUME TInv, calling, state # Ended \/ log[Len(log)] # EndOfInput,
         log' = Append(log, EndOfInput), state' = Ended, pending' = pending,
         Alike(ctx, ctx'), ctx'.done = ctx.done
  PROVE  Tale'
<1>1. /\ IsRow(log) /\ pending = <<>> /\ TaleOf(log, ctx, <<>>) /\ Tale
  BY TInvFacts
<1>2. Len(log) \in Nat /\ Len(log') = Len(log) + 1
      /\ (\A i \in 1 .. Len(log) : log'[i] = log[i]) /\ log'[Len(log) + 1] = EndOfInput
  BY <1>1, Appended
<1>3. EndOfInput.kind = "EndOfInput"
  BY DEF EndOfInput
<1>4. TaleOf(log', ctx, <<>>) /\ EventOK(log', Len(log'))
  BY <1>1, <1>3, TaleNeutral
<1>5. TaleOf(log', ctx', <<>>)
  BY <1>4, TaleAlike
<1>6. PayloadOK(state', ctx')
  BY DEF PayloadOK, Ended
<1>7. \A i \in 1 .. Len(log) : ~Said(log, i, "EndOfInput")
  BY <1>1, <1>2 DEF Tale, EndOK
<1>8. EndOK(log', state')
  BY <1>2, <1>3, <1>7 DEF EndOK, Said
<1>9. ASSUME NEW i \in 1 .. Len(log') PROVE EventOK(log', i)
  <2>1. CASE i \in 1 .. Len(log)
    BY <1>1, <2>1, EventAppended DEF Tale
  <2>2. CASE i = Len(log')
    BY <1>4, <2>2
  <2>3. QED
    BY <1>2, <2>1, <2>2
<1>10. QED
  BY <1>1, <1>5, <1>6, <1>8, <1>9 DEF Tale

LEMMA EndOfHeadersTale ==
  ASSUME TInv, calling, state.in = "unit", HeadersDue(ctx),
         log' = Append(log, EndOfHeaders), ctx' = HeadersClosed(ctx), pending' = pending,
         state' \in {AtUnit, Ended}
  PROVE  Tale'
<1>1. /\ IsRow(log) /\ pending = <<>> /\ TaleOf(log, ctx, <<>>) /\ Tale
      /\ ctx.streams \in Seq(Options) /\ IsContext(ctx)
  BY TInvFacts
<1>2. ~ctx.done /\ HeadersComplete(ctx)
  BY DEF HeadersDue
<1>3. Alike(ctx, ctx') /\ ctx'.done
  BY <1>1, <1>2, HeadersClosedAlike
<1>4. TaleOf(log', ctx', <<>>) /\ EventOK(log', Len(log) + 1)
  BY <1>1, <1>2, <1>3, TaleEnd
<1>5. Len(log') = Len(log) + 1
  BY <1>1, Appended
<1>6. state # Ended /\ EndOfHeaders.kind # "EndOfInput" /\ PayloadOK(state', ctx')
  BY DEF Ended, AtUnit, EndOfHeaders, PayloadOK
<1>7. QED
  BY <1>1, <1>4, <1>5, <1>6, TaleGrows

LEMMA EndingsTale ==
  ASSUME TInv, InputEnds \/ EndedAgain \/ HeadersEnd
  PROVE  Tale'
<1>1. CASE (InputEnds /\ HeadersDue(ctx)) \/ HeadersEnd
  <2>1. /\ calling /\ state.in = "unit" /\ HeadersDue(ctx)
        /\ log' = Append(log, EndOfHeaders) /\ ctx' = HeadersClosed(ctx) /\ pending' = pending
        /\ state' \in {state, Ended}
    BY <1>1 DEF InputEnds, HeadersEnd, Emit
  <2>2. state' \in {AtUnit, Ended}
    BY <2>1, TInvFacts, StateForms
  <2>3. QED
    BY <2>1, <2>2, EndOfHeadersTale
<1>2. CASE InputEnds /\ ~HeadersDue(ctx)
  <2>1. /\ calling /\ state.in = "unit" /\ state' = Ended
        /\ log' = Append(log, EndOfInput) /\ ctx' = HeadersClosed(ctx) /\ pending' = pending
    BY <1>2 DEF InputEnds, Emit
  <2>2. Alike(ctx, ctx') /\ ctx'.done = (ctx.done \/ HeadersComplete(ctx))
    BY <2>1, TInvFacts, HeadersClosedAlike
  <2>3. ctx.done \in BOOLEAN
    BY DEF TInv, CInv, ContextOK
  <2>4. ctx'.done = ctx.done
    BY <1>2, <2>2, <2>3 DEF HeadersDue
  <2>5. state # Ended
    BY <2>1 DEF Ended
  <2>6. QED
    BY <2>1, <2>2, <2>4, <2>5, EndOfInputTale
<1>3. CASE EndedAgain /\ log[Len(log)] = EndOfInput
  <2>1. UNCHANGED <<log, pending, ctx, state>>
    BY <1>3 DEF EndedAgain
  <2>2. QED
    BY <2>1, QuietTale
<1>4. CASE EndedAgain /\ log[Len(log)] # EndOfInput
  <2>1. /\ calling /\ state' = state /\ ctx' = ctx /\ pending' = pending
        /\ log' = Append(log, EndOfInput) /\ state.in = "ended"
    BY <1>4 DEF EndedAgain
  <2>2. state' = Ended
    BY <2>1, TInvFacts, StateForms
  <2>3. QED
    BY <1>4, <2>1, <2>2, AlikeItself, EndOfInputTale
<1>5. QED
  BY <1>1, <1>2, <1>3, <1>4

LEMMA PacketRefusedTale == ASSUME TInv, PacketBodyRefused PROVE Tale'
<1>1. /\ UNCHANGED <<log, pending, state>> /\ ctx' = BodyRefusedLeaves(ctx, Front)
      /\ state.in = "unit"
  BY DEF PacketBodyRefused, PacketWhole, AtPacket, Answer
<1>2. Alike(ctx, ctx') /\ ctx'.done = ctx.done
  BY <1>1, TInvFacts, BodyRefusedAlike
<1>3. PayloadOK(state', ctx')
  BY <1>1 DEF PayloadOK
<1>4. QED
  BY <1>1, <1>2, <1>3, TInvFacts, TaleStands

LEMMA PacketReadTale == ASSUME TInv, PacketBodyRead PROVE Tale'
<1>1. /\ calling /\ state.in = "unit" /\ state' = state
      /\ ctx' = PacketRead(ctx, Front) /\ pending' = PendingAfter(ctx, Front)
      /\ PacketEvent(Front) = <<>> => log' = log
      /\ PacketEvent(Front) # <<>> => log' = Append(log, PacketEvent(Front)[1])
  BY DEF PacketBodyRead, PacketWhole, AtPacket, Emit, call
<1>2. Front.kind \in {"main", "stream", "syncpoint", "info"} /\ ~BodyRefused(ctx, Front)
  BY TInvFacts, PacketKinds DEF PacketBodyRead, PacketWhole, AtPacket
<1>3. /\ IsRow(log) /\ pending = <<>> /\ TaleOf(log, ctx, <<>>) /\ Tale
      /\ ctx.streams \in Seq(Options) /\ IsContext(ctx) /\ Inv /\ Front \in Units
  BY <1>1, TInvFacts
<1>4. state # Ended /\ PayloadOK(state', ctx')
  BY <1>1 DEF Ended, PayloadOK
<1>5. ASSUME NEW e, log' = Append(log, e), e.kind \notin {"EndOfInput", "EndOfHeaders", "Frame"},
             TaleOf(log', ctx', pending'), pending' # <<>> => ctx'.done /\ HeadersComplete(ctx')
      PROVE  Tale'
  <2>1. Len(log) \in Nat /\ Len(log') = Len(log) + 1 /\ log'[Len(log')] = e
    BY <1>3, <1>5, Appended
  <2>2. EventOK(log', Len(log'))
    BY <1>5, <2>1 DEF EventOK, Said
  <2>3. QED
    BY <1>3, <1>4, <1>5, <2>2, TaleGrows
<1>6. CASE Front.kind = "main"
  <2> DEFINE e == [kind |-> "MainHeader", count |-> Front.count]
  <2>1. /\ log' = Append(log, e) /\ pending' = <<>> /\ ctx' = ReadMain(ctx, Front)
    BY <1>1, <1>6 DEF PacketEvent, PendingAfter, PacketRead
  <2>2. Front \in MainUnits /\ Front.count # 0
    BY <1>2, <1>3, <1>6, UnitKinds DEF BodyRefused, MainRefused
  <2>3. e.kind = "MainHeader" /\ e.count = Front.count
    OBVIOUS
  <2> HIDE DEF e
  <2>4. CASE Len(ctx.streams) = Front.count
    <3>1. HasMain(ctx') /\ ctx'.streams = ctx.streams /\ ctx'.done = ctx.done
      BY <1>3, <2>1, <2>2, <2>4, ReadMainTells
    <3>2. TaleOf(log', ctx', <<>>)
      BY <1>3, <2>1, <2>2, <2>3, <2>4, <3>1, TaleMainAgain
    <3>3. QED
      BY <1>5, <2>1, <2>3, <3>2
  <2>5. CASE Len(ctx.streams) # Front.count
    <3>1. HasMain(ctx') /\ Len(ctx'.streams) = Front.count /\ Known(ctx') = {} /\ ~ctx'.done
      BY <1>3, <2>1, <2>2, <2>5, ReadMainTells
    <3>2. TaleOf(log', ctx', <<>>)
      BY <1>3, <2>1, <2>2, <2>3, <2>5, <3>1, TaleMainNew
    <3>3. QED
      BY <1>5, <2>1, <2>3, <3>2
  <2>6. QED
    BY <2>4, <2>5
<1>7. CASE Front.kind = "stream"
  <2> DEFINE e == [kind |-> "StreamHeader", stream |-> Front.stream]
  <2>1. log' = Append(log, e) /\ pending' = <<>> /\ ctx' = ReadStream(ctx, Front)
    BY <1>1, <1>7 DEF PacketEvent, PendingAfter, PacketRead
  <2>2. HasMain(ctx) /\ Front.stream \in DOMAIN ctx.streams
    BY <1>2, <1>7 DEF BodyRefused, StreamRefused, Declared
  <2>3. e.kind = "StreamHeader" /\ e.stream = Front.stream
    OBVIOUS
  <2> HIDE DEF e
  <2>4. /\ HasMain(ctx') /\ ctx'.done = ctx.done /\ Len(ctx'.streams) = Len(ctx.streams)
        /\ Known(ctx') = Known(ctx) \cup {e.stream}
    BY <1>3, <2>1, <2>2, <2>3, ReadStreamTells DEF HasMain
  <2>5. TaleOf(log', ctx', <<>>)
    BY <1>3, <2>1, <2>2, <2>3, <2>4, TaleStream
  <2>6. QED
    BY <1>5, <2>1, <2>3, <2>5
<1>8. CASE Front.kind = "syncpoint"
  <2> DEFINE e == [kind |-> "Syncpoint"]
             c == ReadSyncpoint(ctx, Front)
  <2>1. /\ log' = Append(log, e) /\ ctx' = HeadersClosed(c)
        /\ pending' = IF HeadersDue(c) THEN <<EndOfHeaders>> ELSE <<>>
    BY <1>1, <1>8 DEF PacketEvent, PendingAfter, PacketRead
  <2>2. /\ Alike(ctx, c) /\ c.done = ctx.done /\ IsContext(c) /\ c.done \in BOOLEAN
        /\ HeadersComplete(c) = HeadersComplete(ctx)
    BY <1>3, ReadSyncpointAlike, ReadSyncpointType DEF TInv, CInv, ContextOK
  <2>3. Alike(c, ctx') /\ ctx'.done = (c.done \/ HeadersComplete(c))
    BY <2>1, <2>2, HeadersClosedAlike
  <2>4. e.kind = "Syncpoint"
    OBVIOUS
  <2> HIDE DEF e, c
  <2>5. Alike(ctx, ctx')
    BY <2>2, <2>3 DEF Alike
  <2>6. TaleOf(log', ctx, <<>>)
    BY <1>3, <2>1, <2>4, TaleNeutral
  <2>7. (ctx'.done /\ pending' = <<>>) <=> ctx.done
    <3>1. CASE HeadersDue(c)
      BY <2>1, <2>2, <3>1 DEF HeadersDue
    <3>2. CASE ~HeadersDue(c)
      BY <2>1, <2>2, <2>3, <3>2 DEF HeadersDue
    <3>3. QED
      BY <3>1, <3>2
  <2>8. ~HasMain(ctx) => pending' = <<>>
    BY <2>1, <2>2 DEF HeadersDue, HeadersComplete
  <2>9. TaleOf(log', ctx', pending')
    BY <2>5, <2>6, <2>7, <2>8, TaleAlike
  <2>10. pending' # <<>> => ctx'.done /\ HeadersComplete(ctx')
    BY <2>1, <2>2, <2>3 DEF HeadersDue, HeadersComplete, Alike
  <2>11. QED
    BY <1>5, <2>1, <2>4, <2>9, <2>10
<1>9. CASE Front.kind = "info" /\ Front.readable
  <2> DEFINE e == [kind |-> "Info", about |-> Front.about, rate |-> Front.rate]
             c == ApplyTags(ctx, Front)
  <2>1. log' = Append(log, e) /\ pending' = <<>> /\ ctx' = ApplyInfo(c, Front)
    BY <1>1, <1>9 DEF PacketEvent, PendingAfter, PacketRead
  <2>2. c.bases = ctx.bases /\ c.streams = ctx.streams /\ c.done = ctx.done /\ IsContext(c)
    BY <1>3, ApplyTagsAlike, ApplyTagsType
  <2>3. e.kind = "Info"
    OBVIOUS
  <2> HIDE DEF e, c
  <2>4. Alike(c, ctx') /\ ctx'.done = c.done
    BY <1>3, <2>1, <2>2, ApplyInfoAlike
  <2>5. Alike(ctx, ctx') /\ ctx'.done = ctx.done
    BY <2>2, <2>4 DEF Alike, HasMain, Known, Declared
  <2>6. TaleOf(log', ctx, <<>>)
    BY <1>3, <2>1, <2>3, TaleNeutral
  <2>7. TaleOf(log', ctx', <<>>)
    BY <2>5, <2>6, TaleAlike
  <2>8. QED
    BY <1>5, <2>1, <2>3, <2>7
<1>10. CASE Front.kind = "info" /\ ~Front.readable
  <2>1. log' = log /\ pending' = <<>> /\ ctx' = ctx
    BY <1>1, <1>10 DEF PacketEvent, PendingAfter, PacketRead
  <2>2. QED
    BY <1>1, <1>3, <2>1, QuietTale
<1>11. QED
  BY <1>2, <1>6, <1>7, <1>8, <1>9, <1>10

LEMMA FrameHeadTale == ASSUME TInv, RelevanceEnds \/ FrameBegins PROVE Tale'
<1>1. /\ FrameHeadRead /\ UNCHANGED <<log, pending>> /\ ctx' = FrameRead(ctx, Front)
      /\ state.in = "unit" /\ ~HeadersDue(ctx)
      /\ FrameReads(ctx, Front, Buffered, Ceiling(ceilings, Front.stream))
  BY DEF RelevanceEnds, FrameBegins, FrameHeadRead, AtFrame, call
<1>2. HeadersComplete(ctx) /\ Front.stream \in Declared(ctx)
  BY <1>1 DEF FrameReads, HeadSeen, PtsSeen, StreamSeen
<1>3. ctx.done /\ HasMain(ctx)
  BY <1>1, <1>2 DEF HeadersDue, HeadersComplete
<1>4. Alike(ctx, ctx') /\ ctx'.done = ctx.done
  BY <1>1, TInvFacts, FrameReadAlike
<1>5. state'.in = "payload" => state'.packet.stream = Front.stream
  BY DEF RelevanceEnds, FrameBegins, Skip, Payload, Packet
<1>6. PayloadOK(state', ctx')
  BY <1>2, <1>3, <1>4, <1>5 DEF PayloadOK, Alike
<1>7. state # Ended
  BY <1>1 DEF Ended
<1>8. QED
  BY <1>1, <1>4, <1>6, <1>7, TInvFacts, TaleStands

LEMMA NextTale == ASSUME TInv, [Next]_vars PROVE Tale'
<1>1. CASE Caller
  BY <1>1, CallerTale
<1>2. CASE NextEvent
  BY <1>2, QuietSteps, PayloadRestTale, EndingsTale, PacketRefusedTale, PacketReadTale,
     FrameHeadTale DEF NextEvent
<1>3. CASE Closed \/ UNCHANGED vars
  <2>1. UNCHANGED <<log, pending, ctx, state>>
    BY <1>3 DEF Closed, vars, call
  <2>2. QED
    BY <2>1, QuietTale
<1>4. QED
  BY <1>1, <1>2, <1>3 DEF Next

LEMMA InitTInv == Init => TInv
BY InitCInv, InitSettled, InitTale DEF TInv

LEMMA NextTInv == TInv /\ [Next]_vars => TInv'
BY NextCInv, NextSettled, NextTale DEF TInv, CInv

(* What the property says of a place in the log, from what the tale says.  *)
LEMMA DeclaredThere ==
  ASSUME NEW i \in Nat, NEW s, InForce(log, i, s)
  PROVE  SetDeclaredAt(i) = s /\ Declaring(i) # {}
<1>1. Declaring(i) = {j \in 1 .. i : Declares(log, j)}
  BY DEF Declaring, IsA, Declares, Said
<1>2. s \in Declaring(i) /\ s \in 1 .. i /\ \A j \in s + 1 .. i : ~Declares(log, j)
  BY <1>1 DEF InForce
<1>3. ASSUME NEW k \in Declaring(i) PROVE k <= s
  BY <1>1, <1>2
<1>4. ASSUME NEW j \in Declaring(i), \A k \in Declaring(i) : k <= j PROVE j = s
  BY <1>1, <1>2, <1>3, <1>4
<1>5. QED
  BY <1>2, <1>3, <1>4 DEF SetDeclaredAt

(* Through restated and renewed headers, in every way the bytes may come:  *)
(* each set of streams has its headers ended once, after the header of     *)
(* every one of them, and its frames after that, and the end of the input  *)
(* is the last event.                                                      *)
THEOREM EventsAlwaysInOrder == Spec => []EventsInOrder
<1>1. TInv => EventsInOrder
  <2> SUFFICES ASSUME TInv, NEW i \in DOMAIN log
               PROVE  /\ IsA(i, "EndOfHeaders") =>
                           /\ Declaring(i) # {}
                           /\ HeadersFirst(i)
                           /\ \A k \in SetDeclaredAt(i) .. i - 1 : ~IsA(k, "EndOfHeaders")
                      /\ IsA(i, "Frame") =>
                           /\ Declaring(i) # {}
                           /\ \E k \in SetDeclaredAt(i) .. i : IsA(k, "EndOfHeaders")
                           /\ log[i].packet.stream \in 1 .. log[SetDeclaredAt(i)].count
                      /\ IsA(i, "EndOfInput") => i = Len(log)
    BY DEF EventsInOrder
  <2>1. i \in 1 .. Len(log) /\ i \in Nat
    BY TInvFacts DEF IsRow
  <2>2. EventOK(log, i) /\ EndOK(log, state)
    BY <2>1 DEF TInv, Tale
  <2>3. ASSUME IsA(i, "EndOfHeaders")
        PROVE  /\ Declaring(i) # {}
               /\ HeadersFirst(i)
               /\ \A k \in SetDeclaredAt(i) .. i - 1 : ~IsA(k, "EndOfHeaders")
    <3>1. PICK s : InForce(log, i, s) /\ EveryHeader(log, s, i) /\ ~EndAnnounced(log, s, i - 1)
      BY <2>2, <2>3 DEF EventOK, IsA, Said
    <3>2. SetDeclaredAt(i) = s /\ Declaring(i) # {}
      BY <2>1, <3>1, DeclaredThere
    <3>3. QED
      BY <3>1, <3>2 DEF HeadersFirst, EveryHeader, EndAnnounced, IsA, Said
  <2>4. ASSUME IsA(i, "Frame")
        PROVE  /\ Declaring(i) # {}
               /\ \E k \in SetDeclaredAt(i) .. i : IsA(k, "EndOfHeaders")
               /\ log[i].packet.stream \in 1 .. log[SetDeclaredAt(i)].count
    <3>1. PICK s : /\ InForce(log, i, s) /\ EndAnnounced(log, s, i)
                   /\ log[i].packet.stream \in 1 .. log[s].count
      BY <2>2, <2>4 DEF EventOK, IsA, Said
    <3>2. SetDeclaredAt(i) = s /\ Declaring(i) # {}
      BY <2>1, <3>1, DeclaredThere
    <3>3. QED
      BY <3>1, <3>2 DEF EndAnnounced, IsA, Said
  <2>5. IsA(i, "EndOfInput") => i = Len(log)
    BY <2>1, <2>2 DEF EndOK, IsA, Said
  <2>6. QED
    BY <2>3, <2>4, <2>5
<1>2. QED
  BY InitTInv, NextTInv, <1>1, PTL DEF Spec
=============================================================================
