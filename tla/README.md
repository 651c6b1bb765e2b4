# Verification of `ffrwd-nut`

TLA+ models of the crate `ffrwd-nut` (a NUT muxer and demuxer), the TLC
configurations that check them on small instances, and theorems about them that
TLAPS proves. Line numbers are those of the sources the models were read from:
`src/demux.rs`, `src/mux.rs`, `src/read.rs`, `src/bytes.rs`, `src/adts.rs`,
`src/stream.rs`, `src/lib.rs`.

1. The system
2. The modules, and what in the code each definition stands for
3. The runs, their bounds, the fairness
4. What is proved
5. Where the code and what is said of it differ
6. What is only model-checked, what is abstracted, what is not modelled
7. Plan

## 1. The system

A NUT stream is the identifier, then *units*: packets (main header, stream
headers, syncpoints, info, index) and frames. A packet begins with a startcode
and a length and ends with a checksum; anything that does not begin with `N` is
a frame, whose first byte, the framecode, picks a row of the main header's table
for what its header leaves out. The time of a frame may be coded as its low
bits only, to be lifted onto the last PTS of its stream; a syncpoint sets that
last PTS for all streams at once.

| component | state | operations | interacts with |
|---|---|---|---|
| **PushDemuxer** (`demux.rs`) | `buf`/`at`/`pos`, the parser's `state` (Identifier, Unit, Skip, Payload, Ended), `eof`, `pending`, what headers said (main, streams, tags), a clock per stream, ceilings, the frame's payload | `feed`, `payload_space` + `payload_filled`, `finish`, `next_event`, `take_payload`, `set_stream_limit` | a caller that owns the source of the bytes; `bytes.rs` for fields |
| **Timestamps, reorder buffer** (`demux.rs`) | `last_pts`, `pts_buffer` | `decode_pts`, `decode_dts`, the rescaling in `read_syncpoint` | called by frame and syncpoint |
| **Muxer** (`mux.rs`) | the writer, `pos`, `streams`, `time_bases`, `annotations`, `last_syncpoint` | `new`/`with_streams`/`with_annotations`, `write_frame(_to)`, `write_coded(_to)`, `write_rows`, `write_trailing`, `flush`, `finish` | a `Write`, usually buffered, usually a pipe; a demuxer at its other end |
| **Demuxer** (`read.rs`) | the source, a PushDemuxer, rows nobody claimed yet, the trailing record, a first packet read ahead, `strip_adts` | opening, `read_packet`, `take_rows`, `take_trailing`; `pump` | pumps a PushDemuxer until an event |
| **ADTS** (`adts.rs`) | none | parse and strip a header, make a config of it | Demuxer |
| **Byte primitives** (`bytes.rs`) | none | `v`, `s`, their writers, CRC | all |
| **Streams and tags** (`stream.rs`), **errors** (`error.rs`), **constants** (`lib.rs`) | none | tables and names | all |

What is hard in it, and what makes each part correct:

* **PushDemuxer.** There are no threads: each method takes `&mut self`. What
  interleaves is the caller's pieces with the parser's progress. Bytes come in
  pieces of any size and by two doors, the buffer and a frame's own payload; a
  unit whose bytes stop is parsed again from its start (`next_event`, 458-463);
  read bytes stay in the buffer until there are enough to drop; `finish` may
  come anywhere. It is correct when none of that shows: the events are those of
  the units on the wire, each frame has the wire's bytes, a cut is told from an
  end, it asks for more only when it lacks some, and its limits bite on what
  they are about.
* **Headers.** A stream restates its headers at will, with the same streams or
  others. `EndOfHeaders` comes once for each set and after it is complete; no
  frame comes before it; tags are replaced, not doubled; a reorder buffer is as
  deep as its header says.
* **Timestamps.** A PTS lifted from its low bits is the nearest with those
  bits; a syncpoint means one instant to all streams; a DTS is never after its
  PTS and, for a stream in decode order, DTS never go back. All of it is in
  integers of a width, and values of the wire may be at the ends of it.
* **Muxer.** Syncpoints near enough before each frame, back pointers that lead
  to the syncpoint before, times a reader takes apart as they were put
  together, rates known before frames, and the flushes without which two
  processes wait for each other.
  The writer beneath it may fail anywhere, half way through a unit included.
* **Demuxer.** Rows are matched to frames by PTS through a bounded map; opening
  decides from an order of events whether this is the wire it reads; an aac
  stream without a config has its first packet read ahead, with the annotation
  packets in front of it, and either all packets lose an ADTS header or none
  does. The source may fail at any read, and the caller may try again.
* **Bytes.** A field may be cut between any two of its bytes; a `v` may have more
  room than an integer; a table of framecodes leaves one index out of its counts.

`PROJECT.json` lists each hazard at its line with the properties about it.

## 2. The modules

```
Timestamps ─ NutContext ─┬─ PushDemuxer ─ MCUnits ─ MCPush{Framing,Streams}
     │                   ├─ NutReading (abstract; PushDemuxer implements it)
     │                   │      └─ Demuxer (with Adts, Codecs) ─ MCDemuxer
     │                   │            └──────────────┐
     │                   └─ Muxer ─┬─ MCMuxer        ├─ AnnotatedPipe ─ MCAnnotatedPipe
     │                             │   └─────────────┘
     │                             └─ MuxedPipe ─ MCMuxedPipe    (MCOpenings for both)
     └─ ReorderBuffer

Fields ─ Packets ─ MCPackets
```

The proofs are in modules of their own, each of which extends the module it is
about and the proofs it builds on:

```
TimestampsProofs ─┬─ ReorderBufferProofs
                  └─ NutContextProofs ─┬─ PushDemuxerProofs ─ PushDemuxerEvents
                                       ├─ DemuxerProofs
                                       └─ MuxerProofs ─ MuxedPipeProofs
```

**Timestamps** has the arithmetic of `decode_pts`, `read_syncpoint` and
`decode_dts` as operators. `MaxTick` is `i64::MAX` scaled down; a u64 and an
i128 follow from it. `OverflowChecks` says which build it is: a plain `+`, `-`
or `*` that leaves its width panics in one and wraps in the other. `None` among
timestamps is the number below every other, as Rust's order has it.

**NutContext** has the state that headers, info packets and syncpoints build up
(`ctx`, one record) and a unit's effect on it: `ReadMain`, `ReadStream`,
`ReadSyncpoint`, `ApplyInfo`, `ApplyTags`, `FrameRead`, with what each refuses
and what a refused unit leaves behind (a syncpoint refused at one stream has set
the clocks of those before it: `SyncedPts`).
A unit is a record that says what its bytes say. What makes a unit refused by
its own bytes alone, such as its checksum, is its field `ok`.

**PushDemuxer** is the parser at the level of bytes. A byte *is* its place in the
stream, so a buffer is a sequence of numbers that shows what was lost, doubled
or moved; which unit starts where is given by the wire. One action for each
method of the caller (`Feed`, `FillPayload`, `Finish`, `TakePayload`,
`SetStreamLimit`, `CallNextEvent`), and, while a call runs, one for each arm of
the loop in `next_event`: `IdentifierRead`, `SkipPart`/`SkipRest`,
`PayloadPart`/`PayloadRest`, `InputEnds`, `EndedAgain`, `HeadersEnd`,
`PacketSteppedOver`, `PacketBodyRead`, `PacketBodyRefused`, `FrameBegins`,
`RelevanceEnds` and so on; an arm that runs short of bytes is an action that
answers through `More`. An error ends the caller's use of the demuxer: the crate
promises nothing after one and `read.rs` never goes on.

**NutReading** is what reading means with no pieces: units read whole, one after
another. `PushDemuxer!ReadsTheWire` instantiates it with a refinement mapping:
its place is `pos` plus what a body under way still wants, its log is the log
plus `pending`, and the frame in hand is the payload with the wire's bytes put
where bytes have not come yet. So `FrameBegins` takes the abstract step and
every partial payload is a stutter.

**ReorderBuffer** is one stream's reorder buffer with a history of PTS and DTS.
`InDecodeOrder` is what a header's `decode_delay` promises of that history: at
most so many frames pass over any other.

**Muxer** has one action for each method of the muxer. It lays units on a wire
of the same kind the demuxer's models read. `sent` is what the writer
underneath has passed on: all of it at a flush, any of it at any time (`Spill`).
That writer may fail: `Tears` says after how many bytes of what a method writes,
and a flush may fail as well. What was handed to it stays on the wire, `pos`
and `last_syncpoint` move only as far as whole writes went, and the constructor
that failed leaves no muxer. A caller goes on from an error where the wire ends
between two units (`Torn` says when it does not). `written` and `marks` are
history.

**MuxedPipe** puts a muxer and a reader at the two ends of that wire. The reader
takes a unit when all of it is there, with the operators of NutContext; that the
real demuxer does so whatever the pieces is what ReadsTheWire says. A writer that
has gone leaves its buffer to be passed on and then the end of the input, which
is a cut where a writer failed inside a unit. `BodiesAssumption` is that a packet's
body is never shorter than its checksum, which `write_packet` counts into its length
(`mux.rs` 349-351).

**Demuxer** is the blocking reader. It instantiates NutReading as the parser
beneath it: `Pump` lets the reading go on, only while a method runs and no
further than the event the method looks at next, and `SourceFails` is a read
that fails meanwhile. One action for each arm of the method that runs: opening
(`OpenMain`, `OpenStream`, `OpenIgnores`, `OpenEnds`, `OpenEndsEarly`), the read
ahead for ADTS (`FirstPacket`), `read_packet` (`CallRead`, `NextPacket`,
`ReadIgnores`, `ReadRestated`, `ReadEnds`), annotation packets for either
(`ReadAnnotation`, `RefuseAnnotation`), and the caller's `TakeRows` and
`TakeTrailing`. What is inside a unit, a header's tag and config, an ADTS header,
the lines of an annotation packet, is in `says`; `out`, `claimed` and `trailed`
are what the caller was handed. A caller may try again after an error of the
source and stops at one about the stream. The reading may be ahead of what a
method has looked at, so the properties compare what was handed out with the
events looked at (`Told`, `FramesTold`) and with the units that are `Behind`:
those begun, without the last as long as an event of it is to come.

**Adts** is `adts.rs`: when a packet parses as ADTS, when its header may be
stripped, and the two bytes of config it becomes. **Codecs** is `stream.rs`:
tables of tags and `codec_name`, which decides what is read ahead.

**AnnotatedPipe** is a Muxer with an annotation stream and a Demuxer that asks
for it, at the ends of a pipe. Its writer keeps to the order `lib.rs` 48-59 has,
rows just before their frame and those of no frame last; its reader takes a
packet's rows when it has the packet. `TakeRows` and the rest are Demuxer's
actions and `WriteRows` and the rest Muxer's, each with its callers' guard.

**Fields** is `bytes.rs`: `v`, `s` and `vb` fields put and read, the cursor's
three answers (a value, *need more*, *wrong*), and the checksum with its table.
Every width is a parameter, so that edges come within reach: a group of three bits
for one of seven, a word of eleven for one of 64, as many bytes in a `v` as make
the last one too many. **Packets** is the layer above: the bodies of headers as
`mux.rs` puts them and `demux.rs` reads them, the framecode table group by group,
info fields by their types, `packet` from the startcode to the checksum, and a
frame's header field by field as its framecode and its own flags have it. Its one
action is a byte that comes, and a parser that starts again at the first. What
NutContext and PushDemuxer take as given of a unit is what this one reads.

The `MC*` modules only define values for constants. Operators under a comment
that begins with *A mutation* are plausible mistakes in the definition next to
them; each property of a passing run is known to fail under one of them
(`mutants` in `PROJECT.json`).

## 3. The runs

Run any of them with `tlc -workers 2 -config <run>.cfg <module>`; each takes from
seconds to a minute and a half.

| run | module | asks |
|---|---|---|
| `push_framing` | MCPushFraming | Do pieces, doors, compaction, limits and `finish` ever show? Ten wires with every kind of unit, well formed and spoilt; pieces of 1 to 22 bytes; ceilings set at any moment |
| `push_streams` | MCPushStreams | What do restated headers do, and what do syncpoints and low bits do to two clocks? Every row of three or four units after a header section |
| `reorder` | ReorderBuffer | The reorder buffer under every order of PTS, decode order among them |
| `mux_layout` | MCMuxer | Where are syncpoints, and what do they say? |
| `mux_pipe` | MCMuxedPipe | Does what goes in come out? |
| `mux_fails` | MCMuxedPipe | And over a writer that fails anywhere? Does anybody wait for ever? |
| `demuxer` | MCDemuxer | What does the blocking reader make of headers in any order, ADTS, annotation packets and a source that fails? |
| `annotated` | MCAnnotatedPipe | Do rows come back with the frame they were written beside? |
| `packets` | MCPackets | Is a packet or a frame's header, byte by byte, read as it was put, and nothing else taken for one? |
| `push_panics` | MCPushStreams | *violated*: section 5 |
| `mux_distance` | MCMuxer | *violated*: section 5 |
| `annotated_alike` | MCAnnotatedPipe | *violated*: section 5 |

**Bounds.** `MaxTick = 15` (2 in `reorder`): an i64 of five bits. `push_streams`
has PTS, syncpoints and low bits from one end of that range to the other and
spans of 4 and 8, so that lifts cross zero, reach half a span on either side and
leave the range. Four units after a section are enough to change the number of
streams, restate one header, and have a frame or a syncpoint after it; its wires
come in one piece, because what pieces do is the question of `push_framing`.
That one has a buffer limit of 3, which one wire is too wide for and the others
fit exactly, and compaction at 6 read bytes, so that both reasons to compact
occur; its wires are up to 26 bytes long, and no unit is longer than six. Delays
to 3 with five frames settle the reorder buffer and use it twice more. In the
muxer runs `MaxDistance` is 19 or 17 with frames of up to 14 or 17 bytes, so that
a syncpoint is due, just due, and overshot within three frames; openings have one
to three streams in one to three time bases, raw and coded, annotated or not, and
those that are refused, one after part of the wire is written. `Stamps` has a PTS
before zero, some in range, and some that a syncpoint cannot say. `Chunks` passes
on pieces of 9 or of 17 bytes, which end inside packets and frames. `Tears` of 0,
1, 3 and 5 bytes stop a method before its first byte, inside the identifier or a
packet's head, between a syncpoint and its frame, and inside a frame.

`demuxer` has every order of three out of nine units before the first frame;
sections restated in whole and in part; every pair of six kinds of aac packet
over three stream headers; every row of up to three out of eight annotation
packets and frames, with two PTS at most to wait (`MaxUnclaimed`), and one
failure of the source anywhere. `annotated` writes five frames or row packets at
two PTS, raw and aac, with one PTS at most to wait, which is what `lib.rs` has a
writer need.

`packets` has groups of 3 bits, words of 11, a `v` of at most 4 bytes (12 bits of
room, one too many), a checksum of 8 bits with the polynomial x^8 + x^2 + x + 1
and a framecode table of 16 entries with `N` the fourth of them. Main headers
come from a Muxer and from others, with groups that end before, at and after `N`
and leave out every number of fields; frames' headers from a Muxer and from
others, with every set of flags over framecodes that state all, some or none of
their fields, and values on both sides of each limit. Changed packets have any
byte behind their length replaced by any other, and its neighbour kept or
replaced by one of three; a changed frame's header keeps its flags and where its
fields end, because its checksum cannot vouch for where it stands. `AnyPacket`
and `Anything` are rows of bytes nobody put, among them `v` fields of every
length, too long, and too wide.

`CHECK_DEADLOCK FALSE` is set where the environment of the model may stop: a
caller that has written its bounded number of frames, a stream that has ended.
The push runs check deadlock: a parser with nothing it could do would be one.
They have no constraint and no symmetry.

**What they show.** `push_framing`: ReadsTheWire is the strongest statement, the
others say parts of it that it does not: AsksOnlyWhenShort (no unit that has
arrived is kept waiting, which a refinement that may stutter would allow),
NoMoreAfterFinish and FinishEnds (the loop of `pump` ends), NeverOverfull (the
limit on the buffer never bites for what has piled up), AllocatesWithinCeiling
(bytes a header elides included), BufferHoldsNextBytes and EventsBetweenUnits.
`push_streams`: EventsInOrder, ReorderAsDeclared, TagsReplaced,
SyncpointSetsOneInstant (two clocks are within a tick of each other right after
it), LowBitsLiftToNearest. `reorder`: Sorted, DtsNotAfterPts, TailHoldsLargest,
and, of a stream in decode order, DtsIsPtsInOrder: once the buffer is full the
DTS are the PTS, in order. `mux_layout`: FramesNearSyncpoint, BackPointersLead,
SyncpointsTellTheTime. `mux_pipe`: FramesAsWritten, NothingRefused,
RatesKnownAtFrames. `mux_fails`: FramesNearSyncpoint where a syncpoint or its
frame failed and was tried again; HeadersArrive; EverythingArrives, which is also
that a tear is read as a cut and nothing else is.

`demuxer`: PacketsInOrder (a packet read ahead is neither lost nor doubled, nor is
one by a failure and another try), FramingAgrees (all are stripped or none is,
and the config told is that of the packets), UnderOneHeader (no packet is read by
a header its caller was not told of), OneSetOfHeaders, RowsKept and TrailingKept
(no row is lost, doubled or moved), CallReturns. `annotated`: RowsWithTheirFrame,
OpensOnFlush (the read ahead for aac included, a flushed frame is enough to
open), AllComesBack. `packets`: ReadAsPut, AnswerStands (no prefix of a packet is
taken for a whole one or refused where more bytes would make it right).

**Fairness.** `PushDemuxer!Spec` assumes WF of NextEvent, which says that a call
to `next_event` returns, a loop of a single thread each of whose arms reads or
answers, and WF of CallNextEvent, which is `pump`'s loop (`read.rs` 385-406): it
calls again until there is an event, and its callers until EndOfInput or an
error. Nothing is assumed of when bytes come or whether `finish` is ever said:
FinishEnds starts from there. `Demuxer!Spec` assumes WF of a pump or an arm of
the running method: it blocks in a read that answers sometime, with bytes, the
end or an error, and is otherwise a loop of one thread. Its caller need not
call. `MuxedPipe!Spec` and `AnnotatedPipe!Spec` assume WF of Read, a caller that
goes on to the end, and WF of Drop: a buffered writer that is dropped passes on
what it holds, and a pipe delivers. Nobody has to write, flush or go;
HeadersArrive and OpensOnFlush hold of a muxer that never does anything more.

## 4. What is proved

For every value of the constants that the named assumptions allow (limits are
natural numbers, sizes of pieces are positive, each wire is a map from places to
units, whether well formed or not; of a Demuxer's wires, `InputsAssumption`: units
lie one behind the other behind the identifier, what is said of a media frame's
first bytes is something `adts.rs` could make of bytes, and an annotation packet's
text is lines; of a pipe's openings, `BodiesAssumption`). The third column is the property a run checks
on a small instance; a hypothesis beyond the assumptions is in the last.

| theorem | module | of | if |
|---|---|---|---|
| `TypeCorrect` | PushDemuxerProofs | TypeOK | |
| `NextBytesHeld` | PushDemuxerProofs | BufferHoldsNextBytes | |
| `TakingIsSafe` | PushDemuxerProofs | EventsBetweenUnits | |
| `LimitNeverBites` | PushDemuxerProofs | NeverOverfull | |
| `FinishIsHeard` | PushDemuxerProofs | NoMoreAfterFinish | |
| `AskedOnlyWhenShort` | PushDemuxerProofs | AsksOnlyWhenShort | |
| `AllocationsBounded` | PushDemuxerProofs | AllocatesWithinCeiling | |
| `ReadingRefined` | PushDemuxerProofs | ReadsTheWire | |
| `EventsAlwaysInOrder` | PushDemuxerEvents | EventsInOrder | |
| `ReordersAsDeclared` | PushDemuxerEvents | ReorderAsDeclared | |
| `TagsHeldOnce` | PushDemuxerEvents | TagsReplaced | |
| `LowBitsNearest` | PushDemuxerEvents | LowBitsLiftToNearest | `OverflowChecks` |
| `SyncpointsAgree` | PushDemuxerEvents | SyncpointSetsOneInstant | `OverflowChecks` |
| `ReorderTypeCorrect` | ReorderBufferProofs | TypeOK | |
| `BufferSorted` | ReorderBufferProofs | Sorted | |
| `DtsNeverAfterPts` | ReorderBufferProofs | DtsNotAfterPts | |
| `BufferHoldsLargest` | ReorderBufferProofs | TailHoldsLargest | |
| `DtsArePtsInOrder` | ReorderBufferProofs | DtsIsPtsInOrder | |
| `FramesStayNear` | MuxerProofs | FramesNearSyncpoint | |
| `BackPointersFind` | MuxerProofs | BackPointersLead | `16 <= MaxDistance` |
| `SyncpointsTellTimes` | MuxerProofs | SyncpointsTellTheTime | |
| `WritesAWire` | MuxerProofs | units end to end, none overlapping | |
| `FramesArriveAsWritten` | MuxedPipeProofs | FramesAsWritten | |
| `RatesAreKnown` | MuxedPipeProofs | RatesKnownAtFrames | |
| `NothingIsRefused` | MuxedPipeProofs | NothingRefused | |
| `PacketsComeInOrder` | DemuxerProofs | PacketsInOrder | |
| `FramingAlwaysAgrees` | DemuxerProofs | FramingAgrees | |
| `ReadUnderOneHeader` | DemuxerProofs | UnderOneHeader | |
| `OpenedByOneSet` | DemuxerProofs | OneSetOfHeaders | |
| `RowsAlwaysKept` | DemuxerProofs | RowsKept | |
| `TrailingAlwaysKept` | DemuxerProofs | TrailingKept | |

**The hypotheses.** `OverflowChecks` is the build in which a plain operator that
leaves its width panics; in the other it wraps, and a PTS lifted across the end
of an i64, or a syncpoint of three large values, is another than the nearest
(section 5). A back pointer counts in units of 16 bytes, so what it leads to is a
window of 16, which holds one syncpoint only where syncpoints are as far apart;
the crate's MAX_DISTANCE is 32768. It is a hypothesis of that one theorem and not
an assumption of Muxer, which is faithful for any distance.

**Types and bytes of the parser.** `Inv == TypeOK /\ BufferHoldsNextBytes /\
EventsBetweenUnits` is inductive, and no part is so alone. The bound `fed <=
wire.end` of TypeOK is kept by feeds only, but that `at` stays inside `buf` needs
the sizes the arms guard on. That a payload under way has room for all it wants,
which the parser indexes without looking, is lost if `take_payload` could come
then; it cannot, since it is called on an event and EventsBetweenUnits has no
payload under way at one. Direct fills keep BufferHoldsNextBytes only because
`payload_space` answers when the buffer is empty. The proof has a lemma for each
action (`FeedInv`, `FillInv`, `PayloadPartInv`, ...), joined in `NextInv`; lemmas
about the input (`AdvanceInput`, `FeedInput`, `FillInput`) carry the arithmetic of
the buffer, and one for each operator of NutContext its type (`ReadMainType`,
...). `LimitNeverBites` adds that whatever makes an arm short leaves fewer bytes
buffered than the unit in front holds whole, so that the test in `more` is one
about that unit; `AskedOnlyWhenShort` is about the same arms, and
`AllocationsBounded` adds where each size that is set aside was compared.

**The parser implements the reading of whole units.** `ReadingRefined` uses the
mapping of section 2. Its invariant is `Inv /\ Settled`: while nothing has failed
a call has no error to answer, the identifier is what a stream begins with, and
the log is a sequence. Every action is then a step of NutReading or a stutter:
`InitReads`, and a lemma for each action. What makes it so are two facts. The
bytes a payload lacks are those of the wire behind `pos`, by BufferHoldsNextBytes,
so a part that fills it does not change the frame in hand; and an arm decides on
the unit in front only when all that it looks at has come, so that it decides as
the abstract reader does, which sees the whole unit. The operators that
NutReading brings from NutContext through its instance are the same ones, which
`SameHeaders`, `SamePackets` and `SameFrames` say for the prover.

**The order of events.** EventsInOrder is about the log alone and is not
inductive: what may come next is decided by `ctx` and `pending`. `Tale` ties them
together. Before the first main header there is no stream and no end of headers,
in the context and in the log; after it the streams of `ctx` are as many as the
last main header told of declared, each whose header is known was announced in
the set in force, and EndOfHeaders was announced in that set exactly when
`ctx.done` has been set and nothing is pending. `InForce` names the set at a place
of the log by the main header that declared it, which is one whose count is not
that of the main header before: a header that restates the same streams declares
nothing. Each event appended keeps the tale (`TaleStream`, `TaleMainNew`, `TaleFrame` and
the like), because no event changes what those before it say (`EventAppended`).

**What the context keeps.** `ContextOK` says that rows of tags are one to a key,
that as many clocks as streams are there, and that a known stream's reorder
buffer is sorted and one deeper than its delay. Every operator of NutContext
keeps it, the ones of refused units included, whose effect is half of one
(`SyncedPts`). `HeldTags`, the tags after a row of them, is a recursive function;
what it yields for rows of every length is shown by induction over the naturals
as a set: `LeastOf` (a set of naturals has a least, from the library's theorem
that their order is well founded), `Induction` from it, and `FoldExists` and
`FoldKeeps` for functions that recur on a length.

**Times.** A lift is the value with the same low bits in a window of one span
around the last PTS, so no other such value is nearer (`LiftedNearest`); that two
clocks agree after a syncpoint is that each is the floor of the same product
divided by its own base.

**The reorder buffer.** `Inv == TypeOK /\ Sorted /\ DtsNotAfterPts`. One pass of
swaps in a buffer that is in order puts the new PTS after the run of entries it
reaches, each of which moves one down (`LandPtsAt`); it stays in order
(`LandPtsInOrder`); and what falls out is at most the PTS, since either the PTS
itself is in front or an entry it passed is (`DtsAtMostPts`). That the tail is the
largest of what came is a statement about multisets, which is proved by counting:
`HoldsLargest` says, for every time, that the entries from it on are as many as
the PTS seen from it on, or as the tail has room for. A landing adds to both
counts or to neither. DtsIsPtsInOrder then follows from a count as well: among
frames in decode order the ones that come later can pass over so few that a DTS
given out is at its place in the order of all the PTS.

**The muxer.** `MInv` has four parts. *Opened*: a muxer has streams, each with its
time base among those of the main header, and until there is one only headers are
on the wire. *Laying*: units do not overlap and, where the last is whole, lie end
to end from the identifier on. *WellLaid*: each syncpoint that was written whole
is marked and `last_syncpoint` is the last of them; syncpoints are MaxDistance
apart; none is behind the one remembered, unless it is the one the wire ends in;
every frame has one near. The exception is what a failing writer needs: a
syncpoint that was torn is on the wire and not remembered, and since a torn wire
is never written to again, the next one is not laid too near to it. *Told*: what a
mark's syncpoint says is the field made of its PTS and base. FramesNearSyncpoint
holds where the syncpoint was written and its frame failed, because the frame
tried again is laid at the place the test was made for. `SyncpointsTellTimes`
adds that division and remainder by the number of bases undo the product, for
fields that 64 bits hold. The headers are laid by recursive functions (`LaidAll`,
`TimeBasesOf`), again by induction over how many are laid.

**The pipe.** `PInv == MInv /\ WInv /\ RInv`. The writer's side: `Filed`, each
frame that was written is on the wire where it says, in order, and no other is
there whole; `Spanned`, the stream headers say of each stream how its PTS are
coded. The reader's: `Along`, it is no further than the writer has passed on;
`Spans`, it knows of each stream what the headers say; `Delivered`, what it handed
on is the frames that start before its place, no more and no fewer. A frame read
is whole, hence a written one, hence the first not handed on yet; a PTS is read
back as it was written because the muxer codes every one whole, above the range of
the low bits (`CodedWhole`): no clock of the reader's enters into it, and the span
it takes off is the one the header gave, since `Spans`. That a torn frame is
not handed on is `Filed` with the width the reader waits for.

**What is said, and what is learnt of it.** That a reader refuses nothing, and knows
every frame rate by the first frame, takes two more invariants: `QInv == PInv /\
HInv /\ KInv`. `HInv` is about the wire. Each unit says what the muxer's fields say
(`Said`): the main header is the one at the identifier's end, a stream header's base
index leads to its stream's time base, an info packet's rate is that of a stream
whose header came before. They are in turn (`InTurn`): main header, stream headers,
rates, and then frames and syncpoints. An open muxer has said all of it (`AllSaid`),
and one that failed has said a beginning, which is why the reader cannot count on
more than the order. Where a unit ends the next one starts or the wire ends
(`Joined`), and a syncpoint that is all there is marked. `HeaderUnitsSay` says what
the headers are, one by one, `LaidPlaced` where each of them comes to lie,
`OpenedSays` and `WrittenSays` that `open` and a frame, cut short anywhere, keep it.

`KInv` is about the reader: its place is one where a unit starts; and it has learnt
what is said before that place (`Learnt`). Before the main header it knows nothing;
behind it, the muxer's time bases and the number of streams, so that no second main
header makes it forget; each stream header and rate it has passed it knows, and a
rate that it knows is the stream's. Neither invariant goes without the other: that a
stream header's base index is in range where it is read is `Said` of the wire against
what is learnt of the main header, and that an info packet finds its stream is
`InTurn`. `PacketFits` and `FrameFits` are then that no unit at the reader's place is
refused. Of a syncpoint it is SyncpointsTellTheTime that does it: the time that is
read is the one written, of which `WithinLimits` says that it can be carried to every
time base on the wire, and the reader has no other. Of a frame it is that every header
is behind it (`HeadersBefore`), so that its stream is known whichever it is. That the
headers are no longer than `max_header` allows is part of `WithinLimits` (`FieldsLen`,
for those whose fields are all short). With the crate's own values it always holds:
`max_header` is 2^20 by default (`demux.rs` 74), and `write_packet` makes no body
longer than HEADER_CHECKSUM_THRESHOLD, 4096.

**The blocking reader and what it has read.** `DInv == ReadingOK /\ CallOK /\
FieldsOK /\ OneHeader`. Most of Demuxer's state is its parser's, so `ReadingSteps`
says once for every step of NutReading what it does to it (`Stepped`): which kinds
of event it may tell, that these are of the unit begun last (`TellsLast`), and that
the units whose events were told before are still the ones behind (`SpokenKept`).
That a packet was read by the header its caller was told does not follow from the
fields alone, because the parser has already taken a restated header when the
method has not looked at it: `OneHeader` says that the header in force is the one
told of, *or* the next event to be looked at is a restatement, which ends the
reading, or that it has ended.

**Which unit an event came of.** The code takes an event's payload from the parser,
with nothing to say of which unit it is. `LastSaid` makes that sound: while
events wait, nothing is in hand, the one that comes next is of the last unit begun,
and behind it wait only EndOfHeaders and EndOfInput, which are of none. So a method that
looks at an event puts exactly one unit behind, greater than all those before
(`FramesLookedAt`), while reading on puts none there (`FramesReadOn`). `PacketsStand`
is then kept by appending, whether the packet goes to the caller or is the first one, read
ahead; an error of the source moves neither. `WholeBefore` says that a reader that has failed stays
so, which is why each property speaks of a whole one.

**One framing, one set of headers.** `FramingOK` says what `detect_adts` left behind:
the flag is set only of an aac stream without a config, and then by the first
packet, which waits or was the first handed out, or else the input ended before
there was one (`AtEnd`). That the config's bits give back the first header's object
type, rate and channels is `ConfigSays`, about `AdtsHeaders`, of which the
assumption on inputs makes every packet's a member. OneSetOfHeaders needs `HeadersTold`, about
the log: a stream's header comes behind a main header that declares it, and the
end of headers behind stream 1's. `OpeningOK` then ties the locals of `read_headers`
to the events that were looked at (`HeadersStand`).

**The rows.** The specification finds the unit of an annotation packet's event by
counting, as many before the one as the other; `NotesMatched` says that it exists, and
`MatchedMore` that it stays the same when another pair comes. What the packets
brought is one sequence for each event, made one with FlattenSeq of the community
modules, a recursive function: `FlattenExists` and `FlatMore`, by induction over
the length, say that a part more goes behind. `RowsStand` and `TrailingStand` are
the two properties for every PTS; `read_annotation` extends what waits, a
take moves all of it behind what was taken before, and a record is let in only when no
trailing rows wait, which is what makes replacing them the same as going behind them.

## 5. Where the code and what is said of it differ

* **"never panics on any input"** (`src/demux.rs` 196-198, `README.md` 155-156).
  `decode_pts` lifts low bits with plain `-` and `+` on an i64 (973-977), and
  `read_syncpoint` multiplies three wire values in an i128 (770-771). In a build
  that checks overflow both can leave their width, and `next_event` panics; in
  one that does not they wrap and the PTS is refused or is another one. Run
  `push_panics`.
* **"How far apart syncpoints may be"** (`src/lib.rs` 97). A syncpoint is due
  only once the last is that far back already, looked at before a frame of any
  size: syncpoints are never *less* than MAX_DISTANCE apart and have no upper
  bound. Run `mux_distance`. What does hold is that no frame *starts* further
  than that from a syncpoint before it (FramesNearSyncpoint).

* **What tells trailing rows from a frame's** (`src/lib.rs` 56-59, `src/read.rs`
  357-358) is said to be the record's form and its one key. A frame may have one
  row only, any JSON the caller likes, and where that is an object with that key
  `read_annotation` takes it for the record. Run `annotated_alike`. Two rows or
  more are always told apart (`annotated`).

Smaller ones, seen while modelling and not given a run of their own:

* A muxer of several time bases accepts a PTS whose syncpoint does not fit:
  `pts.wrapping_mul(count)` (`mux.rs` 340) misdates it, and its own demuxer may
  refuse it where the rescaled PTS leaves an i64 (`demux.rs` 772). NothingRefused
  is stated for PTS a syncpoint can say (`WithinLimits`); without that it fails.
* `set_stream_limit` says *narrows*; it replaces, a wider ceiling included.
* Rows of more than MAX_ANNOTATION_BYTES are written (`mux.rs` 215-228) and
  refused at the other end (`read.rs` 76-80).
* A flush that fails in `open` (`mux.rs` 146) gives no muxer and leaves complete
  headers on the wire; a reader opens a stream nobody will write.
* `put_s` takes every i64; `s` refuses what it makes of those of a magnitude of
  2^62 or more, as overflowing 64 bits (`bytes.rs` 192-194).
* A field of an info packet whose type is below -4 or not negative is passed by
  without reading a value (`demux.rs` 1204): what follows it is read as the next
  name.

## 6. Limits of the verification

**Model-checked only.** Liveness (FinishEnds, CallReturns, HeadersArrive,
OpensOnFlush, EverythingArrives, AllComesBack): liveness under fairness is beyond
the prover. Of AnnotatedPipe RowsWithTheirFrame, which needs the Muxer's, the pipe's
and the Demuxer's invariants together: Demuxer's are proved for a wire that is there
from the beginning and stays, and this one grows while it is read, so every lemma
about its steps would have to be stated again for one that does. ReadAsPut and
AnswerStands of Packets: Fields and Packets use Bitwise, whose operators are recursive
and out of the prover's reach, and recursive operators of their own.
The library's induction theorems take an operator as a parameter, which the
installed provers cannot instantiate; where a proof here needs induction it
is over a set of naturals (section 4), and operators that recur are written as
recursive functions in the modules that are proved about.

**Abstracted.** In Packets, KEY and EOR are one flag, for a header is laid out the
same with either. In PushDemuxer, Demuxer and the pipes a unit's fields are given,
not parsed: where a unit would be short inside its header is the two places that
differ, the stream id (`streamAt`) and the PTS (`ptsAt`), after which nothing is
checked until the whole header is there. A framecode's table is folded into the
units that use it; Packets has it in full. Of errors their origin is kept. Of
info packets the frame rate and string tags are, of stream headers what reading
frames needs, and in Demuxer media, tag and config. The muxer's packets have fixed
widths; a frame's header is one width, so that distances are of the right order
and not exact. A row is a number, a JSON text of another form is another number,
and a text is lines that are rows, blank, or records. Checksums are right or
wrong except in Packets, where they are computed, and the checksum over a wide
packet's own header is stepped over as the code does. Startcodes there are two bytes and not eight, and
a body is refused as one whatever field refused it. `read_info` also turns
`r_frame_rate` into numbers; Packets stops at its text.

**Callers.** A caller stops at an error about the stream, because the crate
promises nothing of what comes after one, and may try again after an error of
the source or of the writer underneath, as long as the wire does not end inside
a unit.

**Not modelled.** The text of a frame rate (`read_rate`); the constructors of
`Stream` and its lookups by name; whether a trailing row is JSON, which
`trailing_record` refuses before anything is written (nobody looks whether a
frame's rows are); accessors that change nothing; the tests and the example.

## 7. Plan

1. *Done.* Timestamps, NutContext, PushDemuxer, NutReading, ReorderBuffer, Muxer
   over a writer that fails, MuxedPipe, Demuxer with Adts and Codecs,
   AnnotatedPipe, Fields and Packets, and the proofs above.
2. *Done.* Proofs: PushDemuxer implements NutReading; the order of its events,
   its reorder buffers, its tags and its times; the reorder buffer's DTS; the
   muxer's syncpoints; what comes out of the pipe, that nothing is refused there
   and what is known by the first frame; the Demuxer's packets, their framing, its
   headers and its rows. Every invariant and action property that a run checks is a
   theorem, but for the three of section 6.
3. Left: RowsWithTheirFrame, by stating DemuxerProofs' steps for a wire that grows
   and composing them with MuxerProofs' over the pipe between them.
