-------------------------- MODULE MCAnnotatedPipe --------------------------
(***************************************************************************)
(* What goes through an annotated pipe, for model checking.                *)
(***************************************************************************)
EXTENDS AnnotatedPipe

Opened(raw) ==
  [streams |-> <<[base |-> <<1, 2>>, span |-> 4, delay |-> 0, rate |-> 3, raw |-> raw,
                  header |-> 2]>>,
   annotated |-> TRUE]

Bare(size) ==
  [sync |-> FALSE, crc |-> FALSE, profile |-> 1, rate |-> 3, channels |-> 2,
   length |-> size, blocks |-> 0]

Picture ==
  [opening |-> Opened(TRUE), header |-> [media |-> "video", tag |-> "RGBA", config |-> <<>>],
   size |-> 4, frame |-> Bare(4)]

Sound ==
  [opening |-> Opened(FALSE), header |-> [media |-> "audio", tag |-> "mp4a", config |-> <<>>],
   size |-> 8, frame |-> [Bare(8) EXCEPT !.sync = TRUE]]

MCSources == {Picture, Sound}

(* Two rows, an empty one, and a record among other rows.                  *)
MCRowsFor(pts) ==
  {<<D!Row(pts), D!Row(pts + 10)>>, <<D!Blank>>, <<D!Row(pts), D!Record(<<pts>>)>>}

(* Also a single row of the record's form.                                 *)
MCAnyRowsFor(pts) == MCRowsFor(pts) \cup {<<D!Record(<<pts>>)>>}

MCTrailings == {<<22, 23>>}
=============================================================================
