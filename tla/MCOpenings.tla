----------------------------- MODULE MCOpenings ------------------------------
(***************************************************************************)
(* What a muxer is opened with, for model checking: one stream; several in *)
(* one or in two time bases, raw and coded; annotated; and those refused:  *)
(* no stream, a shift too wide, a header too wide behind one that is not.  *)
(***************************************************************************)
EXTENDS Integers

Raw(base, span, rate) ==
  [base |-> base, span |-> span, delay |-> 0, rate |-> rate, raw |-> TRUE, header |-> 2]

Coded(base, span, rate) == [Raw(base, span, rate) EXCEPT !.raw = FALSE, !.delay = 1]

Plain(streams_)     == [streams |-> streams_, annotated |-> FALSE]
Annotated(streams_) == [streams |-> streams_, annotated |-> TRUE]

Picture == Raw(<<1, 2>>, 4, 3)
Sound   == Coded(<<1, 6>>, 8, 0)
Beside  == Coded(<<1, 2>>, 2, 2)
Clicks  == Raw(<<3, 1>>, 4, 0)

MCOpenings ==
  {Plain(<<Sound>>), Annotated(<<Picture>>), Plain(<<Picture, Sound>>),
   Plain(<<>>), Plain(<<Raw(<<1, 1>>, 16, 0)>>),
   Plain(<<Picture, [Sound EXCEPT !.header = 3]>>)}

MCManyOpenings ==
  MCOpenings \cup {Annotated(<<Beside, Sound>>), Plain(<<Sound, Beside, Clicks>>)}

(* Openings over a writer that fails.                                      *)
MCFailingOpenings ==
  {Annotated(<<Picture>>), Plain(<<Picture, [Sound EXCEPT !.header = 3]>>)}

MCFailingStamps == {5}

(* A PTS that a syncpoint can say in every time base here, one that is too *)
(* late for some, and the latest there is.                                 *)
MCStamps == {5, 7, 15}

(* One before zero, one that is fine, and one that times three time bases  *)
(* leaves no room in 64 bits for the last one's index.                     *)
MCManyStamps == {-1, 3, 10}
=============================================================================
