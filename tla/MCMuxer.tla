------------------------------ MODULE MCMuxer ------------------------------
(***************************************************************************)
(* A muxer with nobody at the other end: how it lays out what it writes.   *)
(***************************************************************************)
EXTENDS Muxer, MCOpenings
=============================================================================
