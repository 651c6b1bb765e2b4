---------------------------- MODULE MCMuxedPipe ----------------------------
(***************************************************************************)
(* A muxer and a demuxer of its wire.                                      *)
(***************************************************************************)
EXTENDS MuxedPipe, MCOpenings
=============================================================================
