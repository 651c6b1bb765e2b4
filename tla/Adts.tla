-------------------------------- MODULE Adts --------------------------------
(***************************************************************************)
(* src/adts.rs: the header an AAC packet off ADTS carries on itself.  What *)
(* a packet's first bytes say is a record:                                 *)
(*                                                                         *)
(*   sync      it starts with the syncword                                 *)
(*   crc       protection_absent is clear: two more bytes of header        *)
(*   profile, rate, channels   2, 4 and 3 bits                             *)
(*   length    frame_length                                                *)
(*   blocks    number_of_raw_data_blocks_in_frame                          *)
(*                                                                         *)
(* How long the packet really is, its carrier says.                        *)
(***************************************************************************)
EXTENDS Integers, Sequences

AdtsHeaders ==
  [sync: BOOLEAN, crc: BOOLEAN, profile: 0 .. 3, rate: 0 .. 15, channels: 0 .. 7,
   length: Nat, blocks: 0 .. 3]

HeaderLen(h) == IF h.crc THEN 9 ELSE 7

Parses(h, size) == h.sync /\ size >= HeaderLen(h)

(* strip refuses what would have to be split.                              *)
Strips(h, size) == Parses(h, size) /\ h.blocks = 0 /\ h.length = size

(* A mutation: the low bit of the rate is dropped.                         *)
AudioSpecificConfigLowBit(h) ==
  <<(h.profile + 1) * 8 + h.rate \div 2, h.channels * 8>>

(* Five bits of object type, four of rate, four of channels, three clear.  *)
AudioSpecificConfig(h) ==
  <<(h.profile + 1) * 8 + h.rate \div 2, (h.rate % 2) * 128 + h.channels * 8>>

(* What a decoder reads of one.                                            *)
ConfigObject(c)   == c[1] \div 8
ConfigRate(c)     == (c[1] % 8) * 2 + c[2] \div 128
ConfigChannels(c) == (c[2] % 128) \div 8
=============================================================================
