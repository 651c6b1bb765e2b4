------------------------------- MODULE Fields -------------------------------
(***************************************************************************)
(* The fields packets are made of (src/bytes.rs): how each is put as bytes *)
(* and how a cursor reads it back out of those that are here.  Everything  *)
(* has its width as a parameter, so that its edges can be reached.         *)
(***************************************************************************)
EXTENDS Bitwise, SequencesExt

CONSTANTS
  GroupBits,     (* Bits of a value in each byte of a v: 7.                *)
  WordBits,      (* Bits of an unsigned integer: 64.                       *)
  MaxVBytes,     (* MAX_V_BYTES                                            *)
  MaxVb,         (* MAX_VB_LEN                                             *)
  CrcBytes,      (* Bytes of a checksum: 4.                                *)
  Polynomial     (* CRC_POLY                                               *)

ASSUME WidthAssumption ==
  /\ {GroupBits, MaxVBytes, CrcBytes} \subseteq Nat \ {0}
  /\ GroupBits * (MaxVBytes - 1) < WordBits /\ WordBits <= GroupBits * MaxVBytes

Group   == 2 ^ GroupBits
Bytes   == 0 .. 2 * Group - 1
MaxWord == 2 ^ WordBits - 1

Smallest(numbers) == CHOOSE n \in numbers : \A m \in numbers : n <= m

-----------------------------------------------------------------------------
(* Putting. Every byte of a v but the last has its high bit set.           *)

Leading[value \in 0 .. MaxWord] ==
  IF value = 0 THEN <<>> ELSE Append(Leading[value \div Group], Group + (value % Group))

PutV(value) == Append(Leading[value \div Group], value % Group)

Abs(value) == IF value < 0 THEN -value ELSE value

PutS(value) == PutV(Smallest({2 * Abs(value), MaxWord}) - (IF value > 0 THEN 1 ELSE 0))

PutVb(bytes) == PutV(Len(bytes)) \o bytes

-----------------------------------------------------------------------------
(* A cursor's answer: a value and where it is now, that more is needed, or *)
(* that what is here is wrong.                                             *)

Ok(value, at) == [is |-> "ok", value |-> value, at |-> at]
Need          == [is |-> "need"]
Bad           == [is |-> "bad"]

Then(answer, Go(_, _)) == IF answer.is = "ok" THEN Go(answer.value, answer.at) ELSE answer

Take(bytes, at, count) ==
  IF at + count <= Len(bytes) THEN Ok(SubSeq(bytes, at + 1, at + count), at + count) ELSE Need

(* A mutation: a v ends with the bytes, and one too wide loses its top.    *)
ReadVCut(bytes, at) ==
  LET got == Smallest({Len(bytes) - at, MaxVBytes})
      value[k \in 0 .. MaxVBytes] ==
        IF k = 0 THEN 0 ELSE value[k - 1] * Group + (bytes[at + k] % Group)
      last == {k \in 1 .. got : bytes[at + k] < Group \/ k = got}
  IN  IF last = {} THEN Need ELSE Ok(value[Smallest(last)] % (MaxWord + 1), at + Smallest(last))

(* The first byte that ends it, or that there is no room for.              *)
ReadV(bytes, at) ==
  LET got == Smallest({Len(bytes) - at, MaxVBytes})
      value[k \in 0 .. MaxVBytes] ==
        IF k = 0 THEN 0 ELSE value[k - 1] * Group + (bytes[at + k] % Group)
      over(k) == value[k - 1] > MaxWord \div Group
      stops   == {k \in 1 .. got : over(k) \/ bytes[at + k] < Group}
  IN  IF stops = {} THEN (IF got = MaxVBytes THEN Bad ELSE Need)
      ELSE IF over(Smallest(stops)) THEN Bad
      ELSE Ok(value[Smallest(stops)], at + Smallest(stops))

ReadS(bytes, at) ==
  Then(ReadV(bytes, at), LAMBDA raw, to :
    IF raw >= MaxWord \div 2 THEN Bad
    ELSE Ok(IF raw % 2 = 0 THEN -((raw + 1) \div 2) ELSE (raw + 1) \div 2, to))

ReadVb(bytes, at) ==
  Then(ReadV(bytes, at), LAMBDA len, to : IF len > MaxVb THEN Bad ELSE Take(bytes, to, len))

(* So many fields of one kind after the other; Read is told which it is.   *)
Each(bytes, at, count, Read(_, _, _)) ==
  LET read[i \in 0 .. count] ==
        IF i = 0 THEN Ok(<<>>, at)
        ELSE Then(read[i - 1], LAMBDA values, to :
               Then(Read(bytes, to, i), LAMBDA value, end : Ok(Append(values, value), end)))
  IN  read[count]

-----------------------------------------------------------------------------
(* crc32: most significant bit first, from zero and not inverted.          *)

ByteBits == GroupBits + 1
CrcBits  == ByteBits * CrcBytes

CrcTable ==
  [b \in Bytes |->
     LET c[bit \in 0 .. ByteBits] ==
           IF bit = 0 THEN b * 2 ^ (CrcBits - ByteBits)
           ELSE IF c[bit - 1] >= 2 ^ (CrcBits - 1)
                  THEN ((2 * c[bit - 1]) % 2 ^ CrcBits) ^^ Polynomial
                  ELSE 2 * c[bit - 1]
     IN  c[ByteBits]]

Crc(bytes) ==
  FoldLeft(LAMBDA c, b :
             ((c * 2 ^ ByteBits) % 2 ^ CrcBits)
               ^^ CrcTable[(c \div 2 ^ (CrcBits - ByteBits)) ^^ b],
           0, bytes)

(* put_u32: the most significant byte first.                               *)
PutWhole(value) ==
  [i \in 1 .. CrcBytes |-> (value \div 2 ^ (ByteBits * (CrcBytes - i))) % 2 ^ ByteBits]
=============================================================================
