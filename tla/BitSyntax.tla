----------------------------- MODULE BitSyntax -----------------------------
(***************************************************************************)
(* The bit writer of bs.h, the bit reader of hevc.c and vp9.c, and the     *)
(* emulation prevention of the NAL writers (hevc.c, h264.c).               *)
(*                                                                         *)
(* A bit string is a sequence over {0, 1}, a payload a sequence of bytes.  *)
(***************************************************************************)
EXTENDS Integers, Sequences, SequencesExt, TLC

CONSTANT WordBits     \* width of uint32_t: 32 in the code

ASSUME WordAssumption == WordBits \in Nat \ {0}

-----------------------------------------------------------------------------
(***************************************************************************)
(* bs.h: a writer is the bit string written so far, and an element is the  *)
(* string bs_write*() appends.                                             *)
(***************************************************************************)
bs_write(val, n) == [i \in 1..n |-> (val \div 2^(n - i)) % 2]

(* The number of times a positive number can be halved down to one.        *)
Halvings(v) == CHOOSE n \in 0..WordBits : 2^n <= v /\ v < 2^(n + 1)

bs_write_ue(val) ==
  LET v    == (val + 1) % 2^WordBits
      bits == IF v = 0 THEN 0 ELSE Halvings(v)
  IN  bs_write(0, bits) \o bs_write(v, bits + 1)

bs_write_se(val) == bs_write_ue(IF val <= 0 THEN 2 * (-val) ELSE 2 * val - 1)

(* The zeros that bring a string of n bits to the next byte boundary.      *)
Padding(n) == [i \in 1..((8 - (n % 8)) % 8) |-> 0]

bs_rbsp_trailing(bits) == bits \o <<1>> \o Padding(Len(bits) + 1)

BitsOf(bytes) == FlattenSeq([i \in DOMAIN bytes |-> bs_write(bytes[i], 8)])

ValueOf(bits) ==
  LET value[n \in 0..Len(bits)] ==
        IF n = 0 THEN 0 ELSE 2 * value[n - 1] + bits[n]
  IN  value[Len(bits)]

BytesOf(bits) ==
  [i \in 1..(Len(bits) \div 8) |-> ValueOf(SubSeq(bits, 8 * i - 7, 8 * i))]

-----------------------------------------------------------------------------
(***************************************************************************)
(* The readers.  A reader is [bits, bit, ok, value, v, at]: the string, how *)
(* many bits were read, whether every read so far succeeded, the last      *)
(* value, and for each syntax element its value and the position behind it. *)
(* A failed reader stays failed, as the C functions return at the first    *)
(* read that fails.                                                        *)
(***************************************************************************)
Reader(bits) == [bits |-> bits, bit |-> 0, ok |-> TRUE, value |-> 0,
                 v |-> <<>>, at |-> <<>>]

Failed(br) == [br EXCEPT !.ok = FALSE]

Left(br) == Len(br.bits) - br.bit

br_skip_bits(br, count) ==
  IF count <= Left(br) THEN [br EXCEPT !.bit = @ + count, !.value = 0]
                       ELSE Failed(br)

br_read_bits(br, count) ==
  IF count <= Left(br)
    THEN [br EXCEPT !.bit = @ + count,
                    !.value = ValueOf(SubSeq(br.bits, br.bit + 1,
                                             br.bit + count))]
    ELSE Failed(br)

(* The zeros in front of the first one, or the rest of the string.         *)
LeadingZeros(br) ==
  CHOOSE n \in 0..Left(br) :
    /\ \A i \in 1..n : br.bits[br.bit + i] = 0
    /\ n < Left(br) => br.bits[br.bit + n + 1] = 1

(* The longest prefix has its own base value, UINT32_MAX.                  *)
br_read_ue(br) ==
  LET zeros == LeadingZeros(br)
      base  == IF zeros = WordBits - 1 THEN 2^WordBits - 1 ELSE 2^zeros - 1
      rest  == SubSeq(br.bits, br.bit + zeros + 2, br.bit + 2 * zeros + 1)
  IN  IF zeros > WordBits - 1 \/ 2 * zeros + 1 > Left(br) THEN Failed(br)
      ELSE [br EXCEPT !.bit = @ + 2 * zeros + 1,
                      !.value = (base + ValueOf(rest)) % 2^WordBits]

(* How an element is coded: a number of bits whose value matters or does   *)
(* not, or Exp-Golomb.                                                     *)
Fixed(n)   == [code |-> "u", n |-> n]
Skipped(n) == [code |-> "skip", n |-> n]
ExpGolomb  == [code |-> "ue", n |-> 0]

If(condition, coding) == IF condition THEN coding ELSE Skipped(0)

br_read(br, coding) ==
  CASE coding.code = "u"    -> br_read_bits(br, coding.n)
    [] coding.code = "skip" -> br_skip_bits(br, coding.n)
    [] coding.code = "ue"   -> br_read_ue(br)

Put(f, e, x) == [n \in DOMAIN f \cup {e} |-> IF n = e THEN x ELSE f[n]]

Recorded(br, e) == [br EXCEPT !.v = Put(@, e, br.value),
                              !.at = Put(@, e, br.bit)]

Checked(br, accepted) == IF br.ok /\ ~accepted THEN Failed(br) ELSE br

(* Elements are read one after the other: how the next one is coded, and   *)
(* whether its value is accepted, depends on the values before it.         *)
read_elements(start, elements, Coding(_, _), Accepts(_, _)) ==
  LET Element(br, e) ==
        LET read == Recorded(br_read(br, Coding(e, br.v)), e)
        IN  IF br.ok THEN Checked(read, Accepts(e, read.v)) ELSE br
      after[i \in 0..Len(elements)] ==
        IF i = 0 THEN start ELSE Element(after[i - 1], elements[i])
  IN  after[Len(elements)]

Anything(e, v) == TRUE

(* Bits needed to tell value alternatives apart.                           *)
ceil_log2_u32(value) == IF value <= 1 THEN 0 ELSE Halvings(value - 1) + 1

-----------------------------------------------------------------------------
(***************************************************************************)
(* Emulation prevention.                                                   *)
(***************************************************************************)
ZerosAfter(zeros, byte) == IF byte = 0 THEN zeros + 1 ELSE 0

(* Slip: the count of zeros goes on behind the inserted byte.              *)
escape_running(a, byte) ==
  [out   |-> a.out \o (IF a.zeros = 2 /\ byte <= 3 THEN <<3>> ELSE <<>>)
                   \o <<byte>>,
   zeros |-> ZerosAfter(a.zeros, byte)]

(* One turn of the loop, which keeps the bytes written and the number of   *)
(* zeros they end in.                                                      *)
escape(a, byte) ==
  LET escaped == a.zeros >= 2 /\ byte <= 3
  IN  [out   |-> a.out \o (IF escaped THEN <<3>> ELSE <<>>) \o <<byte>>,
       zeros |-> ZerosAfter(IF escaped THEN 0 ELSE a.zeros, byte)]

NoBytes == [out |-> <<>>, zeros |-> 0]

emulation_prevent(src) ==
  LET after[n \in 0..Len(src)] ==
        IF n = 0 THEN NoBytes ELSE escape(after[n - 1], src[n])
  IN  after[Len(src)].out

(* An escape byte counts only in front of a byte that needed one.          *)
unescape(a, src, n, dst_size) ==
  IF Len(a.out) = dst_size THEN a
  ELSE IF /\ a.zeros >= 2 /\ src[n] = 3
          /\ n < Len(src) /\ src[n + 1] <= 3
    THEN [a EXCEPT !.zeros = 0]
    ELSE [out |-> Append(a.out, src[n]), zeros |-> ZerosAfter(a.zeros, src[n])]

unescape_prefix(src, dst_size) ==
  LET after[n \in 0..Len(src)] ==
        IF n = 0 THEN NoBytes ELSE unescape(after[n - 1], src, n, dst_size)
  IN  after[Len(src)].out
=============================================================================
