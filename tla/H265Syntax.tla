----------------------------- MODULE H265Syntax -----------------------------
(***************************************************************************)
(* What the H.265 standard says of the slice segment header (7.3.6, 7.3.7, *)
(* 7.4.7.1, 8.3.2) and of the byte stream (7.3.1.1), independently of the  *)
(* driver: how an encoder writes a slice under its SPS, and what a decoder *)
(* reads from a slice under the SPS it was given.                          *)
(*                                                                         *)
(* A slice is described by what it means: its header fields, the pictures  *)
(* it keeps as references, and its tail (the rest of the header) and data. *)
(***************************************************************************)
EXTENDS HevcSlice

(* The long-term references in stream order, [poc, used, msb]: msb says    *)
(* that the entry carries its POC cycle.  The first from_sps entries come  *)
(* from the table of the SPS; the cycles of each group accumulate.         *)
Cycle(sl, sps, r) ==
  (sl.poc \div 2^sps.poc_bits) - (r.poc \div 2^sps.poc_bits)

(* The total the decoder has accumulated in front of entry i.              *)
Accumulated(sl, sps, i) ==
  LET first == IF i <= sl.from_sps THEN 1 ELSE sl.from_sps + 1
      told  == {j \in first..(i - 1) : sl.lt[j].msb}
  IN  IF told = {} THEN 0
      ELSE Cycle(sl, sps, sl.lt[CHOOSE j \in told : \A k \in told : k <= j])

LongTermEntry(sl, sps, i) ==
  LET r == sl.lt[i]
  IN  (IF i <= sl.from_sps
         THEN bs_write(i - 1, ceil_log2_u32(sps.num_lt_sps))
         ELSE bs_write(r.poc % 2^sps.poc_bits, sps.poc_bits) \o Flag(r.used))
      \o Flag(r.msb)
      \o (IF r.msb THEN bs_write_ue(Cycle(sl, sps, r) - Accumulated(sl, sps, i))
                   ELSE <<>>)

LongTermBits(sl, sps) ==
  (IF sps.num_lt_sps > 0 THEN bs_write_ue(sl.from_sps) ELSE <<>>)
    \o bs_write_ue(Len(sl.lt) - sl.from_sps)
    \o FlattenSeq([i \in DOMAIN sl.lt |-> LongTermEntry(sl, sps, i)])

(* An explicit st_ref_pic_set() with the given deltas, nearest first.      *)
ShortTermBits(sl, sps) ==
  (IF sps.num_st_sets > 0 THEN <<0>> ELSE <<>>)
    \o bs_write_ue(Len(sl.before)) \o bs_write_ue(Len(sl.after))
    \o DeltaList(sl.before) \o DeltaList(sl.after)

(* slice_segment_header() up to short_term_ref_pic_set_sps_flag.           *)
Fields(sl, sps) ==
  Flag(sl.first)
    \o (IF sl.type \in 16..23 THEN <<0>> ELSE <<>>)
    \o bs_write_ue(sl.pps_id)
    \o (IF sl.first THEN <<>>
        ELSE (IF sps.dependent_enabled THEN Flag(sl.dependent) ELSE <<>>)
             \o bs_write(sl.address, ceil_log2_u32(sps.pic_ctbs)))
    \o (IF sl.dependent THEN <<>>
        ELSE [i \in 1..sps.num_extra_bits |-> 1]
             \o bs_write_ue(sl.slice_type)
             \o (IF sps.output_flag_present THEN <<1>> ELSE <<>>)
             \o (IF sl.type \in {19, 20} THEN <<>>
                 ELSE bs_write(sl.poc % 2^sps.poc_bits, sps.poc_bits)))

SetBits(sl, sps) ==
  IF sl.dependent \/ sl.type \in {19, 20} THEN <<>>
  ELSE (IF sl.st_in_sps
          THEN <<1>> \o bs_write(sps.num_st_sets - 1,
                                 ceil_log2_u32(sps.num_st_sets))
          ELSE <<0>> \o ShortTermBits(sl, sps))
       \o (IF sps.long_term_present THEN LongTermBits(sl, sps) ELSE <<>>)

SliceHeader(sl, sps) ==
  bs_rbsp_trailing(Fields(sl, sps) \o SetBits(sl, sps) \o sl.tail)

(* 7.3.1.1: the payload never holds 00 00 00, 00 00 01 or 00 00 02, and a  *)
(* decoder drops each 03 behind two zeros.                                 *)
ByteStreamSafe(bytes) ==
  \A i \in 1..(Len(bytes) - 2) :
    ~(bytes[i] = 0 /\ bytes[i + 1] = 0 /\ bytes[i + 2] <= 2)

Unescaped(bytes) ==
  LET Prevents(i) == i > 2 /\ bytes[i] = 3 /\ bytes[i - 1] = 0
                           /\ bytes[i - 2] = 0
      kept[n \in 0..Len(bytes)] ==
        IF n = 0 THEN <<>>
        ELSE IF Prevents(n) THEN kept[n - 1] ELSE Append(kept[n - 1], bytes[n])
  IN  kept[Len(bytes)]

(* The NAL unit, with the start code the application's buffer may have.    *)
Slice(sl, sps, start_code) ==
  start_code \o <<2 * sl.type, 1>>
    \o emulation_prevent(BytesOf(SliceHeader(sl, sps)) \o sl.data)

-----------------------------------------------------------------------------
(***************************************************************************)
(* A decoder given an SPS without reference picture set tables.            *)
(***************************************************************************)
(* The elements of the sets, with places for the lists.  The slices this   *)
(* decoder is given keep at most ListBound references of each kind, and    *)
(* it refuses longer lists (the standard's bound is 15).                   *)
ListBound == 3

One(name) == <<name, 0>>

Places(names) ==
  FlattenSeq([i \in 1..ListBound |-> [k \in DOMAIN names |-> <<names[k], i>>]])

DecodedElements ==
  <<One("short_term_ref_pic_set_sps_flag"), One("num_negative_pics"),
    One("num_positive_pics")>>
  \o Places(<<"delta_poc_s0_minus1", "used_by_curr_pic_s0_flag">>)
  \o Places(<<"delta_poc_s1_minus1", "used_by_curr_pic_s1_flag">>)
  \o <<One("num_long_term_pics")>>
  \o Places(<<"poc_lsb_lt", "used_by_curr_pic_lt_flag",
              "delta_poc_msb_present_flag", "delta_poc_msb_cycle_lt">>)

DecodedCoding(e, v, sps) ==
  LET In(count) == e[2] <= v[One(count)]
  IN  CASE e[1] = "short_term_ref_pic_set_sps_flag" -> Fixed(1)
        [] e[1] \in {"num_negative_pics", "num_positive_pics"} -> ExpGolomb
        [] e[1] = "delta_poc_s0_minus1" ->
             If(In("num_negative_pics"), ExpGolomb)
        [] e[1] = "delta_poc_s1_minus1" ->
             If(In("num_positive_pics"), ExpGolomb)
        [] e[1] = "used_by_curr_pic_s0_flag" ->
             If(In("num_negative_pics"), Fixed(1))
        [] e[1] = "used_by_curr_pic_s1_flag" ->
             If(In("num_positive_pics"), Fixed(1))
        [] e[1] = "num_long_term_pics" -> If(sps.long_term_present, ExpGolomb)
        [] e[1] = "poc_lsb_lt" ->
             If(In("num_long_term_pics"), Fixed(sps.poc_bits))
        [] e[1] \in {"used_by_curr_pic_lt_flag",
                     "delta_poc_msb_present_flag"} ->
             If(In("num_long_term_pics"), Fixed(1))
        [] e[1] = "delta_poc_msb_cycle_lt" ->
             If(/\ In("num_long_term_pics")
                /\ v[<<"delta_poc_msb_present_flag", e[2]>>] = 1, ExpGolomb)

DecodedAccepts(e, v) == e[2] = 0 => v[e] <= ListBound

(* The first n values of a list, added up.                                 *)
Total(v, name, n) ==
  FoldLeft(LAMBDA a, i : a + v[<<name, i>>], 0, [i \in 1..n |-> i])

ShortTermList(v, sl, sign, count, delta, used) ==
  [i \in 1..v[One(count)] |->
     [poc  |-> sl.poc + sign * (Total(v, delta, i) + i),
      used |-> v[<<used, i>>] = 1]]

LongTermList(v, sl, sps) ==
  [i \in 1..v[One("num_long_term_pics")] |->
     LET lsb == v[<<"poc_lsb_lt", i>>]
         msb == v[<<"delta_poc_msb_present_flag", i>>] = 1
     IN  [msb  |-> msb,
          used |-> v[<<"used_by_curr_pic_lt_flag", i>>] = 1,
          poc  |-> IF ~msb THEN lsb
                   ELSE sl.poc - (sl.poc % 2^sps.poc_bits) + lsb
                        - Total(v, "delta_poc_msb_cycle_lt", i)
                            * 2^sps.poc_bits]]

(* What the rewritten slice says, read from behind the NAL header.         *)
DecodedSlice(bits, sl, sps) ==
  LET fields == Len(Fields(sl, sps))
      Coding(e, v) == DecodedCoding(e, v, sps)
      br     == read_elements([Reader(bits) EXCEPT !.bit = fields],
                              DecodedElements, Coding, DecodedAccepts)
      end    == br.bit + Len(sl.tail)
  IN  IF ~br.ok \/ end > Len(bits) THEN [ok |-> FALSE] ELSE
      [ok     |-> br.v[One("short_term_ref_pic_set_sps_flag")] = 0,
       fields |-> SubSeq(bits, 1, fields),
       before |-> ShortTermList(br.v, sl, -1, "num_negative_pics",
                                "delta_poc_s0_minus1",
                                "used_by_curr_pic_s0_flag"),
       after  |-> ShortTermList(br.v, sl, 1, "num_positive_pics",
                                "delta_poc_s1_minus1",
                                "used_by_curr_pic_s1_flag"),
       lt     |-> LongTermList(br.v, sl, sps),
       tail   |-> SubSeq(bits, br.bit + 1, end),
       rest   |-> SubSeq(bits, end + 1, Len(bits))]
=============================================================================
