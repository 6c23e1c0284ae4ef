----------------------------- MODULE HevcSlice -----------------------------
(***************************************************************************)
(* The HEVC slice rewriter of hevc.c.  VA-API does not expose the stream's *)
(* SPS reference picture set tables, so the driver writes an SPS without   *)
(* tables and turns the reference picture sets of every slice header into  *)
(* explicit ones, leaving every other bit of the slice alone.              *)
(*                                                                         *)
(* pp is the part of VAPictureParameterBufferHEVC the rewriter reads:      *)
(* CurrPic and its picture order count, the ReferenceFrames array, the     *)
(* picture's size, the field widths and flags of the slice header, and     *)
(* pic_ctbs, the number of coding tree blocks that the C code recomputes   *)
(* from the size.                                                          *)
(***************************************************************************)
EXTENDS BitSyntax

HEVC_MAX_RPS_REFS == 15

(* UINT16_MAX, at the scale of WordBits.                                   *)
MaxPocDelta == 2^(WordBits \div 2) - 1

min_cb_log2(pp) == pp.log2_min_luma_coding_block_size_minus3 + 3
ctb_log2(pp)    == min_cb_log2(pp)
                     + pp.log2_diff_max_min_luma_coding_block_size

(* A picture with a surface that is not marked invalid.                    *)
valid_picture(picture) == picture.valid

(* The bounds every entry point checks before it shifts or loops on one of *)
(* these fields.                                                           *)
validate_slice_syntax_bounds(pp) ==
  /\ valid_picture(pp.CurrPic)
  /\ pp.pic_width_in_luma_samples > 0 /\ pp.pic_height_in_luma_samples > 0
  /\ pp.log2_min_luma_coding_block_size_minus3 <= 3
  /\ pp.log2_diff_max_min_luma_coding_block_size <= 3
  /\ ctb_log2(pp) <= 6
  /\ pp.poc_bits \in 4..16
  /\ pp.num_st_sets <= 64
  /\ pp.num_lt_sps <= 32
  /\ pp.num_extra_bits <= 7

(* The result of a function that returned -1.                              *)
Refused == <<>>

-----------------------------------------------------------------------------
(***************************************************************************)
(* collect_rps: the application's references, sorted into the three lists. *)
(* A reference is [poc, valid, long, rps]; rps holds its RPS_* flags.      *)
(***************************************************************************)
is_long_term(r) == r.long \/ r.rps = {"lt"}

(* sort_entries.                                                           *)
ByDelta(entries) == SortSeq(entries, LAMBDA a, b : a.delta < b.delta)

ShortTerm(pp, refs, sign) ==
  LET Delta(r) == sign * (r.poc - pp.poc)
      mine     == SelectSeq(refs, LAMBDA r : ~is_long_term(r) /\ Delta(r) > 0)
  IN  ByDelta([i \in DOMAIN mine |->
                 [delta |-> Delta(mine[i]), used |-> mine[i].rps # {}]])

collect_rps(pp) ==
  LET refs == SelectSeq(pp.ReferenceFrames, valid_picture)
      lt   == SelectSeq(refs, is_long_term)
  IN  [ok        |-> /\ Len(refs) <= HEVC_MAX_RPS_REFS
                     /\ \A r \in ToSet(refs) :
                          /\ Cardinality(r.rps) <= 1
                          /\ ~is_long_term(r) =>
                               /\ r.poc # pp.poc
                               /\ r.poc - pp.poc \in -MaxPocDelta..MaxPocDelta,
       negative  |-> ShortTerm(pp, refs, -1),
       positive  |-> ShortTerm(pp, refs, 1),
       long_term |-> [i \in DOMAIN lt |-> [poc  |-> lt[i].poc,
                                           used |-> lt[i].rps = {"lt"}]]]

-----------------------------------------------------------------------------
(***************************************************************************)
(* The new reference picture sets.                                         *)
(***************************************************************************)
Flag(b) == bs_write(IF b THEN 1 ELSE 0, 1)

DeltaList(entries) ==
  FlattenSeq([i \in DOMAIN entries |->
    bs_write_ue(entries[i].delta - 1
                - (IF i = 1 THEN 0 ELSE entries[i - 1].delta))
      \o Flag(entries[i].used)])

(* The set the slice carries has index 0 in an SPS without sets.           *)
write_short_term_rps(rps) ==
  bs_write_ue(Len(rps.negative)) \o bs_write_ue(Len(rps.positive))
    \o DeltaList(rps.negative) \o DeltaList(rps.positive)

(* Division of C: towards zero.                                            *)
Quotient(a, b) == IF a < 0 THEN -((-a) \div b) ELSE a \div b

(* DeltaPocMsbCycleLt of each long-term entry, as an absolute count.       *)
MsbCycles(lt, pp, poc_lsb) ==
  LET max == 2^pp.poc_bits
  IN  [i \in DOMAIN lt |->
         Quotient((lt[i].poc % max) + pp.poc - poc_lsb - lt[i].poc, max)]

write_long_term_rps(rps, pp, poc_lsb) ==
  LET lt      == rps.long_term
      cycles  == MsbCycles(lt, pp, poc_lsb)
      Back(i) == IF i = 1 THEN 0 ELSE cycles[i - 1]
  IN  IF ~pp.long_term_present THEN [ok |-> TRUE, bits |-> <<>>]
      ELSE IF \E i \in DOMAIN lt : cycles[i] < 0 \/ cycles[i] < Back(i)
        THEN [ok |-> FALSE, bits |-> <<>>]
        ELSE [ok   |-> TRUE,
              bits |-> bs_write_ue(Len(lt)) \o FlattenSeq(
                [i \in DOMAIN lt |->
                   bs_write(lt[i].poc % 2^pp.poc_bits, pp.poc_bits)
                     \o Flag(lt[i].used) \o <<1>>
                     \o bs_write_ue(cycles[i] - Back(i))])]

-----------------------------------------------------------------------------
(***************************************************************************)
(* The old reference picture sets: where they end, and whether the         *)
(* long-term entries can be kept as they are.                              *)
(***************************************************************************)
SetElements == <<"short_term_ref_pic_set_sps_flag", "st_ref_pic_set",
                 "num_long_term_sps", "num_long_term_pics">>

SetCoding(e, v, pp) ==
  CASE e = "short_term_ref_pic_set_sps_flag" -> Fixed(1)
    [] e = "st_ref_pic_set" ->
         Skipped(IF v.short_term_ref_pic_set_sps_flag = 0 THEN pp.st_rps_bits
                 ELSE ceil_log2_u32(pp.num_st_sets))
    [] e = "num_long_term_sps" ->
         If(pp.long_term_present /\ pp.num_lt_sps > 0, ExpGolomb)
    [] e = "num_long_term_pics" -> If(pp.long_term_present, ExpGolomb)

(* A sum of two words.                                                     *)
Entries(v) == (v.num_long_term_sps + v.num_long_term_pics) % 2^WordBits

SetAccepts(e, v, pp) ==
  CASE e = "short_term_ref_pic_set_sps_flag" -> v[e] = 1 => pp.num_st_sets > 0
    [] e = "num_long_term_pics" -> /\ v.num_long_term_sps <= pp.num_lt_sps
                                   /\ Entries(v) <= HEVC_MAX_RPS_REFS
    [] OTHER -> TRUE

(* Long-term entry i of the loop, in three parts.                          *)
EntryElements(n) ==
  FlattenSeq([i \in 1..n |-> <<<<"lt_idx_sps or poc_lsb_lt", i>>,
                               <<"delta_poc_msb_present_flag", i>>,
                               <<"delta_poc_msb_cycle_lt", i>>>>])

EntryCoding(e, v, pp, from_sps) ==
  CASE e[1] = "lt_idx_sps or poc_lsb_lt" ->
         Skipped(IF e[2] <= from_sps THEN ceil_log2_u32(pp.num_lt_sps)
                                     ELSE pp.poc_bits + 1)
    [] e[1] = "delta_poc_msb_present_flag" -> Fixed(1)
    [] e[1] = "delta_poc_msb_cycle_lt" ->
         If(v[<<"delta_poc_msb_present_flag", e[2]>>] = 1, ExpGolomb)

(* The reader behind the two sets.                                         *)
skip_original_rps(br, pp) ==
  LET Sets(e, v)    == SetCoding(e, v, pp)
      Accepts(e, v) == SetAccepts(e, v, pp)
      Entry(sets)   ==
        LET Coding(e, v) == EntryCoding(e, v, pp, sets.v.num_long_term_sps)
        IN  IF ~sets.ok THEN sets
            ELSE read_elements([sets EXCEPT !.v = <<>>, !.at = <<>>],
                               EntryElements(Entries(sets.v)), Coding,
                               Anything)
  IN  LET sets == read_elements(br, SetElements, Sets, Accepts)
      IN  [br       |-> Entry(sets),
           lt_bit   |-> sets.at.num_long_term_sps,
           verbatim |-> pp.long_term_present /\ sets.v.num_long_term_sps = 0]

(* find_byte_alignment_start: the last one before the slice data.          *)
Ones(bits, from, to) == {i \in (from + 1)..to : bits[i] = 1}

-----------------------------------------------------------------------------
(***************************************************************************)
(* The slice header up to the reference picture sets.                      *)
(***************************************************************************)
StartCode(data, n) ==
  /\ Len(data) >= n
  /\ SubSeq(data, 1, n) = [i \in 1..n |-> IF i = n THEN 1 ELSE 0]

nal_offset(data) ==
  IF StartCode(data, 4) THEN 4 ELSE IF StartCode(data, 3) THEN 3 ELSE 0

NalType(nal) == (nal[1] \div 2) % 64

WellFormedNal(nal) ==
  /\ Len(nal) >= 3
  /\ nal[1] < 128 /\ NalType(nal) <= 31 /\ nal[2] % 8 # 0

IsIrap(nal) == NalType(nal) \in 16..23
IsIdr(nal)  == NalType(nal) \in {19, 20}

Rbsp(nal, limit) == BitsOf(unescape_prefix(SubSeq(nal, 3, Len(nal)), limit))

(* What both entry points read, and the rest down to the picture order     *)
(* count: slice segment address, reserved bits, slice type and flags.      *)
StartElements == <<"first_slice_segment_in_pic_flag",
                   "no_output_of_prior_pics_flag",
                   "slice_pic_parameter_set_id">>

AddressElements == <<"dependent_slice_segment_flag", "slice_segment_address">>

PocElements == <<"slice_reserved_flag", "slice_type", "pic_output_flag",
                 "colour_plane_id", "slice_pic_order_cnt_lsb">>

SliceCoding(e, v, nal, pp) ==
  LET later == v.first_slice_segment_in_pic_flag = 0
  IN  CASE e = "first_slice_segment_in_pic_flag" -> Fixed(1)
        [] e = "no_output_of_prior_pics_flag" -> If(IsIrap(nal), Fixed(1))
        [] e \in {"slice_pic_parameter_set_id", "slice_type"} -> ExpGolomb
        [] e = "dependent_slice_segment_flag" ->
             If(later /\ pp.dependent_enabled, Fixed(1))
        [] e = "slice_segment_address" ->
             If(later, Skipped(ceil_log2_u32(pp.pic_ctbs)))
        [] e = "slice_reserved_flag" -> Skipped(pp.num_extra_bits)
        [] e = "pic_output_flag" -> If(pp.output_flag_present, Fixed(1))
        [] e = "colour_plane_id" -> Skipped(2 * pp.separate_colour_plane_flag)
        [] e = "slice_pic_order_cnt_lsb" -> Fixed(pp.poc_bits)

rk_hevc_parse_slice_info(data) ==
  LET nal   == SubSeq(data, nal_offset(data) + 1, Len(data))
      Coding(e, v) == SliceCoding(e, v, nal, <<>>)
      br    == read_elements(Reader(Rbsp(nal, 128)), StartElements, Coding,
                             Anything)
  IN  IF ~WellFormedNal(nal) THEN Refused
      ELSE IF ~br.ok \/ br.value > 63 THEN Refused
      ELSE <<[nal_unit_type |-> NalType(nal), pps_id |-> br.value,
              first |-> br.v.first_slice_segment_in_pic_flag = 1]>>

(* Slip: what follows the sets is copied bit by bit down to the slice      *)
(* data, the old alignment included.                                       *)
realign_kept(bits, rbsp, rps_end, data_bit) ==
  [ok   |-> TRUE, bits |-> bits \o SubSeq(rbsp, rps_end + 1, data_bit)]

(* The rest of the header, and the alignment in front of the slice data.   *)
realign(bits, rbsp, rps_end, data_bit) ==
  LET ones  == Ones(rbsp, rps_end, data_bit)
      align == CHOOSE i \in ones : \A j \in ones : j <= i
  IN  IF data_bit > Len(rbsp) \/ rps_end > data_bit \/ ones = {}
        THEN [ok |-> FALSE, bits |-> bits]
        ELSE [ok   |-> TRUE,
              bits |-> bs_rbsp_trailing(
                         bits \o SubSeq(rbsp, rps_end + 1, align - 1))]

(* The new RBSP.  slice_data_byte_offset counts the two bytes of the NAL   *)
(* header; without a usable one the rest is copied bit by bit.             *)
rewrite_independent(rbsp, poc, old, pp, slice_data_byte_offset) ==
  LET rps    == collect_rps(pp)
      lt     == IF old.verbatim
                  THEN [ok   |-> TRUE,
                        bits |-> SubSeq(rbsp, old.lt_bit + 1, old.br.bit)]
                  ELSE write_long_term_rps(rps, pp, poc.value)
      head   == SubSeq(rbsp, 1, poc.bit) \o <<0>>
                  \o write_short_term_rps(rps) \o lt.bits
      data   == 8 * (slice_data_byte_offset - 2)
      given  == slice_data_byte_offset >= 2
      header == IF given THEN realign(head, rbsp, old.br.bit, data)
                         ELSE [ok |-> TRUE, bits |-> head]
      rest   == IF given THEN data ELSE old.br.bit
      all    == header.bits \o SubSeq(rbsp, rest + 1, Len(rbsp))
  IN  IF ~old.br.ok \/ ~rps.ok THEN Refused
      ELSE IF ~lt.ok \/ ~header.ok THEN Refused
      ELSE BytesOf(all \o Padding(Len(all)))

rk_hevc_rewrite_slice_nal(data, pp, slice_data_byte_offset) ==
  LET prefix == nal_offset(data)
      nal    == SubSeq(data, prefix + 1, Len(data))
      rbsp   == Rbsp(nal, Len(nal))
      Coding(e, v) == SliceCoding(e, v, nal, pp)
      start  == read_elements(Reader(rbsp), StartElements \o AddressElements,
                              Coding, Anything)
      poc    == read_elements(start, PocElements, Coding, Anything)
      bytes  == rewrite_independent(rbsp, poc, skip_original_rps(poc, pp), pp,
                                    slice_data_byte_offset)
  IN  IF ~validate_slice_syntax_bounds(pp) \/ ~WellFormedNal(nal)
        THEN Refused
      ELSE IF IsIdr(nal) THEN data
      ELSE IF ~start.ok THEN Refused
      ELSE IF start.v.dependent_slice_segment_flag = 1 THEN data
      ELSE IF ~poc.ok \/ bytes = Refused THEN Refused
      ELSE SubSeq(data, 1, prefix + 2) \o emulation_prevent(bytes)
=============================================================================
