----------------------------- MODULE Bitstream -----------------------------
(***************************************************************************)
(* The headers the driver makes and reads for one picture: what            *)
(* build_hevc_job, the H.264 job and the VP9 job call of hevc.c, h264.c    *)
(* and vp9.c, one action per kind of job.  The application's input is      *)
(* chosen in Init; the properties compare what came out with what a        *)
(* decoder following the standard makes of it.                             *)
(***************************************************************************)
EXTENDS H265Syntax, ParameterSyntax, Vp9Header

CONSTANTS
  HevcPictures,   \* [pp, iq, profile_idc, sl, start_code]
  AvcPictures,    \* [pp, iq, profile_idc, l0, l1]
  Vp9Frames,      \* [profile, existing, slot, key, show, error, intra, reset,
                  \*  refresh, space, rest]
  Payloads        \* raw NAL payloads, for emulation prevention alone

Byte == 0..255

ASSUME Vp9Assumption ==
  Vp9Frames \subseteq
    [profile : {0, 2}, existing : BOOLEAN, slot : 0..7, key : BOOLEAN,
     show : BOOLEAN, error : BOOLEAN, intra : BOOLEAN, reset : 0..3,
     refresh : Byte, space : 0..6, rest : Seq({0, 1})]

ASSUME PayloadAssumption == Payloads \subseteq Seq(Byte)

VARIABLES
  input,          \* what the application passed, with its codec
  output          \* what the driver made of it; Pending before

headerVars == <<input, output>>

Pending == [returned |-> FALSE]

HeaderInit ==
  /\ input \in [codec : {"hevc"}, of : HevcPictures]
          \cup [codec : {"avc"}, of : AvcPictures]
          \cup [codec : {"vp9"}, of : Vp9Frames]
          \cup [codec : {"raw"}, of : Payloads]
  /\ output = Pending

Made(codec, result) ==
  /\ input.codec = codec
  /\ ~output.returned
  /\ output' = [returned |-> TRUE, value |-> result]
  /\ UNCHANGED input

-----------------------------------------------------------------------------
(* The slice's bytes and slice_data_byte_offset as the application has     *)
(* them.                                                                   *)
SliceBytes(c) == Slice(c.sl, c.pp, c.start_code)
DataOffset(c) == 2 + Len(SliceHeader(c.sl, c.pp)) \div 8

(* build_hevc_job: the slice names the PPS; VPS and SPS, the PPS and the   *)
(* rewritten slice make the packet.  Every failure drops the picture.      *)
hevc_packet(c) ==
  LET info     == rk_hevc_parse_slice_info(SliceBytes(c))
      sequence == rk_hevc_write_sequence_parameter_sets(c.pp, c.iq,
                                                        c.profile_idc)
      picture  == rk_hevc_write_picture_parameter_set(c.pp, c.iq,
                                                      info[1].pps_id,
                                                      c.profile_idc)
      slice    == rk_hevc_rewrite_slice_nal(SliceBytes(c), c.pp,
                                            DataOffset(c))
  IN  IF info = Refused THEN Refused
      ELSE IF sequence = Refused THEN Refused
      ELSE IF picture = Refused THEN Refused
      ELSE IF slice = Refused THEN Refused
      ELSE <<[info |-> info[1], vps |-> sequence[1], sps |-> sequence[2],
              pps |-> picture[1], slice |-> slice]>>

hevc_headers == Made("hevc", hevc_packet(input.of))

(* The headers of the H.264 job; the matrices belong to the High profile.  *)
avc_packet(c) ==
  LET iq  == IF c.profile_idc >= 100 THEN c.iq ELSE NoMatrix
      pps == h264_write_pps(c.pp, iq, c.l0, c.l1)
  IN  IF pps = Refused THEN Refused
      ELSE <<[sps |-> h264_write_sps(c.pp, c.profile_idc), pps |-> pps]>>

h264_headers == Made("avc", avc_packet(input.of))

(* The standard's uncompressed_header() (VP9, 6.2) of the given frame.     *)
(* The colours of a key frame of profile 0 belong to the rest.             *)
ColorConfig(f) ==
  IF f.profile = 0 THEN <<>>
  ELSE bs_write(0, 1) \o bs_write(f.space, 3) \o bs_write(1, 1)

Vp9Bits(f) ==
  <<1, 0>> \o bs_write(f.profile % 2, 1) \o bs_write(f.profile \div 2, 1)
  \o (IF f.existing THEN <<1>> \o bs_write(f.slot, 3)
      ELSE <<0>> \o Flag(~f.key) \o Flag(f.show) \o Flag(f.error)
        \o (IF f.key THEN bs_write(SyncCode, 24) \o ColorConfig(f)
            ELSE (IF f.show THEN <<>> ELSE Flag(f.intra))
              \o (IF f.error THEN <<>> ELSE bs_write(f.reset, 2))
              \o (IF f.intra /\ ~f.show
                    THEN bs_write(SyncCode, 24) \o ColorConfig(f) ELSE <<>>)
              \o bs_write(f.refresh, 8)))
  \o f.rest

(* The lowest slot a hidden frame refreshes is the one shown again.        *)
first_refresh_slot(refresh) ==
  CHOOSE s \in 0..7 : (refresh \div 2^s) % 2 = 1
                      /\ \A r \in 0..(s - 1) : (refresh \div 2^r) % 2 = 0

(* The VP9 job: the header is parsed, and a hidden frame that refreshes a  *)
(* slot is followed by the packet that shows the slot.                     *)
vp9_packet(f) ==
  LET info == rk_vp9_parse_frame(Vp9Bits(f), f.profile)
  IN  IF ~info.parsed THEN Refused
      ELSE <<[info |-> info,
              shows |-> IF info.show_frame \/ info.refresh_frame_flags = 0
                          THEN <<>>
                          ELSE rk_vp9_make_show_existing(
                                 f.profile,
                                 first_refresh_slot(info.refresh_frame_flags))]>>

vp9_headers == Made("vp9", vp9_packet(input.of))

finish_nal == Made("raw", emulation_prevent(input.of))

HeaderNext == hevc_headers \/ h264_headers \/ vp9_headers \/ finish_nal

HeaderSpec == HeaderInit /\ [][HeaderNext]_headerVars

-----------------------------------------------------------------------------
(***************************************************************************)
(* Properties.                                                             *)
(***************************************************************************)
Answered(codec) == input.codec = codec /\ output.returned
Accepted(codec) == Answered(codec) /\ output.value # Refused

(* "Insert emulation prevention bytes" (h264.c:82): a payload comes out    *)
(* without start code emulation, a decoder gets the same bytes back, and   *)
(* so does the driver's own unescape.                                      *)
EscapeSound ==
  Answered("raw") =>
    /\ ByteStreamSafe(output.value)
    /\ Unescaped(output.value) = input.of
    /\ unescape_prefix(output.value, Len(output.value)) = input.of

-----------------------------------------------------------------------------
Rewritten == input.of.sl.type \notin {19, 20} /\ ~input.of.sl.dependent

Headers == output.value[1]
Sps     == Read(SpsTable, SequenceTimes, Headers.sps)
Pps     == Read(PpsTable, PictureTimes, Headers.pps)

(* What a decoder knows of the slice header from the SPS and PPS it got.   *)
DecoderParameters ==
  LET s == Sps.v
      p == Pps.v
      ctb == 2^(Value(s, "log2_min_luma_coding_block_size_minus3") + 3
                + Value(s, "log2_diff_max_min_luma_coding_block_size"))
  IN  [poc_bits            |-> Value(s, "log2_max_pic_order_cnt_lsb_minus4")
                               + 4,
       num_st_sets         |-> Value(s, "num_short_term_ref_pic_sets"),
       num_lt_sps          |-> Value(s, "num_long_term_ref_pics_sps"),
       long_term_present   |-> Is(s, "long_term_ref_pics_present_flag", 1),
       dependent_enabled   |->
         Is(p, "dependent_slice_segments_enabled_flag", 1),
       output_flag_present |-> Is(p, "output_flag_present_flag", 1),
       num_extra_bits      |-> Value(p, "num_extra_slice_header_bits"),
       pic_ctbs            |->
         Blocks(Value(s, "pic_width_in_luma_samples"), ctb)
           * Blocks(Value(s, "pic_height_in_luma_samples"), ctb)]

(* The slice behind its start code and NAL header, as a decoder sees it.   *)
SlicePayload ==
  SubSeq(Headers.slice, Len(input.of.start_code) + 3, Len(Headers.slice))

(* An entry of the stream denotes this long-term reference.                *)
Denotes(entry, r) ==
  /\ entry.used = r.used
  /\ entry.poc = IF entry.msb THEN r.poc
                 ELSE r.poc % 2^input.of.pp.poc_bits

Signed(list, sign) ==
  [i \in DOMAIN list |-> [poc |-> input.of.sl.poc + sign * list[i].delta,
                          used |-> list[i].used]]

(* The decoder keeps exactly the references the stream kept, nearest       *)
(* first, with the same used_by_curr flags, and the long-term ones in the  *)
(* stream's order unless they came from the SPS table.                     *)
SameReferences(decoded) ==
  LET sl == input.of.sl
  IN  /\ decoded.before = Signed(sl.before, -1)
      /\ decoded.after = Signed(sl.after, 1)
      /\ Len(decoded.lt) = Len(sl.lt)
      /\ \A r \in ToSet(sl.lt) :
           \E i \in DOMAIN decoded.lt : Denotes(decoded.lt[i], r)
      /\ sl.from_sps = 0 =>
           \A i \in DOMAIN sl.lt :
             /\ Denotes(decoded.lt[i], sl.lt[i])
             /\ decoded.lt[i].msb = sl.lt[i].msb

SameSlice(decoded) ==
  LET c == input.of
  IN  /\ decoded.ok
      /\ SameReferences(decoded)
      /\ decoded.fields = Fields(c.sl, c.pp)
      /\ decoded.tail = c.sl.tail
      /\ \E zeros \in 0..7 :
           decoded.rest = <<1>> \o [i \in 1..zeros |-> 0] \o BitsOf(c.sl.data)

(* "Rewrite a slice NAL so short/long-term RPS data is explicit"           *)
(* (hevc.h:28) and "The output preserves the input's Annex B prefix style" *)
(* (hevc.h:29): a decoder that parses the slice with the SPS and PPS in    *)
(* front of it finds the same references, the same header fields, the rest *)
(* of the header and the slice data at a byte boundary, with the same      *)
(* emulation prevention bytes, which entry points count.                   *)
SliceSurvives ==
  Accepted("hevc") =>
    LET c == input.of
        n == Len(c.start_code)
    IN  /\ SubSeq(Headers.slice, 1, n + 2) = SubSeq(SliceBytes(c), 1, n + 2)
        /\ ByteStreamSafe(SlicePayload)
        /\ Headers.info = [nal_unit_type |-> c.sl.type,
                           pps_id |-> c.sl.pps_id, first |-> c.sl.first]
        /\ Is(Pps.v, "pps_pic_parameter_set_id", c.sl.pps_id)
        /\ IsSuffix(emulation_prevent(c.sl.data), Headers.slice)
        /\ IF ~Rewritten THEN Headers.slice = SliceBytes(c)
           ELSE \A sps \in {DecoderParameters} :
                  \A bits \in {BitsOf(Unescaped(SlicePayload))} :
                    \A decoded \in {DecodedSlice(bits, c.sl, sps)} :
                      SameSlice(decoded)

-----------------------------------------------------------------------------
(* Elements that mean nothing under the given parameters.                  *)
Meaningless(pp) ==
  (IF pp.cu_qp_delta_enabled_flag = 0 THEN {"diff_cu_qp_delta_depth"} ELSE {})
  \cup (IF pp.pcm_enabled_flag = 0 THEN PcmNames ELSE {})
  \cup (IF pp.tiles_enabled_flag = 0
          THEN TileNames \cup {"column_width_minus1", "row_height_minus1"}
          ELSE {})
  \cup (IF pp.pps_disable_deblocking_filter_flag = 1
          THEN {"pps_beta_offset_div2", "pps_tc_offset_div2"} ELSE {})

(* Every field of pp that is an element of the set has its value there.    *)
Agrees(v, pp, except) ==
  \A name \in (DOMAIN v \cap DOMAIN pp) \ except : Value(v, name) = pp[name]

TilesAgree(v, pp) ==
  LET uniform == Is(v, "uniform_spacing_flag", 1)
  IN  /\ \A i \in 1..pp.num_tile_columns_minus1 :
           TileSpans(uniform, pp.num_tile_columns_minus1 + 1,
                     v.column_width_minus1, width_ctbs(pp))[i]
             = pp.column_width_minus1[i] + 1
      /\ \A i \in 1..pp.num_tile_rows_minus1 :
           TileSpans(uniform, pp.num_tile_rows_minus1 + 1,
                     v.row_height_minus1, height_ctbs(pp))[i]
             = pp.row_height_minus1[i] + 1

(* Matrices of 8x8 coefficients and more are numbered through the sizes.   *)
ListsAgree(v, iq) ==
  LET Dc(k) == IF k > 6 THEN v.dc_minus8[k - 6] + 8 ELSE 8
  IN  /\ \A k \in DOMAIN v.pred_mode_flag : v.pred_mode_flag[k] = 1
      /\ \A i \in 1..6 :
           StandsFor(Part(v.delta4x4, 16, i), 8, Scan4, iq.lists[0][i])
      /\ \A s \in 1..3 : \A i \in DOMAIN iq.lists[s] :
           LET k == 6 * (s - 1) + i
           IN  /\ s > 1 => Dc(k) = iq.dc[s][i]
               /\ StandsFor(Part(v.delta8x8, 64, k), Dc(k), Scan8,
                            iq.lists[s][i])

HevcAgrees(c) ==
  LET vps == Read(VpsTable, SequenceTimes, Headers.vps)
  IN  /\ vps.ok /\ Sps.ok /\ Pps.ok
      /\ \A v \in {vps.v, Sps.v} :
           /\ Is(v, "general_profile_idc", c.profile_idc)
           /\ v.general_profile_compatibility_flag[c.profile_idc + 1] = 1
      /\ Agrees(Sps.v, c.pp, Meaningless(c.pp))
      /\ Agrees(Pps.v, c.pp, Meaningless(c.pp) \cup
                {"column_width_minus1", "row_height_minus1"})
      /\ c.pp.tiles_enabled_flag = 1 => TilesAgree(Pps.v, c.pp)
      /\ c.pp.scaling_list_enabled_flag = 1 => ListsAgree(Pps.v, c.iq)

AvcPps(elements) ==
  LET short == Read(AvcPpsTable, AvcPpsTimes, elements)
  IN  IF short.ok THEN short
      ELSE Read(AvcPpsTable \o AvcPpsExtension, AvcPpsTimes, elements)

AvcAgrees(c) ==
  LET sps == Read(AvcSpsTable, AvcSpsTimes, Headers.sps)
      pps == AvcPps(Headers.pps)
      poc == {"log2_max_pic_order_cnt_lsb_minus4",
              "delta_pic_order_always_zero_flag"}
      Second == IF "second_chroma_qp_index_offset" \in DOMAIN pps.v
                  THEN Value(pps.v, "second_chroma_qp_index_offset")
                  ELSE Value(pps.v, "chroma_qp_index_offset")
      Mode8x8 == /\ "transform_8x8_mode_flag" \in DOMAIN pps.v
                 /\ Is(pps.v, "transform_8x8_mode_flag", 1)
      Wanted  == c.iq # NoMatrix /\ c.profile_idc \in HighProfiles
      Carried == /\ "pic_scaling_matrix_present_flag" \in DOMAIN pps.v
                 /\ Is(pps.v, "pic_scaling_matrix_present_flag", 1)
  IN  /\ sps.ok /\ pps.ok
      /\ Is(sps.v, "profile_idc", c.profile_idc)
      /\ Agrees(sps.v, c.pp, poc \cup (IF c.profile_idc \in HighProfiles
                                         THEN {} ELSE {"chroma_format_idc"}))
      /\ \A name \in poc : sps.v[name] \in {<<>>, <<c.pp[name]>>}
      /\ (2 - c.pp.frame_mbs_only_flag)
           * (Value(sps.v, "pic_height_in_map_units_minus1") + 1)
           = height_mbs(c.pp)
      /\ Agrees(pps.v, c.pp, {})
      /\ Is(pps.v, "num_ref_idx_l0_default_active_minus1", AtLeastZero(c.l0))
      /\ Is(pps.v, "num_ref_idx_l1_default_active_minus1", AtLeastZero(c.l1))
      /\ Second = c.pp.second_chroma_qp_index_offset
      /\ Mode8x8 = (c.pp.transform_8x8_mode_flag = 1)
      /\ Carried = Wanted
      /\ Wanted =>
           /\ \A i \in 1..6 :
                StandsFor(Part(pps.v.delta4x4, 16, i), 8, ZigZag4,
                          c.iq.list4x4[i])
           /\ Mode8x8 =>
                \A i \in 1..2 :
                  StandsFor(Part(pps.v.delta8x8, 64, i), 8, ZigZag8,
                            c.iq.list8x8[i])

(* VPS, SPS and PPS, read by the standards' syntax, give the decoder what  *)
(* the application gave the driver: fields, inferred values, tile          *)
(* boundaries and scaling matrices.                                        *)
ParametersSurvive ==
  /\ Accepted("hevc") => HevcAgrees(input.of)
  /\ Accepted("avc") => AvcAgrees(input.of)

(* "rejects legal Main10 streams" (hevc.c:436) is what validation must     *)
(* not do: a legal picture is refused only where the comments of hevc.c    *)
(* say so, for long-term references out of order in a rebuilt set, and     *)
(* where a matrix that is sent holds a zero, which no list can carry.      *)
(* Without a current picture nothing is sent.                              *)
LegalIsAccepted ==
  /\ Answered("hevc") =>
       (output.value = Refused <=>
          \/ ~input.of.pp.CurrPic.valid
          \/ input.of.pp.scaling_list_enabled_flag = 1
               /\ ~ScalingListsWritable(input.of.iq)
          \/ /\ Rewritten /\ input.of.sl.from_sps > 0
             /\ LET lt == collect_rps(input.of.pp).long_term
                IN  \E i \in 2..Len(lt) :
                      lt[i].poc \div 2^input.of.pp.poc_bits
                        > lt[i - 1].poc \div 2^input.of.pp.poc_bits)
  /\ Answered("avc") =>
       (output.value = Refused =>
          /\ input.of.profile_idc \in HighProfiles
          /\ \E list \in ToSet(input.of.iq.list4x4)
                         \cup ToSet(input.of.iq.list8x8) : 0 \in ToSet(list))
  /\ Answered("vp9") => output.value # Refused

(* "H.264 Annex A, table A-1" (h264.c:32): the level the SPS declares has  *)
(* room for the picture and its reference frames, and no lower one has;    *)
(* HEVC pictures are within the luma samples of theirs.                    *)
LevelAdmitsPicture ==
  /\ Accepted("avc") =>
       LeastLevel(Value(Read(AvcSpsTable, AvcSpsTimes, Headers.sps).v,
                        "level_idc"), input.of.pp)
  /\ Accepted("hevc") =>
       HoldsPicture(Value(Sps.v, "general_level_idc"), input.of.pp)

-----------------------------------------------------------------------------
Slots(refresh) == {s \in 0..7 : (refresh \div 2^s) % 2 = 1}

Refreshed(f) == IF f.key THEN 0..7 ELSE Slots(f.refresh)

(* vp9.c skips the fields between the flags and refresh_frame_flags        *)
(* without parsing them: it still learns what is shown and refreshed, and  *)
(* the packet made for a hidden frame shows a slot that frame refreshed.   *)
Vp9FrameUnderstood ==
  Accepted("vp9") =>
    LET f == input.of
    IN  /\ Headers.info.show_existing_frame = f.existing
        /\ Headers.info.show_frame = (f.existing \/ f.show)
        /\ f.existing => Headers.info.frame_to_show_map_idx = f.slot
        /\ ~f.existing =>
             Slots(Headers.info.refresh_frame_flags) = Refreshed(f)
        /\ Headers.shows # <<>> <=> ~f.existing /\ ~f.show /\ Refreshed(f) # {}
        /\ Headers.shows # <<>> =>
             \E s \in Refreshed(f) :
               BitsOf(Headers.shows)
                 = Vp9Bits([f EXCEPT !.existing = TRUE, !.slot = s,
                                     !.rest = <<>>])
=============================================================================
