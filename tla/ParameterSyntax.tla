-------------------------- MODULE ParameterSyntax --------------------------
(***************************************************************************)
(* What a decoder that follows the standards reads from the parameter sets *)
(* of ParameterSets: the syntax tables of H.265 (7.3.2, 7.3.3, 7.3.4) and  *)
(* H.264 (7.3.2), and what the elements mean (H.265 6.5.1, 6.5.3, 7.4.5,   *)
(* H.264 8.5.6, Annex A).  Nothing here looks at the driver.               *)
(*                                                                         *)
(* A table is a sequence of sections, a section a sequence of elements     *)
(* [name, kind, n] that are present together.  How often a section occurs  *)
(* depends on what is before it: Times(section, v), where v holds the      *)
(* values read so far, a sequence for each element's name.                 *)
(***************************************************************************)
EXTENDS ParameterSets

E(name, kind, n) == <<[name |-> name, kind |-> kind, n |-> n]>>
Es(kind, n, names) ==
  [i \in DOMAIN names |-> [name |-> names[i], kind |-> kind, n |-> n]]

Repeat(n, elements) == FlattenSeq([i \in 1..n |-> elements])

Section(name, elements) == <<[section |-> name, elements |-> elements]>>

Is(v, name, value) == v[name] = <<value>>

Names(elements) == {elements[i].name : i \in DOMAIN elements}

(* The values the elements called name have among those that were got.     *)
ValuesOf(name, elements, got) ==
  LET mine == SelectSeq([i \in DOMAIN elements |-> i],
                        LAMBDA i : elements[i].name = name)
  IN  [k \in DOMAIN mine |-> got[mine[k]].v]

(* Reading the elements with a table: v, or failure when an element is     *)
(* missing, is coded differently, or is left over.                         *)
Read(table, Times(_, _), elements) ==
  LET Step(a, row) ==
        LET want == Repeat(Times(row.section, a.v), row.elements)
            got  == SubSeq(a.rest, 1, Len(want))
            new  == [name \in Names(row.elements) |->
                       ValuesOf(name, want, got)]
        IN  IF /\ a.ok /\ Len(got) = Len(want)
               /\ \A i \in DOMAIN got :
                    got[i].kind = want[i].kind /\ got[i].n = want[i].n
              THEN [ok   |-> TRUE,
                    rest |-> SubSeq(a.rest, Len(got) + 1, Len(a.rest)),
                    v    |-> new @@ a.v]
              ELSE [a EXCEPT !.ok = FALSE]
      all == FoldLeft(Step, [ok |-> TRUE, rest |-> elements, v |-> <<>>], table)
  IN  [ok |-> all.ok /\ all.rest = <<>>, v |-> all.v]

-----------------------------------------------------------------------------
(***************************************************************************)
(* H.265.                                                                  *)
(***************************************************************************)
NalElements == E("forbidden_zero_bit", "u", 1) \o E("nal_unit_type", "u", 6)
               \o E("nuh_layer_id", "u", 6)
               \o E("nuh_temporal_id_plus1", "u", 3)

ProfileElements ==
  E("general_profile_space", "u", 2) \o E("general_tier_flag", "u", 1)
  \o E("general_profile_idc", "u", 5)
  \o Repeat(32, E("general_profile_compatibility_flag", "u", 1))
  \o Es("u", 1, <<"general_progressive_source_flag",
                  "general_interlaced_source_flag",
                  "general_non_packed_constraint_flag",
                  "general_frame_only_constraint_flag">>)
  \o Repeat(43, E("general_reserved_zero_43bits", "u", 1))
  \o E("general_inbld_flag", "u", 1) \o E("general_level_idc", "u", 8)

OrderingElements ==
  E("sub_layer_ordering_info_present_flag", "u", 1)
  \o Es("ue", 0, <<"sps_max_dec_pic_buffering_minus1",
                   "sps_max_num_reorder_pics",
                   "sps_max_latency_increase_plus1">>)

VpsTable == Section("always",
  NalElements
  \o E("vps_video_parameter_set_id", "u", 4)
  \o Es("u", 1, <<"vps_base_layer_internal_flag",
                  "vps_base_layer_available_flag">>)
  \o E("vps_max_layers_minus1", "u", 6)
  \o E("vps_max_sub_layers_minus1", "u", 3)
  \o E("vps_temporal_id_nesting_flag", "u", 1)
  \o E("vps_reserved_0xffff_16bits", "u", 16)
  \o ProfileElements \o OrderingElements
  \o E("vps_max_layer_id", "u", 6) \o E("vps_num_layer_sets_minus1", "ue", 0)
  \o Es("u", 1, <<"vps_timing_info_present_flag", "vps_extension_flag">>))

PcmElements ==
  Es("u", 4, <<"pcm_sample_bit_depth_luma_minus1",
               "pcm_sample_bit_depth_chroma_minus1">>)
  \o Es("ue", 0, <<"log2_min_pcm_luma_coding_block_size_minus3",
                   "log2_diff_max_min_pcm_luma_coding_block_size">>)
  \o E("pcm_loop_filter_disabled_flag", "u", 1)

PcmNames == Names(PcmElements)

SpsTable ==
  Section("always",
    NalElements
    \o E("sps_video_parameter_set_id", "u", 4)
    \o E("sps_max_sub_layers_minus1", "u", 3)
    \o E("sps_temporal_id_nesting_flag", "u", 1)
    \o ProfileElements
    \o Es("ue", 0, <<"sps_seq_parameter_set_id", "chroma_format_idc",
                     "pic_width_in_luma_samples",
                     "pic_height_in_luma_samples">>)
    \o E("conformance_window_flag", "u", 1)
    \o Es("ue", 0, <<"bit_depth_luma_minus8", "bit_depth_chroma_minus8",
                     "log2_max_pic_order_cnt_lsb_minus4">>)
    \o OrderingElements
    \o Es("ue", 0, <<"log2_min_luma_coding_block_size_minus3",
                     "log2_diff_max_min_luma_coding_block_size",
                     "log2_min_transform_block_size_minus2",
                     "log2_diff_max_min_transform_block_size",
                     "max_transform_hierarchy_depth_inter",
                     "max_transform_hierarchy_depth_intra">>)
    \o E("scaling_list_enabled_flag", "u", 1))
  \o Section("scaling", E("sps_scaling_list_data_present_flag", "u", 1))
  \o Section("always",
       Es("u", 1, <<"amp_enabled_flag", "sample_adaptive_offset_enabled_flag",
                    "pcm_enabled_flag">>))
  \o Section("pcm", PcmElements)
  \o Section("always", E("num_short_term_ref_pic_sets", "ue", 0)
                       \o E("long_term_ref_pics_present_flag", "u", 1))
  \o Section("long_term", E("num_long_term_ref_pics_sps", "ue", 0))
  \o Section("always",
       Es("u", 1, <<"sps_temporal_mvp_enabled_flag",
                    "strong_intra_smoothing_enabled_flag",
                    "vui_parameters_present_flag", "sps_extension_flag">>))

SequenceTimes(section, v) ==
  CASE section = "always"    -> 1
    [] section = "scaling"   -> Bit(Is(v, "scaling_list_enabled_flag", 1))
    [] section = "pcm"       -> Bit(Is(v, "pcm_enabled_flag", 1))
    [] section = "long_term" ->
         Bit(Is(v, "long_term_ref_pics_present_flag", 1))

(* Six matrices of each size but 32x32, which has two; a first coefficient *)
(* of its own for 16x16 and 32x32.                                         *)
ScalingElements ==
  LET Start == E("pred_mode_flag", "u", 1)
      Deltas(name, n) == Repeat(n, E(name, "se", 0))
  IN  Repeat(6, Start \o Deltas("delta4x4", 16))
      \o Repeat(6, Start \o Deltas("delta8x8", 64))
      \o Repeat(8, Start \o E("dc_minus8", "se", 0) \o Deltas("delta8x8", 64))

TileNames == {"num_tile_columns_minus1", "num_tile_rows_minus1",
              "uniform_spacing_flag", "loop_filter_across_tiles_enabled_flag"}

PpsTable ==
  Section("always",
    NalElements
    \o Es("ue", 0, <<"pps_pic_parameter_set_id", "pps_seq_parameter_set_id">>)
    \o Es("u", 1, <<"dependent_slice_segments_enabled_flag",
                    "output_flag_present_flag">>)
    \o E("num_extra_slice_header_bits", "u", 3)
    \o Es("u", 1, <<"sign_data_hiding_enabled_flag",
                    "cabac_init_present_flag">>)
    \o Es("ue", 0, <<"num_ref_idx_l0_default_active_minus1",
                     "num_ref_idx_l1_default_active_minus1">>)
    \o E("init_qp_minus26", "se", 0)
    \o Es("u", 1, <<"constrained_intra_pred_flag",
                    "transform_skip_enabled_flag",
                    "cu_qp_delta_enabled_flag">>))
  \o Section("qp_delta", E("diff_cu_qp_delta_depth", "ue", 0))
  \o Section("always",
       Es("se", 0, <<"pps_cb_qp_offset", "pps_cr_qp_offset">>)
       \o Es("u", 1, <<"pps_slice_chroma_qp_offsets_present_flag",
                       "weighted_pred_flag", "weighted_bipred_flag",
                       "transquant_bypass_enabled_flag", "tiles_enabled_flag",
                       "entropy_coding_sync_enabled_flag">>))
  \o Section("tiles",
       Es("ue", 0, <<"num_tile_columns_minus1", "num_tile_rows_minus1">>)
       \o E("uniform_spacing_flag", "u", 1))
  \o Section("columns", E("column_width_minus1", "ue", 0))
  \o Section("rows", E("row_height_minus1", "ue", 0))
  \o Section("tiles", E("loop_filter_across_tiles_enabled_flag", "u", 1))
  \o Section("always",
       Es("u", 1, <<"pps_loop_filter_across_slices_enabled_flag",
                    "deblocking_filter_control_present_flag">>))
  \o Section("deblocking",
       Es("u", 1, <<"deblocking_filter_override_enabled_flag",
                    "pps_disable_deblocking_filter_flag">>))
  \o Section("offsets",
       Es("se", 0, <<"pps_beta_offset_div2", "pps_tc_offset_div2">>))
  \o Section("always", E("pps_scaling_list_data_present_flag", "u", 1))
  \o Section("scaling", ScalingElements)
  \o Section("always",
       E("lists_modification_present_flag", "u", 1)
       \o E("log2_parallel_merge_level_minus2", "ue", 0)
       \o Es("u", 1, <<"slice_segment_header_extension_present_flag",
                       "pps_extension_present_flag">>))

PictureTimes(section, v) ==
  LET explicit == Is(v, "uniform_spacing_flag", 0)
  IN  CASE section = "always"     -> 1
        [] section = "qp_delta"   -> Bit(Is(v, "cu_qp_delta_enabled_flag", 1))
        [] section = "tiles"      -> Bit(Is(v, "tiles_enabled_flag", 1))
        [] section = "columns"    ->
             IF explicit THEN v.num_tile_columns_minus1[1] ELSE 0
        [] section = "rows"       ->
             IF explicit THEN v.num_tile_rows_minus1[1] ELSE 0
        [] section = "deblocking" ->
             Bit(Is(v, "deblocking_filter_control_present_flag", 1))
        [] section = "offsets"    ->
             Bit(Is(v, "pps_disable_deblocking_filter_flag", 0))
        [] section = "scaling"    ->
             Bit(Is(v, "pps_scaling_list_data_present_flag", 1))

(* Table A.8: general_level_idc and MaxLumaPs.                             *)
TableA8 == {
  <<30, 36864>>, <<60, 122880>>, <<63, 245760>>, <<90, 552960>>,
  <<93, 983040>>, <<120, 2228224>>, <<123, 2228224>>, <<150, 8912896>>,
  <<153, 8912896>>, <<156, 8912896>>, <<180, 35651584>>, <<183, 35651584>>,
  <<186, 35651584>>}

(* The value of an element, or what the standard infers when it is absent. *)
Value(v, name) ==
  IF v[name] # <<>> THEN v[name][1]
  ELSE IF name = "loop_filter_across_tiles_enabled_flag" THEN 1 ELSE 0

(* 6.5.1: the widths of n tiles over a picture of blocks blocks.           *)
TileSpans(uniform, n, sizes, blocks) ==
  [i \in 1..n |->
     IF uniform THEN ((i * blocks) \div n) - (((i - 1) * blocks) \div n)
     ELSE IF i < n THEN sizes[i] + 1
     ELSE blocks - FoldLeft(LAMBDA a, w : a + w + 1, 0,
                            SubSeq(sizes, 1, n - 1))]

(* 6.5.3: up-right diagonal scan of a square, as positions in raster order *)
(* counted from 1.                                                         *)
DiagonalScan(size) ==
  LET At(p) == [x |-> (p - 1) % size, y |-> (p - 1) \div size]
      Before(p, q) == \/ At(p).x + At(p).y < At(q).x + At(q).y
                      \/ /\ At(p).x + At(p).y = At(q).x + At(q).y
                         /\ At(p).x < At(q).x
  IN  SortSeq([p \in 1..(size * size) |-> p], Before)

Scan4 == DiagonalScan(4)
Scan8 == DiagonalScan(8)

(* Matrix i among the deltas collected for matrices of one size.           *)
Part(deltas, size, i) == SubSeq(deltas, size * (i - 1) + 1, size * i)

(* 7.3.4: a list stands for the matrix whose coefficients, in the order of *)
(* the scan, each differ by the delta from the one before.                 *)
StandsFor(deltas, first, scan, matrix) ==
  \A i \in DOMAIN scan :
    LET before == IF i = 1 THEN first ELSE matrix[scan[i - 1]]
    IN  matrix[scan[i]] = (before + deltas[i] + 256) % 256

-----------------------------------------------------------------------------
(***************************************************************************)
(* H.264.                                                                  *)
(***************************************************************************)
AvcSpsTable ==
  Section("always",
    E("nal_header", "u", 8) \o E("profile_idc", "u", 8)
    \o Es("u", 1, <<"constraint_set0_flag", "constraint_set1_flag",
                    "constraint_set2_flag">>)
    \o E("constraint_set3_5_zero", "u", 5) \o E("level_idc", "u", 8)
    \o E("seq_parameter_set_id", "ue", 0))
  \o Section("high",
       Es("ue", 0, <<"chroma_format_idc", "bit_depth_luma_minus8",
                     "bit_depth_chroma_minus8">>)
       \o Es("u", 1, <<"qpprime_y_zero_transform_bypass_flag",
                       "seq_scaling_matrix_present_flag">>))
  \o Section("always", Es("ue", 0, <<"log2_max_frame_num_minus4",
                                     "pic_order_cnt_type">>))
  \o Section("type0", E("log2_max_pic_order_cnt_lsb_minus4", "ue", 0))
  \o Section("type1",
       E("delta_pic_order_always_zero_flag", "u", 1)
       \o Es("se", 0, <<"offset_for_non_ref_pic",
                        "offset_for_top_to_bottom_field">>)
       \o E("num_ref_frames_in_pic_order_cnt_cycle", "ue", 0))
  \o Section("always",
       E("num_ref_frames", "ue", 0)
       \o E("gaps_in_frame_num_value_allowed_flag", "u", 1)
       \o Es("ue", 0, <<"picture_width_in_mbs_minus1",
                        "pic_height_in_map_units_minus1">>)
       \o E("frame_mbs_only_flag", "u", 1))
  \o Section("fields", E("mb_adaptive_frame_field_flag", "u", 1))
  \o Section("always",
       Es("u", 1, <<"direct_8x8_inference_flag", "frame_cropping_flag",
                    "vui_parameters_present_flag">>))

AvcSpsTimes(section, v) ==
  CASE section = "always" -> 1
    [] section = "high"   -> Bit(v.profile_idc[1] \in HighProfiles)
    [] section = "type0"  -> Bit(Is(v, "pic_order_cnt_type", 0))
    [] section = "type1"  -> Bit(Is(v, "pic_order_cnt_type", 1))
    [] section = "fields" -> Bit(Is(v, "frame_mbs_only_flag", 0))

AvcPpsTable ==
  Section("always",
    E("nal_header", "u", 8)
    \o Es("ue", 0, <<"pic_parameter_set_id", "seq_parameter_set_id">>)
    \o Es("u", 1, <<"entropy_coding_mode_flag", "pic_order_present_flag">>)
    \o Es("ue", 0, <<"num_slice_groups_minus1",
                     "num_ref_idx_l0_default_active_minus1",
                     "num_ref_idx_l1_default_active_minus1">>)
    \o E("weighted_pred_flag", "u", 1) \o E("weighted_bipred_idc", "u", 2)
    \o Es("se", 0, <<"pic_init_qp_minus26", "pic_init_qs_minus26",
                     "chroma_qp_index_offset">>)
    \o Es("u", 1, <<"deblocking_filter_control_present_flag",
                    "constrained_intra_pred_flag",
                    "redundant_pic_cnt_present_flag">>))

(* What more_rbsp_data() announces.                                        *)
AvcPpsExtension ==
  LET List(flag, name, n) == E(flag, "u", 1) \o Repeat(n, E(name, "se", 0))
  IN  Section("always", Es("u", 1, <<"transform_8x8_mode_flag",
                                     "pic_scaling_matrix_present_flag">>))
      \o Section("lists4x4",
           Repeat(6, List("list_present_flag", "delta4x4", 16)))
      \o Section("lists8x8",
           Repeat(2, List("list8x8_present_flag", "delta8x8", 64)))
      \o Section("always", E("second_chroma_qp_index_offset", "se", 0))

AvcPpsTimes(section, v) ==
  CASE section = "always"   -> 1
    [] section = "lists4x4" ->
         Bit(Is(v, "pic_scaling_matrix_present_flag", 1))
    [] section = "lists8x8" ->
         Bit(/\ Is(v, "pic_scaling_matrix_present_flag", 1)
             /\ Is(v, "transform_8x8_mode_flag", 1))

(* 8.5.6, frame zig-zag: the anti-diagonals of a square, every other one    *)
(* upwards.                                                                *)
ZigZag(size) ==
  LET At(p) == [x |-> (p - 1) % size, y |-> (p - 1) \div size]
      Sums(p) == At(p).x + At(p).y
      Before(p, q) == \/ Sums(p) < Sums(q)
                      \/ /\ Sums(p) = Sums(q)
                         /\ IF Sums(p) % 2 = 0 THEN At(p).x < At(q).x
                                               ELSE At(p).y < At(q).y
  IN  SortSeq([p \in 1..(size * size) |-> p], Before)

ZigZag4 == ZigZag(4)
ZigZag8 == ZigZag(8)

(* Table A-1: level_idc, MaxFS and MaxDpbMbs.                              *)
TableA1 == {
  <<10, 99, 396>>, <<11, 396, 900>>, <<12, 396, 2376>>, <<13, 396, 2376>>,
  <<20, 396, 2376>>, <<21, 792, 4752>>, <<22, 1620, 8100>>,
  <<30, 1620, 8100>>, <<31, 3600, 18000>>, <<32, 5120, 20480>>,
  <<40, 8192, 32768>>, <<41, 8192, 32768>>, <<42, 8704, 34816>>,
  <<50, 22080, 110400>>, <<51, 36864, 184320>>, <<52, 36864, 184320>>,
  <<60, 139264, 696320>>, <<61, 139264, 696320>>, <<62, 139264, 696320>>}

(* A.3.1: the picture and num_ref_frames of them fit the level.            *)
Admits(row, w, h, refs) ==
  /\ w * h <= row[2] /\ w * w <= 8 * row[2] /\ h * h <= 8 * row[2]
  /\ refs <= row[3] \div (w * h)

(* The lowest level of the table that admits the pictures of pp, with the  *)
(* limit on bi-predicted blocks that levels from 3.1 have; any level of    *)
(* the table if none admits them.                                          *)
LeastLevel(level, pp) ==
  LET fits == {row \in TableA1 :
                 /\ Admits(row, width_mbs(pp), height_mbs(pp),
                           pp.num_ref_frames)
                 /\ pp.MinLumaBiPredSize8x8 = 1 => row[1] >= 31}
  IN  /\ \E row \in TableA1 : row[1] = level
      /\ fits # {} => /\ \E row \in fits : row[1] = level
                      /\ \A row \in fits : level <= row[1]

(* A level of the table whose luma picture size holds that of pp.          *)
HoldsPicture(level, pp) ==
  \E row \in TableA8 :
    /\ row[1] = level
    /\ pp.pic_width_in_luma_samples * pp.pic_height_in_luma_samples <= row[2]
=============================================================================
