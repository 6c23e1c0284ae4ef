--------------------------- MODULE ParameterSets ---------------------------
(***************************************************************************)
(* The parameter sets the driver reconstructs for MPP from VA-API's        *)
(* structures: VPS, SPS and PPS of hevc.c, SPS and PPS of h264.c.          *)
(*                                                                         *)
(* A parameter set is the sequence of its syntax elements, each with its   *)
(* coding: u(n), ue(v) or se(v).  BitSyntax turns elements into bits.  pp  *)
(* and iq are the application's structures, with the C names; a flag is 0  *)
(* or 1, and NoMatrix stands for a null iq.                                *)
(***************************************************************************)
EXTENDS HevcSlice

NoMatrix == <<>>

U(n, v) == [kind |-> "u", n |-> n, v |-> v % 2^n]
UE(v)   == [kind |-> "ue", n |-> 0, v |-> v]
SE(v)   == [kind |-> "se", n |-> 0, v |-> v]

(* A run of fields of pp with the same coding.                             *)
Flags(pp, names) == [i \in DOMAIN names |-> U(1, pp[names[i]])]
UEs(pp, names)   == [i \in DOMAIN names |-> UE(pp[names[i]])]
SEs(pp, names)   == [i \in DOMAIN names |-> SE(pp[names[i]])]

When(condition, elements) == IF condition THEN elements ELSE <<>>

Bit(b) == IF b THEN 1 ELSE 0

(* Deltas of a scaling list, taken into the range of an int8.              *)
Wrapped(delta) == IF delta > 127 THEN delta - 256
                  ELSE IF delta < -128 THEN delta + 256 ELSE delta

DeltaCoded(list, first) ==
  [i \in DOMAIN list |->
     SE(Wrapped(list[i] - (IF i = 1 THEN first ELSE list[i - 1])))]

-----------------------------------------------------------------------------
(***************************************************************************)
(* HEVC: validation.                                                       *)
(***************************************************************************)
hevc_ctb_size(pp) == 2^ctb_log2(pp)

Blocks(samples, size) == (samples + size - 1) \div size
width_ctbs(pp)  == Blocks(pp.pic_width_in_luma_samples, hevc_ctb_size(pp))
height_ctbs(pp) == Blocks(pp.pic_height_in_luma_samples, hevc_ctb_size(pp))

Explicit(sizes, n) ==
  FoldLeft(LAMBDA a, w : a + w + 1, 0, SubSeq(sizes, 1, n))

TilesFit(pp) ==
  /\ pp.num_tile_columns_minus1 < width_ctbs(pp)
  /\ pp.num_tile_rows_minus1 < height_ctbs(pp)
  /\ Explicit(pp.column_width_minus1, pp.num_tile_columns_minus1)
       < width_ctbs(pp)
  /\ Explicit(pp.row_height_minus1, pp.num_tile_rows_minus1)
       < height_ctbs(pp)

PcmFits(pp) ==
  /\ pp.pcm_sample_bit_depth_luma_minus1 <= 15
  /\ pp.pcm_sample_bit_depth_chroma_minus1 <= 15
  /\ pp.log2_min_pcm_luma_coding_block_size_minus3 <= 2
  /\ pp.log2_min_pcm_luma_coding_block_size_minus3
       + pp.log2_diff_max_min_pcm_luma_coding_block_size
       <= ctb_log2(pp) - 3

(* Slip: the quantiser's floor is that of 8-bit video.                     *)
InitQpFits_flat(pp) == pp.init_qp_minus26 \in -26..25

(* The floor of init_qp_minus26 grows with the bit depth.                  *)
InitQpFits(pp) ==
  pp.init_qp_minus26 \in -(26 + 6 * pp.bit_depth_luma_minus8)..25

validate_picture_parameters(pp, iq, profile_idc) ==
  /\ validate_slice_syntax_bounds(pp)
  /\ profile_idc \in {1, 2}
  /\ pp.chroma_format_idc = 1 /\ pp.separate_colour_plane_flag = 0
  /\ pp.sps_max_dec_pic_buffering_minus1 <= 15
  /\ pp.bit_depth_luma_minus8 = pp.bit_depth_chroma_minus8
  /\ pp.bit_depth_luma_minus8 <= (IF profile_idc = 1 THEN 0 ELSE 2)
  /\ pp.log2_min_transform_block_size_minus2 <= 3
  /\ pp.log2_diff_max_min_transform_block_size <= 3
  /\ pp.num_ref_idx_l0_default_active_minus1 <= 14
  /\ pp.num_ref_idx_l1_default_active_minus1 <= 14
  /\ pp.pps_cb_qp_offset \in -12..12 /\ pp.pps_cr_qp_offset \in -12..12
  /\ pp.pps_beta_offset_div2 \in -6..6 /\ pp.pps_tc_offset_div2 \in -6..6
  /\ pp.num_tile_columns_minus1 <= 19 /\ pp.num_tile_rows_minus1 <= 21
  /\ pp.scaling_list_enabled_flag = 1 => iq # NoMatrix
  /\ InitQpFits(pp)
  /\ pp.pic_width_in_luma_samples % 2^min_cb_log2(pp) = 0
  /\ pp.pic_height_in_luma_samples % 2^min_cb_log2(pp) = 0
  /\ pp.log2_parallel_merge_level_minus2 <= ctb_log2(pp) - 2
  /\ pp.cu_qp_delta_enabled_flag = 1 =>
       pp.diff_cu_qp_delta_depth <= pp.log2_diff_max_min_luma_coding_block_size
  /\ pp.pcm_enabled_flag = 1 => PcmFits(pp)
  /\ pp.tiles_enabled_flag = 1 => TilesFit(pp)
  /\ collect_rps(pp).ok

-----------------------------------------------------------------------------
(***************************************************************************)
(* HEVC: the three parameter sets.                                         *)
(***************************************************************************)
HevcLevels == <<<<36864, 30>>, <<122880, 60>>, <<245760, 63>>, <<552960, 90>>,
                <<983040, 93>>, <<2228224, 123>>, <<8912896, 156>>,
                <<35651584, 186>>>>

derive_level_idc(pp) ==
  LET samples == pp.pic_width_in_luma_samples * pp.pic_height_in_luma_samples
      fits    == {i \in DOMAIN HevcLevels : samples <= HevcLevels[i][1]}
  IN  IF fits = {} THEN 186
      ELSE HevcLevels[CHOOSE i \in fits : \A j \in fits : i <= j][2]

write_nal_header(nal_type) == <<U(1, 0), U(6, nal_type), U(6, 0), U(3, 1)>>

(* The 43 reserved bits are u(7), u(1), u(24) and u(11) for Main10.        *)
write_profile_tier_level(pp, profile_idc) ==
  <<U(2, 0), U(1, 0), U(5, profile_idc)>>
    \o [i \in 1..32 |-> U(1, Bit(i - 1 = profile_idc))]
    \o <<U(1, 1 - pp.field_pic), U(1, pp.field_pic), U(1, 1),
         U(1, 1 - pp.field_pic)>>
    \o [i \in 1..43 |-> U(1, 0)]
    \o <<U(1, 0), U(8, derive_level_idc(pp))>>

reorder(pp) == IF pp.NoPicReorderingFlag = 1 THEN 0
               ELSE pp.sps_max_dec_pic_buffering_minus1

write_vps(pp, profile_idc) ==
  write_nal_header(32)
    \o <<U(4, 0), U(1, 1), U(1, 1), U(6, 0), U(3, 0), U(1, 1), U(16, 65535)>>
    \o write_profile_tier_level(pp, profile_idc)
    \o <<U(1, 0), UE(pp.sps_max_dec_pic_buffering_minus1), UE(reorder(pp)),
         UE(0), U(6, 0), UE(0), U(1, 0), U(1, 0)>>

write_sps(pp, profile_idc) ==
  write_nal_header(33)
    \o <<U(4, 0), U(3, 0), U(1, 1)>>
    \o write_profile_tier_level(pp, profile_idc)
    \o <<UE(0), UE(pp.chroma_format_idc), UE(pp.pic_width_in_luma_samples),
         UE(pp.pic_height_in_luma_samples), U(1, 0),
         UE(pp.bit_depth_luma_minus8), UE(pp.bit_depth_chroma_minus8),
         UE(pp.poc_bits - 4), U(1, 0),
         UE(pp.sps_max_dec_pic_buffering_minus1), UE(reorder(pp)), UE(0)>>
    \o UEs(pp, <<"log2_min_luma_coding_block_size_minus3",
                 "log2_diff_max_min_luma_coding_block_size",
                 "log2_min_transform_block_size_minus2",
                 "log2_diff_max_min_transform_block_size",
                 "max_transform_hierarchy_depth_inter",
                 "max_transform_hierarchy_depth_intra">>)
    \o Flags(pp, <<"scaling_list_enabled_flag">>)
    \o When(pp.scaling_list_enabled_flag = 1, <<U(1, 0)>>)
    \o Flags(pp, <<"amp_enabled_flag", "sample_adaptive_offset_enabled_flag",
                   "pcm_enabled_flag">>)
    \o When(pp.pcm_enabled_flag = 1,
         <<U(4, pp.pcm_sample_bit_depth_luma_minus1),
           U(4, pp.pcm_sample_bit_depth_chroma_minus1),
           UE(pp.log2_min_pcm_luma_coding_block_size_minus3),
           UE(pp.log2_diff_max_min_pcm_luma_coding_block_size),
           U(1, pp.pcm_loop_filter_disabled_flag)>>)
    \o <<UE(0), U(1, Bit(pp.long_term_present))>>
    \o When(pp.long_term_present, <<UE(0)>>)
    \o Flags(pp, <<"sps_temporal_mvp_enabled_flag",
                   "strong_intra_smoothing_enabled_flag">>)
    \o <<U(1, 0), U(1, 0)>>

(* Spans of a picture of n blocks divided evenly into parts.               *)
EvenSpan(n, parts, i) == ((i * n) \div parts) - (((i - 1) * n) \div parts)

SpacedEvenly(sizes, n, parts) ==
  \A i \in 1..(parts - 1) : sizes[i] = EvenSpan(n, parts, i) - 1

tile_spacing_is_uniform(pp) ==
  /\ SpacedEvenly(pp.column_width_minus1, width_ctbs(pp),
                  pp.num_tile_columns_minus1 + 1)
  /\ SpacedEvenly(pp.row_height_minus1, height_ctbs(pp),
                  pp.num_tile_rows_minus1 + 1)

diag4x4_x == <<0, 0, 1, 0, 1, 2, 0, 1, 2, 3, 1, 2, 3, 2, 3, 3>>
diag4x4_y == <<0, 1, 0, 2, 1, 0, 3, 2, 1, 0, 3, 2, 1, 3, 2, 3>>
diag8x8_x == <<
  0, 0, 1, 0, 1, 2, 0, 1, 2, 3, 0, 1, 2, 3, 4, 0,
  1, 2, 3, 4, 5, 0, 1, 2, 3, 4, 5, 6, 0, 1, 2, 3,
  4, 5, 6, 7, 1, 2, 3, 4, 5, 6, 7, 2, 3, 4, 5, 6,
  7, 3, 4, 5, 6, 7, 4, 5, 6, 7, 5, 6, 7, 6, 7, 7>>
diag8x8_y == <<
  0, 1, 0, 2, 1, 0, 3, 2, 1, 0, 4, 3, 2, 1, 0, 5,
  4, 3, 2, 1, 0, 6, 5, 4, 3, 2, 1, 0, 7, 6, 5, 4,
  3, 2, 1, 0, 7, 6, 5, 4, 3, 2, 1, 7, 6, 5, 4, 3,
  2, 7, 6, 5, 4, 3, 7, 6, 5, 4, 7, 6, 5, 7, 6, 7>>

(* iq.lists[size_id][matrix_id] is a matrix in raster order, counted from  *)
(* 1, and iq.dc[size_id][matrix_id] its first coefficient (8 for the two   *)
(* small sizes).  32x32 has two matrices, written for ids 0 and 3.         *)
MatrixIds(size_id) == IF size_id = 3 THEN <<1, 2>> ELSE <<1, 2, 3, 4, 5, 6>>

Scanned(matrix, size_id) ==
  [i \in 1..(IF size_id = 0 THEN 16 ELSE 64) |->
     matrix[1 + (IF size_id = 0 THEN 4 * diag4x4_y[i] + diag4x4_x[i]
                                ELSE 8 * diag8x8_y[i] + diag8x8_x[i])]]

write_scaling_matrix(iq, size_id, id) ==
  LET dc == IF size_id > 1 THEN iq.dc[size_id][id] ELSE 8
  IN  <<U(1, 1)>> \o When(size_id > 1, <<SE(dc - 8)>>)
        \o DeltaCoded(Scanned(iq.lists[size_id][id], size_id), dc)

ScalingListsWritable(iq) ==
  \A size_id \in {2, 3} : \A id \in ToSet(MatrixIds(size_id)) :
    iq.dc[size_id][id] # 0

write_scaling_lists(iq) ==
  FlattenSeq([s \in 1..4 |->
    FlattenSeq([i \in DOMAIN MatrixIds(s - 1) |->
      write_scaling_matrix(iq, s - 1, i)])])

(* Slip: offsets alone do not make the control syntax present.             *)
deblock_present_flags(pp) ==
  \/ pp.deblocking_filter_override_enabled_flag = 1
  \/ pp.pps_disable_deblocking_filter_flag = 1

deblock_present(pp) ==
  \/ pp.deblocking_filter_override_enabled_flag = 1
  \/ pp.pps_disable_deblocking_filter_flag = 1
  \/ pp.pps_beta_offset_div2 # 0
  \/ pp.pps_tc_offset_div2 # 0

write_tiles(pp) ==
  LET uniform == tile_spacing_is_uniform(pp)
  IN  <<UE(pp.num_tile_columns_minus1), UE(pp.num_tile_rows_minus1),
        U(1, Bit(uniform))>>
      \o When(~uniform,
           [i \in 1..pp.num_tile_columns_minus1 |->
              UE(pp.column_width_minus1[i])]
           \o [i \in 1..pp.num_tile_rows_minus1 |->
                 UE(pp.row_height_minus1[i])])
      \o Flags(pp, <<"loop_filter_across_tiles_enabled_flag">>)

write_pps(pp, iq, pps_id) ==
  write_nal_header(34)
    \o <<UE(pps_id), UE(0), U(1, Bit(pp.dependent_enabled)),
         U(1, Bit(pp.output_flag_present)), U(3, pp.num_extra_bits)>>
    \o Flags(pp, <<"sign_data_hiding_enabled_flag",
                   "cabac_init_present_flag">>)
    \o UEs(pp, <<"num_ref_idx_l0_default_active_minus1",
                 "num_ref_idx_l1_default_active_minus1">>)
    \o SEs(pp, <<"init_qp_minus26">>)
    \o Flags(pp, <<"constrained_intra_pred_flag",
                   "transform_skip_enabled_flag", "cu_qp_delta_enabled_flag">>)
    \o When(pp.cu_qp_delta_enabled_flag = 1,
            <<UE(pp.diff_cu_qp_delta_depth)>>)
    \o SEs(pp, <<"pps_cb_qp_offset", "pps_cr_qp_offset">>)
    \o Flags(pp, <<"pps_slice_chroma_qp_offsets_present_flag",
                   "weighted_pred_flag", "weighted_bipred_flag",
                   "transquant_bypass_enabled_flag", "tiles_enabled_flag",
                   "entropy_coding_sync_enabled_flag">>)
    \o When(pp.tiles_enabled_flag = 1, write_tiles(pp))
    \o <<U(1, pp.pps_loop_filter_across_slices_enabled_flag),
         U(1, Bit(deblock_present(pp)))>>
    \o When(deblock_present(pp),
         Flags(pp, <<"deblocking_filter_override_enabled_flag",
                     "pps_disable_deblocking_filter_flag">>)
         \o When(pp.pps_disable_deblocking_filter_flag = 0,
                 SEs(pp, <<"pps_beta_offset_div2", "pps_tc_offset_div2">>)))
    \o Flags(pp, <<"scaling_list_enabled_flag">>)
    \o When(pp.scaling_list_enabled_flag = 1, write_scaling_lists(iq))
    \o <<U(1, pp.lists_modification_present_flag),
         UE(pp.log2_parallel_merge_level_minus2),
         U(1, pp.slice_segment_header_extension_present_flag), U(1, 0)>>

rk_hevc_write_sequence_parameter_sets(pp, iq, profile_idc) ==
  IF ~validate_picture_parameters(pp, iq, profile_idc) THEN Refused
  ELSE <<write_vps(pp, profile_idc), write_sps(pp, profile_idc)>>

rk_hevc_write_picture_parameter_set(pp, iq, pps_id, profile_idc) ==
  IF \/ pps_id > 63
     \/ ~validate_picture_parameters(pp, iq, profile_idc)
     \/ pp.scaling_list_enabled_flag = 1 /\ ~ScalingListsWritable(iq)
    THEN Refused
    ELSE <<write_pps(pp, iq, pps_id)>>

-----------------------------------------------------------------------------
(***************************************************************************)
(* H.264.                                                                  *)
(***************************************************************************)

(* level_idc, MaxFS and MaxDpbMbs.                                         *)
h264_level_limits == <<
  <<10,     99,    396>>, <<11,    396,    900>>, <<12,    396,   2376>>,
  <<21,    792,   4752>>, <<22,   1620,   8100>>, <<31,   3600,  18000>>,
  <<32,   5120,  20480>>, <<40,   8192,  32768>>, <<42,   8704,  34816>>,
  <<50,  22080, 110400>>, <<51,  36864, 184320>>, <<60, 139264, 696320>>>>

width_mbs(pp)  == pp.picture_width_in_mbs_minus1 + 1
height_mbs(pp) == pp.picture_height_in_mbs_minus1 + 1

(* Slip: the reference frames are not counted.                             *)
LevelFits_frame(pp, limit) ==
  /\ pp.MinLumaBiPredSize8x8 = 1 => limit[1] >= 31
  /\ width_mbs(pp) * height_mbs(pp) <= limit[2]
  /\ width_mbs(pp) * width_mbs(pp) <= 8 * limit[2]
  /\ height_mbs(pp) * height_mbs(pp) <= 8 * limit[2]

LevelFits(pp, limit) ==
  /\ pp.MinLumaBiPredSize8x8 = 1 => limit[1] >= 31
  /\ width_mbs(pp) * height_mbs(pp) <= limit[2]
  /\ width_mbs(pp) * width_mbs(pp) <= 8 * limit[2]
  /\ height_mbs(pp) * height_mbs(pp) <= 8 * limit[2]
  /\ width_mbs(pp) * height_mbs(pp) * pp.num_ref_frames <= limit[3]

h264_derive_level_idc(pp) ==
  LET fits == {i \in DOMAIN h264_level_limits :
                 LevelFits(pp, h264_level_limits[i])}
  IN  IF fits = {} THEN 62
      ELSE h264_level_limits[CHOOSE i \in fits : \A j \in fits : i <= j][1]

HighProfiles == {44, 83, 86, 100, 110, 118, 122, 128, 244}

h264_write_sps(pp, profile_idc) ==
  <<U(8, 103), U(8, profile_idc), U(1, Bit(profile_idc = 66)),
    U(1, Bit(profile_idc \in {66, 77})), U(1, 0), U(5, 0),
    U(8, h264_derive_level_idc(pp)), UE(0)>>
    \o When(profile_idc \in HighProfiles,
         <<UE(pp.chroma_format_idc)>>
         \o When(pp.chroma_format_idc = 3,
                 <<U(1, pp.residual_colour_transform_flag)>>)
         \o <<UE(pp.bit_depth_luma_minus8), UE(pp.bit_depth_chroma_minus8),
              U(1, 0), U(1, 0)>>)
    \o UEs(pp, <<"log2_max_frame_num_minus4", "pic_order_cnt_type">>)
    \o When(pp.pic_order_cnt_type = 0,
            UEs(pp, <<"log2_max_pic_order_cnt_lsb_minus4">>))
    \o When(pp.pic_order_cnt_type = 1,
            <<U(1, pp.delta_pic_order_always_zero_flag), SE(0), SE(0), UE(0)>>)
    \o <<UE(pp.num_ref_frames), U(1, pp.gaps_in_frame_num_value_allowed_flag),
         UE(pp.picture_width_in_mbs_minus1),
         UE(IF pp.frame_mbs_only_flag = 1
              THEN pp.picture_height_in_mbs_minus1
              ELSE height_mbs(pp) \div 2 - 1),
         U(1, pp.frame_mbs_only_flag)>>
    \o When(pp.frame_mbs_only_flag = 0,
            <<U(1, pp.mb_adaptive_frame_field_flag)>>)
    \o <<U(1, pp.direct_8x8_inference_flag), U(1, 0), U(1, 0)>>

scan4x4 == <<0, 1, 4, 8, 5, 2, 3, 6, 9, 12, 13, 10, 7, 11, 14, 15>>
scan8x8 == <<
   0,  1,  8, 16,  9,  2,  3, 10, 17, 24, 32, 25, 18, 11,  4,  5,
  12, 19, 26, 33, 40, 48, 41, 34, 27, 20, 13,  6,  7, 14, 21, 28,
  35, 42, 49, 56, 57, 50, 43, 36, 29, 22, 15, 23, 30, 37, 44, 51,
  58, 59, 52, 45, 38, 31, 39, 46, 53, 60, 61, 54, 47, 55, 62, 63>>

(* A list with a zero in it cannot be written: a zero ends a coded list.   *)
ListWritable(list) == 0 \notin ToSet(list)

write_scaling_list(list, scan) ==
  <<U(1, 1)>> \o DeltaCoded([i \in DOMAIN scan |-> list[1 + scan[i]]], 8)

(* The lists the PPS carries: 8x8 ones only for the 8x8 transform.         *)
PpsLists(pp, iq) ==
  [i \in 1..6 |-> [list |-> iq.list4x4[i], scan |-> scan4x4]]
    \o When(pp.transform_8x8_mode_flag = 1,
            [i \in 1..2 |-> [list |-> iq.list8x8[i], scan |-> scan8x8]])

pps_extended(pp, iq) ==
  \/ iq # NoMatrix
  \/ pp.transform_8x8_mode_flag = 1
  \/ pp.second_chroma_qp_index_offset # pp.chroma_qp_index_offset

AtLeastZero(n) == IF n < 0 THEN 0 ELSE n

h264_write_pps(pp, iq, l0, l1) ==
  LET lists == IF iq = NoMatrix THEN <<>> ELSE PpsLists(pp, iq)
  IN  IF \E i \in DOMAIN lists : ~ListWritable(lists[i].list) THEN Refused
      ELSE <<U(8, 104), UE(0), UE(0), U(1, pp.entropy_coding_mode_flag),
             U(1, pp.pic_order_present_flag), UE(0), UE(AtLeastZero(l0)),
             UE(AtLeastZero(l1)), U(1, pp.weighted_pred_flag),
             U(2, pp.weighted_bipred_idc)>>
           \o SEs(pp, <<"pic_init_qp_minus26", "pic_init_qs_minus26",
                        "chroma_qp_index_offset">>)
           \o Flags(pp, <<"deblocking_filter_control_present_flag",
                          "constrained_intra_pred_flag",
                          "redundant_pic_cnt_present_flag">>)
           \o When(pps_extended(pp, iq),
                <<U(1, pp.transform_8x8_mode_flag), U(1, Bit(iq # NoMatrix))>>
                \o FlattenSeq([i \in DOMAIN lists |->
                     write_scaling_list(lists[i].list, lists[i].scan)])
                \o SEs(pp, <<"second_chroma_qp_index_offset">>))
=============================================================================
