---------------------------- MODULE MCBitstream ----------------------------
(***************************************************************************)
(* Small sets of inputs for Bitstream: HEVC pictures that vary the slice,  *)
(* HEVC and H.264 pictures that vary two groups of parameters at a time,   *)
(* every shape of VP9 header, and all payloads of a few critical bytes.    *)
(***************************************************************************)
EXTENDS Bitstream

(* Records that differ from base in up to two of the given groups.         *)
Varied(base, groups) ==
  {base} \cup {a @@ b @@ base : a \in groups, b \in groups}

Zeroed(names) == [name \in names |-> 0]

-----------------------------------------------------------------------------
(* HEVC parameters.                                                        *)
HevcBase ==
  [poc |-> 37, CurrPic |-> [valid |-> TRUE], ReferenceFrames |-> <<>>,
   poc_bits |-> 4, num_st_sets |-> 3, st_rps_bits |-> 0, num_lt_sps |-> 0, long_term_present |-> FALSE,
   dependent_enabled |-> FALSE, output_flag_present |-> FALSE,
   num_extra_bits |-> 0, pic_ctbs |-> 15, field_pic |-> 0,
   chroma_format_idc |-> 1, separate_colour_plane_flag |-> 0,
   pic_width_in_luma_samples |-> 80,
   pic_height_in_luma_samples |-> 48,
   log2_diff_max_min_luma_coding_block_size |-> 1,
   sps_max_dec_pic_buffering_minus1 |-> 4, init_qp_minus26 |-> -3,
   column_width_minus1 |-> <<>>, row_height_minus1 |-> <<>>]
  @@ Zeroed(PcmNames \cup (TileNames \ {"uniform_spacing_flag"}) \cup
      {"bit_depth_luma_minus8", "bit_depth_chroma_minus8",
       "log2_min_luma_coding_block_size_minus3",
       "log2_min_transform_block_size_minus2",
       "log2_diff_max_min_transform_block_size",
       "max_transform_hierarchy_depth_inter",
       "max_transform_hierarchy_depth_intra", "scaling_list_enabled_flag",
       "amp_enabled_flag", "sample_adaptive_offset_enabled_flag",
       "pcm_enabled_flag", "sps_temporal_mvp_enabled_flag",
       "strong_intra_smoothing_enabled_flag", "NoPicReorderingFlag",
       "sign_data_hiding_enabled_flag", "cabac_init_present_flag",
       "num_ref_idx_l0_default_active_minus1",
       "num_ref_idx_l1_default_active_minus1", "constrained_intra_pred_flag",
       "transform_skip_enabled_flag", "cu_qp_delta_enabled_flag",
       "diff_cu_qp_delta_depth", "pps_cb_qp_offset", "pps_cr_qp_offset",
       "pps_slice_chroma_qp_offsets_present_flag", "weighted_pred_flag",
       "weighted_bipred_flag", "transquant_bypass_enabled_flag",
       "tiles_enabled_flag", "entropy_coding_sync_enabled_flag",
       "pps_loop_filter_across_slices_enabled_flag",
       "deblocking_filter_override_enabled_flag",
       "pps_disable_deblocking_filter_flag", "pps_beta_offset_div2",
       "pps_tc_offset_div2", "lists_modification_present_flag",
       "log2_parallel_merge_level_minus2",
       "slice_segment_header_extension_present_flag"})

HevcGroups == {
  [CurrPic |-> [valid |-> FALSE]],
  [tiles_enabled_flag |-> 1, num_tile_columns_minus1 |-> 1,
   column_width_minus1 |-> <<1>>, num_tile_rows_minus1 |-> 1,
   row_height_minus1 |-> <<0>>],
  [tiles_enabled_flag |-> 1, num_tile_columns_minus1 |-> 2,
   column_width_minus1 |-> <<0, 1>>,
   loop_filter_across_tiles_enabled_flag |-> 1],
  [tiles_enabled_flag |-> 1, num_tile_columns_minus1 |-> 2,
   column_width_minus1 |-> <<0, 0>>],
  [tiles_enabled_flag |-> 1, num_tile_columns_minus1 |-> 1,
   column_width_minus1 |-> <<2>>, num_tile_rows_minus1 |-> 1,
   row_height_minus1 |-> <<1>>],
  [pps_beta_offset_div2 |-> -6],
  [pps_tc_offset_div2 |-> 2, pps_disable_deblocking_filter_flag |-> 1],
  [deblocking_filter_override_enabled_flag |-> 1],
  [pcm_enabled_flag |-> 1, pcm_sample_bit_depth_luma_minus1 |-> 7,
   log2_diff_max_min_pcm_luma_coding_block_size |-> 1,
   pcm_loop_filter_disabled_flag |-> 1],
  [cu_qp_delta_enabled_flag |-> 1, diff_cu_qp_delta_depth |-> 1],
  [pps_cb_qp_offset |-> -12, pps_cr_qp_offset |-> 12],
  [long_term_present |-> TRUE, num_lt_sps |-> 2],
  [NoPicReorderingFlag |-> 1, field_pic |-> 1],
  [weighted_pred_flag |-> 1, transquant_bypass_enabled_flag |-> 1,
   amp_enabled_flag |-> 1, sps_temporal_mvp_enabled_flag |-> 1],
  [dependent_enabled |-> TRUE, num_extra_bits |-> 2,
   output_flag_present |-> TRUE],
  [pic_width_in_luma_samples |-> 1920, pic_height_in_luma_samples |-> 1088,
   pic_ctbs |-> 8160, log2_parallel_merge_level_minus2 |-> 2]}

(* Matrices that ramp, that jump across the range of a byte, or hold a     *)
(* zero.                                                                   *)
Ramp(n)  == [p \in 1..n |-> 1 + ((7 * p) % 255)]
Jumps(n) == [p \in 1..n |-> IF p % 2 = 0 THEN 255 ELSE 1 + (p % 128)]
HevcMatrix(f, dc) ==
  [lists |-> [s \in 0..3 |-> [i \in 1..(IF s = 3 THEN 2 ELSE 6) |->
                IF s = 0 THEN SubSeq(f, 1, 16) ELSE f]],
   dc    |-> [s \in 2..3 |-> [i \in 1..(IF s = 3 THEN 2 ELSE 6) |->
                IF i = 2 THEN dc ELSE 16]]]

NoRefs == [before |-> <<>>, after |-> <<>>, lt |-> <<>>, from_sps |-> 0]

PlainSlice ==
  NoRefs @@ [type |-> 1, first |-> TRUE, pps_id |-> 9, dependent |-> FALSE,
             address |-> 0, slice_type |-> 1, poc |-> 37, st_in_sps |-> TRUE,
             tail |-> <<1, 0>>, data |-> <<77, 128>>]

HevcOf(pp, iq, profile, sl, start) ==
  [pp |-> pp, iq |-> iq, profile_idc |-> profile, sl |-> sl,
   start_code |-> start]

ParameterPictures ==
  {HevcOf(pp, NoMatrix, 1, PlainSlice, <<>>) :
     pp \in Varied(HevcBase, HevcGroups)}
  \cup {HevcOf([scaling_list_enabled_flag |-> 1] @@ HevcBase,
               HevcMatrix(f, dc), 1, PlainSlice, <<0, 0, 1>>) :
          f \in {Ramp(64), Jumps(64)}, dc \in {0, 1, 135, 136, 255}}
  \cup {HevcOf([bit_depth_luma_minus8 |-> 2, bit_depth_chroma_minus8 |-> 2,
                init_qp_minus26 |-> qp] @@ HevcBase, NoMatrix, 2, PlainSlice,
               <<>>) : qp \in {-38, -27, 0, 25}}

-----------------------------------------------------------------------------
(* HEVC slices and the references the application reports for them.        *)
Short == {[before |-> <<>>, after |-> <<>>],
          [before |-> <<[delta |-> 1, used |-> TRUE],
                        [delta |-> 4, used |-> FALSE]>>,
           after |-> <<[delta |-> 2, used |-> TRUE]>>]}

Lt(poc, used, msb) == [poc |-> poc, used |-> used, msb |-> msb]

Long == {[lt |-> <<>>, from_sps |-> 0],
         [lt |-> <<Lt(33, TRUE, FALSE), Lt(18, TRUE, TRUE)>>, from_sps |-> 0],
         [lt |-> <<Lt(18, TRUE, TRUE), Lt(3, FALSE, TRUE)>>, from_sps |-> 0],
         [lt |-> <<Lt(3, TRUE, TRUE), Lt(18, TRUE, TRUE)>>, from_sps |-> 1],
         [lt |-> <<Lt(20, FALSE, TRUE), Lt(19, TRUE, TRUE), Lt(-5, TRUE, TRUE)>>,
          from_sps |-> 2]}

(* ReferenceFrames in either order, with an unused entry between.          *)
Unused == [poc |-> 0, valid |-> FALSE, long |-> FALSE, rps |-> {}]

Frames(sl) ==
  LET St(list, sign, flag) ==
        [i \in DOMAIN list |->
           [poc |-> sl.poc + sign * list[i].delta, valid |-> TRUE,
            long |-> FALSE, rps |-> IF list[i].used THEN {flag} ELSE {}]]
      lt == [i \in DOMAIN sl.lt |->
               [poc |-> sl.lt[i].poc, valid |-> TRUE, long |-> TRUE,
                rps |-> IF sl.lt[i].used THEN {"lt"} ELSE {}]]
      all == lt \o <<Unused>> \o St(sl.after, 1, "after")
               \o St(sl.before, -1, "before")
  IN  {all, Reverse(all)}

SliceShapes ==
  {[type |-> 1], [type |-> 21], [type |-> 19],
   [type |-> 1, first |-> FALSE, address |-> 9],
   [type |-> 0, first |-> FALSE, dependent |-> TRUE, address |-> 14]}

Ends == {[tail |-> <<>>, data |-> <<128>>],
         [tail |-> <<0, 1, 1>>, data |-> <<0, 0, 0, 1, 0, 0, 3, 9>>],
         [tail |-> [i \in 1..21 |-> 0], data |-> <<0, 1, 255>>]}

SliceOf(shape, short, long, end, in_sps) ==
  shape @@ short @@ long @@ end @@ [st_in_sps |-> in_sps] @@ PlainSlice

Sliced(sl, lt_sps, dep) ==
  LET pp == [long_term_present |-> lt_sps >= 0,
             num_lt_sps |-> IF lt_sps >= 0 THEN lt_sps ELSE 0,
             dependent_enabled |-> dep, output_flag_present |-> dep,
             num_extra_bits |-> IF dep THEN 1 ELSE 0] @@ HevcBase
      bits == IF sl.st_in_sps THEN 0 ELSE Len(ShortTermBits(sl, pp))
  IN  {HevcOf([ReferenceFrames |-> frames, st_rps_bits |-> bits] @@ pp,
              NoMatrix, 1, sl,
              IF dep THEN <<0, 0, 0, 1>> ELSE <<0, 0, 1>>) :
         frames \in Frames(sl)}

(* Every shape and end, and every set of references.                       *)
SlicePictures ==
  UNION {Sliced(SliceOf(shape, short, [lt |-> <<>>, from_sps |-> 0], end, TRUE),
                -1, dep) :
           shape \in SliceShapes, short \in Short, end \in Ends,
           dep \in BOOLEAN}
  \cup
  UNION {Sliced(SliceOf([type |-> 1], short, long,
                        CHOOSE end \in Ends : Len(end.tail) = 3, in_sps),
                lt_sps, dep) :
           short \in Short, long \in Long, in_sps \in BOOLEAN,
           lt_sps \in {2, 3}, dep \in BOOLEAN}

MCHevcPictures ==
  ParameterPictures
  \cup {c \in SlicePictures : c.sl.dependent => c.pp.dependent_enabled}

-----------------------------------------------------------------------------
(* H.264.                                                                  *)
AvcBase ==
  [num_ref_frames |-> 4, picture_width_in_mbs_minus1 |-> 10,
   picture_height_in_mbs_minus1 |-> 7, frame_mbs_only_flag |-> 1,
   MinLumaBiPredSize8x8 |-> 0, chroma_format_idc |-> 1,
   residual_colour_transform_flag |-> 0, chroma_qp_index_offset |-> -2,
   second_chroma_qp_index_offset |-> -2, transform_8x8_mode_flag |-> 0]
  @@ Zeroed(UNION {Names(row.elements) :
                     row \in ToSet(AvcSpsTable \o AvcPpsTable)}
            \ {"num_ref_idx_l0_default_active_minus1",
               "num_ref_idx_l1_default_active_minus1", "nal_header",
               "profile_idc", "level_idc", "pic_height_in_map_units_minus1",
               "constraint_set0_flag", "constraint_set1_flag"})

AvcGroups == {
  [pic_order_cnt_type |-> 1, delta_pic_order_always_zero_flag |-> 1],
  [pic_order_cnt_type |-> 2],
  [log2_max_pic_order_cnt_lsb_minus4 |-> 5, log2_max_frame_num_minus4 |-> 12],
  [frame_mbs_only_flag |-> 0, mb_adaptive_frame_field_flag |-> 1,
   direct_8x8_inference_flag |-> 1],
  [transform_8x8_mode_flag |-> 1],
  [second_chroma_qp_index_offset |-> 3],
  [pic_init_qp_minus26 |-> -26, weighted_bipred_idc |-> 2],
  [picture_width_in_mbs_minus1 |-> 119, picture_height_in_mbs_minus1 |-> 67],
  [picture_width_in_mbs_minus1 |-> 399, picture_height_in_mbs_minus1 |-> 3],
  [num_ref_frames |-> 16], [num_ref_frames |-> 0],
  [MinLumaBiPredSize8x8 |-> 1]}

AvcMatrix(f, g) == [list4x4 |-> [i \in 1..6 |-> SubSeq(f, 1, 16)],
                    list8x8 |-> [i \in 1..2 |-> g]]

AvcOf(pp, iq, profile, l0) ==
  [pp |-> pp, iq |-> iq, profile_idc |-> profile, l0 |-> l0, l1 |-> 3]

MCAvcPictures ==
  {AvcOf(pp, NoMatrix, profile, l0) :
     pp \in Varied(AvcBase, AvcGroups), profile \in {66, 77, 100},
     l0 \in {-1, 2}}
  \cup {AvcOf(t @@ AvcBase, AvcMatrix(f, g), profile, 0) :
          profile \in {66, 77, 100},
          t \in {[transform_8x8_mode_flag |-> 0],
                 [transform_8x8_mode_flag |-> 1]},
          f \in {Ramp(64), Jumps(64)},
          g \in {Jumps(64), [p \in 1..64 |-> p - 1]}}

-----------------------------------------------------------------------------
MCVp9Frames ==
  [profile : {0, 2}, existing : BOOLEAN, slot : {0, 5, 7}, key : BOOLEAN,
   show : BOOLEAN, error : BOOLEAN, intra : BOOLEAN, reset : {0, 2},
   refresh : {0, 1, 96, 255}, space : {2}, rest : {<<1, 0, 1>>}]

MCPayloads == BoundedSeq({0, 1, 3, 4}, 6)
=============================================================================
