----------------------------- MODULE Vp9Header -----------------------------
(***************************************************************************)
(* vp9.c: the start of a VP9 frame header, from which the driver learns    *)
(* whether the frame is shown and which reference slots it refreshes, and  *)
(* the one-byte packet that shows a slot again.                            *)
(***************************************************************************)
EXTENDS BitSyntax

NoInfo == [parsed |-> FALSE]

SyncCode == 4817730       \* 0x498342

(* read_profile reads the two bits of the profile, and behind profile 3 a  *)
(* reserved one; skip_color_config reads bit depth, space and range.       *)
FrameElements ==
  <<"frame_marker", "profile_low_bit", "profile_high_bit", "reserved_zero",
    "show_existing_frame", "frame_to_show_map_idx", "frame_type",
    "show_frame", "error_resilient_mode", "intra_only",
    "reset_frame_context", "frame_sync_code", "high_bit_depth",
    "color_space", "color_range", "refresh_frame_flags">>

Profile(v) == v.profile_low_bit + 2 * v.profile_high_bit

(* A frame that is not a key frame.                                        *)
Inter(v) == v.show_existing_frame = 0 /\ v.frame_type = 1

(* Key frames and intra-only frames carry the sync code and, but for       *)
(* profile 0, the colour configuration.                                    *)
Synced(v) == /\ v.show_existing_frame = 0
             /\ v.frame_type = 0 \/ v.intra_only = 1

(* Slip: a hidden frame is taken to have no reset_frame_context.           *)
reset_bits_if_shown(v) ==
  If(Inter(v) /\ v.error_resilient_mode = 0 /\ v.show_frame = 1, Fixed(2))

reset_bits(v) == If(Inter(v) /\ v.error_resilient_mode = 0, Fixed(2))

Vp9Coding(e, v) ==
  CASE e = "frame_marker" -> Fixed(2)
    [] e = "reserved_zero" -> If(Profile(v) = 3, Fixed(1))
    [] e = "frame_to_show_map_idx" -> If(v.show_existing_frame = 1, Fixed(3))
    [] e \in {"frame_type", "show_frame", "error_resilient_mode"} ->
         If(v.show_existing_frame = 0, Fixed(1))
    [] e = "intra_only" -> If(Inter(v) /\ v.show_frame = 0, Fixed(1))
    [] e = "reset_frame_context" -> reset_bits(v)
    [] e = "frame_sync_code" -> If(Synced(v), Fixed(24))
    [] e = "high_bit_depth" -> If(Synced(v) /\ Profile(v) >= 2, Fixed(1))
    [] e = "color_space" -> If(Synced(v) /\ Profile(v) > 0, Fixed(3))
    [] e = "color_range" -> If(Synced(v) /\ Profile(v) > 0, Fixed(1))
    [] e = "refresh_frame_flags" -> If(Inter(v), Fixed(8))
    [] OTHER -> Fixed(1)

(* The values the parser rejects.                                          *)
Vp9Accepts(e, v, profile) ==
  CASE e = "frame_marker" -> v[e] = 2
    [] e = "reserved_zero" -> v[e] = 0 /\ Profile(v) = profile
    [] e = "frame_sync_code" -> Synced(v) => v[e] = SyncCode
    [] e = "high_bit_depth" -> v[e] = 0
    [] e = "color_space" -> v[e] # 7
    [] OTHER -> TRUE

(* Key frames refresh all eight slots.                                     *)
rk_vp9_parse_frame(bits, profile) ==
  LET br == read_elements(Reader(bits), FrameElements, Vp9Coding,
                          LAMBDA e, v : Vp9Accepts(e, v, profile))
      existing == br.v.show_existing_frame = 1
  IN  IF profile \notin {0, 2} \/ ~br.ok THEN NoInfo
      ELSE [parsed                |-> TRUE,
            show_existing_frame   |-> existing,
            show_frame            |-> existing \/ br.v.show_frame = 1,
            frame_to_show_map_idx |-> br.v.frame_to_show_map_idx,
            refresh_frame_flags   |->
              IF ~existing /\ br.v.frame_type = 0 THEN 255
                                                  ELSE br.v.refresh_frame_flags]

(* 0x88 holds the frame marker and show_existing_frame, 0x10 profile 2.    *)
rk_vp9_make_show_existing(profile, slot) ==
  IF profile \notin {0, 2} \/ slot >= 8 THEN <<>>
  ELSE <<136 + (IF profile = 2 THEN 16 ELSE 0) + slot>>
=============================================================================
