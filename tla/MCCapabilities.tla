--------------------------- MODULE MCCapabilities ---------------------------
(***************************************************************************)
(* Every value the gates know, none, and names they do not; widths around  *)
(* RGA3's minimum and the largest one.                                     *)
(***************************************************************************)
EXTENDS Capabilities

MCProfileSettings == {"unset", "0", "1", "all", "hevc-main10",
                      "vp9-profile2", "hevc-main10,vp9-profile2"}

MCEncodeSettings == {<<>>, <<"0">>, <<"1">>, <<"all">>, <<"h264">>,
                     <<"hevc">>, <<"vp9", "hevc">>, <<"h264", "hevc">>}
=============================================================================
