---------------------------- MODULE Capabilities ----------------------------
(***************************************************************************)
(* The negotiation of an application with the driver: it asks for profiles,*)
(* entrypoints, configuration attributes and surface attributes            *)
(* (rockchip_drv_video.c), makes a config, surfaces (surface.c) and a      *)
(* context (context.c) out of the answers, and begins a picture on it.     *)
(* What one function advertises another one has to accept.                 *)
(***************************************************************************)
EXTENDS Integers, Sequences, SequencesExt, FiniteSets

CONSTANTS
  ProfileSettings,   \* values of RK_VAAPI_EXPERIMENTAL_PROFILES
  EncodeSettings,    \* values of RK_VAAPI_EXPERIMENTAL_ENCODE, as lists
  HaveRga,           \* RK_HAVE_RGA
  Widths,            \* picture widths asked for
  RK_MAX_WIDTH,
  MaxAttribs         \* bound: attributes of one config

VARIABLES
  env,      \* the two settings
  offered,  \* what the driver has advertised to the application so far
  config,   \* the config, or NoConfig
  surface,  \* the surface, or NoSurface
  context,  \* the context's width, or 0
  answer    \* ghost: <<call, what came of it, what was promised>>, the last

(* The limit on widths is whole macroblocks (8192 in driver_internal.h).   *)
ASSUME CapabilityAssumption ==
  /\ RK_MAX_WIDTH \in Nat \ {0} /\ RK_MAX_WIDTH % 16 = 0
  /\ Widths \subseteq Nat \ {0}
  /\ HaveRga \in BOOLEAN
  /\ MaxAttribs \in Nat

negotiationVars == <<env, offered, config, surface, context, answer>>

TenBitProfiles == {"HEVCMain10", "VP9Profile2"}
Profiles == {"H264Main", "H264High", "VP9Profile0", "HEVCMain"}
            \cup TenBitProfiles
Others   == {"H264ConstrainedBaseline", "VP8Version0_3"}
Rgb      == {"RGBA", "RGBX", "BGRA", "BGRX"}
PlanarYuv == {"I420", "YV12"}

NoConfig  == [profile |-> "none", encode |-> FALSE, rt |-> "none",
              rate_control |-> "none"]
NoSurface == [fourcc |-> "none", imported |-> FALSE, encoder |-> FALSE,
              width |-> 0]
NoAnswer  == <<"none", TRUE, TRUE>>

NegotiationInit ==
  /\ env \in [profiles : ProfileSettings, encode : EncodeSettings]
  /\ offered = [profiles |-> {}, entrypoints |-> {}, attribs |-> {},
                formats |-> {}, memory |-> {}, max_width |-> 0]
  /\ config = NoConfig /\ surface = NoSurface /\ context = 0
  /\ answer = NoAnswer

-----------------------------------------------------------------------------
(***************************************************************************)
(* The gates.                                                              *)
(***************************************************************************)
(* One name, not a list.                                                   *)
experimental_profile_enabled(name) ==
  env.profiles \in {"1", "all", name}

(* A list of names.                                                        *)
experimental_encode_enabled(codec) ==
  env.encode \in {<<"1">>, <<"all">>} \/ codec \in ToSet(env.encode)

decode_profile_supported(p) ==
  \/ p \in {"H264Main", "H264High", "VP9Profile0", "HEVCMain"}
  \/ p = "HEVCMain10" /\ experimental_profile_enabled("hevc-main10")
  \/ p = "VP9Profile2" /\ experimental_profile_enabled("vp9-profile2")

encode_profile_supported(p) ==
  \/ p \in {"H264Main", "H264High"} /\ experimental_encode_enabled("h264")
  \/ p = "HEVCMain" /\ experimental_encode_enabled("hevc")

profile_supported(p) ==
  decode_profile_supported(p) \/ encode_profile_supported(p)

RtFormat(p, encode) ==
  IF ~encode /\ p \in TenBitProfiles THEN "YUV420_10" ELSE "YUV420"

-----------------------------------------------------------------------------
(***************************************************************************)
(* What is advertised.                                                     *)
(***************************************************************************)
rk_QueryConfigProfiles ==
  /\ offered.profiles = {}
  /\ offered' = [offered EXCEPT !.profiles =
                   {"H264Main", "H264High", "VP9Profile0"} \cup
                   {p \in {"HEVCMain"} \cup TenBitProfiles :
                      profile_supported(p)}]
  /\ UNCHANGED <<env, config, surface, context, answer>>

(* The pairs of a profile and "the entrypoint is EncSlice".                *)
rk_QueryConfigEntrypoints(p) ==
  LET new == {<<p, e>> : e \in {x \in BOOLEAN :
                IF x THEN encode_profile_supported(p)
                ELSE decode_profile_supported(p)}}
  IN /\ p \in offered.profiles \cup Others
     /\ IF profile_supported(p)
          THEN offered' = [offered EXCEPT !.entrypoints = new,
                                          !.attribs = {}]
          ELSE UNCHANGED offered
     /\ answer' = <<"entrypoints", profile_supported(p),
                    p \in offered.profiles>>
     /\ config = NoConfig
     /\ UNCHANGED <<env, config, surface, context>>

(* The attributes vaGetConfigAttributes answers with a value; a mask       *)
(* offers each of its bits.  Two stand for the ones that only describe the *)
(* encoder (also EncMaxSlices, EncSliceStructure, EncQualityRange, the     *)
(* picture sizes and the HEVC ones).                                       *)
ReadOnly == {<<"EncInterlaced", "NONE">>, <<"EncMaxRefFrames", "1">>}

AttribsFor(p, encode) ==
  {<<"RTFormat", RtFormat(p, encode)>>} \cup
  (IF encode
     THEN ({"RateControl"} \X {"CQP", "CBR", "VBR"}) \cup
          {<<"EncPackedHeaders", "NONE">>} \cup ReadOnly
     ELSE {<<"DecSliceMode", "NORMAL">>})

rk_GetConfigAttributes(pe) ==
  /\ config = NoConfig
  /\ pe \in offered.entrypoints
  /\ offered' = [offered EXCEPT !.entrypoints = {pe},
                                !.attribs = AttribsFor(pe[1], pe[2])]
  /\ UNCHANGED <<env, config, surface, context, answer>>

FormatsFor(c) ==
  IF c.rt = "YUV420_10" THEN {"P010"}
  ELSE {"NV12"} \cup (IF c.encode THEN PlanarYuv ELSE {}) \cup
       (IF c.encode /\ HaveRga THEN Rgb ELSE {})

rk_QuerySurfaceAttrs ==
  /\ config # NoConfig /\ surface = NoSurface
  /\ offered' = [offered EXCEPT !.formats = FormatsFor(config),
                                !.memory = {"VA", "PRIME_2"},
                                !.max_width = RK_MAX_WIDTH]
  /\ UNCHANGED <<env, config, surface, context, answer>>

-----------------------------------------------------------------------------
(***************************************************************************)
(* What an application may take the answers for: what was advertised, less *)
(* the limits that no attribute tells.                                     *)
(***************************************************************************)
RK_RGA3_MIN_ACTIVE_WIDTH == 68

aligned16(w) == ((w + 15) \div 16) * 16

HEVC == {"HEVCMain", "HEVCMain10"}

(* Attributes that describe the encoder are not for vaCreateConfig.        *)
ConfigPromised(attribs) == ToSet(attribs) \cap ReadOnly = {}

(* RGB only comes in memory of the application and planar YUV only in that *)
(* of the driver, though formats and memory are advertised side by side;   *)
(* every format but NV12 has whole chroma samples in a row.                *)
SurfacePromised(wish) ==
  /\ wish.width <= offered.max_width
  /\ wish.fourcc # "NV12" => wish.width % 2 = 0
  /\ wish.fourcc \in Rgb => wish.imported
  /\ wish.fourcc \in PlanarYuv => ~wish.imported

(* The widths a context for the surface has: its own, and for an HEVC      *)
(* encoder that of the coded picture.                                      *)
ContextWidths(s) ==
  {s.width} \cup (IF config.encode /\ config.profile \in HEVC
                    THEN {aligned16(s.width)} ELSE {})

(* Ten-bit pictures are at least as wide as RGA3's smallest job.           *)
ContextPromised(width) ==
  /\ width \in ContextWidths(surface) \/ width <= offered.max_width
  /\ config.rt = "YUV420_10" => width >= RK_RGA3_MIN_ACTIVE_WIDTH

(* Imported surfaces are for encoders, whose surfaces have their size.     *)
PicturePromised ==
  IF config.encode THEN context \in ContextWidths(surface)
  ELSE ~surface.imported

-----------------------------------------------------------------------------
(***************************************************************************)
(* What is accepted.                                                       *)
(***************************************************************************)
AttribFits(a, p, encode) ==
  CASE a[1] = "RTFormat" -> a[2] = RtFormat(p, encode)
    [] a[1] = "RateControl" -> encode /\ a[2] \in {"CQP", "CBR", "VBR"}
    [] a[1] = "EncPackedHeaders" -> encode /\ a[2] = "NONE"
    [] a[1] = "DecSliceMode" -> ~encode /\ a[2] = "NORMAL"
    [] OTHER -> FALSE

ConfigFits(p, encode, attribs) ==
  /\ profile_supported(p)
  /\ IF encode THEN encode_profile_supported(p)
     ELSE decode_profile_supported(p)
  /\ \A k \in DOMAIN attribs : AttribFits(attribs[k], p, encode)

(* The last rate control of the list counts.                               *)
RateControlOf(attribs) ==
  LET rc == SelectSeq(attribs, LAMBDA a : a[1] = "RateControl")
  IN IF rc = <<>> THEN "CQP" ELSE Last(rc)[2]

rk_CreateConfig(pe, attribs) ==
  /\ config = NoConfig
  /\ offered.attribs # {} /\ pe \in offered.entrypoints
  /\ answer' = <<"config", ConfigFits(pe[1], pe[2], attribs),
                 ConfigPromised(attribs)>>
  /\ config' = IF ConfigFits(pe[1], pe[2], attribs)
                 THEN [profile |-> pe[1], encode |-> pe[2],
                       rt |-> RtFormat(pe[1], pe[2]),
                       rate_control |-> RateControlOf(attribs)]
                 ELSE config
  /\ UNCHANGED <<env, offered, surface, context>>

(* vaCreateSurfaces2 goes through its attributes: a key may come again if  *)
(* it says the same, and a key that does not come has its default.         *)
Said(attribs, key) == {a[2] : a \in {b \in ToSet(attribs) : b[1] = key}}

TheOne(S, default) == IF S = {} THEN default ELSE CHOOSE v \in S : TRUE

DefaultFourcc(format) ==
  CASE format = "YUV420" -> "NV12" [] format = "YUV420_10" -> "P010"
    [] format = "RGB32" -> "BGRA"

FourccFits(format, f) ==
  CASE format = "YUV420_10" -> f = "P010"
    [] format = "YUV420" -> f \in {"NV12"} \cup PlanarYuv
    [] format = "RGB32" -> f \in Rgb

(* Slip: the default format counts as one the application has named.       *)
AttribsFit_default(format, attribs) ==
  /\ \A key \in {"MemoryType", "Descriptor", "PixelFormat"} :
       \A v, w \in Said(attribs, key) : v = w
  /\ Said(attribs, "MemoryType") \subseteq {"VA", "PRIME_2"}
  /\ \A f \in Said(attribs, "PixelFormat") :
       FourccFits(format, f) /\ f = DefaultFourcc(format)

AttribsFit(format, attribs) ==
  /\ \A key \in {"MemoryType", "Descriptor", "PixelFormat"} :
       \A v, w \in Said(attribs, key) : v = w
  /\ Said(attribs, "MemoryType") \subseteq {"VA", "PRIME_2"}
  /\ \A f \in Said(attribs, "PixelFormat") : FourccFits(format, f)

(* What comes out of it, NoSurface for an error.                           *)
SurfaceMade(format, width, attribs) ==
  LET fourcc   == TheOne(Said(attribs, "PixelFormat"), DefaultFourcc(format))
      imported == TheOne(Said(attribs, "MemoryType"), "VA") = "PRIME_2"
  IN IF /\ AttribsFit(format, attribs)
        /\ imported <=> Said(attribs, "Descriptor") # {}
        /\ fourcc \in Rgb => imported /\ HaveRga
        /\ imported => fourcc \in {"NV12", "P010"} \cup Rgb
        /\ width \in 1 .. RK_MAX_WIDTH
        /\ fourcc # "NV12" => width % 2 = 0
       THEN [fourcc |-> fourcc, imported |-> imported,
             encoder |-> "ENCODER" \in Said(attribs, "UsageHint"),
             width |-> width]
       ELSE NoSurface

(* The application wants a surface of any format and any memory that were  *)
(* offered: it names them both, and for imports gives a descriptor.        *)
Wish ==
  IF surface # NoSurface THEN {}
  ELSE [fourcc : offered.formats,
        imported : {m = "PRIME_2" : m \in offered.memory},
        encoder : {config.encode}, width : Widths]

FormatOf(f) == IF f \in Rgb THEN "RGB32"
               ELSE IF f = "P010" THEN "YUV420_10" ELSE "YUV420"

Asks(wish) ==
  {<<"PixelFormat", wish.fourcc>>} \cup
  {<<"MemoryType", IF wish.imported THEN "PRIME_2" ELSE "VA">>} \cup
  (IF wish.imported THEN {<<"Descriptor", "given">>} ELSE {}) \cup
  (IF wish.encoder THEN {<<"UsageHint", "ENCODER">>} ELSE {})

rk_CreateSurfaces2(wish, attribs) ==
  LET made == SurfaceMade(FormatOf(wish.fourcc), wish.width, attribs)
  IN /\ surface = NoSurface
     /\ answer' = <<"surfaces", made,
                    IF SurfacePromised(wish) THEN wish ELSE NoSurface>>
     /\ surface' = made
     /\ UNCHANGED <<env, offered, config, context>>

(* vaCreateSurfaces: the format alone, with driver memory.                 *)
PlainWish(width) ==
  [fourcc |-> IF config.rt = "YUV420_10" THEN "P010" ELSE "NV12",
   imported |-> FALSE, encoder |-> FALSE, width |-> width]

rk_CreateSurfaces(width) ==
  LET made == SurfaceMade(config.rt, width, <<>>)
  IN /\ surface = NoSurface /\ config # NoConfig /\ offered.formats # {}
     /\ surface' = made
     /\ answer' = <<"surfaces", made,
                    IF SurfacePromised(PlainWish(width))
                      THEN PlainWish(width) ELSE NoSurface>>
     /\ UNCHANGED <<env, offered, config, context>>

ContextFits(c, width) ==
  /\ width \in 1 .. RK_MAX_WIDTH
  /\ c.profile \notin Others
  /\ ~c.encode /\ c.profile \in TenBitProfiles =>
       HaveRga /\ width >= RK_RGA3_MIN_ACTIVE_WIDTH

rk_CreateContext(width) ==
  /\ surface # NoSurface /\ context = 0
  /\ answer' = <<"context", ContextFits(config, width),
                 ContextPromised(width)>>
  /\ context' = IF ContextFits(config, width) THEN width ELSE 0
  /\ UNCHANGED <<env, offered, config, surface>>

(* vaBeginPicture: an encoder takes 8-bit surfaces of its own size, a      *)
(* decoder any that was not imported.                                      *)
PictureFits ==
  IF config.encode
    THEN /\ \/ surface.width = context
            \/ config.profile \in HEVC /\ aligned16(surface.width) = context
         /\ surface.fourcc # "P010"
    ELSE ~surface.imported

rk_BeginPicture ==
  /\ context # 0
  /\ answer' = <<"picture", PictureFits, PicturePromised>>
  /\ UNCHANGED <<env, offered, config, surface, context>>

(* vaDestroyContext, vaDestroySurfaces, vaDestroyConfig: from the start.   *)
start_over ==
  /\ config # NoConfig
  /\ config' = NoConfig /\ surface' = NoSurface /\ context' = 0
  /\ offered' = [offered EXCEPT !.entrypoints = {}, !.attribs = {},
                                !.formats = {}, !.memory = {}]
  /\ answer' = NoAnswer
  /\ UNCHANGED env

Lists(S) == UNION {[1 .. n -> S] : n \in 0 .. MaxAttribs}

(* Every member, in any order, and one of them perhaps again.              *)
Orders(S) == UNION {{q \in [1 .. n -> S] : ToSet(q) = S} :
                      n \in 0 .. Cardinality(S) + 1}

NegotiationNext ==
  \/ rk_QueryConfigProfiles
  \/ \E p \in Profiles \cup Others : rk_QueryConfigEntrypoints(p)
  \/ \E pe \in offered.entrypoints :
       \/ rk_GetConfigAttributes(pe)
       \/ \E attribs \in Lists(offered.attribs) : rk_CreateConfig(pe, attribs)
  \/ rk_QuerySurfaceAttrs
  \/ \E wish \in Wish :
       \E attribs \in Orders(Asks(wish)) : rk_CreateSurfaces2(wish, attribs)
  \/ \E w \in Widths : rk_CreateSurfaces(w)
  \/ \E w \in Widths \cup {aligned16(x) : x \in Widths} : rk_CreateContext(w)
  \/ rk_BeginPicture
  \/ start_over

NegotiationSpec == NegotiationInit /\ [][NegotiationNext]_negotiationVars

-----------------------------------------------------------------------------
(***************************************************************************)
(* Properties.                                                             *)
(***************************************************************************)

(* Under any setting of the two gates, with any offered format and memory, *)
(* in any order of the attributes and with attributes named twice, the     *)
(* calls from the first query to the first picture come out as promised:   *)
(* what was advertised is accepted, and the surface is the one asked for,  *)
(* but for the limits the promises name (they are refused, like what was   *)
(* not advertised): attributes that describe the encoder, RGB in driver    *)
(* memory and planar YUV in the application's, odd widths, ten-bit         *)
(* pictures narrower than 68, and decoding into imported surfaces.  ("Only *)
(* profiles with validated decode paths are advertised (or accepted by     *)
(* CreateConfig)", rockchip_drv_video.c:61; "imported RGB is advertised    *)
(* only when RGA was linked", docs/DEVELOPMENT.md:596.)                    *)
AdvertisedIsAccepted == answer[2] = answer[3]
=============================================================================
