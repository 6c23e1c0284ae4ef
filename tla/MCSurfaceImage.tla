--------------------------- MODULE MCSurfaceImage ---------------------------
(***************************************************************************)
(* Pictures on both sides of every alignment (16 for images and coded      *)
(* heights, 64 and 256 for pitches), odd ones where the code allows them,  *)
(* imports with exact, padded, short and misaligned planes, and words so   *)
(* narrow that the largest requests do not fit.                            *)
(***************************************************************************)
EXTENDS SurfaceImage

Plain(f, w, h, enc) ==
  [fourcc |-> f, width |-> w, height |-> h, encoder |-> enc,
   descriptor |-> None]

Own ==
  {Plain("NV12", 18, 18, FALSE)}
  \cup {Plain("NV12", 2, 3, TRUE), Plain("P010", 2, 3, FALSE)}
  \cup {Plain(f, 18, 4, TRUE) : f \in Planar} \cup {Plain("I420", 3, 4, FALSE)}
  \cup {Plain("P010", 68, 4, FALSE)}
  \cup {Plain(f, 300, 66, FALSE) : f \in {"NV12", "P010"}}
  \cup {Plain("RGBA", 2, 2, TRUE), Plain("NV12", 9000, 2, FALSE)}

PlaneAt(o, off, p) == [object |-> o, offset |-> off, pitch |-> p]

(* One object: chroma behind luma, the object exact or a byte short.       *)
OneObject(f, w, h, pitch, cpitch, spare) ==
  [sound |-> TRUE, width |-> w, height |-> h,
   objects |-> <<pitch * h + cpitch * (h \div 2) + spare>>,
   planes |-> <<PlaneAt(1, 0, pitch), PlaneAt(1, pitch * h, cpitch)>>]

TwoObjects(f, w, h, pitch, cpitch, spare, cspare) ==
  [sound |-> TRUE, width |-> w, height |-> h,
   objects |-> <<pitch * h + spare, cpitch * (h \div 2) + cspare>>,
   planes |-> <<PlaneAt(1, 0, pitch), PlaneAt(2, 0, cpitch)>>]

Rgba(w, h, pitch, spare) ==
  [sound |-> TRUE, width |-> w, height |-> h,
   objects |-> <<pitch * h + spare>>,
   planes |-> <<PlaneAt(1, 0, pitch), PlaneAt(1, 0, 0)>>]

Pitches(f, w) == {w * Bytes(f) - 1, w * Bytes(f), w * Bytes(f) + 1,
                  w * Bytes(f) + 6}

Sizes == {<<2, 2>>, <<3, 4>>, <<18, 4>>, <<4, 18>>, <<2, 3>>}

Imports ==
  UNION {{[fourcc |-> f, width |-> wh[1], height |-> wh[2],
           encoder |-> TRUE, descriptor |-> d] :
            d \in {OneObject(f, wh[1], wh[2], p, q, x) :
                     p \in Pitches(f, wh[1]), q \in Pitches(f, wh[1]),
                     x \in {-1, 0}}
             \cup {TwoObjects(f, wh[1], wh[2], p, q, x, y) :
                     p \in Pitches(f, wh[1]), q \in Pitches(f, wh[1]),
                     x \in {-1, 0}, y \in {-1, 0, 5}}} :
         f \in {"NV12", "P010"}, wh \in Sizes}
  \cup {[fourcc |-> "BGRA", width |-> w, height |-> 2, encoder |-> TRUE,
         descriptor |-> Rgba(w, 2, p, x)] :
          w \in {2, 3}, p \in {8, 10, 12, 16}, x \in {-1, 0}}

MCRequests == Own \cup Imports

MCImageRequests ==
  {[fourcc |-> f, width |-> wh[1], height |-> wh[2]] :
     f \in {"NV12", "P010", "I420", "YV12"},
     wh \in {<<3, 4>>, <<2, 3>>, <<18, 4>>, <<18, 18>>, <<68, 20>>, <<256, 2>>}}

(* The pitches of H.264 (16), HEVC (64) and VP9 (256), ten-bit frames      *)
(* packed and compressed, with the picture at an offset, with a wrong or   *)
(* missing pixel stride or too narrow, a buffer too small, and pictures of *)
(* another size and depth than the surface, also larger than its storage.  *)
Frame(w, h, hs, vs, z) ==
  [fmt |-> "nv12", width |-> w, height |-> h, hstride |-> hs, pixels |-> hs,
   vstride |-> vs, x |-> 0, y |-> 0, size |-> z]

TenBit(fmt, w, h, hs, pixels, x, z) ==
  [fmt |-> fmt, width |-> w, height |-> h, hstride |-> hs,
   pixels |-> pixels, vstride |-> 32, x |-> x, y |-> 0, size |-> z]

MCFrames ==
  {Frame(18, 18, 32, 32, 1536), Frame(18, 18, 32, 32, 1535),
   Frame(18, 4, 256, 64, 32768), Frame(300, 66, 512, 80, 65536),
   TenBit("afbc", 68, 4, 160, 128, 60, 8192),
   TenBit("afbc", 68, 4, 160, 128, 61, 8192),
   TenBit("afbc", 66, 4, 160, 128, 0, 8192),
   TenBit("nv15", 4, 4, 80, 0, 0, 3840), TenBit("nv15", 18, 4, 84, 64, 1, 4032),
   TenBit("nv15", 18, 18, 80, 128, 0, 3840)}
=============================================================================
