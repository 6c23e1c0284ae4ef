----------------------------- MODULE FrameLayout -----------------------------
(***************************************************************************)
(* The layout arithmetic of frame_layout.c in words of a bounded width.    *)
(* A size is NoSize where the function returns false.  Multiplications in  *)
(* the code are guarded; the ones here are on unbounded numbers, so that a *)
(* guard that lets a product wrap shows as a size above SIZE_MAX, which    *)
(* Wrap then cuts as the machine does.                                     *)
(***************************************************************************)
EXTENDS Integers

CONSTANTS
  SIZE_MAX,   \* largest size_t: a power of two, less one
  UINT_MAX    \* largest unsigned int: the same, and at most SIZE_MAX

ASSUME WordAssumption ==
  /\ UINT_MAX \in Nat /\ SIZE_MAX \in Nat
  /\ 0 < UINT_MAX /\ UINT_MAX <= SIZE_MAX

NoSize == 0

Wrap(n) == n % (SIZE_MAX + 1)
WrapUint(n) == n % (UINT_MAX + 1)

(* Every alignment in the code is a power of two, so masking rounds down.  *)
RoundUp(n, a) == ((n + a - 1) \div a) * a

align_up(value, alignment) ==
  IF value > SIZE_MAX - (alignment - 1) THEN NoSize
  ELSE RoundUp(value, alignment)

(* Slip: the half for the chroma plane is not counted in the guard.        *)
rk_nv12_layout_size_luma(byte_stride, vertical_stride) ==
  IF \/ byte_stride = 0 \/ vertical_stride = 0
     \/ vertical_stride % 2 = 1
     \/ byte_stride > SIZE_MAX \div vertical_stride
    THEN NoSize
    ELSE byte_stride * vertical_stride

rk_nv12_layout_size(byte_stride, vertical_stride) ==
  IF \/ byte_stride = 0 \/ vertical_stride = 0
     \/ vertical_stride % 2 = 1
     \/ byte_stride > SIZE_MAX \div vertical_stride
    THEN NoSize
    ELSE LET luma == Wrap(byte_stride * vertical_stride) IN
         IF luma > SIZE_MAX - luma \div 2 THEN NoSize
         ELSE Wrap(luma + luma \div 2)

rk_p010_layout_size(pixel_stride, vertical_stride) ==
  IF pixel_stride = 0 \/ pixel_stride > SIZE_MAX \div 2 THEN NoSize
  ELSE rk_nv12_layout_size(Wrap(pixel_stride * 2), vertical_stride)

(* MPP's contract for a decode buffer: twice the padded luma plane, with   *)
(* VP9's odd multiple of 256 as the stride (aligned_width | 256).          *)
OddMultiple(n) == IF (n \div 256) % 2 = 1 THEN n ELSE n + 256

rk_surface_buffer_size(width, height) ==
  LET w == align_up(width, 256)
      h == align_up(height, 64)
  IN IF width = 0 \/ height = 0 \/ w = NoSize \/ h = NoSize THEN NoSize
     ELSE IF OddMultiple(w) > SIZE_MAX \div h THEN NoSize
     ELSE LET luma == Wrap(OddMultiple(w) * h) IN
          IF luma > SIZE_MAX \div 2 THEN NoSize ELSE Wrap(luma * 2)

rk_surface_placeholder_size(width, height, ten_bit) ==
  LET conservative == rk_surface_buffer_size(width, height)
      w    == align_up(width, 16)
      h    == align_up(height, 16)
      p010 == IF w = NoSize \/ h = NoSize THEN NoSize
              ELSE rk_p010_layout_size(w, h)
  IN CASE conservative = NoSize          -> NoSize
       [] ~ten_bit                       -> conservative
       [] ten_bit /\ p010 = NoSize       -> NoSize
       [] ten_bit /\ p010 # NoSize       ->
            IF p010 > conservative THEN p010 ELSE conservative
=============================================================================
