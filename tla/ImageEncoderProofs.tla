------------------------- MODULE ImageEncoderProofs -------------------------
(***************************************************************************)
(* No copy of pixels leaves its buffer, and none moves a sample to another *)
(* row, column or component, for every request, image and frame and every  *)
(* width of the machine's words.  The layout functions refuse what would   *)
(* wrap, so a size they return is the size of both planes; CopyInv carries *)
(* from the creation of a surface and an image what the copies do not      *)
(* check again.  PixelInv adds that the planes of an image lie one behind  *)
(* the other and that imported objects show the application's picture; a   *)
(* copy of rows takes a byte to its own row and column, and a layout whose *)
(* planes are apart gives no two samples one address.                      *)
(*                                                                         *)
(* Then the encoder those samples go to: what a coded buffer that syncs    *)
(* holds, for any number of buffers, pictures and packet sizes, and how a  *)
(* picture is cut into slices, for any order of parameters.                *)
(***************************************************************************)
EXTENDS SurfaceImage, Encoder, SequenceTheorems, TLAPS

-----------------------------------------------------------------------------
(***************************************************************************)
(* Arithmetic.                                                             *)
(***************************************************************************)

(* A word keeps what fits in it.                                           *)
LEMMA WrapFits ==
  ASSUME NEW n \in Nat
  PROVE  Wrap(n) \in Nat /\ (n <= SIZE_MAX => Wrap(n) = n)
BY WordAssumption DEF Wrap

(* The same of the narrower word.                                          *)
LEMMA WrapUintFits ==
  ASSUME NEW n \in Nat
  PROVE  WrapUint(n) \in Nat /\ (n <= UINT_MAX => WrapUint(n) = n)
BY WordAssumption DEF WrapUint

(* Products grow with their factors.                                       *)
LEMMA TimesMono ==
  ASSUME NEW a \in Nat, NEW b \in Nat, NEW c \in Nat, NEW d \in Nat,
         a <= b, c <= d
  PROVE  a * c \in Nat /\ a * c <= b * d
<1>1. a * c <= b * c
  OBVIOUS
<1>2. b * c <= b * d
  OBVIOUS
<1> QED BY <1>1, <1>2

(* A guard p > SIZE_MAX / v keeps the product of p and v in a word.        *)
LEMMA DivGuard ==
  ASSUME NEW p \in Nat, NEW v \in Nat, NEW n \in Nat, v > 0, p <= n \div v
  PROVE  p * v <= n
<1>1. n \div v \in Nat /\ (n \div v) * v <= n
  OBVIOUS
<1>2. p * v <= (n \div v) * v
  BY <1>1, TimesMono
<1> QED BY <1>1, <1>2

(* The size of an NV12 layout is that of its two planes.                   *)
LEMMA NvSize ==
  ASSUME NEW p \in Nat, NEW v \in Nat
  PROVE  /\ rk_nv12_layout_size(p, v) \in Nat
         /\ rk_nv12_layout_size(p, v) # NoSize =>
              /\ p > 0 /\ v > 0 /\ v % 2 = 0
              /\ p * v <= SIZE_MAX
              /\ rk_nv12_layout_size(p, v) = p * v + p * (v \div 2)
<1> DEFINE wrong == \/ p = 0 \/ v = 0 \/ v % 2 = 1
                    \/ p > SIZE_MAX \div v
           luma  == Wrap(p * v)
<1>1. CASE wrong
  BY <1>1 DEF rk_nv12_layout_size, NoSize
<1>2. CASE ~wrong
  <2>1. p * v \in Nat /\ p * v <= SIZE_MAX
    BY <1>2, DivGuard, WordAssumption
  <2>2. luma = p * v
    BY <2>1, WrapFits
  <2>3. PICK k \in Nat : v = 2 * k
    BY <1>2
  <2>4. p * k \in Nat /\ p * v = 2 * (p * k) /\ v \div 2 = k
    BY <2>3
  <2>5. (p * v) \div 2 = p * k
    BY <2>4
  <2>6. luma + luma \div 2 = p * v + p * (v \div 2)
    BY <2>2, <2>4, <2>5
  <2>7. CASE luma > SIZE_MAX - luma \div 2
    BY <1>2, <2>7 DEF rk_nv12_layout_size, NoSize
  <2>8. CASE ~(luma > SIZE_MAX - luma \div 2)
    <3>1. luma + luma \div 2 \in Nat /\ luma + luma \div 2 <= SIZE_MAX
      BY <2>1, <2>2, <2>8, WordAssumption
    <3>2. rk_nv12_layout_size(p, v) = luma + luma \div 2
      BY <1>2, <2>8, <3>1, WrapFits DEF rk_nv12_layout_size
    <3> QED BY <1>2, <2>1, <2>6, <3>1, <3>2
  <2> QED BY <2>7, <2>8
<1> QED BY <1>1, <1>2

(* The P010 layout is the NV12 layout of twice the pitch.                  *)
LEMMA P010Size ==
  ASSUME NEW p \in Nat, NEW v \in Nat
  PROVE  /\ rk_p010_layout_size(p, v) \in Nat
         /\ rk_p010_layout_size(p, v) # NoSize =>
              rk_p010_layout_size(p, v) = rk_nv12_layout_size(p * 2, v)
<1>1. CASE p = 0 \/ p > SIZE_MAX \div 2
  BY <1>1 DEF rk_p010_layout_size, NoSize
<1>2. CASE ~(p = 0 \/ p > SIZE_MAX \div 2)
  <2>1. p * 2 \in Nat /\ p * 2 <= SIZE_MAX
    BY <1>2, WordAssumption
  <2>2. Wrap(p * 2) = p * 2
    BY <2>1, WrapFits
  <2> QED BY <1>2, <2>1, <2>2, NvSize DEF rk_p010_layout_size
<1> QED BY <1>1, <1>2

(* Rounding up reaches the value, and is a multiple.                       *)
LEMMA RoundUpFacts ==
  ASSUME NEW n \in Nat
  PROVE  /\ RoundUp(n, 16) \in Nat /\ n <= RoundUp(n, 16)
         /\ RoundUp(n, 16) <= n + 15 /\ RoundUp(n, 16) % 2 = 0
         /\ RoundUp(n, 64) \in Nat /\ n <= RoundUp(n, 64)
         /\ RoundUp(n, 256) \in Nat /\ n <= RoundUp(n, 256)
         /\ RoundUp(n, 16) <= RoundUp(n, 64)
         /\ RoundUp(n, 64) <= RoundUp(n, 256)
BY DEF RoundUp

(* What an own surface gets covers the layout it is created with, at the   *)
(* decoder's alignment and at the encoder's.                               *)
LEMMA PlaceholderCovers ==
  ASSUME NEW w \in Nat, NEW h \in Nat, NEW a \in {16, 64},
         rk_surface_placeholder_size(w, h, FALSE) # NoSize
  PROVE  LET hs == RoundUp(w, a)
             vs == RoundUp(h, 16)
         IN hs * vs + hs * (h \div 2)
              <= rk_surface_placeholder_size(w, h, FALSE)
<1> DEFINE hs == RoundUp(w, a)
           vs == RoundUp(h, 16)
           W  == align_up(w, 256)
           H  == align_up(h, 64)
           O  == OddMultiple(W)
           luma == Wrap(O * H)
<1>1. rk_surface_placeholder_size(w, h, FALSE) = rk_surface_buffer_size(w, h)
  BY DEF rk_surface_placeholder_size
<1>2. /\ w # 0 /\ h # 0 /\ W # NoSize /\ H # NoSize
      /\ ~(O > SIZE_MAX \div H) /\ ~(luma > SIZE_MAX \div 2)
      /\ rk_surface_buffer_size(w, h) = Wrap(luma * 2)
  BY <1>1 DEF rk_surface_buffer_size, NoSize
<1>3. W = RoundUp(w, 256) /\ H = RoundUp(h, 64)
  BY <1>2 DEF align_up
<1>4. /\ hs \in Nat /\ vs \in Nat /\ W \in Nat /\ H \in Nat
      /\ hs <= W /\ vs <= H /\ h <= vs /\ H > 0
  <2>1. /\ RoundUp(w, 16) \in Nat /\ RoundUp(w, 64) \in Nat
        /\ RoundUp(w, 256) \in Nat /\ RoundUp(w, 16) <= RoundUp(w, 64)
        /\ RoundUp(w, 64) <= RoundUp(w, 256)
    BY RoundUpFacts
  <2>2. hs \in Nat /\ hs <= RoundUp(w, 256)
    <3>1. CASE a = 16
      BY <2>1, <3>1
    <3>2. CASE a = 64
      BY <2>1, <3>2
    <3> QED BY <3>1, <3>2
  <2>3. /\ vs \in Nat /\ RoundUp(h, 64) \in Nat
        /\ vs <= RoundUp(h, 64) /\ h <= vs
    BY RoundUpFacts
  <2> QED BY <1>2, <1>3, <2>1, <2>2, <2>3 DEF NoSize
<1>5. O \in Nat /\ W <= O
  BY <1>4 DEF OddMultiple
<1>6. O * H \in Nat /\ O * H <= SIZE_MAX
  BY <1>2, <1>4, <1>5, DivGuard, WordAssumption
<1>7. luma = O * H /\ luma * 2 \in Nat /\ luma * 2 <= SIZE_MAX
  <2>1. luma = O * H
    BY <1>6, WrapFits
  <2> QED BY <2>1, <1>2, <1>6, WordAssumption
<1>8. rk_surface_buffer_size(w, h) = O * H + O * H
  BY <1>2, <1>6, <1>7, WrapFits
<1>9. hs * vs \in Nat /\ hs * vs <= O * H
  BY <1>4, <1>5, TimesMono
<1>10. hs * (h \div 2) <= O * H
  <2>1. h \div 2 \in Nat /\ h \div 2 <= H /\ hs <= O
    BY <1>4, <1>5
  <2> QED BY <2>1, <1>4, <1>5, TimesMono
<1>11. hs * (h \div 2) \in Nat
  BY <1>4
<1> HIDE DEF hs, vs, W, H, O, luma
<1>12. hs * vs + hs * (h \div 2) <= O * H + O * H
  BY <1>6, <1>9, <1>10, <1>11
<1> QED BY <1>1, <1>8, <1>12 DEF hs, vs

(* The size of a placeholder is a number.                                  *)
LEMMA PlaceholderIsNat ==
  ASSUME NEW w \in Nat, NEW h \in Nat, NEW p \in BOOLEAN
  PROVE  rk_surface_placeholder_size(w, h, p) \in Nat
<1>1. \A n \in Nat : /\ align_up(n, 16) \in Nat /\ align_up(n, 64) \in Nat
                     /\ align_up(n, 256) \in Nat
  BY RoundUpFacts DEF align_up, NoSize
<1>2. rk_surface_buffer_size(w, h) \in Nat
  <2> DEFINE W == align_up(w, 256)
             H == align_up(h, 64)
             O == OddMultiple(W)
  <2>1. W \in Nat /\ H \in Nat
    BY <1>1
  <2>2. O \in Nat
    BY <2>1 DEF OddMultiple
  <2>3. Wrap(O * H) \in Nat
    <3>1. O * H \in Nat
      BY <2>1, <2>2
    <3> QED BY <3>1, WrapFits
  <2>4. Wrap(Wrap(O * H) * 2) \in Nat
    <3>1. Wrap(O * H) * 2 \in Nat
      BY <2>3
    <3> QED BY <3>1, WrapFits
  <2> QED BY <2>4 DEF rk_surface_buffer_size, NoSize
<1>3. rk_p010_layout_size(align_up(w, 16), align_up(h, 16)) \in Nat
  BY <1>1, P010Size
<1> QED BY <1>2, <1>3 DEF rk_surface_placeholder_size, NoSize

-----------------------------------------------------------------------------
(***************************************************************************)
(* Rows.                                                                   *)
(***************************************************************************)
Inside(rows) == \A t \in rows : t.end <= t.size

(* Rows of n bytes in a plane that has room for them.                      *)
LEMMA SpanInside ==
  ASSUME NEW off \in Nat, NEW pitch \in Nat, NEW rows \in Nat,
         NEW n \in Nat, NEW size \in Nat,
         n <= pitch, off + pitch * rows <= size
  PROVE  Inside(Span(off, pitch, rows, n, size))
<1>1. CASE rows = 0
  BY <1>1 DEF Inside, Span
<1>2. CASE rows # 0
  <2>1. (rows - 1) * pitch + pitch = pitch * rows /\ (rows - 1) * pitch \in Nat
    BY <1>2
  <2>2. off + (rows - 1) * pitch + n <= size
    BY <2>1
  <2> QED BY <1>2, <2>2 DEF Inside, Span
<1> QED BY <1>1, <1>2

(* Both planes of a picture in a buffer that has room for them.            *)
LEMMA PlanesInside ==
  ASSUME NEW g, NEW w \in Nat, NEW h \in Nat, NEW bps \in {1, 2},
         g.hstride \in Nat, g.vstride \in Nat, g.size \in Nat,
         w * bps <= g.hstride * bps, h <= g.vstride,
         g.hstride * bps * g.vstride + g.hstride * bps * (h \div 2) <= g.size
  PROVE  Inside(RowsOf(g, w, h, bps))
<1> DEFINE p == g.hstride * bps
<1>1. p \in Nat /\ w * bps \in Nat /\ h \div 2 \in Nat
  OBVIOUS
<1> HIDE DEF p
<1>2. p * h \in Nat /\ p * g.vstride \in Nat /\ p * (h \div 2) \in Nat
      /\ p * h <= p * g.vstride
  BY <1>1, TimesMono
<1> USE DEF p
<1>3. Inside(Span(0, p, h, w * bps, g.size))
  <2>1. 0 + p * h <= g.size
    BY <1>2
  <2> QED BY <1>1, <2>1, SpanInside
<1>4. Inside(Span(p * g.vstride, p, h \div 2, w * bps, g.size))
  BY <1>1, <1>2, SpanInside
<1> QED BY <1>3, <1>4 DEF Inside, RowsOf

(* A buffer as large as its layout has room for both planes.               *)
LEMMA LayoutRoom ==
  ASSUME NEW p \in Nat, NEW v \in Nat, NEW h \in Nat, NEW size \in Nat,
         h <= v, rk_nv12_layout_size(p, v) # NoSize,
         rk_nv12_layout_size(p, v) <= size
  PROVE  /\ p * v \in Nat
         /\ p * h <= size
         /\ p * v + p * (h \div 2) <= size
<1>1. h \div 2 \in Nat /\ v \div 2 \in Nat /\ h \div 2 <= v \div 2
  OBVIOUS
<1>2. /\ p * (h \div 2) \in Nat /\ p * (h \div 2) <= p * (v \div 2)
      /\ p * h \in Nat /\ p * h <= p * v /\ p * v \in Nat
      /\ p * (v \div 2) \in Nat
  BY <1>1, TimesMono
<1>3. p * v + p * (v \div 2) <= size
  BY NvSize
<1> QED BY <1>2, <1>3

(* The rows of a picture in a buffer as large as its layout.               *)
LEMMA LayoutInside ==
  ASSUME NEW g, NEW w \in Nat, NEW h \in Nat, NEW bps \in {1, 2},
         g.hstride \in Nat, g.vstride \in Nat, g.size \in Nat,
         w * bps <= g.hstride * bps, h <= g.vstride,
         rk_nv12_layout_size(g.hstride * bps, g.vstride) # NoSize,
         rk_nv12_layout_size(g.hstride * bps, g.vstride) <= g.size
  PROVE  Inside(RowsOf(g, w, h, bps))
<1> DEFINE p == g.hstride * bps
<1>1. p \in Nat
  OBVIOUS
<1>2. p * g.vstride + p * (h \div 2) <= g.size
  BY <1>1, LayoutRoom
<1> QED BY <1>2, PlanesInside

(* What the repacking copies check is enough, on both sides.               *)
LEMMA RepackInside ==
  ASSUME NEW w \in Nat, NEW h \in Nat, NEW bps \in {1, 2}, NEW src, NEW dst,
         RepackFits(w, h, bps, src, dst),
         \A g \in {src, dst} : /\ g.hstride \in Nat /\ g.vstride \in Nat
                               /\ g.size \in Nat
  PROVE  Inside(RowsOf(src, w, h, bps) \cup RowsOf(dst, w, h, bps))
<1>1. ASSUME NEW g \in {src, dst} PROVE Inside(RowsOf(g, w, h, bps))
  <2>1. g.hstride >= w /\ g.vstride >= h
    BY DEF RepackFits
  <2>2. CASE bps = 1
    <3>1. /\ rk_nv12_layout_size(g.hstride, g.vstride) # NoSize
          /\ rk_nv12_layout_size(g.hstride, g.vstride) <= g.size
      BY <2>2 DEF RepackFits
    <3>2. g.hstride * bps = g.hstride /\ w * bps = w
      BY <2>2
    <3> QED BY <2>1, <3>1, <3>2, LayoutInside
  <2>3. CASE bps = 2
    <3>1. /\ rk_p010_layout_size(g.hstride, g.vstride) # NoSize
          /\ rk_p010_layout_size(g.hstride, g.vstride) <= g.size
      BY <2>3 DEF RepackFits
    <3>2. rk_p010_layout_size(g.hstride, g.vstride)
            = rk_nv12_layout_size(g.hstride * bps, g.vstride)
      BY <2>3, <3>1, P010Size
    <3>3. w * bps <= g.hstride * bps
      BY <2>1, <2>3
    <3> QED BY <2>1, <3>1, <3>2, <3>3, LayoutInside
  <2> QED BY <2>2, <2>3
<1> QED BY <1>1 DEF Inside

-----------------------------------------------------------------------------
(***************************************************************************)
(* The inductive invariant.                                                *)
(***************************************************************************)
ImportSet == [kind : {"none", "linear", "multi", "rgb"}, pitch : Nat,
              size : Nat, cpitch : Nat, csize : Nat]

SurfaceSet ==
  [fourcc : Fourccs, bps : {1, 2}, width : Nat, height : Nat,
   hstride : Nat, vstride : Nat, priv_size : Nat, frame_size : Nat,
   import : ImportSet, encoder : BOOLEAN, begun : BOOLEAN,
   decoded : BOOLEAN, stable : BOOLEAN]

ImageSet ==
  [fourcc : Fourccs, bps : {1, 2}, width : Nat, height : Nat,
   planes : {2, 3}, pitches : Nat \X Nat \X Nat,
   offsets : Nat \X Nat \X Nat, capacity : Nat, storage : Nat,
   derived : BOOLEAN]

(* An imported surface is never decoded into; its planes lie in its        *)
(* objects.  Before its first picture an own surface has the geometry its  *)
(* placeholder was made for.                                               *)
Geometry(x) ==
  /\ x \in SurfaceSet
  /\ x.height <= x.vstride
  /\ x.import.kind = "none" \/ ~x.begun
  /\ x.import.kind = "linear" =>
       /\ x.hstride * x.bps = x.import.pitch
       /\ x.vstride = x.height /\ x.width <= x.hstride
       /\ x.import.pitch * x.height + x.import.pitch * (x.height \div 2)
            <= x.import.size
  /\ x.import.kind = "multi" =>
       /\ x.import.pitch * x.height <= x.import.size
       /\ x.import.cpitch * (x.height \div 2) <= x.import.csize
  /\ x.import.kind = "none" /\ ~x.begun /\ x.bps = 1 =>
       /\ x.width <= x.hstride
       /\ x.hstride * x.vstride + x.hstride * (x.height \div 2)
            <= x.priv_size

(* An image that is not derived has the storage its capacity says, and     *)
(* planes whose rows can be counted in a size_t.                           *)
Countable(i) ==
  /\ i \in ImageSet
  /\ ~i.derived =>
       /\ i.storage = i.capacity
       /\ i.pitches[1] * i.height <= SIZE_MAX
       /\ i.pitches[2] * (i.height \div 2) <= SIZE_MAX
       /\ i.pitches[3] * (i.height \div 2) <= SIZE_MAX

(* What vaPutImage checked is still so when it takes the lock.             *)
StillChecked ==
  /\ s # None /\ im # None
  /\ s.import = NoImport /\ ~im.derived
  /\ im.height = s.height
  /\ im.fourcc \in Planar => s.bps = 1
  /\ PlanesFit(im, s.width, s.height, s.bps)
  /\ put = [bps |-> s.bps, row |-> s.width * s.bps,
            chroma |-> s.width \div 2]

CopyInv ==
  /\ s # None => Geometry(s)
  /\ im # None => Countable(im)
  /\ put # None => StillChecked

-----------------------------------------------------------------------------
(***************************************************************************)
(* Images.                                                                 *)
(***************************************************************************)

(* The last row of a plane starts a pitch before its end.                  *)
LEMMA LastRow ==
  ASSUME NEW p \in Nat, NEW rows \in Nat \ {0}
  PROVE  /\ (rows - 1) * p \in Nat
         /\ (rows - 1) * p + p = p * rows
OBVIOUS

(* A plane that image_plane_fits accepts lies in the image's storage.      *)
LEMMA PlaneInside ==
  ASSUME NEW i, NEW plane, NEW n \in Nat, NEW rows \in Nat,
         i.pitches[plane] \in Nat, i.offsets[plane] \in Nat,
         i.capacity \in Nat, i.storage = i.capacity,
         i.pitches[plane] * rows <= SIZE_MAX,
         image_plane_fits(i, plane, n, rows)
  PROVE  Inside(Span(i.offsets[plane], i.pitches[plane], rows, n, i.storage))
<1>1. CASE rows = 0
  BY <1>1 DEF Inside, Span
<1>2. CASE rows # 0
  <2> DEFINE p == i.pitches[plane]
             last == (rows - 1) * p
  <2>1. /\ Wrap(last) <= i.capacity - i.offsets[plane]
        /\ n <= i.capacity - i.offsets[plane] - Wrap(last)
    BY <1>2 DEF image_plane_fits
  <2>2. last \in Nat /\ last <= p * rows
    <3>1. p \in Nat /\ rows \in Nat \ {0}
      BY <1>2
    <3> HIDE DEF p
    <3>2. last + p = p * rows /\ last \in Nat
      BY <3>1, LastRow
    <3> QED BY <3>1, <3>2
  <2>3. Wrap(last) = last
    BY <2>2, WrapFits, WordAssumption
  <2>4. i.offsets[plane] + last + n <= i.storage
    BY <2>1, <2>2, <2>3
  <2> QED BY <1>2, <2>4 DEF Inside, Span
<1> QED BY <1>1, <1>2

(* The same of every plane of an image, for a picture not taller than it.  *)
LEMMA ImageRowsInside ==
  ASSUME NEW i, NEW w \in Nat, NEW h \in Nat, NEW bps \in {1, 2},
         Countable(i), ~i.derived, h <= i.height, PlanesFit(i, w, h, bps)
  PROVE  LET planar == i.fourcc \in Planar
         IN Inside(ImageRows(i, h, IF planar THEN w ELSE w * bps,
                             IF planar THEN w \div 2 ELSE w * bps))
<1> DEFINE planar == i.fourcc \in Planar
           row  == IF planar THEN w ELSE w * bps
           crow == IF planar THEN w \div 2 ELSE w * bps
           c    == h \div 2
<1>1. /\ \A p \in 1..3 : i.pitches[p] \in Nat /\ i.offsets[p] \in Nat
      /\ i.capacity \in Nat /\ i.storage = i.capacity /\ i.height \in Nat
      /\ i.pitches[1] * i.height <= SIZE_MAX
      /\ i.pitches[2] * (i.height \div 2) <= SIZE_MAX
      /\ i.pitches[3] * (i.height \div 2) <= SIZE_MAX
  BY DEF Countable, ImageSet
<1>2. row \in Nat /\ crow \in Nat /\ c \in Nat /\ i.height \div 2 \in Nat
      /\ c <= i.height \div 2
  BY <1>1
<1>3. /\ image_plane_fits(i, 1, row, h) /\ image_plane_fits(i, 2, crow, c)
      /\ planar => image_plane_fits(i, 3, crow, c)
  BY DEF PlanesFit
<1>4. i.pitches[1] * h \in Nat /\ i.pitches[1] * h <= SIZE_MAX
  <2>1. i.pitches[1] * h <= i.pitches[1] * i.height
    BY <1>1, TimesMono
  <2>2. i.pitches[1] * i.height \in Nat /\ i.pitches[1] * h \in Nat
    BY <1>1
  <2> QED BY <1>1, <2>1, <2>2, WordAssumption
<1>5. ASSUME NEW p \in {2, 3} PROVE i.pitches[p] * c <= SIZE_MAX
  <2>1. i.pitches[p] * c <= i.pitches[p] * (i.height \div 2)
    BY <1>1, <1>2, TimesMono
  <2>2. i.pitches[p] * (i.height \div 2) <= SIZE_MAX
    BY <1>1
  <2>3. i.pitches[p] * c \in Nat /\ i.pitches[p] * (i.height \div 2) \in Nat
    BY <1>1, <1>2
  <2> QED BY <2>1, <2>2, <2>3, WordAssumption
<1> HIDE DEF row, crow, c
<1>6. Inside(Span(i.offsets[1], i.pitches[1], h, row, i.storage))
  <2>1. i.pitches[1] \in Nat /\ i.offsets[1] \in Nat
    BY <1>1
  <2> QED BY <1>1, <1>2, <1>3, <1>4, <2>1, PlaneInside
<1>7. Inside(Span(i.offsets[2], i.pitches[2], c, crow, i.storage))
  <2>1. i.pitches[2] \in Nat /\ i.offsets[2] \in Nat
    BY <1>1
  <2>2. i.pitches[2] * c <= SIZE_MAX
    BY <1>5
  <2> QED BY <1>1, <1>2, <1>3, <2>1, <2>2, PlaneInside
<1>8. planar => Inside(Span(i.offsets[3], i.pitches[3], c, crow, i.storage))
  <2>1. i.pitches[3] \in Nat /\ i.offsets[3] \in Nat
    BY <1>1
  <2>2. i.pitches[3] * c <= SIZE_MAX
    BY <1>5
  <2> QED BY <1>1, <1>2, <1>3, <2>1, <2>2, PlaneInside
<1> QED BY <1>6, <1>7, <1>8 DEF Inside, ImageRows, row, crow, c

(* vaCreateImage makes an image whose rows can be counted.                 *)
LEMMA NewImage ==
  ASSUME NEW q \in ImageRequests, ImageFits(q),
         ImageSize(ImageOf(q)) # NoSize
  PROVE  Countable([ImageOf(q) EXCEPT !.capacity = ImageSize(ImageOf(q)),
                                      !.storage = ImageSize(ImageOf(q))])
<1> DEFINE bps    == Bytes(q.fourcc)
           planar == q.fourcc \in Planar
           w      == RoundUp(q.width, 16)
           h      == q.height
           c      == h \div 2
           pitch  == WrapUint(w * bps)
           cpitch == IF planar THEN w \div 2 ELSE pitch
           i      == ImageOf(q)
           size   == ImageSize(i)
<1>1. /\ q.fourcc \in Fourccs /\ q.width \in Nat /\ h \in Nat /\ h > 0
      /\ q.width <= USHRT_MAX /\ h <= USHRT_MAX
      /\ w <= UINT_MAX \div bps
  BY ImageAssumption DEF ImageFits
<1>2. bps \in {1, 2} /\ (planar => bps = 1)
  BY DEF Bytes, Planar
<1>3. w \in Nat /\ w <= q.width + 15 /\ c \in Nat
  <2>1. q.width \in Nat /\ q.height \in Nat
    BY <1>1
  <2>2. w \in Nat /\ w <= q.width + 15
    BY <2>1, RoundUpFacts
  <2> QED BY <2>1, <2>2
<1> HIDE DEF w, h, bps
<1>4. w * bps \in Nat /\ w * bps <= UINT_MAX
  BY <1>1, <1>2, <1>3, WordAssumption
<1>5. pitch = w * bps /\ pitch \in Nat
  BY <1>4, WrapUintFits
<1>6. cpitch \in Nat /\ (planar => cpitch <= pitch)
  BY <1>2, <1>3, <1>5
<1> HIDE DEF pitch
<1>7. pitch * h \in Nat /\ WrapUint(pitch * h) \in Nat
  <2>1. pitch * h \in Nat
    BY <1>1, <1>5
  <2> QED BY <2>1, WrapUintFits
<1>8. WrapUint(WrapUint(pitch * h) + cpitch * c) \in Nat
  <2>1. WrapUint(pitch * h) + cpitch * c \in Nat
    BY <1>3, <1>6, <1>7
  <2> QED BY <2>1, WrapUintFits
<1>9. i = [fourcc |-> q.fourcc, bps |-> bps, width |-> q.width,
           height |-> h, planes |-> IF planar THEN 3 ELSE 2,
           pitches |-> <<pitch, cpitch, IF planar THEN cpitch ELSE 0>>,
           offsets |-> <<0, WrapUint(pitch * h),
                         IF planar
                           THEN WrapUint(WrapUint(pitch * h) + cpitch * c)
                           ELSE 0>>,
           capacity |-> 0, storage |-> 0, derived |-> FALSE]
  BY DEF ImageOf, pitch, w, h, bps
<1>10. /\ i.fourcc = q.fourcc /\ i.height = h /\ ~i.derived
       /\ i.pitches[1] = pitch /\ i.pitches[2] = cpitch
       /\ i.pitches[3] = (IF planar THEN cpitch ELSE 0)
       /\ i.planes = (IF planar THEN 3 ELSE 2)
  BY <1>9
<1>11. pitch * h <= SIZE_MAX /\ size \in Nat
  <2>1. CASE planar
    <3>1. pitch <= USHRT_MAX + 15
      BY <1>1, <1>2, <1>3, <1>5, <2>1, ImageAssumption
    <3>2. pitch * h <= (USHRT_MAX + 15) * USHRT_MAX
      BY <1>1, <1>5, <3>1, TimesMono, ImageAssumption
    <3>3. (USHRT_MAX + 15) * USHRT_MAX \in Nat
      BY ImageAssumption
    <3>4. pitch * h <= SIZE_MAX
      BY <1>7, <3>2, <3>3, ImageAssumption, WordAssumption
    <3>5. /\ Wrap(pitch * h) \in Nat
          /\ Wrap(cpitch * c) \in Nat
      BY <1>3, <1>6, <1>7, WrapFits
    <3>6. Wrap(Wrap(pitch * h) + 2 * Wrap(cpitch * c)) \in Nat
      <4>1. Wrap(pitch * h) + 2 * Wrap(cpitch * c) \in Nat
        BY <3>5
      <4> QED BY <4>1, WrapFits
    <3>7. size \in {NoSize, Wrap(Wrap(pitch * h) + 2 * Wrap(cpitch * c))}
      BY <1>10, <2>1 DEF ImageSize
    <3> QED BY <3>4, <3>6, <3>7 DEF NoSize
  <2>2. CASE ~planar
    <3>1. size = rk_nv12_layout_size(pitch, h)
      BY <1>10, <2>2 DEF ImageSize
    <3> QED BY <1>1, <1>5, <3>1, NvSize
  <2> QED BY <2>1, <2>2
<1>12. cpitch * c \in Nat /\ cpitch * c <= SIZE_MAX
  <2>1. cpitch <= pitch /\ c <= h
    BY <1>1, <1>5, <1>6
  <2>2. cpitch * c \in Nat /\ cpitch * c <= pitch * h
    BY <1>1, <1>3, <1>5, <1>6, <2>1, TimesMono
  <2> QED BY <1>7, <1>11, <2>2, WordAssumption
<1> HIDE DEF size, cpitch, c, planar
<1>13. PICK j : j = [i EXCEPT !.capacity = size, !.storage = size]
  OBVIOUS
<1>14. /\ j.height = h /\ ~j.derived
       /\ j.pitches[1] = pitch /\ j.pitches[2] = cpitch
       /\ j.pitches[3] = (IF planar THEN cpitch ELSE 0)
       /\ j.capacity = size /\ j.storage = size
  BY <1>9, <1>13
<1>15. j \in ImageSet
  <2>1. /\ <<pitch, cpitch, IF planar THEN cpitch ELSE 0>>
             \in Nat \X Nat \X Nat
        /\ <<0, WrapUint(pitch * h),
             IF planar THEN WrapUint(WrapUint(pitch * h) + cpitch * c)
             ELSE 0>> \in Nat \X Nat \X Nat
    BY <1>5, <1>6, <1>7, <1>8
  <2> DEFINE ps == <<pitch, cpitch, IF planar THEN cpitch ELSE 0>>
             os == <<0, WrapUint(pitch * h),
                     IF planar
                       THEN WrapUint(WrapUint(pitch * h) + cpitch * c)
                       ELSE 0>>
  <2> HIDE DEF ps, os
  <2> DEFINE n == IF planar THEN 3 ELSE 2
  <2> HIDE DEF n, i
  <2>2. i = [fourcc |-> q.fourcc, bps |-> bps, width |-> q.width,
             height |-> h, planes |-> n, pitches |-> ps, offsets |-> os,
             capacity |-> 0, storage |-> 0, derived |-> FALSE]
    BY <1>9 DEF ps, os, n
  <2>3. ps \in Nat \X Nat \X Nat /\ os \in Nat \X Nat \X Nat
    BY <2>1 DEF ps, os
  <2>4. q.fourcc \in Fourccs /\ q.width \in Nat /\ h \in Nat
    BY <1>1
  <2>5. i \in ImageSet
    BY <1>2, <2>2, <2>3, <2>4 DEF ImageSet, n
  <2> QED BY <1>11, <1>13, <2>5 DEF ImageSet
<1>16. j.height \div 2 = c
  BY <1>14 DEF c
<1>17. j.pitches[3] * c <= SIZE_MAX
  BY <1>3, <1>12, <1>14, WordAssumption DEF c
<1> QED BY <1>11, <1>12, <1>13, <1>14, <1>15, <1>16, <1>17 DEF Countable, size

-----------------------------------------------------------------------------
(***************************************************************************)
(* Surfaces.                                                               *)
(***************************************************************************)

(* The planes of an accepted descriptor lie in its objects.                *)
LEMMA NewImport ==
  ASSUME NEW q \in Requests, Acceptable(q), q.descriptor # None
  PROVE  LET d      == q.descriptor
             import == ImportOf(q.fourcc, d)
             bps    == Bytes(q.fourcc)
         IN /\ import \in ImportSet /\ import.kind # "none"
            /\ import.kind = "linear" =>
                 /\ (import.pitch \div bps) * bps = import.pitch
                 /\ q.width <= import.pitch \div bps
                 /\ import.pitch * q.height
                      + import.pitch * (q.height \div 2) <= import.size
            /\ import.kind = "multi" =>
                 /\ import.pitch * q.height <= import.size
                 /\ import.cpitch * (q.height \div 2) <= import.csize
<1> DEFINE d == q.descriptor
           h == q.height
           c == h \div 2
           p == d.planes[1].pitch
           cp == d.planes[2].pitch
           bps == Bytes(q.fourcc)
           rgb == q.fourcc \in Rgb
           two == Len(d.objects) = 2
           i == ImportOf(q.fourcc, d)
<1>1. /\ h \in Nat /\ p \in Nat /\ cp \in Nat /\ d.objects \in Seq(Nat)
      /\ p * h + cp * c <= SIZE_MAX
  BY RequestAssumption DEF DescriptorOf
<1>2. ImportFits(q.fourcc, q.width, h, d)
  BY DEF Acceptable
<1>3. c \in Nat /\ p * h \in Nat /\ cp * c \in Nat /\ p * h + cp * c \in Nat
      /\ p * h <= SIZE_MAX /\ cp * c <= SIZE_MAX
  <2> HIDE DEF p, cp
  <2>1. c \in Nat
    BY <1>1
  <2>2. p * h \in Nat /\ cp * c \in Nat
    BY <1>1, <2>1
  <2> HIDE DEF c, h
  <2> QED BY <1>1, <2>1, <2>2, WordAssumption
<1>4. /\ Wrap(p * h) = p * h /\ Wrap(cp * c) = cp * c
      /\ Wrap(p * h + cp * c) = p * h + cp * c
  BY <1>1, <1>3, WrapFits
<1>5. /\ Len(d.objects) \in {1, 2} /\ d.objects[1] \in Nat
      /\ two => d.objects[2] \in Nat
  <2>1. Len(d.objects) = 1 \/ Len(d.objects) = 2
    BY <1>2 DEF ImportFits
  <2>2. d.objects \in Seq(Nat)
    BY <1>1
  <2> HIDE DEF d
  <2> QED BY <2>1, <2>2
<1>6. bps \in {1, 2}
  BY DEF Bytes
<1>7. /\ i.kind = (IF rgb THEN "rgb" ELSE IF two THEN "multi" ELSE "linear")
      /\ i.pitch = p /\ i.size = d.objects[1]
      /\ ~rgb /\ two => i.cpitch = cp /\ i.csize = d.objects[2]
  BY DEF ImportOf
<1>8. i \in ImportSet
  BY <1>1, <1>5 DEF ImportOf, ImportSet
<1>9. ASSUME ~rgb
      PROVE  /\ p % bps = 0 /\ p \div bps >= q.width
             /\ two \/ cp = p
             /\ two => Wrap(p * h) <= d.objects[1]
             /\ two => Wrap(cp * c) <= d.objects[2]
             /\ ~two => Wrap(Wrap(p * h) + cp * c) <= d.objects[1]
  BY <1>2, <1>9 DEF ImportFits
<1>10. ASSUME ~rgb, two
       PROVE  p * h <= d.objects[1] /\ cp * c <= d.objects[2]
  BY <1>4, <1>9, <1>10
<1>11. ASSUME ~rgb, ~two
       PROVE  p * h + p * c <= d.objects[1] /\ q.width <= p \div bps
  BY <1>4, <1>9, <1>11
<1>12. ASSUME ~rgb PROVE (p \div bps) * bps = p
  <2>1. p % bps = 0
    BY <1>9, <1>12
  <2>2. CASE bps = 1
    <3>1. p \div 1 = p /\ p * 1 = p
      BY <1>1
    <3> QED BY <2>2, <3>1
  <2>3. CASE bps = 2
    <3>1. p \in Nat
      BY <1>1
    <3> HIDE DEF p, bps
    <3>2. p % 2 = 0 => (p \div 2) * 2 = p
      BY <3>1
    <3> QED BY <2>1, <2>3, <3>2
  <2> QED BY <1>6, <2>2, <2>3
<1> HIDE DEF d, h, c, p, cp, bps, rgb, two, i
<1>13. /\ i.kind # "none"
       /\ i.kind = "linear" =>
            /\ (i.pitch \div bps) * bps = i.pitch
            /\ q.width <= i.pitch \div bps
            /\ i.pitch * h + i.pitch * c <= i.size
       /\ i.kind = "multi" => /\ i.pitch * h <= i.size
                              /\ i.cpitch * c <= i.csize
  BY <1>7, <1>10, <1>11, <1>12
<1> QED BY <1>8, <1>13 DEF i, d, h, c, bps

(* create_surfaces makes a surface whose storage has its geometry.         *)
LEMMA NewSurface ==
  ASSUME NEW q \in Requests, Acceptable(q)
  PROVE  Geometry(SurfaceOf(q, IF q.descriptor = None THEN NoImport
                               ELSE ImportOf(q.fourcc, q.descriptor)))
<1> DEFINE import == IF q.descriptor = None THEN NoImport
                     ELSE ImportOf(q.fourcc, q.descriptor)
           align  == IF import = NoImport /\ ~q.encoder /\ q.fourcc # "P010"
                       THEN 64 ELSE 16
           linear == import.kind = "linear"
           bps    == Bytes(q.fourcc)
           hs     == IF linear THEN import.pitch \div bps
                     ELSE RoundUp(q.width, align)
           vs     == IF linear THEN q.height ELSE RoundUp(q.height, 16)
           size   == rk_surface_placeholder_size(q.width, q.height,
                                                 q.fourcc = "P010")
           x      == SurfaceOf(q, import)
<1>1. q.fourcc \in Fourccs /\ q.encoder \in BOOLEAN
      /\ q.width \in Nat /\ q.height \in Nat
  BY RequestAssumption
<1>2. bps \in {1, 2} /\ (bps = 1 => (q.fourcc = "P010") = FALSE)
      /\ align \in {16, 64}
  BY DEF Bytes
<1>3. /\ import \in ImportSet
      /\ q.descriptor # None => import.kind # "none"
      /\ q.descriptor = None => import.kind = "none"
      /\ linear =>
           /\ (import.pitch \div bps) * bps = import.pitch
           /\ q.width <= import.pitch \div bps
           /\ import.pitch * q.height + import.pitch * (q.height \div 2)
                <= import.size
      /\ import.kind = "multi" =>
           /\ import.pitch * q.height <= import.size
           /\ import.cpitch * (q.height \div 2) <= import.csize
  <2>1. CASE q.descriptor = None
    BY <2>1 DEF NoImport, ImportSet
  <2>2. CASE q.descriptor # None
    BY <2>2, NewImport
  <2> QED BY <2>1, <2>2
<1>4. size \in Nat /\ size # NoSize
  BY <1>1, PlaceholderIsNat DEF Acceptable
<1>5. /\ RoundUp(q.height, 16) \in Nat /\ q.height <= RoundUp(q.height, 16)
      /\ RoundUp(q.width, align) \in Nat /\ q.width <= RoundUp(q.width, align)
  BY <1>1, <1>2, RoundUpFacts, ZenonT(30)
<1>6. hs \in Nat /\ vs \in Nat /\ q.height <= vs
  <2>1. import.pitch \in Nat
    BY <1>3 DEF ImportSet
  <2>2. import.pitch \div bps \in Nat
    BY <1>2, <2>1
  <2> QED BY <1>1, <1>5, <2>2
<1>7. bps = 1 /\ ~linear => hs * vs + hs * (q.height \div 2) <= size
  BY <1>1, <1>2, <1>4, PlaceholderCovers
<1>8. /\ x.bps = bps /\ x.width = q.width /\ x.height = q.height
      /\ x.hstride = hs /\ x.vstride = vs /\ x.priv_size = size
      /\ x.import = import /\ ~x.begun
  BY DEF SurfaceOf
<1>9. x \in SurfaceSet
  <2> HIDE DEF hs, vs, size, import, bps
  <2>1. x = [fourcc |-> q.fourcc, bps |-> bps, width |-> q.width,
             height |-> q.height, hstride |-> hs, vstride |-> vs,
             priv_size |-> size, frame_size |-> NoSize, import |-> import,
             encoder |-> q.encoder, begun |-> FALSE, decoded |-> FALSE,
             stable |-> FALSE]
    BY DEF SurfaceOf, hs, vs, size, bps
  <2> QED BY <1>1, <1>2, <1>3, <1>4, <1>6, <2>1 DEF SurfaceSet, NoSize
<1>10. linear => hs = import.pitch \div bps /\ vs = q.height
  OBVIOUS
<1>11. ~linear => q.width <= hs
  BY <1>5
<1> HIDE DEF x, import, hs, vs, size, bps
<1> QED BY <1>3, <1>6, <1>7, <1>8, <1>9, <1>10, <1>11 DEF Geometry, x, import

-----------------------------------------------------------------------------
(***************************************************************************)
(* Steps.                                                                  *)
(***************************************************************************)

(* The rows vaPutImage touches, of the image and of priv_buf.              *)
LEMMA PutStep ==
  ASSUME CopyInv, put_copy
  PROVE  CopyInv' /\ CopiesStayInside'
<1> DEFINE dp     == s.hstride * put.bps
           size   == rk_nv12_layout_size(dp, s.vstride)
           planar == im.fourcc \in Planar
           row    == IF planar THEN s.width ELSE put.row
           crow   == IF planar THEN put.chroma ELSE put.row
           pair   == IF planar THEN 2 * put.chroma ELSE put.row
           w      == s.width
           h      == s.height
           c      == h \div 2
<1>1. /\ s # None /\ im # None /\ ~im.derived /\ im.height = h
      /\ planar => s.bps = 1
      /\ PlanesFit(im, w, h, s.bps)
      /\ put = [bps |-> s.bps, row |-> w * s.bps, chroma |-> w \div 2]
  BY DEF CopyInv, StillChecked, put_copy
<1>2. Geometry(s) /\ Countable(im)
  BY <1>1 DEF CopyInv
<1>3. /\ w \in Nat /\ h \in Nat /\ s.hstride \in Nat /\ s.vstride \in Nat
      /\ s.bps \in {1, 2} /\ s.priv_size \in Nat /\ h <= s.vstride
  BY <1>2 DEF Geometry, SurfaceSet
<1>4. put.bps = s.bps /\ put.row = w * s.bps /\ put.chroma = w \div 2
  BY <1>1
<1>5. CopyInv'
  BY DEF CopyInv, put_copy, None
<1>6. CASE dp < put.row \/ size = NoSize \/ size > s.priv_size
           \/ im.offsets[1] > im.capacity
  <2>1. touched' = {}
    BY <1>6 DEF put_copy
  <2> QED BY <1>5, <2>1 DEF CopiesStayInside
<1>7. CASE ~(dp < put.row \/ size = NoSize \/ size > s.priv_size
             \/ im.offsets[1] > im.capacity)
  <2>1. touched' = ImageRows(im, h, row, crow) \cup
                   Span(0, dp, h, put.row, s.priv_size) \cup
                   Span(dp * s.vstride, dp, c, pair, s.priv_size) \cup
                   {[end |-> size, size |-> s.priv_size]}
    BY <1>7 DEF put_copy
  <2>2. Inside(ImageRows(im, h, row, crow))
    <3>1. /\ row = (IF planar THEN w ELSE w * s.bps)
          /\ crow = (IF planar THEN w \div 2 ELSE w * s.bps)
      BY <1>4
    <3>2. h <= im.height
      BY <1>1, <1>3
    <3> QED BY <1>1, <1>2, <1>3, <3>1, <3>2, ImageRowsInside
  <2>3. dp \in Nat /\ put.row \in Nat /\ put.row <= dp /\ c \in Nat
    <3>1. dp \in Nat /\ put.row \in Nat
      BY <1>3, <1>4
    <3>2. c \in Nat
      BY <1>3
    <3> QED BY <1>7, <3>1, <3>2
  <2>4. pair \in Nat /\ pair <= dp
    <3>1. CASE planar
      <4>1. pair = 2 * (w \div 2) /\ put.row = w
        BY <1>1, <1>3, <1>4, <3>1
      <4>2. pair \in Nat /\ pair <= w
        BY <1>3, <4>1
      <4> QED BY <1>3, <2>3, <4>1, <4>2
    <3>2. CASE ~planar
      BY <2>3, <3>2
    <3> QED BY <3>1, <3>2
  <2>5. size \in Nat /\ size # NoSize /\ size <= s.priv_size
    <3>1. size \in Nat
      BY <1>3, <2>3, NvSize
    <3> QED BY <1>3, <1>7, <3>1
  <2> HIDE DEF dp, c, pair
  <2>6. dp * h <= s.priv_size /\ dp * s.vstride + dp * c <= s.priv_size
        /\ dp * s.vstride \in Nat
    BY <1>3, <2>3, <2>5, LayoutRoom DEF c
  <2>7. Inside(Span(0, dp, h, put.row, s.priv_size))
    <3>1. 0 + dp * h <= s.priv_size
      BY <1>3, <2>3, <2>6
    <3> QED BY <1>3, <2>3, <3>1, SpanInside
  <2>8. Inside(Span(dp * s.vstride, dp, c, pair, s.priv_size))
    BY <1>3, <2>3, <2>4, <2>6, SpanInside
  <2>9. Inside({[end |-> size, size |-> s.priv_size]})
    BY <2>5 DEF Inside
  <2> QED BY <1>5, <2>1, <2>2, <2>7, <2>8, <2>9 DEF CopiesStayInside, Inside
<1> QED BY <1>6, <1>7

(* The objects of a two-object import and the placeholder they are copied  *)
(* to have room for the picture.                                           *)
LEMMA NormalizeInside ==
  ASSUME Geometry(s), s.import.kind = "multi", NormalizeFits
  PROVE  Inside(NormalizeRows)
<1> DEFINE row == s.width * s.bps
           c   == s.height \div 2
           i   == s.import
<1>1. /\ s.width \in Nat /\ s.height \in Nat /\ s.hstride \in Nat
      /\ s.vstride \in Nat /\ s.bps \in {1, 2} /\ s.priv_size \in Nat
      /\ i.pitch \in Nat /\ i.cpitch \in Nat /\ i.size \in Nat
      /\ i.csize \in Nat
  BY DEF Geometry, SurfaceSet, ImportSet
<1>2. /\ i.pitch * s.height <= i.size /\ i.cpitch * c <= i.csize
  BY DEF Geometry
<1>3. /\ s.hstride >= s.width /\ s.vstride >= s.height
      /\ i.pitch >= row /\ i.cpitch >= row
      /\ rk_nv12_layout_size(s.hstride * s.bps, s.vstride) # NoSize
      /\ rk_nv12_layout_size(s.hstride * s.bps, s.vstride) <= s.priv_size
  BY DEF NormalizeFits, Pitch
<1>4. row \in Nat /\ c \in Nat
  BY <1>1
<1> HIDE DEF row, c, i
<1>5. Inside(Span(0, i.pitch, s.height, row, i.size))
  <2>1. i.pitch * s.height \in Nat
    BY <1>1
  <2>2. 0 + i.pitch * s.height <= i.size
    BY <1>2, <2>1
  <2> QED BY <1>1, <1>3, <1>4, <2>2, SpanInside
<1>6. Inside(Span(0, i.cpitch, c, row, i.csize))
  <2>1. i.cpitch * c \in Nat
    BY <1>1, <1>4
  <2>2. 0 + i.cpitch * c <= i.csize
    BY <1>2, <2>1
  <2> QED BY <1>1, <1>3, <1>4, <2>2, SpanInside
<1>7. Inside(RowsOf(PrivOf, s.width, s.height, s.bps))
  <2>1. PrivOf.hstride = s.hstride /\ PrivOf.vstride = s.vstride
        /\ PrivOf.size = s.priv_size
    BY DEF PrivOf
  <2>2. s.width * s.bps <= s.hstride * s.bps
    BY <1>1, <1>3
  <2> QED BY <1>1, <1>3, <2>1, <2>2, LayoutInside
<1> QED BY <1>5, <1>6, <1>7 DEF Inside, NormalizeRows, row, c, i

(* The buffer a reader resolves a surface to has a size.                   *)
LEMMA SourceSize ==
  ASSUME Geometry(s)
  PROVE  Source.size \in Nat
<1>1. /\ s.priv_size \in Nat /\ s.frame_size \in Nat /\ s.import.size \in Nat
  BY DEF Geometry, SurfaceSet, ImportSet
<1>2. CASE s.import.kind \in {"linear", "rgb"}
  BY <1>1, <1>2 DEF Source
<1>3. CASE s.import.kind = "multi"
  BY <1>1, <1>3 DEF Source
<1>4. CASE s.import.kind \notin {"linear", "rgb", "multi"}
  BY <1>1, <1>4 DEF Source
<1> QED BY <1>2, <1>3, <1>4

(* The rows vaGetImage touches, with those of a normalisation before it.   *)
LEMMA GetStep ==
  ASSUME ~CopyDerived, CopyInv, rk_GetImage
  PROVE  CopyInv' /\ CopiesStayInside'
<1> DEFINE planar == im.fourcc \in Planar
           row    == IF planar THEN s.width ELSE s.width * s.bps
           crow   == IF planar THEN s.width \div 2 ELSE row
           g      == [PrivOf EXCEPT !.size = Source.size]
           size   == rk_nv12_layout_size(Pitch, s.vstride)
<1>1. /\ s # None /\ im # None /\ put = None /\ ~im.derived
      /\ s.import.kind = "multi" => NormalizeFits
      /\ im.height >= s.height
      /\ planar => s.bps = 1
      /\ Pitch >= s.width * s.bps
      /\ size # NoSize /\ size <= Source.size
      /\ PlanesFit(im, s.width, s.height, s.bps)
      /\ UNCHANGED <<s, im, put>>
      /\ touched' = (IF s.import.kind = "multi" THEN NormalizeRows ELSE {})
           \cup RowsOf(g, s.width, s.height, s.bps)
           \cup ImageRows(im, s.height, row, crow)
           \cup {[end |-> im.capacity, size |-> im.storage]}
  BY DEF rk_GetImage
<1>2. Geometry(s) /\ Countable(im)
  BY <1>1 DEF CopyInv
<1>3. CopyInv'
  BY <1>1 DEF CopyInv
<1>4. /\ s.width \in Nat /\ s.height \in Nat /\ s.hstride \in Nat
      /\ s.vstride \in Nat /\ s.bps \in {1, 2}
      /\ s.height <= s.vstride /\ im.height \in Nat /\ Source.size \in Nat
  BY <1>2, SourceSize DEF Geometry, SurfaceSet, Countable, ImageSet
<1>5. IF s.import.kind = "multi" THEN Inside(NormalizeRows) ELSE TRUE
  BY <1>1, <1>2, NormalizeInside
<1>6. Inside(RowsOf(g, s.width, s.height, s.bps))
  <2>1. g.hstride = s.hstride /\ g.vstride = s.vstride
        /\ g.size = Source.size
    BY DEF PrivOf
  <2> HIDE DEF g
  <2>2. /\ rk_nv12_layout_size(s.hstride * s.bps, s.vstride) # NoSize
        /\ rk_nv12_layout_size(s.hstride * s.bps, s.vstride) <= Source.size
        /\ s.width * s.bps <= s.hstride * s.bps
    <3>1. s.width * s.bps \in Nat /\ s.hstride * s.bps \in Nat
      BY <1>4
    <3> QED BY <1>1, <3>1 DEF Pitch
  <2> QED BY <1>4, <2>1, <2>2, LayoutInside
<1>7. Inside(ImageRows(im, s.height, row, crow))
  <2>1. crow = (IF planar THEN s.width \div 2 ELSE s.width * s.bps)
    OBVIOUS
  <2>2. s.height <= im.height
    BY <1>1, <1>4
  <2> QED BY <1>1, <1>2, <1>4, <2>1, <2>2, ImageRowsInside
<1>8. Inside({[end |-> im.capacity, size |-> im.storage]})
  BY <1>1, <1>2 DEF Inside, Countable, ImageSet
<1> HIDE DEF g, row, crow
<1> QED BY <1>1, <1>3, <1>5, <1>6, <1>7, <1>8 DEF CopiesStayInside, Inside

(* The rows the encoder reads: nothing checks them for a surface of the    *)
(* driver's own or a linear import, whose geometry has not moved.          *)
LEMMA EncodeStep ==
  ASSUME ~EncodeDecoded, CopyInv, encode_input
  PROVE  CopyInv' /\ CopiesStayInside'
<1> DEFINE kind == s.import.kind
           z    == IF kind = "linear" THEN s.import.size ELSE s.priv_size
           g    == [hstride |-> s.hstride, vstride |-> s.vstride, size |-> z]
           rows == CASE kind = "multi" -> NormalizeRows
                     [] kind = "rgb" ->
                          {[end |-> s.import.pitch * s.height,
                            size |-> s.import.size]}
                     [] OTHER -> {}
<1>1. /\ s # None /\ put = None /\ ~s.begun /\ s.bps = 1
      /\ kind = "multi" => NormalizeFits
      /\ kind = "rgb" => ConvertFits
      /\ UNCHANGED <<s, im, put>>
  BY DEF encode_input
<1>2. touched' = rows \cup RowsOf(g, s.width, s.height, 1)
  <2>1. [PrivOf EXCEPT !.size = IF s.import.kind = "linear"
                                  THEN s.import.size ELSE @] = g
    BY DEF PrivOf
  <2> QED BY <2>1 DEF encode_input
<1>3. Geometry(s)
  BY <1>1 DEF CopyInv
<1>4. CopyInv'
  BY <1>1 DEF CopyInv
<1>5. /\ s.width \in Nat /\ s.height \in Nat /\ s.hstride \in Nat
      /\ s.vstride \in Nat /\ s.height <= s.vstride /\ s.priv_size \in Nat
      /\ kind \in {"none", "linear", "multi", "rgb"}
      /\ s.import.size \in Nat /\ s.import.pitch \in Nat
  BY <1>3 DEF Geometry, SurfaceSet, ImportSet
<1>6. Inside(rows)
  <2>1. CASE kind = "multi"
    BY <1>1, <1>3, <2>1, NormalizeInside
  <2>2. CASE kind = "rgb"
    <3>1. s.import.pitch * s.height <= s.import.size
      BY <1>1, <2>2 DEF ConvertFits
    <3> QED BY <2>2, <3>1 DEF Inside
  <2>3. CASE kind \notin {"multi", "rgb"}
    BY <2>3 DEF Inside
  <2> QED BY <2>1, <2>2, <2>3
<1>7. /\ g.hstride = s.hstride /\ g.vstride = s.vstride /\ g.size = z
      /\ z \in Nat
  BY <1>5
<1>8. s.hstride * 1 = s.hstride /\ s.width * 1 = s.width
  BY <1>5
<1>9. Inside(RowsOf(g, s.width, s.height, 1))
  <2>1. CASE kind \in {"none", "linear"}
    <3>1. s.width <= s.hstride
          /\ s.hstride * s.vstride + s.hstride * (s.height \div 2) <= z
      <4>1. CASE kind = "none"
        BY <1>1, <1>3, <4>1 DEF Geometry
      <4>2. CASE kind = "linear"
        <5>1. /\ s.import.pitch = s.hstride /\ s.vstride = s.height
              /\ s.width <= s.hstride
              /\ s.import.pitch * s.height
                   + s.import.pitch * (s.height \div 2) <= s.import.size
          BY <1>1, <1>3, <1>8, <4>2 DEF Geometry
        <5> QED BY <4>2, <5>1
      <4> QED BY <2>1, <4>1, <4>2
    <3> HIDE DEF g, z
    <3> QED BY <1>5, <1>7, <1>8, <3>1, PlanesInside
  <2>2. CASE kind \in {"multi", "rgb"}
    <3>1. /\ s.hstride >= s.width
          /\ rk_nv12_layout_size(s.hstride, s.vstride) # NoSize
          /\ rk_nv12_layout_size(s.hstride, s.vstride) <= z
      BY <1>1, <1>8, <2>2 DEF NormalizeFits, ConvertFits, Pitch
    <3> HIDE DEF g, z
    <3> QED BY <1>5, <1>7, <1>8, <3>1, LayoutInside
  <2> QED BY <1>5, <2>1, <2>2
<1> HIDE DEF rows, g
<1> QED BY <1>2, <1>4, <1>6, <1>9 DEF CopiesStayInside, Inside

(* The frame and the buffer that comes out of it.                          *)
LEMMA OutputFacts ==
  ASSUME NEW f \in Frames, FrameUsable(f)
  PROVE  /\ f.width \in Nat /\ f.height \in Nat /\ f.vstride \in Nat
         /\ f.height <= f.vstride /\ Depth(f) \in {1, 2}
         /\ Output(f).hstride \in Nat /\ Output(f).vstride = f.vstride
         /\ Output(f).size \in Nat /\ Output(f).size # NoSize
         /\ Depth(f) = 1 => Output(f).hstride = f.hstride
         /\ Depth(f) = 2 => f.width <= Output(f).hstride
<1>1. /\ f.width \in Nat /\ f.height \in Nat /\ f.vstride \in Nat
      /\ f.hstride \in Nat /\ f.pixels \in Nat /\ f.size \in Nat
  BY FrameAssumption
<1>2. Depth(f) \in {1, 2} /\ f.height <= f.vstride
  BY <1>1 DEF Depth, FrameUsable
<1>3. PixelStride(f) \in Nat
  <2>1. f.hstride \div 5 \in Nat
    BY <1>1
  <2>2. (f.hstride \div 5) * 4 \in Nat
    BY <2>1
  <2> QED BY <1>1, <2>2 DEF PixelStride
<1>4. CASE Depth(f) = 1
  <2>1. Output(f) = [hstride |-> f.hstride, vstride |-> f.vstride,
                     size |-> f.size]
    BY <1>4 DEF Output
  <2>2. f.fmt = "nv12"
    BY <1>4 DEF Depth
  <2>3. /\ rk_nv12_layout_size(f.hstride, f.vstride) # NoSize
        /\ rk_nv12_layout_size(f.hstride, f.vstride) <= f.size
    BY <2>2 DEF FrameUsable
  <2>4. rk_nv12_layout_size(f.hstride, f.vstride) \in Nat
    BY <1>1, NvSize
  <2>5. f.size # NoSize
    BY <1>1, <2>3, <2>4 DEF NoSize
  <2> QED BY <1>1, <1>2, <1>4, <2>1, <2>5
<1>5. CASE Depth(f) = 2
  <2>1. Output(f) = [hstride |-> PixelStride(f), vstride |-> f.vstride,
                     size |-> rk_p010_layout_size(PixelStride(f), f.vstride)]
    BY <1>5 DEF Output
  <2>2. /\ PixelStride(f) >= f.width
        /\ rk_p010_layout_size(PixelStride(f), f.vstride) # NoSize
    BY <1>5 DEF FrameUsable
  <2>3. rk_p010_layout_size(PixelStride(f), f.vstride) \in Nat
    BY <1>1, <1>3, P010Size
  <2> QED BY <1>1, <1>2, <1>3, <1>5, <2>1, <2>2, <2>3
<1> QED BY <1>2, <1>4, <1>5

(* Binding a frame, or copying it into an exported placeholder.            *)
LEMMA BindStep ==
  ASSUME ~BindDuringPut, CopyInv, NEW f \in Frames, bind(f)
  PROVE  CopyInv' /\ CopiesStayInside'
<1>1. /\ s # None /\ put = None /\ s.begun /\ FrameUsable(f)
      /\ UNCHANGED <<im, put>>
  BY DEF bind
<1>2. Geometry(s)
  BY <1>1 DEF CopyInv
<1>3. /\ f.width \in Nat /\ f.height \in Nat /\ f.vstride \in Nat
      /\ f.height <= f.vstride /\ Depth(f) \in {1, 2}
      /\ Output(f).hstride \in Nat /\ Output(f).vstride \in Nat
      /\ Output(f).size \in Nat
  BY <1>1, OutputFacts
<1>4. s \in SurfaceSet /\ s.import.kind = "none"
  BY <1>1, <1>2 DEF Geometry, SurfaceSet
<1>5. CASE s.stable
  <2>1. /\ RepackFits(f.width, f.height, Depth(f), Output(f), PrivOf)
        /\ s' = [s EXCEPT !.decoded = TRUE, !.bps = Depth(f)]
        /\ touched' = RowsOf(Output(f), f.width, f.height, Depth(f)) \cup
                      RowsOf(PrivOf, f.width, f.height, Depth(f))
    BY <1>5 DEF bind
  <2>2. /\ PrivOf.hstride \in Nat /\ PrivOf.vstride \in Nat
        /\ PrivOf.size \in Nat
    BY <1>4 DEF PrivOf, SurfaceSet
  <2>3. Inside(touched')
    BY <1>3, <2>1, <2>2, RepackInside
  <2>4. /\ s' \in SurfaceSet /\ s'.height = s.height
        /\ s'.vstride = s.vstride /\ s'.import = s.import /\ s'.begun
    BY <1>1, <1>3, <1>4, <2>1 DEF SurfaceSet
  <2>5. Geometry(s')
    BY <1>2, <1>4, <2>4 DEF Geometry
  <2> QED BY <1>1, <2>3, <2>5 DEF CopyInv, CopiesStayInside, Inside
<1>6. CASE ~s.stable
  <2>1. /\ s' = [s EXCEPT !.decoded = TRUE, !.bps = Depth(f),
                          !.width = f.width, !.height = f.height,
                          !.hstride = Output(f).hstride,
                          !.vstride = f.vstride,
                          !.frame_size = Output(f).size]
        /\ touched' = {}
    BY <1>6 DEF bind
  <2>2. /\ s' \in SurfaceSet /\ s'.height = f.height
        /\ s'.vstride = f.vstride /\ s'.import = s.import /\ s'.begun
    BY <1>1, <1>3, <1>4, <2>1 DEF SurfaceSet
  <2>3. Geometry(s')
    BY <1>3, <1>4, <2>2 DEF Geometry
  <2> QED BY <1>1, <2>1, <2>3 DEF CopyInv, CopiesStayInside
<1> QED BY <1>5, <1>6

(* The copy an export makes at a pitch the display can import.             *)
LEMMA RepackStep ==
  ASSUME CopyInv, export_repack
  PROVE  CopyInv' /\ CopiesStayInside'
<1> DEFINE src == [PrivOf EXCEPT !.size = Source.size]
<1>1. /\ s # None /\ put = None /\ UNCHANGED <<s, im, put>>
      /\ RepackFits(s.width, s.height, 1, src, ExportOf)
      /\ touched' = RowsOf(src, s.width, s.height, 1) \cup
                    RowsOf(ExportOf, s.width, s.height, 1)
  BY DEF export_repack
<1>2. Geometry(s)
  BY <1>1 DEF CopyInv
<1>3. /\ s.width \in Nat /\ s.height \in Nat /\ s.hstride \in Nat
      /\ s.vstride \in Nat /\ Source.size \in Nat
  BY <1>2, SourceSize DEF Geometry, SurfaceSet
<1>4. src.hstride \in Nat /\ src.vstride \in Nat /\ src.size \in Nat
  BY <1>3 DEF PrivOf
<1>5. /\ ExportOf.hstride \in Nat /\ ExportOf.vstride \in Nat
      /\ ExportOf.size \in Nat
  <2>1. RoundUp(s.hstride, 64) \in Nat
    BY <1>3, RoundUpFacts
  <2> QED BY <1>3, <2>1, NvSize DEF ExportOf
<1> HIDE DEF src
<1>6. Inside(touched')
  BY <1>1, <1>3, <1>4, <1>5, RepackInside
<1> QED BY <1>1, <1>6 DEF CopyInv, CopiesStayInside, Inside

(* Deriving an image copies its surface's geometry.                        *)
LEMMA DeriveStep ==
  ASSUME CopyInv, rk_DeriveImage
  PROVE  CopyInv' /\ CopiesStayInside'
<1> DEFINE chroma == Wrap(Pitch * s.vstride)
           size   == Wrap(chroma + chroma \div 2)
           fourcc == IF s.bps = 2 THEN "P010" ELSE "NV12"
<1>1. /\ s # None /\ im = None /\ touched' = {} /\ UNCHANGED <<s, put>>
      /\ im' = [fourcc |-> fourcc, bps |-> s.bps, width |-> s.width,
                height |-> s.height, planes |-> 2,
                pitches |-> <<Pitch, Pitch, 0>>,
                offsets |-> <<0, chroma, 0>>, capacity |-> size,
                storage |-> 1, derived |-> TRUE]
  BY DEF rk_DeriveImage
<1>2. put = None
  BY <1>1 DEF CopyInv, StillChecked
<1>3. /\ s.width \in Nat /\ s.height \in Nat /\ s.hstride \in Nat
      /\ s.vstride \in Nat /\ s.bps \in {1, 2}
  BY <1>1 DEF CopyInv, Geometry, SurfaceSet
<1>4. Pitch \in Nat
  BY <1>3 DEF Pitch
<1>5. chroma \in Nat
  <2>1. Pitch * s.vstride \in Nat
    BY <1>3, <1>4
  <2> QED BY <2>1, WrapFits
<1>6. size \in Nat
  <2> HIDE DEF chroma
  <2>1. chroma + chroma \div 2 \in Nat
    BY <1>5
  <2> QED BY <2>1, WrapFits
<1>7. fourcc \in Fourccs
  BY DEF Fourccs
<1> HIDE DEF chroma, size, fourcc
<1>8. im' \in ImageSet /\ im'.derived
  <2> DEFINE ps == <<Pitch, Pitch, 0>>
             os == <<0, chroma, 0>>
  <2>1. ps \in Nat \X Nat \X Nat /\ os \in Nat \X Nat \X Nat
    BY <1>4, <1>5
  <2> HIDE DEF ps, os
  <2>2. im' = [fourcc |-> fourcc, bps |-> s.bps, width |-> s.width,
               height |-> s.height, planes |-> 2, pitches |-> ps,
               offsets |-> os, capacity |-> size, storage |-> 1,
               derived |-> TRUE]
    BY <1>1 DEF ps, os
  <2> QED BY <1>3, <1>6, <1>7, <2>1, <2>2 DEF ImageSet
<1>9. Countable(im')
  BY <1>8 DEF Countable
<1> QED BY <1>1, <1>2, <1>9 DEF CopyInv, CopiesStayInside

(* Every step keeps the invariant and touches nothing outside a buffer.    *)
LEMMA CopyStep ==
  ASSUME ~BindDuringPut, ~CopyDerived, ~EncodeDecoded, CopyInv, CopiesStayInside, [Next]_vars
  PROVE  CopyInv' /\ CopiesStayInside'
<1>1. ASSUME NEW q \in Requests, create_surfaces(q)
      PROVE  CopyInv' /\ CopiesStayInside'
  <2>1. /\ s = None /\ Acceptable(q) /\ touched' = {} /\ UNCHANGED <<im, put>>
        /\ s' = SurfaceOf(q, IF q.descriptor = None THEN NoImport
                             ELSE ImportOf(q.fourcc, q.descriptor))
    BY <1>1 DEF create_surfaces
  <2>2. put = None
    BY <2>1 DEF CopyInv, StillChecked
  <2>3. Geometry(s')
    BY <2>1, NewSurface
  <2> QED BY <2>1, <2>2, <2>3 DEF CopyInv, CopiesStayInside
<1>2. ASSUME NEW q \in ImageRequests, rk_CreateImage(q)
      PROVE  CopyInv' /\ CopiesStayInside'
  <2>1. /\ put = None /\ ImageFits(q) /\ touched' = {} /\ UNCHANGED <<s, put>>
        /\ ImageSize(ImageOf(q)) # NoSize
        /\ im' = [ImageOf(q) EXCEPT !.capacity = ImageSize(ImageOf(q)),
                                    !.storage = ImageSize(ImageOf(q))]
    BY <1>2 DEF rk_CreateImage
  <2>2. Countable(im')
    BY <2>1, NewImage
  <2> QED BY <2>1, <2>2 DEF CopyInv, CopiesStayInside
<1>3. CASE rk_DeriveImage
  BY <1>3, DeriveStep
<1>4. CASE rk_DestroyImage
  BY <1>4 DEF rk_DestroyImage, CopyInv, CopiesStayInside
<1>5. CASE draw
  BY <1>5 DEF draw, CopyInv, CopiesStayInside
<1>6. CASE put_check
  <2>1. /\ s # None /\ im # None /\ ~im.derived /\ im.height = s.height
        /\ s.import = NoImport
        /\ im.fourcc \in Planar => s.bps = 1
        /\ PlanesFit(im, s.width, s.height, s.bps)
        /\ put' = [bps |-> s.bps, row |-> s.width * s.bps,
                   chroma |-> s.width \div 2]
        /\ touched' = {} /\ UNCHANGED <<s, im>>
    BY <1>6 DEF put_check
  <2>2. StillChecked'
    BY <2>1 DEF StillChecked
  <2> QED BY <2>1, <2>2 DEF CopyInv, CopiesStayInside
<1>7. CASE put_copy
  BY <1>7, PutStep
<1>8. CASE put_fails
  BY <1>8 DEF put_fails, CopyInv, CopiesStayInside
<1>9. CASE rk_GetImage
  BY <1>9, GetStep
<1>10. CASE encode_input
  BY <1>10, EncodeStep
<1>11. CASE rk_BeginPicture
  <2>1. /\ s # None /\ put = None /\ s.import = NoImport
        /\ s' = [s EXCEPT !.begun = TRUE, !.decoded = FALSE,
                          !.frame_size = NoSize]
        /\ touched' = {} /\ UNCHANGED <<im, put>>
    BY <1>11 DEF rk_BeginPicture
  <2>2. Geometry(s) /\ s.import.kind = "none"
    BY <2>1 DEF CopyInv, NoImport
  <2>3. /\ s' \in SurfaceSet /\ s'.height = s.height
        /\ s'.vstride = s.vstride /\ s'.import = s.import /\ s'.begun
    BY <2>1, <2>2 DEF Geometry, SurfaceSet, NoSize
  <2>4. Geometry(s')
    BY <2>2, <2>3 DEF Geometry
  <2> QED BY <2>1, <2>4 DEF CopyInv, CopiesStayInside
<1>12. ASSUME NEW f \in Frames, bind(f)
       PROVE  CopyInv' /\ CopiesStayInside'
  BY <1>12, BindStep
<1>13. CASE export_placeholder
  <2>1. /\ s # None /\ put = None /\ s' = [s EXCEPT !.stable = TRUE]
        /\ touched' = {} /\ UNCHANGED <<im, put>>
    BY <1>13 DEF export_placeholder
  <2>2. Geometry(s)
    BY <2>1 DEF CopyInv
  <2>3. /\ s' \in SurfaceSet /\ s'.height = s.height
        /\ s'.vstride = s.vstride /\ s'.import = s.import
        /\ s'.begun = s.begun /\ s'.bps = s.bps /\ s'.width = s.width
        /\ s'.hstride = s.hstride /\ s'.priv_size = s.priv_size
    BY <2>1, <2>2 DEF Geometry, SurfaceSet
  <2>4. Geometry(s')
    BY <2>2, <2>3 DEF Geometry
  <2> QED BY <2>1, <2>4 DEF CopyInv, CopiesStayInside
<1>14. CASE export_repack
  BY <1>14, RepackStep
<1>15. CASE UNCHANGED vars
  BY <1>15 DEF vars, CopyInv, StillChecked, CopiesStayInside
<1> QED BY <1>1, <1>2, <1>3, <1>4, <1>5, <1>6, <1>7, <1>8, <1>9, <1>10,
           <1>11, <1>12, <1>13, <1>14, <1>15 DEF Next

(* No copy between a surface, an imported object and an image reads or     *)
(* writes a byte outside the memory behind it, for an application that     *)
(* does not decode into a surface while vaPutImage is at work on it, hands *)
(* no derived image to vaPutImage or vaGetImage and encodes no surface it  *)
(* has decoded into.                                                       *)
THEOREM CopiesInside ==
  ASSUME ~BindDuringPut, ~CopyDerived, ~EncodeDecoded
  PROVE  Spec => []CopiesStayInside
<1>1. Init => CopyInv /\ CopiesStayInside
  BY DEF Init, CopyInv, CopiesStayInside
<1>2. CopyInv /\ CopiesStayInside /\ [Next]_vars
        => (CopyInv /\ CopiesStayInside)'
  BY CopyStep
<1> QED BY <1>1, <1>2, PTL DEF Spec

-----------------------------------------------------------------------------
(***************************************************************************)
(* Samples: where copies take them.                                        *)
(***************************************************************************)

(* A row further.                                                          *)
LEMMA NextRow ==
  ASSUME NEW r \in Nat, NEW p \in Nat
  PROVE  (r + 1) * p = r * p + p /\ r * p \in Nat
OBVIOUS

(* Row and column are found again in an address.                           *)
LEMMA RowAndColumn ==
  ASSUME NEW r \in Nat, NEW c \in Nat, NEW p \in Nat, c < p
  PROVE  (r * p + c) \div p = r /\ (r * p + c) % p = c
<1> DEFINE x == r * p + c
           q == x \div p
           m == x % p
<1>1. x \in Nat /\ p > 0
  OBVIOUS
<1>2. q \in Nat /\ m \in Nat /\ m < p /\ x = q * p + m
  <2> HIDE DEF x
  <2> QED BY <1>1
<1> HIDE DEF q, m
<1>3. q * p + m = r * p + c
  BY <1>2
<1>4. q = r
  <2>1. ASSUME q < r PROVE FALSE
    <3>1. (q + 1) * p <= r * p
      BY <1>1, <1>2, <2>1, TimesMono
    <3>2. (q + 1) * p = q * p + p /\ q * p \in Nat /\ r * p \in Nat
      BY <1>2
    <3> QED BY <1>2, <1>3, <3>1, <3>2
  <2>2. ASSUME q > r PROVE FALSE
    <3>1. (r + 1) * p <= q * p
      BY <1>1, <1>2, <2>2, TimesMono
    <3>2. (r + 1) * p = r * p + p /\ q * p \in Nat /\ r * p \in Nat
      BY <1>2
    <3> QED BY <1>2, <1>3, <3>1, <3>2
  <2> QED BY <1>2, <2>1, <2>2
<1>5. m = c
  <2>1. r * p \in Nat
    OBVIOUS
  <2> QED BY <1>2, <1>3, <1>4, <2>1
<1> QED BY <1>4, <1>5 DEF q, m

(* An address has one row and one column.                                  *)
LEMMA OneRowAndColumn ==
  ASSUME NEW r \in Nat, NEW c \in Nat, NEW q \in Nat, NEW d \in Nat,
         NEW p \in Nat, c < p, d < p, r * p + c = q * p + d
  PROVE  r = q /\ c = d
<1>1. (r * p + c) \div p = r /\ (r * p + c) % p = c
  BY RowAndColumn
<1>2. (q * p + d) \div p = q /\ (q * p + d) % p = d
  BY RowAndColumn
<1> DEFINE x == r * p + c
           y == q * p + d
<1>3. x = y
  OBVIOUS
<1> HIDE DEF x, y
<1>4. x \div p = r /\ x % p = c /\ y \div p = q /\ y % p = d
  BY <1>1, <1>2 DEF x, y
<1> QED BY <1>3, <1>4, Zenon

(* The address of a byte of a row.                                         *)
Byte(off, pitch, r, c) == off + (r * pitch + c)

(* Byte c of row r is among those copied, and rows have room on both sides.*)
Moved(so, sp, do, dp, rows, n, r, c) ==
  /\ so \in Nat /\ sp \in Nat /\ do \in Nat /\ dp \in Nat
  /\ rows \in Nat /\ n \in Nat /\ n <= sp /\ n <= dp
  /\ r \in Nat /\ c \in Nat /\ r < rows /\ c < n

(* A byte of a row that CopyRows copies arrives in the same row and column.*)
LEMMA CopyRowsAt ==
  ASSUME NEW src, NEW so, NEW sp, NEW do, NEW dp, NEW rows, NEW n, NEW r,
         NEW c, Moved(so, sp, do, dp, rows, n, r, c),
         Byte(so, sp, r, c) \in DOMAIN src
  PROVE  LET out == CopyRows(src, so, sp, do, dp, rows, n)
         IN /\ Byte(do, dp, r, c) \in DOMAIN out
            /\ At(out, Byte(do, dp, r, c)) = At(src, Byte(so, sp, r, c))
<1> DEFINE x == so + (r * sp + c)
           y == do + (r * dp + c)
           read == {a \in DOMAIN src : /\ a >= so
                                       /\ (a - so) \div sp < rows
                                       /\ (a - so) % sp < n}
           D == {do + ((a - so) \div sp) * dp + ((a - so) % sp) : a \in read}
           F == [a \in D |-> At(src, so + ((a - do) \div dp) * sp
                                        + ((a - do) % dp))]
<1>1. /\ so \in Nat /\ sp \in Nat /\ do \in Nat /\ dp \in Nat
      /\ rows \in Nat /\ n \in Nat /\ r \in Nat /\ c \in Nat
      /\ r < rows /\ c < n
  BY DEF Moved
<1>2. r * sp \in Nat /\ r * dp \in Nat /\ c < sp /\ c < dp
  BY DEF Moved
<1>3. x >= so /\ x - so = r * sp + c /\ y - do = r * dp + c
  BY <1>1, <1>2
<1>4. (x - so) \div sp = r /\ (x - so) % sp = c
  <2>1. (r * sp + c) \div sp = r /\ (r * sp + c) % sp = c
    BY <1>1, <1>2, RowAndColumn
  <2> HIDE DEF x
  <2> QED BY <1>3, <2>1
<1>5. (y - do) \div dp = r /\ (y - do) % dp = c
  <2>1. (r * dp + c) \div dp = r /\ (r * dp + c) % dp = c
    BY <1>1, <1>2, RowAndColumn
  <2> HIDE DEF y
  <2> QED BY <1>3, <2>1
<1> HIDE DEF x, y
<1>6. x \in read
  BY <1>1, <1>3, <1>4 DEF x, Byte
<1>7. y = do + ((x - so) \div sp) * dp + ((x - so) % sp)
  BY <1>1, <1>2, <1>4 DEF y
<1>8. y \in D
  BY <1>6, <1>7
<1>9. F[y] = At(src, so + ((y - do) \div dp) * sp + ((y - do) % dp))
  BY <1>8
<1>10. so + ((y - do) \div dp) * sp + ((y - do) % dp) = x
  BY <1>1, <1>2, <1>5 DEF x
<1>11. F[y] = At(src, x)
  BY <1>9, <1>10
<1>12. CopyRows(src, so, sp, do, dp, rows, n) = F
  BY DEF CopyRows
<1> HIDE DEF F, D
<1>13. DOMAIN F = D
  BY DEF F
<1>14. y \in DOMAIN F /\ At(F, y) = At(src, x)
  BY <1>8, <1>11, <1>13 DEF At
<1>15. x = Byte(so, sp, r, c) /\ y = Byte(do, dp, r, c)
  BY DEF x, y, Byte
<1> QED BY <1>12, <1>14, <1>15

(* What CopyRows writes lies in its rows.                                  *)
LEMMA CopyRowsDomain ==
  ASSUME NEW src, DOMAIN src \subseteq Nat,
         NEW so \in Nat, NEW sp \in Nat, NEW do \in Nat,
         NEW dp \in Nat, NEW rows \in Nat, NEW n \in Nat, n <= dp, sp > 0
  PROVE  \A a \in DOMAIN CopyRows(src, so, sp, do, dp, rows, n) :
           a \in Nat /\ do <= a /\ a < do + rows * dp
<1> DEFINE read == {a \in DOMAIN src : /\ a >= so
                                       /\ (a - so) \div sp < rows
                                       /\ (a - so) % sp < n}
           D == {do + ((a - so) \div sp) * dp + ((a - so) % sp) : a \in read}
<1>1. DOMAIN CopyRows(src, so, sp, do, dp, rows, n) = D
  BY DEF CopyRows
<1>2. ASSUME NEW x \in read
      PROVE  LET a == do + ((x - so) \div sp) * dp + ((x - so) % sp)
             IN a \in Nat /\ do <= a /\ a < do + rows * dp
  <2> DEFINE r == (x - so) \div sp
             c == (x - so) % sp
  <2>1. x - so \in Nat
    OBVIOUS
  <2>2. r \in Nat /\ c \in Nat /\ r < rows /\ c < n
    <3> DEFINE y == x - so
    <3>1. y \in Nat /\ y \div sp < rows /\ y % sp < n
      BY <2>1
    <3> HIDE DEF y
    <3>2. y \div sp \in Nat /\ y % sp \in Nat
      BY <3>1
    <3> QED BY <3>1, <3>2 DEF y
  <2> HIDE DEF r, c
  <2>3. (r + 1) * dp <= rows * dp
    BY <2>2, TimesMono
  <2>4. (r + 1) * dp = r * dp + dp /\ r * dp \in Nat /\ rows * dp \in Nat
    BY <2>2
  <2>5. /\ do + r * dp + c \in Nat /\ do <= do + r * dp + c
        /\ do + r * dp + c < do + rows * dp
    BY <2>2, <2>3, <2>4
  <2> QED BY <2>5 DEF r, c
<1> QED BY <1>1, <1>2

-----------------------------------------------------------------------------
(***************************************************************************)
(* Layouts.                                                                *)
(***************************************************************************)

(* The byte of its row at which NV12 and P010 have a sample.               *)
ByteCol(k, bps) ==
  IF k[1] = "Y" THEN k[3] * bps + k[4]
  ELSE (2 * k[3] + (IF k[1] = "V" THEN 1 ELSE 0)) * bps + k[4]

RowsFor(k, h) == IF k[1] = "Y" THEN h ELSE h \div 2

(* A sample's row and byte lie in the picture, and together with the plane *)
(* they say which sample it is.                                            *)
LEMMA CoordFacts ==
  ASSUME NEW w \in Nat, NEW h \in Nat, NEW bps \in {1, 2},
         NEW k \in Coords(w, h, bps)
  PROVE  /\ k = <<k[1], k[2], k[3], k[4]>>
         /\ k[1] \in {"Y", "U", "V"}
         /\ k[2] \in Nat /\ k[3] \in Nat /\ k[4] \in Nat
         /\ k[4] < bps /\ k[2] < RowsFor(k, h)
         /\ k[3] < (IF k[1] = "Y" THEN w ELSE w \div 2)
<1>1. \/ k \in {"Y"} \X Edge(h) \X Edge(w) \X (0 .. bps - 1)
      \/ k \in {"U", "V"} \X Edge(h \div 2) \X Edge(w \div 2)
               \X (0 .. bps - 1)
  BY DEF Coords
<1>2. Edge(h) \subseteq 0 .. h - 1 /\ Edge(w) \subseteq 0 .. w - 1
      /\ Edge(h \div 2) \subseteq 0 .. h \div 2 - 1
      /\ Edge(w \div 2) \subseteq 0 .. w \div 2 - 1
  BY DEF Edge
<1>3. \/ k \in {"Y"} \X (0 .. h - 1) \X (0 .. w - 1) \X (0 .. bps - 1)
      \/ k \in {"U", "V"} \X (0 .. h \div 2 - 1) \X (0 .. w \div 2 - 1)
               \X (0 .. bps - 1)
  BY <1>1, <1>2
<1> QED BY <1>3 DEF RowsFor

(* The bytes of a row.                                                     *)
LEMMA ByteColFacts ==
  ASSUME NEW w \in Nat, NEW h \in Nat, NEW bps \in {1, 2},
         NEW k \in Coords(w, h, bps)
  PROVE  ByteCol(k, bps) \in Nat /\ ByteCol(k, bps) < w * bps
<1>1. /\ k[3] \in Nat /\ k[4] \in Nat /\ k[4] < bps
      /\ k[3] < (IF k[1] = "Y" THEN w ELSE w \div 2)
  BY CoordFacts
<1>2. CASE bps = 1
  BY <1>1, <1>2 DEF ByteCol
<1>3. CASE bps = 2
  BY <1>1, <1>3 DEF ByteCol
<1> QED BY <1>2, <1>3

(* Where the luma of a layout is.                                          *)
LEMMA LumaAddr ==
  ASSUME NEW w \in Nat, NEW h \in Nat, NEW bps \in {1, 2},
         NEW k \in Coords(w, h, bps), NEW pitch \in Nat, NEW chroma \in Nat,
         k[1] = "Y"
  PROVE  /\ NvAddr(k, pitch, chroma, bps)
              = Byte(0, pitch, k[2], ByteCol(k, bps))
         /\ NvAddr(k, pitch, chroma, bps) \in Nat
<1>1. /\ k[2] \in Nat /\ k[3] \in Nat /\ k[4] \in Nat
  BY CoordFacts
<1>2. k[2] * pitch \in Nat
  BY <1>1
<1>3. k[3] * bps \in Nat
  BY <1>1
<1> QED BY <1>1, <1>2, <1>3 DEF NvAddr, ByteCol, Byte

(* Where its chroma is.                                                    *)
LEMMA ChromaAddr ==
  ASSUME NEW w \in Nat, NEW h \in Nat, NEW bps \in {1, 2},
         NEW k \in Coords(w, h, bps), NEW pitch \in Nat, NEW chroma \in Nat,
         k[1] # "Y"
  PROVE  NvAddr(k, pitch, chroma, bps)
           = Byte(chroma, pitch, k[2], ByteCol(k, bps))
<1> DEFINE v == (2 * k[3] + (IF k[1] = "V" THEN 1 ELSE 0)) * bps
           o == k[2] * pitch
<1>1. /\ k[2] \in Nat /\ k[3] \in Nat /\ k[4] \in Nat
  BY CoordFacts
<1>2. o \in Nat
  BY <1>1
<1>3. v \in Nat
  BY <1>1
<1>4. /\ NvAddr(k, pitch, chroma, bps) = chroma + o + v + k[4]
      /\ ByteCol(k, bps) = v + k[4]
  BY DEF NvAddr, ByteCol
<1>5. Byte(chroma, pitch, k[2], ByteCol(k, bps)) = chroma + (o + (v + k[4]))
  BY <1>4 DEF Byte
<1> HIDE DEF v, o
<1> QED BY <1>1, <1>2, <1>3, <1>4, <1>5

(* It is not in front of its plane.                                        *)
LEMMA ChromaAbove ==
  ASSUME NEW w \in Nat, NEW h \in Nat, NEW bps \in {1, 2},
         NEW k \in Coords(w, h, bps), NEW pitch \in Nat, NEW chroma \in Nat,
         k[1] # "Y"
  PROVE  /\ NvAddr(k, pitch, chroma, bps) \in Nat
         /\ chroma <= NvAddr(k, pitch, chroma, bps)
<1> DEFINE o == k[2] * pitch
           c == ByteCol(k, bps)
<1>1. o \in Nat
  <2>1. k[2] \in Nat
    BY CoordFacts
  <2> QED BY <2>1
<1>2. c \in Nat
  BY ByteColFacts
<1>3. NvAddr(k, pitch, chroma, bps) = chroma + (o + c)
  <2>1. NvAddr(k, pitch, chroma, bps) = Byte(chroma, pitch, k[2], c)
    BY ChromaAddr
  <2> QED BY <2>1 DEF Byte
<1> HIDE DEF o, c
<1> QED BY <1>1, <1>2, <1>3

(* Addresses are natural numbers.                                          *)
LEMMA NvAddrNat ==
  ASSUME NEW w \in Nat, NEW h \in Nat, NEW bps \in {1, 2},
         NEW k \in Coords(w, h, bps), NEW pitch \in Nat, NEW chroma \in Nat
  PROVE  NvAddr(k, pitch, chroma, bps) \in Nat
BY LumaAddr, ChromaAbove

(* Sample, component and byte are found again in the byte of a P010 row.   *)
LEMMA PairIsUnique ==
  ASSUME NEW a \in Nat, NEW b \in Nat, NEW u \in {0, 1}, NEW v \in {0, 1},
         NEW c \in Nat, NEW d \in Nat, c < 2, d < 2,
         (2 * a + u) * 2 + c = (2 * b + v) * 2 + d
  PROVE  a = b /\ u = v /\ c = d
<1>1. 4 * a + (2 * u + c) = 4 * b + (2 * v + d)
  OBVIOUS
<1>2. /\ 2 * u + c \in Nat /\ 2 * u + c < 4
      /\ 2 * v + d \in Nat /\ 2 * v + d < 4
  OBVIOUS
<1>3. a = b /\ 2 * u + c = 2 * v + d
  BY <1>1, <1>2
<1> QED BY <1>3

(* Two samples of one plane have different addresses.                      *)
LEMMA PlaneDistinct ==
  ASSUME NEW w \in Nat, NEW h \in Nat, NEW bps \in {1, 2},
         NEW k \in Coords(w, h, bps), NEW l \in Coords(w, h, bps),
         NEW pitch \in Nat, NEW chroma \in Nat, w * bps <= pitch,
         (k[1] = "Y") <=> (l[1] = "Y"),
         NvAddr(k, pitch, chroma, bps) = NvAddr(l, pitch, chroma, bps)
  PROVE  k = l
<1>1. /\ k[2] \in Nat /\ l[2] \in Nat
      /\ ByteCol(k, bps) \in Nat /\ ByteCol(k, bps) < pitch
      /\ ByteCol(l, bps) \in Nat /\ ByteCol(l, bps) < pitch
  <2>1. w * bps \in Nat
    OBVIOUS
  <2>2. k[2] \in Nat /\ l[2] \in Nat
    BY CoordFacts
  <2>3. /\ ByteCol(k, bps) \in Nat /\ ByteCol(k, bps) < w * bps
        /\ ByteCol(l, bps) \in Nat /\ ByteCol(l, bps) < w * bps
    BY ByteColFacts
  <2> QED BY <2>1, <2>2, <2>3
<1>2. k[2] * pitch + ByteCol(k, bps) = l[2] * pitch + ByteCol(l, bps)
  <2>1. k[2] * pitch \in Nat /\ l[2] * pitch \in Nat
    BY <1>1
  <2>2. CASE k[1] = "Y"
    <3>1. Byte(0, pitch, k[2], ByteCol(k, bps))
            = Byte(0, pitch, l[2], ByteCol(l, bps))
      BY <2>2, LumaAddr
    <3> QED BY <1>1, <2>1, <3>1 DEF Byte
  <2>3. CASE k[1] # "Y"
    <3> DEFINE a == k[2] * pitch + ByteCol(k, bps)
               b == l[2] * pitch + ByteCol(l, bps)
    <3>1. Byte(chroma, pitch, k[2], ByteCol(k, bps))
            = Byte(chroma, pitch, l[2], ByteCol(l, bps))
      BY <2>3, ChromaAddr
    <3>2. chroma + a = chroma + b
      BY <3>1 DEF Byte
    <3>3. a \in Nat /\ b \in Nat
      BY <1>1, <2>1
    <3>4. a = b
      <4> HIDE DEF a, b
      <4> QED BY <3>2, <3>3
    <3> QED BY <3>4
  <2> QED BY <2>2, <2>3
<1>3. k[2] = l[2] /\ ByteCol(k, bps) = ByteCol(l, bps)
  BY <1>1, <1>2, OneRowAndColumn, SMTT(30)
<1>4. /\ k = <<k[1], k[2], k[3], k[4]>> /\ l = <<l[1], l[2], l[3], l[4]>>
      /\ k[1] \in {"Y", "U", "V"} /\ l[1] \in {"Y", "U", "V"}
      /\ k[3] \in Nat /\ k[4] \in Nat /\ l[3] \in Nat /\ l[4] \in Nat
      /\ k[4] < bps /\ l[4] < bps
  BY CoordFacts
<1>5. k[1] = l[1] /\ k[3] = l[3] /\ k[4] = l[4]
  <2>1. CASE bps = 1
    BY <1>3, <1>4, <2>1 DEF ByteCol
  <2>2. CASE bps = 2
    <3>1. CASE k[1] = "Y"
      <4>1. k[3] * 2 + k[4] = l[3] * 2 + l[4]
        BY <1>3, <2>2, <3>1 DEF ByteCol
      <4> QED BY <1>4, <2>2, <3>1, <4>1
    <3>2. CASE k[1] # "Y"
      <4> DEFINE v(x) == IF x[1] = "V" THEN 1 ELSE 0
      <4>1. (2 * k[3] + v(k)) * 2 + k[4] = (2 * l[3] + v(l)) * 2 + l[4]
        BY <1>3, <2>2, <3>2 DEF ByteCol
      <4>2. v(k) \in {0, 1} /\ v(l) \in {0, 1}
        OBVIOUS
      <4>3. k[3] = l[3] /\ k[4] = l[4] /\ v(k) = v(l)
        <5> HIDE DEF v
        <5> QED BY <1>4, <2>2, <4>1, <4>2, PairIsUnique
      <4> QED BY <1>4, <3>2, <4>3
    <3> QED BY <3>1, <3>2
  <2> QED BY <2>1, <2>2
<1> QED BY <1>3, <1>4, <1>5

(* Luma ends before chroma begins.                                         *)
LEMMA LumaBelow ==
  ASSUME NEW w \in Nat, NEW h \in Nat, NEW bps \in {1, 2},
         NEW k \in Coords(w, h, bps), NEW pitch \in Nat, NEW chroma \in Nat,
         w * bps <= pitch, k[1] = "Y"
  PROVE  NvAddr(k, pitch, chroma, bps) < h * pitch
<1>1. k[2] \in Nat /\ k[2] + 1 <= h
  BY CoordFacts DEF RowsFor
<1>2. ByteCol(k, bps) \in Nat /\ ByteCol(k, bps) < pitch
  <2>1. w * bps \in Nat
    OBVIOUS
  <2>2. ByteCol(k, bps) \in Nat /\ ByteCol(k, bps) < w * bps
    BY ByteColFacts
  <2> QED BY <2>1, <2>2
<1>3. (k[2] + 1) * pitch <= h * pitch
  BY <1>1, TimesMono
<1>4. (k[2] + 1) * pitch = k[2] * pitch + pitch /\ k[2] * pitch \in Nat
      /\ h * pitch \in Nat
  BY <1>1, NextRow
<1>5. NvAddr(k, pitch, chroma, bps) = Byte(0, pitch, k[2], ByteCol(k, bps))
  BY LumaAddr
<1>6. NvAddr(k, pitch, chroma, bps) = k[2] * pitch + ByteCol(k, bps)
  BY <1>2, <1>4, <1>5 DEF Byte
<1> QED BY <1>2, <1>3, <1>4, <1>6

(* A memory that was made to hold a picture shows it, if no two samples    *)
(* share an address.                                                       *)
LEMMA HeldShows ==
  ASSUME NEW p, NEW layout,
         \A k, l \in DOMAIN layout : layout[k] = layout[l] => k = l
  PROVE  Shows(Holding(p, layout), p, layout)
<1> SUFFICES ASSUME NEW k \in DOMAIN layout
             PROVE  At(Holding(p, layout), layout[k]) = <<p, k>>
  BY DEF Shows
<1> DEFINE D == {layout[x] : x \in DOMAIN layout}
           l == CHOOSE x \in DOMAIN layout : layout[x] = layout[k]
<1>1. layout[k] \in D
  OBVIOUS
<1>2. l \in DOMAIN layout /\ layout[l] = layout[k]
  OBVIOUS
<1>3. l = k
  <2> HIDE DEF l
  <2> QED BY <1>2
<1>4. /\ layout[k] \in DOMAIN Holding(p, layout)
      /\ Holding(p, layout)[layout[k]] = <<p, l>>
  BY <1>1 DEF Holding
<1> QED BY <1>3, <1>4 DEF At

(* The addresses of a memory that holds a picture are those of its layout. *)
LEMMA HeldDomain ==
  ASSUME NEW p, NEW layout, \A k \in DOMAIN layout : layout[k] \in Nat
  PROVE  DOMAIN Holding(p, layout) \subseteq Nat
BY DEF Holding

(* A semi-planar layout with room for its rows and luma in front of chroma *)
(* keeps its samples apart.                                                *)
LEMMA NvDistinct ==
  ASSUME NEW w \in Nat, NEW h \in Nat, NEW bps \in {1, 2},
         NEW k \in Coords(w, h, bps), NEW l \in Coords(w, h, bps),
         NEW pitch \in Nat, NEW chroma \in Nat,
         w * bps <= pitch, h * pitch <= chroma,
         NvAddr(k, pitch, chroma, bps) = NvAddr(l, pitch, chroma, bps)
  PROVE  k = l
<1> DEFINE A(x) == NvAddr(x, pitch, chroma, bps)
<1>1. ASSUME NEW x \in Coords(w, h, bps), x[1] # "Y"
      PROVE  chroma <= A(x)
  BY <1>1, ChromaAbove
<1>2. ASSUME NEW x \in Coords(w, h, bps), x[1] = "Y"
      PROVE  A(x) < h * pitch
  BY <1>2, LumaBelow
<1>3. A(k) \in Nat /\ A(l) \in Nat /\ A(k) = A(l)
  BY NvAddrNat
<1>4. h * pitch \in Nat
  BY NextRow
<1> HIDE DEF A
<1> DEFINE end == h * pitch
<1>5. end \in Nat /\ end <= chroma
  BY <1>4
<1>6. (k[1] = "Y") <=> (l[1] = "Y")
  <2>1. CASE k[1] = "Y" /\ l[1] # "Y"
    <3>1. A(k) < end /\ chroma <= A(l)
      BY <1>1, <1>2, <2>1
    <3> HIDE DEF end
    <3> QED BY <1>3, <1>5, <3>1
  <2>2. CASE k[1] # "Y" /\ l[1] = "Y"
    <3>1. A(l) < end /\ chroma <= A(k)
      BY <1>1, <1>2, <2>2
    <3> HIDE DEF end
    <3> QED BY <1>3, <1>5, <3>1
  <2> QED BY <2>1, <2>2
<1> QED BY <1>6, PlaneDistinct

(* A picture laid out in NV12 or P010 can be read where it is.             *)
LEMMA NvHolds ==
  ASSUME NEW p, NEW w \in Nat, NEW h \in Nat, NEW bps \in {1, 2},
         NEW pitch \in Nat, NEW chroma \in Nat,
         w * bps <= pitch, h * pitch <= chroma
  PROVE  LET L == NvLayout(w, h, bps, pitch, chroma)
         IN Shows(Holding(p, L), p, L) /\ DOMAIN Holding(p, L) \subseteq Nat
<1> DEFINE L == NvLayout(w, h, bps, pitch, chroma)
<1>1. DOMAIN L = Coords(w, h, bps)
      /\ \A k \in Coords(w, h, bps) : L[k] = NvAddr(k, pitch, chroma, bps)
  BY DEF NvLayout
<1>2. \A k \in DOMAIN L : L[k] \in Nat
  BY <1>1, NvAddrNat
<1>3. \A k, l \in DOMAIN L : L[k] = L[l] => k = l
  BY <1>1, NvDistinct
<1> HIDE DEF L
<1>4. Shows(Holding(p, L), p, L) /\ DOMAIN Holding(p, L) \subseteq Nat
  BY <1>2, <1>3, HeldShows, HeldDomain
<1> QED BY <1>4 DEF L

(* The same of one plane of its own.                                       *)
LEMMA PlaneHolds ==
  ASSUME NEW p, NEW w \in Nat, NEW h \in Nat, NEW bps \in {1, 2},
         NEW pitch \in Nat, NEW chroma \in Nat, w * bps <= pitch,
         NEW comps \in {{"Y"}, {"U", "V"}}
  PROVE  LET L == Plane(comps, NvLayout(w, h, bps, pitch, chroma))
         IN Shows(Holding(p, L), p, L) /\ DOMAIN Holding(p, L) \subseteq Nat
<1> DEFINE N == NvLayout(w, h, bps, pitch, chroma)
           L == Plane(comps, N)
<1>1. DOMAIN N = Coords(w, h, bps)
      /\ \A k \in Coords(w, h, bps) : N[k] = NvAddr(k, pitch, chroma, bps)
  BY DEF NvLayout
<1>2. /\ DOMAIN L = {x \in Coords(w, h, bps) : x[1] \in comps}
      /\ \A k \in DOMAIN L : L[k] = N[k]
  <2> HIDE DEF N
  <2> QED BY <1>1 DEF Plane
<1> HIDE DEF N, L
<1>3. ASSUME NEW k \in DOMAIN L
      PROVE  /\ k \in Coords(w, h, bps) /\ k[1] \in comps
             /\ L[k] = NvAddr(k, pitch, chroma, bps)
  BY <1>1, <1>2
<1>4. ASSUME NEW k \in DOMAIN L PROVE L[k] \in Nat
  <2>1. k \in Coords(w, h, bps) /\ L[k] = NvAddr(k, pitch, chroma, bps)
    BY <1>3
  <2>2. NvAddr(k, pitch, chroma, bps) \in Nat
    BY <2>1, NvAddrNat
  <2> QED BY <2>1, <2>2
<1>5. ASSUME NEW k \in DOMAIN L, NEW l \in DOMAIN L, L[k] = L[l]
      PROVE  k = l
  <2>1. k \in Coords(w, h, bps) /\ l \in Coords(w, h, bps)
        /\ k[1] \in comps /\ l[1] \in comps
    BY <1>3
  <2>2. (k[1] = "Y") <=> (l[1] = "Y")
    BY <2>1
  <2>3. NvAddr(k, pitch, chroma, bps) = NvAddr(l, pitch, chroma, bps)
    BY <1>3, <1>5
  <2> QED BY <2>1, <2>2, <2>3, PlaneDistinct
<1>6. Shows(Holding(p, L), p, L) /\ DOMAIN Holding(p, L) \subseteq Nat
  BY <1>4, <1>5, HeldShows, HeldDomain
<1> QED BY <1>6 DEF L, N

Pictures == {"app", "dec", "up"}

(* A sample that is shown has been written.                                *)
LEMMA ShownIsWritten ==
  ASSUME NEW m, NEW a, NEW p \in Pictures, NEW k, At(m, a) = <<p, k>>
  PROVE  a \in DOMAIN m
BY DEF At, Blank, Pictures

(* What the first of two regions holds is found in both together.          *)
LEMMA OverFirst ==
  ASSUME NEW m, NEW rest, NEW a, a \in DOMAIN m
  PROVE  At(Over(m, rest), a) = At(m, a)
BY DEF At, Over

(* So is what the second holds outside the first.                          *)
LEMMA OverSecond ==
  ASSUME NEW m, NEW rest, NEW a, a \notin DOMAIN m
  PROVE  At(Over(m, rest), a) = At(rest, a)
BY DEF At, Over

(* A sample of a picture whose rows have room on both sides.               *)
Sampled(w, h, bps, sp, su, dp, du, k) ==
  /\ w \in Nat /\ h \in Nat /\ bps \in {1, 2} /\ k \in Coords(w, h, bps)
  /\ sp \in Nat /\ su \in Nat /\ dp \in Nat /\ du \in Nat
  /\ w * bps <= sp /\ w * bps <= dp

(* The luma of a picture arrives in its row and column.                    *)
LEMMA LumaCopied ==
  ASSUME NEW m, NEW p \in Pictures,
         NEW w, NEW h, NEW bps, NEW sp, NEW su, NEW dp, NEW du, NEW k,
         Sampled(w, h, bps, sp, su, dp, du, k), k[1] = "Y",
         At(m, NvAddr(k, sp, su, bps)) = <<p, k>>
  PROVE  LET Y == CopyRows(m, 0, sp, 0, dp, h, w * bps)
             a == NvAddr(k, dp, du, bps)
         IN a \in DOMAIN Y /\ At(Y, a) = <<p, k>>
<1> DEFINE n == w * bps
           r == k[2]
           c == ByteCol(k, bps)
           z == 0
           Y == CopyRows(m, z, sp, z, dp, h, n)
<1>1. /\ w \in Nat /\ h \in Nat /\ bps \in {1, 2} /\ k \in Coords(w, h, bps)
      /\ sp \in Nat /\ su \in Nat /\ dp \in Nat /\ du \in Nat
      /\ w * bps <= sp /\ w * bps <= dp
  BY DEF Sampled
<1>2. r \in Nat /\ r < h
  BY <1>1, CoordFacts DEF RowsFor
<1>3. c \in Nat /\ c < n
  BY <1>1, ByteColFacts
<1>4. n \in Nat /\ n <= sp /\ n <= dp /\ z \in Nat
  BY <1>1
<1>5. NvAddr(k, sp, su, bps) = Byte(z, sp, r, c)
  BY <1>1, LumaAddr
<1>6. NvAddr(k, dp, du, bps) = Byte(z, dp, r, c)
  BY <1>1, LumaAddr
<1>7. Byte(z, sp, r, c) \in DOMAIN m
  BY <1>5, ShownIsWritten
<1> HIDE DEF n, r, c, z
<1>8. /\ Byte(z, dp, r, c) \in DOMAIN Y
      /\ At(Y, Byte(z, dp, r, c)) = At(m, Byte(z, sp, r, c))
  <2>1. Moved(z, sp, z, dp, h, n, r, c)
    BY <1>1, <1>2, <1>3, <1>4 DEF Moved
  <2> QED BY <1>7, <2>1, CopyRowsAt
<1> HIDE DEF Y
<1>9. /\ NvAddr(k, dp, du, bps) \in DOMAIN Y
      /\ At(Y, NvAddr(k, dp, du, bps)) = <<p, k>>
  BY <1>5, <1>6, <1>8
<1> QED BY <1>9 DEF Y, n, z

(* So does the chroma.                                                     *)
LEMMA ChromaCopied ==
  ASSUME NEW m, NEW p \in Pictures,
         NEW w, NEW h, NEW bps, NEW sp, NEW su, NEW dp, NEW du, NEW k,
         Sampled(w, h, bps, sp, su, dp, du, k), k[1] # "Y",
         At(m, NvAddr(k, sp, su, bps)) = <<p, k>>
  PROVE  LET C == CopyRows(m, su, sp, du, dp, h \div 2, w * bps)
             a == NvAddr(k, dp, du, bps)
         IN At(C, a) = <<p, k>> /\ du <= a
<1> DEFINE n == w * bps
           r == k[2]
           c == ByteCol(k, bps)
           rows == h \div 2
           C == CopyRows(m, su, sp, du, dp, rows, n)
<1>1. /\ w \in Nat /\ h \in Nat /\ bps \in {1, 2} /\ k \in Coords(w, h, bps)
      /\ sp \in Nat /\ su \in Nat /\ dp \in Nat /\ du \in Nat
      /\ w * bps <= sp /\ w * bps <= dp
  BY DEF Sampled
<1>2. r \in Nat /\ r < rows /\ rows \in Nat
  BY <1>1, CoordFacts DEF RowsFor
<1>3. c \in Nat /\ c < n
  BY <1>1, ByteColFacts
<1>4. n \in Nat /\ n <= sp /\ n <= dp
  BY <1>1
<1>5. NvAddr(k, sp, su, bps) = Byte(su, sp, r, c)
  BY <1>1, ChromaAddr
<1>6. NvAddr(k, dp, du, bps) = Byte(du, dp, r, c)
  BY <1>1, ChromaAddr
<1>7. Byte(su, sp, r, c) \in DOMAIN m
  BY <1>5, ShownIsWritten
<1> HIDE DEF n, r, c, rows
<1>8. At(C, Byte(du, dp, r, c)) = At(m, Byte(su, sp, r, c))
  <2>1. Moved(su, sp, du, dp, rows, n, r, c)
    BY <1>1, <1>2, <1>3, <1>4 DEF Moved
  <2> QED BY <1>7, <2>1, CopyRowsAt
<1> HIDE DEF C
<1>9. At(C, NvAddr(k, dp, du, bps)) = <<p, k>>
  BY <1>5, <1>6, <1>8
<1>10. du <= NvAddr(k, dp, du, bps)
  BY <1>1, ChromaAbove
<1> QED BY <1>9, <1>10 DEF C, n, rows

-----------------------------------------------------------------------------
(***************************************************************************)
(* Copies of pictures.                                                     *)
(***************************************************************************)

(* Rows have room on both sides, and luma ends before chroma where they    *)
(* are copied to.                                                          *)
NvRoom(w, h, bps, sp1, sp2, su, dp, du) ==
  /\ w \in Nat /\ h \in Nat /\ bps \in {1, 2}
  /\ sp1 \in Nat /\ sp2 \in Nat /\ su \in Nat /\ dp \in Nat /\ du \in Nat
  /\ w * bps <= sp1 /\ w * bps <= sp2 /\ w * bps <= dp
  /\ h * dp <= du

(* The luma of a picture is in one memory, its chroma in another or in the *)
(* same.                                                                   *)
Pictured(m1, m2, p, w, h, bps, sp1, sp2, su) ==
  \A k \in Coords(w, h, bps) :
    /\ k[1] = "Y" => At(m1, NvAddr(k, sp1, su, bps)) = <<p, k>>
    /\ k[1] # "Y" => At(m2, NvAddr(k, sp2, su, bps)) = <<p, k>>

(* Two copies of rows, luma and chroma, move a picture to another          *)
(* semi-planar layout.                                                     *)
LEMMA NvCopied ==
  ASSUME NEW m1, NEW m2, DOMAIN m1 \subseteq Nat, NEW p \in Pictures,
         NEW w, NEW h, NEW bps, NEW sp1, NEW sp2, NEW su, NEW dp, NEW du,
         NvRoom(w, h, bps, sp1, sp2, su, dp, du),
         Pictured(m1, m2, p, w, h, bps, sp1, sp2, su)
  PROVE  Shows(Over(CopyRows(m1, 0, sp1, 0, dp, h, w * bps),
                    CopyRows(m2, su, sp2, du, dp, h \div 2, w * bps)),
               p, NvLayout(w, h, bps, dp, du))
<1> DEFINE n == w * bps
           Y == CopyRows(m1, 0, sp1, 0, dp, h, n)
           C == CopyRows(m2, su, sp2, du, dp, h \div 2, n)
           L == NvLayout(w, h, bps, dp, du)
<1>1. /\ w \in Nat /\ h \in Nat /\ bps \in {1, 2}
      /\ sp1 \in Nat /\ sp2 \in Nat /\ su \in Nat /\ dp \in Nat /\ du \in Nat
      /\ w * bps <= sp1 /\ w * bps <= sp2 /\ w * bps <= dp
      /\ h * dp <= du
  BY DEF NvRoom
<1>2. ASSUME NEW k \in Coords(w, h, bps)
      PROVE  At(Over(Y, C), NvAddr(k, dp, du, bps)) = <<p, k>>
  <2> DEFINE a == NvAddr(k, dp, du, bps)
  <2>1. Sampled(w, h, bps, sp1, su, dp, du, k)
    BY <1>1 DEF Sampled
  <2>2. Sampled(w, h, bps, sp2, su, dp, du, k)
    BY <1>1 DEF Sampled
  <2>3. CASE k[1] = "Y"
    <3>1. At(m1, NvAddr(k, sp1, su, bps)) = <<p, k>>
      BY <2>3 DEF Pictured
    <3>2. a \in DOMAIN Y /\ At(Y, a) = <<p, k>>
      BY <2>3, <2>1, <3>1, LumaCopied
    <3> HIDE DEF Y, C, a
    <3> QED BY <3>2, OverFirst DEF a
  <2>4. CASE k[1] # "Y"
    <3>1. At(m2, NvAddr(k, sp2, su, bps)) = <<p, k>>
      BY <2>4 DEF Pictured
    <3>2. At(C, a) = <<p, k>> /\ du <= a
      BY <2>4, <2>2, <3>1, ChromaCopied
    <3>3. a \in Nat
      BY <1>1, NvAddrNat
    <3>4. sp1 > 0
      <4>1. ByteCol(k, bps) \in Nat /\ ByteCol(k, bps) < w * bps
        BY <1>1, ByteColFacts
      <4>2. w * bps \in Nat
        BY <1>1
      <4> QED BY <1>1, <4>1, <4>2
    <3>5. \A x \in DOMAIN Y : x \in Nat /\ 0 <= x /\ x < 0 + h * dp
      <4>1. n \in Nat /\ n <= dp
        BY <1>1
      <4> HIDE DEF n
      <4> QED BY <1>1, <3>4, <4>1, CopyRowsDomain
    <3>6. h * dp \in Nat
      BY <1>1
    <3> HIDE DEF Y, C, a
    <3>7. a \notin DOMAIN Y
      BY <1>1, <3>2, <3>3, <3>5, <3>6
    <3> QED BY <3>2, <3>7, OverSecond DEF a
  <2> QED BY <2>3, <2>4
<1>3. DOMAIN L = Coords(w, h, bps)
      /\ \A k \in Coords(w, h, bps) : L[k] = NvAddr(k, dp, du, bps)
  BY DEF NvLayout
<1> HIDE DEF Y, C, L
<1>4. Shows(Over(Y, C), p, L)
  BY <1>2, <1>3 DEF Shows
<1> QED BY <1>4 DEF Y, C, L, n

(* Rows lie between their first byte and the end of the last.              *)
LEMMA RowsBounds ==
  ASSUME NEW off \in Nat, NEW pitch \in Nat, NEW rows \in Nat, NEW n \in Nat,
         n <= pitch
  PROVE  \A a \in Rows(off, pitch, rows, n) :
           a \in Nat /\ off <= a /\ a < off + rows * pitch
<1> SUFFICES ASSUME NEW r \in 0 .. rows - 1, NEW c \in 0 .. n - 1
             PROVE  LET a == off + r * pitch + c
                    IN a \in Nat /\ off <= a /\ a < off + rows * pitch
  BY DEF Rows
<1>1. r \in Nat /\ c \in Nat /\ r + 1 <= rows /\ c < pitch
  OBVIOUS
<1>2. (r + 1) * pitch <= rows * pitch
  BY <1>1, TimesMono
<1>3. /\ (r + 1) * pitch = r * pitch + pitch
      /\ r * pitch \in Nat /\ rows * pitch \in Nat
  BY <1>1
<1> QED BY <1>1, <1>2, <1>3

(* A byte of a row is in its rows.                                         *)
LEMMA RowsHave ==
  ASSUME NEW off \in Nat, NEW pitch \in Nat, NEW rows \in Nat, NEW n \in Nat,
         NEW r \in Nat, NEW c \in Nat, r < rows, c < n
  PROVE  Byte(off, pitch, r, c) \in Rows(off, pitch, rows, n)
<1>1. r \in 0 .. rows - 1 /\ c \in 0 .. n - 1
  OBVIOUS
<1>2. r * pitch \in Nat
  OBVIOUS
<1>3. Byte(off, pitch, r, c) = off + r * pitch + c
  BY <1>2 DEF Byte
<1> QED BY <1>1, <1>3 DEF Rows

(* What was written is what a function of samples says.                    *)
LEMMA WrittenAt ==
  ASSUME NEW f, NEW a, a \in DOMAIN f, f[a] # Blank
  PROVE  At(Written(f), a) = f[a]
BY DEF At, Written

(* The row and the column of a byte.                                       *)
LEMMA ByteBack ==
  ASSUME NEW off \in Nat, NEW pitch \in Nat, NEW r \in Nat, NEW c \in Nat,
         c < pitch
  PROVE  /\ (Byte(off, pitch, r, c) - off) \div pitch = r
         /\ (Byte(off, pitch, r, c) - off) % pitch = c
<1>1. r * pitch + c \in Nat
  OBVIOUS
<1> DEFINE e == r * pitch + c
<1>2. Byte(off, pitch, r, c) - off = e
  <2> HIDE DEF e
  <2>1. Byte(off, pitch, r, c) = off + e
    BY DEF Byte, e
  <2>2. e \in Nat
    BY <1>1 DEF e
  <2> QED BY <2>1, <2>2
<1>3. e \div pitch = r /\ e % pitch = c
  BY RowAndColumn
<1> HIDE DEF e
<1> QED BY <1>2, <1>3

(* A planar image: its planes are where natural numbers say.               *)
PlanarImage(i) ==
  /\ i.fourcc \in Planar
  /\ \A p \in 1 .. 3 : i.offsets[p] \in Nat /\ i.pitches[p] \in Nat

(* Bytes of U and V rows are found in turn where vaPutImage puts them.     *)
LEMMA InterleavedAt ==
  ASSUME NEW m, NEW i, PlanarImage(i),
         NEW off \in Nat, NEW pitch \in Nat, NEW rows \in Nat, NEW n \in Nat,
         NEW r \in Nat, NEW x \in Nat, r < rows, x < n, 2 * n <= pitch,
         NEW odd \in {0, 1},
         NEW p \in 1 .. 3, p = (IF odd = 0 THEN u_plane(i) ELSE v_plane(i)),
         At(m, Byte(i.offsets[p], i.pitches[p], r, x)) # Blank
  PROVE  At(Interleaved(m, i, off, pitch, rows, n),
            Byte(off, pitch, r, 2 * x + odd))
           = At(m, Byte(i.offsets[p], i.pitches[p], r, x))
<1> DEFINE c == 2 * x + odd
           a == Byte(off, pitch, r, c)
           From(y) == IF ((y - off) % pitch) % 2 = 0 THEN u_plane(i)
                        ELSE v_plane(i)
           Pair(y) == At(m, i.offsets[From(y)]
                            + ((y - off) \div pitch) * i.pitches[From(y)]
                            + ((y - off) % pitch) \div 2)
           f == [y \in Rows(off, pitch, rows, 2 * n) |-> Pair(y)]
<1>1. c \in Nat /\ c < 2 * n /\ c < pitch /\ c \div 2 = x /\ c % 2 = odd
      /\ 2 * n \in Nat
  OBVIOUS
<1> HIDE DEF c
<1>2. (a - off) \div pitch = r /\ (a - off) % pitch = c
  BY <1>1, ByteBack
<1>3. a \in Rows(off, pitch, rows, 2 * n)
  BY <1>1, RowsHave
<1> HIDE DEF a
<1>4. From(a) = p
  BY <1>1, <1>2
<1>5. i.offsets[p] \in Nat /\ i.pitches[p] \in Nat
  BY DEF PlanarImage
<1>6. Byte(i.offsets[p], i.pitches[p], r, x)
        = i.offsets[p] + r * i.pitches[p] + x
  <2>1. r * i.pitches[p] \in Nat
    BY <1>5
  <2> QED BY <1>5, <2>1 DEF Byte
<1>7. Pair(a) = At(m, Byte(i.offsets[p], i.pitches[p], r, x))
  <2>1. Pair(a) = At(m, i.offsets[p] + r * i.pitches[p] + x)
    BY <1>1, <1>2, <1>4
  <2> QED BY <1>6, <2>1
<1>8. Interleaved(m, i, off, pitch, rows, n) = Written(f)
  BY DEF Interleaved
<1> HIDE DEF Pair
<1>9. a \in DOMAIN f /\ f[a] = Pair(a)
  BY <1>3
<1> HIDE DEF f
<1>10. At(Written(f), a) = f[a]
  BY <1>7, <1>9, WrittenAt
<1> QED BY <1>7, <1>8, <1>9, <1>10 DEF a, c

(* Where a planar image has a sample.                                      *)
LEMMA PlanarAddr ==
  ASSUME NEW i, PlanarImage(i), NEW w \in Nat, NEW h \in Nat,
         NEW k \in Coords(w, h, 1)
  PROVE  LET p == PlaneOf(i.fourcc, k[1])
         IN /\ p \in 1 .. 3
            /\ k[1] = "Y" => p = 1
            /\ k[1] # "Y" =>
                 /\ p = (IF k[1] = "U" THEN u_plane(i) ELSE v_plane(i))
                 /\ p \in {2, 3}
            /\ ImageAddr(k, i) = Byte(i.offsets[p], i.pitches[p], k[2], k[3])
<1> DEFINE p == PlaneOf(i.fourcc, k[1])
<1>1. k[1] \in {"Y", "U", "V"} /\ k[2] \in Nat /\ k[3] \in Nat
  BY CoordFacts
<1>2. /\ p \in 1 .. 3
      /\ k[1] = "Y" => p = 1
      /\ k[1] # "Y" =>
           /\ p = (IF k[1] = "U" THEN u_plane(i) ELSE v_plane(i))
           /\ p \in {2, 3}
  BY <1>1 DEF PlaneOf, u_plane, v_plane
<1>3. ImageAddr(k, i) = i.offsets[p] + k[2] * i.pitches[p] + k[3]
  BY DEF ImageAddr, PlanarImage
<1> HIDE DEF p
<1>4. i.offsets[p] \in Nat /\ i.pitches[p] \in Nat
  BY <1>2 DEF PlanarImage
<1>5. k[2] * i.pitches[p] \in Nat
  BY <1>1, <1>4
<1>6. ImageAddr(k, i) = Byte(i.offsets[p], i.pitches[p], k[2], k[3])
  BY <1>1, <1>3, <1>4, <1>5 DEF Byte
<1> QED BY <1>2, <1>6 DEF p

(* A chroma sample of one byte: its place in a row of pairs.               *)
LEMMA PairColumn ==
  ASSUME NEW w \in Nat, NEW h \in Nat, NEW k \in Coords(w, h, 1), k[1] # "Y"
  PROVE  ByteCol(k, 1) = 2 * k[3] + (IF k[1] = "U" THEN 0 ELSE 1)
<1>1. /\ k[1] \in {"Y", "U", "V"} /\ k[3] \in Nat /\ k[4] \in Nat /\ k[4] < 1
  BY CoordFacts
<1> QED BY <1>1 DEF ByteCol

(* The planes of an image with room for a picture, one behind the other.   *)
PlanarRoom(i, w, h) ==
  /\ PlanarImage(i) /\ w \in Nat /\ h \in Nat
  /\ i.offsets[1] = 0
  /\ w <= i.pitches[1] /\ w \div 2 <= i.pitches[2]
  /\ i.pitches[3] = i.pitches[2]
  /\ h * i.pitches[1] <= i.offsets[2]
  /\ i.offsets[2] + (h \div 2) * i.pitches[2] <= i.offsets[3]

(* The luma of a planar image is where that of a semi-planar one is.       *)
LEMMA PlanarLuma ==
  ASSUME NEW i, NEW w, NEW h, PlanarRoom(i, w, h), NEW su \in Nat,
         NEW k \in Coords(w, h, 1), k[1] = "Y"
  PROVE  ImageAddr(k, i) = NvAddr(k, i.pitches[1], su, 1)
<1>1. PlanarImage(i) /\ w \in Nat /\ h \in Nat /\ i.offsets[1] = 0
      /\ i.pitches[1] \in Nat
  BY DEF PlanarRoom, PlanarImage
<1>2. ImageAddr(k, i) = Byte(i.offsets[1], i.pitches[1], k[2], k[3])
  BY <1>1, PlanarAddr
<1>3. NvAddr(k, i.pitches[1], su, 1)
        = Byte(0, i.pitches[1], k[2], ByteCol(k, 1))
  BY <1>1, LumaAddr
<1>4. /\ k[3] \in Nat /\ k[4] \in Nat /\ k[4] < 1
  BY <1>1, CoordFacts
<1>5. ByteCol(k, 1) = k[3]
  BY <1>4 DEF ByteCol
<1> QED BY <1>1, <1>2, <1>3, <1>5

(* A chroma sample of a planar image arrives in its row of pairs.          *)
LEMMA PairArrives ==
  ASSUME NEW m, NEW p \in Pictures, NEW i, NEW w, NEW h,
         PlanarRoom(i, w, h), NEW dp \in Nat, NEW du \in Nat, w <= dp,
         NEW k \in Coords(w, h, 1), k[1] # "Y",
         At(m, ImageAddr(k, i)) = <<p, k>>
  PROVE  At(Interleaved(m, i, du, dp, h \div 2, w \div 2),
            NvAddr(k, dp, du, 1)) = <<p, k>>
<1> DEFINE r == k[2]
           x == k[3]
           odd == IF k[1] = "U" THEN 0 ELSE 1
           q == PlaneOf(i.fourcc, k[1])
           rows == h \div 2
           n == w \div 2
<1>1. PlanarImage(i) /\ w \in Nat /\ h \in Nat
  BY DEF PlanarRoom
<1>2. /\ k[1] \in {"U", "V"} /\ r \in Nat /\ x \in Nat /\ r < rows /\ x < n
  BY <1>1, CoordFacts DEF RowsFor
<1>3. rows \in Nat /\ n \in Nat /\ 2 * n <= dp
  BY <1>1
<1>4. /\ q \in 1 .. 3
      /\ q = (IF k[1] = "U" THEN u_plane(i) ELSE v_plane(i))
      /\ ImageAddr(k, i) = Byte(i.offsets[q], i.pitches[q], r, x)
  BY <1>1, PlanarAddr
<1>5. odd \in {0, 1} /\ q = (IF odd = 0 THEN u_plane(i) ELSE v_plane(i))
  BY <1>2, <1>4
<1>6. NvAddr(k, dp, du, 1) = Byte(du, dp, r, 2 * x + odd)
  <2>1. ByteCol(k, 1) = 2 * x + odd
    BY <1>1, PairColumn
  <2>2. NvAddr(k, dp, du, 1) = Byte(du, dp, r, ByteCol(k, 1))
    BY <1>1, ChromaAddr
  <2> QED BY <2>1, <2>2
<1>7. At(m, Byte(i.offsets[q], i.pitches[q], r, x)) = <<p, k>>
  BY <1>4
<1>8. <<p, k>> # Blank
  BY DEF Blank, Pictures
<1> HIDE DEF r, x, odd, q, rows, n
<1>9. At(Interleaved(m, i, du, dp, rows, n), Byte(du, dp, r, 2 * x + odd))
        = At(m, Byte(i.offsets[q], i.pitches[q], r, x))
  BY <1>1, <1>2, <1>3, <1>4, <1>5, <1>7, <1>8, InterleavedAt
<1> QED BY <1>6, <1>7, <1>9 DEF rows, n

(* vaPutImage moves a planar picture to a semi-planar layout.              *)
LEMMA PlanarPut ==
  ASSUME NEW m, DOMAIN m \subseteq Nat, NEW p \in Pictures, NEW i, NEW w,
         NEW h, PlanarRoom(i, w, h), NEW dp \in Nat, NEW du \in Nat,
         w <= dp, h * dp <= du,
         \A k \in Coords(w, h, 1) : At(m, ImageAddr(k, i)) = <<p, k>>
  PROVE  Shows(Over(CopyRows(m, 0, i.pitches[1], 0, dp, h, w),
                    Interleaved(m, i, du, dp, h \div 2, w \div 2)),
               p, NvLayout(w, h, 1, dp, du))
<1> DEFINE sp == i.pitches[1]
           Y == CopyRows(m, 0, sp, 0, dp, h, w)
           C == Interleaved(m, i, du, dp, h \div 2, w \div 2)
           L == NvLayout(w, h, 1, dp, du)
<1>1. /\ w \in Nat /\ h \in Nat /\ sp \in Nat /\ w <= sp /\ w * 1 = w
  BY DEF PlanarRoom, PlanarImage
<1>2. ASSUME NEW k \in Coords(w, h, 1)
      PROVE  At(Over(Y, C), NvAddr(k, dp, du, 1)) = <<p, k>>
  <2> DEFINE a == NvAddr(k, dp, du, 1)
  <2>1. At(m, ImageAddr(k, i)) = <<p, k>>
    OBVIOUS
  <2>2. CASE k[1] = "Y"
    <3>1. At(m, NvAddr(k, sp, du, 1)) = <<p, k>>
      BY <2>1, <2>2, PlanarLuma
    <3>2. Sampled(w, h, 1, sp, du, dp, du, k)
      BY <1>1 DEF Sampled
    <3>3. /\ a \in DOMAIN CopyRows(m, 0, sp, 0, dp, h, w * 1)
          /\ At(CopyRows(m, 0, sp, 0, dp, h, w * 1), a) = <<p, k>>
      BY <2>2, <3>1, <3>2, LumaCopied
    <3>4. a \in DOMAIN Y /\ At(Y, a) = <<p, k>>
      BY <1>1, <3>3
    <3> HIDE DEF Y, C, a
    <3> QED BY <3>4, OverFirst DEF a
  <2>3. CASE k[1] # "Y"
    <3>1. At(C, a) = <<p, k>>
      BY <2>1, <2>3, PairArrives
    <3>2. a \in Nat /\ du <= a
      BY <1>1, <2>3, ChromaAbove
    <3>3. sp > 0
      <4>1. ByteCol(k, 1) \in Nat /\ ByteCol(k, 1) < w * 1
        BY <1>1, ByteColFacts
      <4> QED BY <1>1, <4>1
    <3>4. \A x \in DOMAIN Y : x \in Nat /\ 0 <= x /\ x < 0 + h * dp
      <4> HIDE DEF sp
      <4> QED BY <1>1, <3>3, CopyRowsDomain
    <3>5. h * dp \in Nat
      BY <1>1
    <3> HIDE DEF Y, C, a
    <3>6. a \notin DOMAIN Y
      BY <1>1, <3>2, <3>4, <3>5
    <3> QED BY <3>1, <3>6, OverSecond DEF a
  <2> QED BY <2>2, <2>3
<1>3. DOMAIN L = Coords(w, h, 1)
      /\ \A k \in Coords(w, h, 1) : L[k] = NvAddr(k, dp, du, 1)
  BY DEF NvLayout
<1> HIDE DEF Y, C, L
<1>4. Shows(Over(Y, C), p, L)
  BY <1>2, <1>3 DEF Shows
<1> QED BY <1>4 DEF Y, C, L, sp

(* Column x of row r is among those of plane p.                            *)
HalfMoved(i, p, off, pitch, rows, n, r, x, odd) ==
  /\ PlanarImage(i) /\ p \in 1 .. 3 /\ odd \in {0, 1}
  /\ off \in Nat /\ pitch \in Nat /\ rows \in Nat /\ n \in Nat
  /\ r \in Nat /\ x \in Nat /\ r < rows /\ x < n /\ n <= i.pitches[p]

(* Every other byte of a row is found in the row of its plane.             *)
LEMMA HalvedAt ==
  ASSUME NEW m, NEW i, NEW p, NEW off, NEW pitch, NEW rows, NEW n, NEW r,
         NEW x, NEW odd, HalfMoved(i, p, off, pitch, rows, n, r, x, odd),
         At(m, Byte(off, pitch, r, 2 * x + odd)) # Blank
  PROVE  LET H == Halved(m, off, pitch, odd, i, p, rows, n)
             a == Byte(i.offsets[p], i.pitches[p], r, x)
         IN /\ a \in DOMAIN H
            /\ At(H, a) = At(m, Byte(off, pitch, r, 2 * x + odd))
<1> DEFINE o == i.offsets[p]
           ip == i.pitches[p]
           a == Byte(o, ip, r, x)
           Half(y) == At(m, off + ((y - o) \div ip) * pitch
                                + 2 * ((y - o) % ip) + odd)
           f == [y \in Rows(o, ip, rows, n) |-> Half(y)]
<1>1. o \in Nat /\ ip \in Nat
  BY DEF PlanarImage, HalfMoved
<1>2. /\ odd \in {0, 1} /\ off \in Nat /\ pitch \in Nat /\ rows \in Nat
      /\ n \in Nat /\ r \in Nat /\ x \in Nat /\ r < rows /\ x < n /\ x < ip
  BY <1>1 DEF HalfMoved
<1>3. Halved(m, off, pitch, odd, i, p, rows, n) = Written(f)
  BY DEF Halved
<1> HIDE DEF o, ip
<1>4. (a - o) \div ip = r /\ (a - o) % ip = x
  BY <1>1, <1>2, ByteBack
<1>5. a \in Rows(o, ip, rows, n)
  BY <1>1, <1>2, RowsHave
<1> HIDE DEF a
<1>6. Half(a) = At(m, Byte(off, pitch, r, 2 * x + odd))
  <2>1. r * pitch \in Nat
    BY <1>2
  <2>2. off + r * pitch + 2 * x + odd = Byte(off, pitch, r, 2 * x + odd)
    BY <1>2, <2>1 DEF Byte
  <2> QED BY <1>4, <2>2
<1> HIDE DEF Half
<1>7. a \in DOMAIN f /\ f[a] = Half(a)
  BY <1>5
<1> HIDE DEF f
<1>8. a \in DOMAIN Written(f) /\ At(Written(f), a) = f[a]
  BY <1>6, <1>7, WrittenAt DEF Written
<1> QED BY <1>3, <1>6, <1>7, <1>8 DEF a, o, ip

(* What is made of a plane lies in its rows.                               *)
LEMMA HalvedDomain ==
  ASSUME NEW m, NEW i, PlanarImage(i), NEW p \in 1 .. 3, NEW off, NEW pitch,
         NEW odd, NEW rows \in Nat, NEW n \in Nat, n <= i.pitches[p]
  PROVE  \A a \in DOMAIN Halved(m, off, pitch, odd, i, p, rows, n) :
           /\ a \in Nat /\ i.offsets[p] <= a
           /\ a < i.offsets[p] + rows * i.pitches[p]
<1> DEFINE o == i.offsets[p]
           ip == i.pitches[p]
<1>1. o \in Nat /\ ip \in Nat
  BY DEF PlanarImage
<1>2. DOMAIN Halved(m, off, pitch, odd, i, p, rows, n)
        \subseteq Rows(o, ip, rows, n)
  BY DEF Halved, Written
<1> HIDE DEF o, ip
<1>3. \A a \in Rows(o, ip, rows, n) :
        a \in Nat /\ o <= a /\ a < o + rows * ip
  BY <1>1, RowsBounds DEF ip
<1> QED BY <1>2, <1>3 DEF o, ip

(* A chroma sample of a row of pairs arrives in the plane of its component.*)
LEMMA HalfArrives ==
  ASSUME NEW m, NEW p \in Pictures, NEW i, NEW w, NEW h,
         PlanarRoom(i, w, h), NEW sp \in Nat, NEW su \in Nat,
         NEW k \in Coords(w, h, 1), k[1] # "Y",
         At(m, NvAddr(k, sp, su, 1)) = <<p, k>>
  PROVE  LET odd == IF k[1] = "U" THEN 0 ELSE 1
             q   == IF k[1] = "U" THEN u_plane(i) ELSE v_plane(i)
             H   == Halved(m, su, sp, odd, i, q, h \div 2, w \div 2)
         IN /\ ImageAddr(k, i) \in DOMAIN H
            /\ At(H, ImageAddr(k, i)) = <<p, k>>
<1> DEFINE r == k[2]
           x == k[3]
           odd == IF k[1] = "U" THEN 0 ELSE 1
           q == IF k[1] = "U" THEN u_plane(i) ELSE v_plane(i)
           rows == h \div 2
           n == w \div 2
           H == Halved(m, su, sp, odd, i, q, rows, n)
<1>1. PlanarImage(i) /\ w \in Nat /\ h \in Nat
  BY DEF PlanarRoom
<1>2. /\ k[1] \in {"U", "V"} /\ r \in Nat /\ x \in Nat /\ r < rows /\ x < n
  BY <1>1, CoordFacts DEF RowsFor
<1>3. rows \in Nat /\ n \in Nat /\ odd \in {0, 1}
  BY <1>1
<1>4. /\ q \in {2, 3} /\ q \in 1 .. 3
      /\ ImageAddr(k, i) = Byte(i.offsets[q], i.pitches[q], r, x)
  BY <1>1, PlanarAddr
<1>5. n <= i.pitches[q]
  <2>1. CASE q = 2
    BY <2>1 DEF PlanarRoom
  <2>2. CASE q = 3
    BY <2>2 DEF PlanarRoom
  <2> QED BY <1>4, <2>1, <2>2
<1>6. NvAddr(k, sp, su, 1) = Byte(su, sp, r, 2 * x + odd)
  <2>1. ByteCol(k, 1) = 2 * x + odd
    BY <1>1, PairColumn
  <2>2. NvAddr(k, sp, su, 1) = Byte(su, sp, r, ByteCol(k, 1))
    BY <1>1, ChromaAddr
  <2> QED BY <2>1, <2>2
<1>7. At(m, Byte(su, sp, r, 2 * x + odd)) = <<p, k>>
  BY <1>6
<1>8. <<p, k>> # Blank
  BY DEF Blank, Pictures
<1> HIDE DEF r, x, odd, q, rows, n
<1>9. /\ Byte(i.offsets[q], i.pitches[q], r, x) \in DOMAIN H
      /\ At(H, Byte(i.offsets[q], i.pitches[q], r, x))
           = At(m, Byte(su, sp, r, 2 * x + odd))
  <2>1. HalfMoved(i, q, su, sp, rows, n, r, x, odd)
    BY <1>1, <1>2, <1>3, <1>4, <1>5 DEF HalfMoved
  <2> QED BY <1>7, <1>8, <2>1, HalvedAt
<1> HIDE DEF H
<1>10. ImageAddr(k, i) \in DOMAIN H /\ At(H, ImageAddr(k, i)) = <<p, k>>
  BY <1>4, <1>7, <1>9
<1> QED BY <1>10 DEF H, q, odd, rows, n

(* vaGetImage moves a semi-planar picture to a planar image.               *)
LEMMA PlanarGet ==
  ASSUME NEW m, DOMAIN m \subseteq Nat, NEW p \in Pictures, NEW i, NEW w,
         NEW h, PlanarRoom(i, w, h), NEW sp \in Nat, NEW su \in Nat,
         w <= sp,
         \A k \in Coords(w, h, 1) : At(m, NvAddr(k, sp, su, 1)) = <<p, k>>
  PROVE  Shows(Over(CopyRows(m, 0, sp, 0, i.pitches[1], h, w),
                    Over(Halved(m, su, sp, 0, i, u_plane(i), h \div 2,
                                w \div 2),
                         Halved(m, su, sp, 1, i, v_plane(i), h \div 2,
                                w \div 2))),
               p, ImageLayout(w, h, 1, i))
<1> DEFINE dp == i.pitches[1]
           rows == h \div 2
           n == w \div 2
           u == u_plane(i)
           v == v_plane(i)
           Y == CopyRows(m, 0, sp, 0, dp, h, w)
           U == Halved(m, su, sp, 0, i, u, rows, n)
           V == Halved(m, su, sp, 1, i, v, rows, n)
           L == ImageLayout(w, h, 1, i)
           end == h * dp
           E(q) == i.offsets[q] + rows * i.pitches[q]
<1>1. /\ PlanarImage(i) /\ w \in Nat /\ h \in Nat /\ dp \in Nat /\ w <= dp
      /\ w * 1 = w /\ rows \in Nat /\ n \in Nat /\ end \in Nat
  BY DEF PlanarRoom, PlanarImage
<1>2. u \in {2, 3} /\ v \in {2, 3} /\ u # v /\ u \in 1 .. 3 /\ v \in 1 .. 3
  BY DEF u_plane, v_plane
<1>3. /\ \A q \in {2, 3} : i.offsets[q] \in Nat /\ i.pitches[q] \in Nat
                           /\ n <= i.pitches[q]
      /\ end <= i.offsets[2] /\ E(2) <= i.offsets[3]
  BY DEF PlanarRoom, PlanarImage
<1>4. ASSUME NEW q \in {2, 3} PROVE E(q) \in Nat /\ end <= i.offsets[q]
  <2>1. rows * i.pitches[2] \in Nat /\ rows * i.pitches[q] \in Nat
    BY <1>1, <1>3
  <2> HIDE DEF end, rows
  <2> QED BY <1>1, <1>3, <2>1
<1>5. E(u) <= i.offsets[v] \/ E(v) <= i.offsets[u]
  BY <1>2, <1>3
<1> HIDE DEF E, end, u, v
<1>6. /\ \A a \in DOMAIN U : a \in Nat /\ i.offsets[u] <= a /\ a < E(u)
      /\ \A a \in DOMAIN V : a \in Nat /\ i.offsets[v] <= a /\ a < E(v)
  <2> HIDE DEF rows, n
  <2>1. n <= i.pitches[u] /\ n <= i.pitches[v]
    BY <1>2, <1>3
  <2> QED BY <1>1, <1>2, <2>1, HalvedDomain DEF E
<1>7. ASSUME sp > 0 PROVE \A a \in DOMAIN Y : a \in Nat /\ a < end
  <2>1. \A a \in DOMAIN Y : a \in Nat /\ 0 <= a /\ a < 0 + h * dp
    <3> HIDE DEF dp
    <3> QED BY <1>1, <1>7, CopyRowsDomain
  <2> QED BY <1>1, <2>1 DEF end
<1>8. ASSUME NEW k \in Coords(w, h, 1)
      PROVE  At(Over(Y, Over(U, V)), ImageAddr(k, i)) = <<p, k>>
  <2> DEFINE a == ImageAddr(k, i)
  <2>1. At(m, NvAddr(k, sp, su, 1)) = <<p, k>>
    OBVIOUS
  <2>2. sp > 0
    <3>1. ByteCol(k, 1) \in Nat /\ ByteCol(k, 1) < w * 1
      BY <1>1, ByteColFacts
    <3> QED BY <1>1, <3>1
  <2>3. CASE k[1] = "Y"
    <3>1. a = NvAddr(k, dp, su, 1)
      BY <2>3, PlanarLuma
    <3>2. Sampled(w, h, 1, sp, su, dp, su, k)
      BY <1>1 DEF Sampled
    <3>3. NvAddr(k, dp, su, 1) \in DOMAIN Y
          /\ At(Y, NvAddr(k, dp, su, 1)) = <<p, k>>
      <4> HIDE DEF dp
      <4>1. LET Z == CopyRows(m, 0, sp, 0, dp, h, w * 1)
            IN NvAddr(k, dp, su, 1) \in DOMAIN Z
               /\ At(Z, NvAddr(k, dp, su, 1)) = <<p, k>>
        BY <2>1, <2>3, <3>2, LumaCopied
      <4> QED BY <1>1, <4>1
    <3> HIDE DEF Y, U, V, a
    <3>4. a \in DOMAIN Y /\ At(Y, a) = <<p, k>>
      BY <3>1, <3>3
    <3> QED BY <3>4, OverFirst DEF a
  <2>4. CASE k[1] = "U"
    <3>1. a \in DOMAIN U /\ At(U, a) = <<p, k>>
      BY <2>1, <2>4, HalfArrives DEF u
    <3> HIDE DEF Y, U, V, a
    <3>2. a \in Nat /\ end <= a
      BY <1>1, <1>2, <1>3, <1>4, <1>6, <3>1
    <3>3. a \notin DOMAIN Y
      BY <1>1, <1>7, <2>2, <3>2
    <3>4. At(Over(U, V), a) = <<p, k>>
      BY <3>1, OverFirst
    <3> QED BY <3>3, <3>4, OverSecond DEF a
  <2>5. CASE k[1] = "V"
    <3>1. a \in DOMAIN V /\ At(V, a) = <<p, k>>
      BY <2>1, <2>5, HalfArrives DEF v
    <3> HIDE DEF Y, U, V, a
    <3>2. a \in Nat /\ end <= a /\ i.offsets[v] <= a /\ a < E(v)
      BY <1>1, <1>2, <1>3, <1>4, <1>6, <3>1
    <3>3. a \notin DOMAIN Y
      BY <1>1, <1>7, <2>2, <3>2
    <3>4. a \notin DOMAIN U
      <4>1. i.offsets[u] \in Nat /\ i.offsets[v] \in Nat /\ E(u) \in Nat
            /\ E(v) \in Nat
        BY <1>2, <1>3, <1>4
      <4> QED BY <1>5, <1>6, <3>2, <4>1
    <3>5. At(Over(U, V), a) = <<p, k>>
      BY <3>1, <3>4, OverSecond
    <3> QED BY <3>3, <3>5, OverSecond DEF a
  <2>6. k[1] \in {"Y", "U", "V"}
    BY <1>1, CoordFacts
  <2> QED BY <2>3, <2>4, <2>5, <2>6
<1>9. DOMAIN L = Coords(w, h, 1)
      /\ \A k \in Coords(w, h, 1) : L[k] = ImageAddr(k, i)
  BY DEF ImageLayout
<1> HIDE DEF Y, U, V, L
<1>10. Shows(Over(Y, Over(U, V)), p, L)
  BY <1>8, <1>9 DEF Shows
<1> QED BY <1>10 DEF Y, U, V, L, dp, u, v, rows, n

-----------------------------------------------------------------------------
(***************************************************************************)
(* The inductive invariant of the pictures.                                *)
(***************************************************************************)

(* The planes of an image that is not derived follow one another: no       *)
(* offset has wrapped.                                                     *)
PlanesApart(i) ==
  ~i.derived =>
    /\ i.bps = Bytes(i.fourcc)
    /\ i.offsets[1] = 0 /\ i.pitches[1] > 0
    /\ i.height * i.pitches[1] <= i.offsets[2]
    /\ i.fourcc \in Planar =>
         /\ i.pitches[3] = i.pitches[2]
         /\ i.offsets[2] + (i.height \div 2) * i.pitches[2] <= i.offsets[3]
    /\ i.fourcc \notin Planar => i.pitches[2] = i.pitches[1]

(* Rows of an import have room for the picture.                            *)
ImportRoom(x) ==
  LET row == x.width * x.bps
  IN /\ x.import = NoImport \/ x.import.kind # "none"
     /\ x.import.kind \in {"linear", "multi"} =>
          row <= x.import.pitch /\ x.import.pitch > 0
     /\ x.import.kind = "multi" =>
          row <= x.import.cpitch /\ x.import.cpitch > 0

(* The application's picture is in the objects it imported.                *)
ImportShown ==
  LET Laid(pitch, chroma) ==
        NvLayout(s.width, s.height, s.bps, pitch, chroma)
  IN /\ s.import.kind = "linear" =>
          Shows(mem.y, "app",
                Laid(s.import.pitch, s.import.pitch * s.height))
     /\ s.import.kind = "multi" =>
          /\ Shows(mem.y, "app", Plane({"Y"}, Laid(s.import.pitch, 0)))
          /\ Shows(mem.uv, "app",
                   Plane({"U", "V"}, Laid(s.import.cpitch, 0)))

(* Nothing is bound to a surface that is not decoded; an imported surface  *)
(* keeps the depth of its fourcc.                                          *)
Bound(x) ==
  /\ x.import # NoImport => x.bps = Bytes(x.fourcc)
  /\ ~x.decoded => x.frame_size = NoSize


MemoryInv ==
  DOMAIN mem = Buffers /\ \A b \in Buffers : DOMAIN mem[b] \subseteq Nat

PixelInv ==
  /\ MemoryInv
  /\ s # None => Bound(s) /\ ImportRoom(s) /\ ImportShown
  /\ im # None => PlanesApart(im)
  /\ put # None => im.fourcc = s.fourcc

(* A semi-planar image has the samples where NV12 and P010 have them.      *)
LEMMA ImageIsNv ==
  ASSUME NEW i, NEW w, NEW h, i.fourcc \notin Planar
  PROVE  ImageLayout(w, h, i.bps, i)
           = NvLayout(w, h, i.bps, i.pitches[1], i.offsets[2])
BY DEF ImageLayout, NvLayout, ImageAddr

(* Two regions of a memory are one.                                        *)
LEMMA OverNat ==
  ASSUME NEW m, NEW rest, DOMAIN m \subseteq Nat, DOMAIN rest \subseteq Nat
  PROVE  DOMAIN Over(m, rest) \subseteq Nat
BY DEF Over

(* Rows are copied to addresses.                                           *)
LEMMA CopyNat ==
  ASSUME NEW src, DOMAIN src \subseteq Nat,
         NEW so \in Nat, NEW sp \in Nat, NEW do \in Nat,
         NEW dp \in Nat, NEW rows \in Nat, NEW n \in Nat, n <= dp, sp > 0
  PROVE  DOMAIN CopyRows(src, so, sp, do, dp, rows, n) \subseteq Nat
BY CopyRowsDomain

(* So are pairs.                                                           *)
LEMMA InterleavedNat ==
  ASSUME NEW m, NEW i, NEW off \in Nat, NEW pitch \in Nat, NEW rows \in Nat,
         NEW n \in Nat, 2 * n <= pitch
  PROVE  DOMAIN Interleaved(m, i, off, pitch, rows, n) \subseteq Nat
<1>1. DOMAIN Interleaved(m, i, off, pitch, rows, n)
        \subseteq Rows(off, pitch, rows, 2 * n)
  BY DEF Interleaved, Written
<1>2. 2 * n \in Nat
  OBVIOUS
<1>3. \A a \in Rows(off, pitch, rows, 2 * n) : a \in Nat
  BY <1>2, RowsBounds
<1> QED BY <1>1, <1>3

(* The planes of a new image follow one another.                           *)
LEMMA NewPlanes ==
  ASSUME NEW q \in ImageRequests, ImageFits(q),
         ImageSize(ImageOf(q)) # NoSize, ImageSize(ImageOf(q)) <= UINT_MAX
  PROVE  PlanesApart([ImageOf(q) EXCEPT !.capacity = ImageSize(ImageOf(q)),
                                        !.storage = ImageSize(ImageOf(q))])
<1> DEFINE bps    == Bytes(q.fourcc)
           planar == q.fourcc \in Planar
           w      == RoundUp(q.width, 16)
           h      == q.height
           c      == h \div 2
           pitch  == WrapUint(w * bps)
           cpitch == IF planar THEN w \div 2 ELSE pitch
           chroma == WrapUint(pitch * h)
           third  == IF planar THEN WrapUint(chroma + cpitch * c) ELSE 0
           i      == ImageOf(q)
           size   == ImageSize(i)
<1>1. /\ q.fourcc \in Fourccs /\ q.width \in Nat /\ q.width > 0
      /\ h \in Nat /\ h > 0
      /\ q.width <= USHRT_MAX /\ h <= USHRT_MAX
      /\ w <= UINT_MAX \div bps
  BY ImageAssumption DEF ImageFits
<1>2. bps \in {1, 2} /\ (planar => bps = 1)
  BY DEF Bytes, Planar
<1>3. w \in Nat /\ w > 0 /\ w <= q.width + 15 /\ c \in Nat
  <2>1. q.width \in Nat /\ q.height \in Nat /\ q.width > 0
    BY <1>1
  <2>2. w \in Nat /\ w <= q.width + 15 /\ q.width <= w
    BY <2>1, RoundUpFacts
  <2> HIDE DEF w
  <2> QED BY <2>1, <2>2
<1> HIDE DEF w, h, bps
<1>4. w * bps \in Nat /\ w * bps <= UINT_MAX /\ w * bps > 0
  BY <1>1, <1>2, <1>3, WordAssumption
<1>5. pitch = w * bps /\ pitch \in Nat /\ pitch > 0
  BY <1>4, WrapUintFits
<1>6. cpitch \in Nat /\ (planar => cpitch <= pitch)
  BY <1>2, <1>3, <1>5
<1> HIDE DEF pitch
<1>7. pitch * h \in Nat /\ cpitch * c \in Nat
  BY <1>1, <1>3, <1>5, <1>6
<1>8. i = [fourcc |-> q.fourcc, bps |-> bps, width |-> q.width,
           height |-> h, planes |-> IF planar THEN 3 ELSE 2,
           pitches |-> <<pitch, cpitch, IF planar THEN cpitch ELSE 0>>,
           offsets |-> <<0, chroma, third>>,
           capacity |-> 0, storage |-> 0, derived |-> FALSE]
  BY DEF ImageOf, pitch, w, h, bps
<1>9. /\ i.height = h /\ i.pitches[1] = pitch /\ i.pitches[2] = cpitch
      /\ i.planes = (IF planar THEN 3 ELSE 2)
  BY <1>8
<1> HIDE DEF cpitch
<1>10. CASE planar
  <2>1. pitch * h <= SIZE_MAX
    <3>1. pitch <= USHRT_MAX + 15
      BY <1>1, <1>2, <1>3, <1>5, <1>10, ImageAssumption
    <3>2. pitch * h <= (USHRT_MAX + 15) * USHRT_MAX
      BY <1>1, <1>5, <3>1, TimesMono, ImageAssumption
    <3>3. (USHRT_MAX + 15) * USHRT_MAX \in Nat
      BY ImageAssumption
    <3> QED BY <1>7, <3>2, <3>3, ImageAssumption, WordAssumption
  <2>2. cpitch * c <= pitch * h
    <3>1. cpitch <= pitch /\ c <= h
      BY <1>1, <1>6, <1>10
    <3> QED BY <1>1, <1>3, <1>5, <1>6, <3>1, TimesMono
  <2>3. cpitch * c <= SIZE_MAX
    BY <1>7, <2>1, <2>2, WordAssumption
  <2>4. Wrap(pitch * h) = pitch * h /\ Wrap(cpitch * c) = cpitch * c
    BY <1>7, <2>1, <2>3, WrapFits
  <2> DEFINE L == pitch * h
             C == cpitch * c
  <2>5. /\ ~(C > (SIZE_MAX - L) \div 2)
        /\ size = Wrap(L + 2 * C)
    BY <1>9, <1>10, <2>4 DEF ImageSize
  <2>6. L \in Nat /\ C \in Nat /\ L <= SIZE_MAX
    BY <1>7, <2>1
  <2> HIDE DEF L, C
  <2>7. L + 2 * C \in Nat /\ L + 2 * C <= SIZE_MAX
    BY <2>5, <2>6, WordAssumption
  <2>8. size = L + 2 * C
    BY <2>5, <2>7, WrapFits
  <2>9. L <= UINT_MAX /\ L + C <= UINT_MAX /\ L + C \in Nat
    BY <2>6, <2>8, WordAssumption
  <2>10. chroma = L
    BY <2>6, <2>9, WrapUintFits DEF L
  <2>11. third = L + C
    BY <1>10, <2>9, <2>10, WrapUintFits DEF C
  <2> QED BY <1>1, <1>3, <1>5, <1>6, <1>8, <1>10, <2>6, <2>10, <2>11
        DEF PlanesApart, bps, L, C
<1>11. CASE ~planar
  <2>1. size = rk_nv12_layout_size(pitch, h) /\ cpitch = pitch
    BY <1>9, <1>11 DEF ImageSize, cpitch
  <2>2. size = pitch * h + pitch * c
    BY <1>1, <1>5, <2>1, NvSize
  <2>3. pitch * h <= UINT_MAX
    <3>1. pitch * c \in Nat
      BY <1>3, <1>5
    <3> QED BY <1>7, <2>2, <3>1, WordAssumption
  <2>4. chroma = pitch * h
    BY <1>7, <2>3, WrapUintFits
  <2>5. h * pitch <= chroma
    BY <1>1, <1>5, <2>4
  <2> HIDE DEF chroma, third
  <2> QED BY <1>5, <1>8, <1>11, <2>1, <2>5 DEF PlanesApart, bps
<1> QED BY <1>10, <1>11

(* A pitch of so many samples has room for as many.                        *)
LEMMA PitchRoom ==
  ASSUME NEW p \in Nat, NEW w \in Nat, NEW bps \in {1, 2}, p \div bps >= w,
         w > 0
  PROVE  w * bps <= p /\ p > 0
<1>1. CASE bps = 1
  BY <1>1
<1>2. CASE bps = 2
  BY <1>2
<1> QED BY <1>1, <1>2

(* The rows of an accepted descriptor have room for the picture.           *)
LEMMA NewRoom ==
  ASSUME NEW q \in Requests, Acceptable(q)
  PROVE  LET x == SurfaceOf(q, IF q.descriptor = None THEN NoImport
                               ELSE ImportOf(q.fourcc, q.descriptor))
         IN ImportRoom(x) /\ Bound(x)
<1> DEFINE d == q.descriptor
           bps == Bytes(q.fourcc)
           import == IF d = None THEN NoImport ELSE ImportOf(q.fourcc, d)
           x == SurfaceOf(q, import)
<1>1. /\ x.import = import /\ x.width = q.width /\ x.bps = bps
      /\ x.fourcc = q.fourcc /\ x.frame_size = NoSize
  BY DEF SurfaceOf
<1>2. q.width \in Nat /\ q.width > 0 /\ bps \in {1, 2}
  BY RequestAssumption DEF Acceptable, Bytes
<1>3. CASE d = None
  BY <1>1, <1>3 DEF ImportRoom, Bound, NoImport
<1>4. CASE d # None
  <2> DEFINE p == d.planes[1].pitch
             cp == d.planes[2].pitch
             rgb == q.fourcc \in Rgb
             two == Len(d.objects) = 2
  <2>1. p \in Nat /\ cp \in Nat
    BY <1>4, RequestAssumption DEF DescriptorOf
  <2>2. ~rgb => p \div bps >= q.width /\ cp \div bps >= q.width
    BY <1>4 DEF Acceptable, ImportFits
  <2>3. /\ import.kind = (IF rgb THEN "rgb" ELSE IF two THEN "multi"
                          ELSE "linear")
        /\ import.pitch = p
        /\ ~rgb /\ two => import.cpitch = cp
    BY <1>4 DEF ImportOf
  <2> HIDE DEF p, cp, rgb, two, import, x, bps
  <2>4. ~rgb => /\ q.width * bps <= p /\ p > 0
                /\ q.width * bps <= cp /\ cp > 0
    BY <1>2, <2>1, <2>2, PitchRoom
  <2>5. ImportRoom(x)
    BY <1>1, <2>3, <2>4 DEF ImportRoom
  <2> QED BY <1>1, <2>5 DEF Bound, x, bps, import
<1> QED BY <1>3, <1>4

(* What a new surface imports is the application's picture.                *)
LEMMA NewShown ==
  ASSUME NEW q \in Requests, create_surfaces(q), MemoryInv
  PROVE  MemoryInv' /\ ImportShown'
<1> DEFINE x == s'
           i == x.import
           w == x.width
           h == x.height
           bps == x.bps
           N(pitch, chroma) == NvLayout(w, h, bps, pitch, chroma)
<1>1. /\ Acceptable(q) /\ mem' = WithImport(x)
      /\ x = SurfaceOf(q, IF q.descriptor = None THEN NoImport
                          ELSE ImportOf(q.fourcc, q.descriptor))
  BY DEF create_surfaces
<1>2. ImportRoom(x) /\ Geometry(x)
  BY <1>1, NewRoom, NewSurface
<1>3. /\ w \in Nat /\ h \in Nat /\ bps \in {1, 2}
      /\ i.kind \in {"none", "linear", "multi", "rgb"}
      /\ i.pitch \in Nat /\ i.cpitch \in Nat
  BY <1>2 DEF Geometry, SurfaceSet, ImportSet
<1> HIDE DEF x
<1>4. CASE i.kind = "linear"
  <2> DEFINE m == Holding("app", N(i.pitch, i.pitch * h))
  <2>1. mem' = [mem EXCEPT !.y = m]
    BY <1>1, <1>4 DEF WithImport
  <2>2. w * bps <= i.pitch
    BY <1>2, <1>4 DEF ImportRoom
  <2>3. i.pitch * h \in Nat /\ h * i.pitch <= i.pitch * h
    BY <1>3
  <2>4. Shows(m, "app", N(i.pitch, i.pitch * h)) /\ DOMAIN m \subseteq Nat
    BY <1>3, <2>2, <2>3, NvHolds
  <2> HIDE DEF m
  <2>5. mem'.y = m /\ MemoryInv'
    BY <2>1, <2>4 DEF MemoryInv, Buffers
  <2> QED BY <1>4, <2>4, <2>5 DEF ImportShown, x
<1>5. CASE i.kind = "multi"
  <2> DEFINE m == Holding("app", Plane({"Y"}, N(i.pitch, 0)))
             c == Holding("app", Plane({"U", "V"}, N(i.cpitch, 0)))
  <2>1. mem' = [mem EXCEPT !.y = m, !.uv = c]
    BY <1>1, <1>5 DEF WithImport
  <2>2. w * bps <= i.pitch /\ w * bps <= i.cpitch
    BY <1>2, <1>5 DEF ImportRoom
  <2>3. Shows(m, "app", Plane({"Y"}, N(i.pitch, 0))) /\ DOMAIN m \subseteq Nat
    BY <1>3, <2>2, PlaneHolds
  <2>4. /\ Shows(c, "app", Plane({"U", "V"}, N(i.cpitch, 0)))
        /\ DOMAIN c \subseteq Nat
    BY <1>3, <2>2, PlaneHolds
  <2> HIDE DEF m, c
  <2>5. mem'.y = m /\ mem'.uv = c /\ MemoryInv'
    BY <2>1, <2>3, <2>4 DEF MemoryInv, Buffers
  <2> QED BY <1>5, <2>3, <2>4, <2>5 DEF ImportShown, x
<1>6. CASE i.kind \in {"none", "rgb"}
  <2>1. mem' = mem
    BY <1>1, <1>6 DEF WithImport
  <2> QED BY <1>6, <2>1 DEF ImportShown, MemoryInv, x
<1> QED BY <1>3, <1>4, <1>5, <1>6

-----------------------------------------------------------------------------
(***************************************************************************)
(* Steps and pictures.                                                     *)
(***************************************************************************)

(* A picture in one memory.                                                *)
LEMMA NvShown ==
  ASSUME NEW m, NEW p, NEW w, NEW h, NEW bps, NEW pitch, NEW chroma,
         Shows(m, p, NvLayout(w, h, bps, pitch, chroma))
  PROVE  /\ Pictured(m, m, p, w, h, bps, pitch, pitch, chroma)
         /\ \A k \in Coords(w, h, bps) :
              At(m, NvAddr(k, pitch, chroma, bps)) = <<p, k>>
BY DEF Shows, NvLayout, Pictured

(* A picture in two memories.                                              *)
LEMMA PlanesShown ==
  ASSUME NEW y, NEW uv, NEW p, NEW w \in Nat, NEW h \in Nat,
         NEW bps \in {1, 2}, NEW pitch, NEW cpitch,
         Shows(y, p, Plane({"Y"}, NvLayout(w, h, bps, pitch, 0))),
         Shows(uv, p, Plane({"U", "V"}, NvLayout(w, h, bps, cpitch, 0)))
  PROVE  Pictured(y, uv, p, w, h, bps, pitch, cpitch, 0)
<1> SUFFICES ASSUME NEW k \in Coords(w, h, bps)
             PROVE  /\ k[1] = "Y" => At(y, NvAddr(k, pitch, 0, bps)) = <<p, k>>
                    /\ k[1] # "Y" =>
                         At(uv, NvAddr(k, cpitch, 0, bps)) = <<p, k>>
  BY DEF Pictured
<1>1. k[1] \in {"Y", "U", "V"}
  BY CoordFacts
<1>2. ASSUME k[1] = "Y" PROVE At(y, NvAddr(k, pitch, 0, bps)) = <<p, k>>
  BY <1>2 DEF Shows, Plane, NvLayout
<1>3. ASSUME k[1] \in {"U", "V"}
      PROVE  At(uv, NvAddr(k, cpitch, 0, bps)) = <<p, k>>
  BY <1>3 DEF Shows, Plane, NvLayout
<1> QED BY <1>1, <1>2, <1>3

(* Two copies of rows write addresses.                                     *)
LEMMA TwoCopiesNat ==
  ASSUME NEW m1, NEW m2, DOMAIN m1 \subseteq Nat, DOMAIN m2 \subseteq Nat,
         NEW w, NEW h, NEW bps, NEW sp1, NEW sp2, NEW su, NEW dp, NEW du,
         NvRoom(w, h, bps, sp1, sp2, su, dp, du), sp1 > 0, sp2 > 0
  PROVE  DOMAIN Over(CopyRows(m1, 0, sp1, 0, dp, h, w * bps),
                     CopyRows(m2, su, sp2, du, dp, h \div 2, w * bps))
           \subseteq Nat
<1> DEFINE n == w * bps
           rows == h \div 2
<1>1. /\ w \in Nat /\ h \in Nat /\ bps \in {1, 2} /\ n <= dp
      /\ sp1 \in Nat /\ sp2 \in Nat /\ su \in Nat /\ dp \in Nat /\ du \in Nat
  BY DEF NvRoom
<1>2. n \in Nat /\ rows \in Nat
  BY <1>1
<1> HIDE DEF n, rows
<1>3. DOMAIN CopyRows(m1, 0, sp1, 0, dp, h, n) \subseteq Nat
  BY <1>1, <1>2, CopyNat
<1>4. DOMAIN CopyRows(m2, su, sp2, du, dp, rows, n) \subseteq Nat
  BY <1>1, <1>2, CopyNat
<1>5. DOMAIN Over(CopyRows(m1, 0, sp1, 0, dp, h, n),
                  CopyRows(m2, su, sp2, du, dp, rows, n)) \subseteq Nat
  BY <1>3, <1>4, OverNat
<1> QED BY <1>5 DEF n, rows

(* A normalised import shows the application's picture.                    *)
LEMMA NormalizedShows ==
  ASSUME CopyInv, PixelInv, s # None, s.import.kind = "multi", NormalizeFits
  PROVE  /\ Shows(Normalized, "app",
                  NvLayout(s.width, s.height, s.bps, Pitch,
                           Pitch * s.vstride))
         /\ DOMAIN Normalized \subseteq Nat
<1> DEFINE w == s.width
           h == s.height
           b == s.bps
           p == s.import.pitch
           c == s.import.cpitch
           P == Pitch
           z == 0
           u == Pitch * s.vstride
<1>1. Geometry(s) /\ ImportRoom(s) /\ ImportShown /\ MemoryInv
  BY DEF CopyInv, PixelInv
<1>2. /\ w \in Nat /\ h \in Nat /\ b \in {1, 2} /\ p \in Nat /\ c \in Nat
      /\ s.hstride \in Nat /\ s.vstride \in Nat /\ h <= s.vstride
  BY <1>1 DEF Geometry, SurfaceSet, ImportSet
<1>3. w * b <= p /\ p > 0 /\ w * b <= c /\ c > 0
  BY <1>1 DEF ImportRoom
<1>4. P \in Nat /\ w * b <= P
  <2>1. w <= s.hstride
    BY <1>2 DEF NormalizeFits
  <2>2. CASE b = 1
    BY <1>2, <2>1, <2>2 DEF Pitch
  <2>3. CASE b = 2
    BY <1>2, <2>1, <2>3 DEF Pitch
  <2> QED BY <1>2, <2>2, <2>3
<1>5. u \in Nat /\ h * P <= u
  <2> HIDE DEF P
  <2>1. P * s.vstride \in Nat /\ P * h <= P * s.vstride /\ h * P = P * h
    BY <1>2, <1>4, TimesMono
  <2> QED BY <2>1 DEF P
<1>6. DOMAIN mem.y \subseteq Nat /\ DOMAIN mem.uv \subseteq Nat
  BY <1>1 DEF MemoryInv, Buffers
<1>7. Pictured(mem.y, mem.uv, "app", w, h, b, p, c, z)
  BY <1>1, <1>2, PlanesShown DEF ImportShown
<1>8. NvRoom(w, h, b, p, c, z, P, u)
  BY <1>2, <1>3, <1>4, <1>5 DEF NvRoom
<1>9. Normalized = Over(CopyRows(mem.y, 0, p, 0, P, h, w * b),
                        CopyRows(mem.uv, z, c, u, P, h \div 2, w * b))
  BY DEF Normalized
<1>10. "app" \in Pictures
  BY DEF Pictures
<1> HIDE DEF w, h, b, p, c, P, z, u
<1>11. Shows(Normalized, "app", NvLayout(w, h, b, P, u))
  BY <1>6, <1>7, <1>8, <1>9, <1>10, NvCopied
<1>12. DOMAIN Normalized \subseteq Nat
  BY <1>3, <1>6, <1>8, <1>9, TwoCopiesNat
<1> QED BY <1>11, <1>12 DEF w, h, b, P, u

(* A step that writes one buffer no import is in keeps the invariant.      *)
LEMMA PixelsKept ==
  ASSUME PixelInv, UNCHANGED <<s, im>>, put' \in {put, None},
         NEW b \in {"priv", "frame", "data"}, NEW m, DOMAIN m \subseteq Nat,
         mem' = [mem EXCEPT ![b] = m]
  PROVE  PixelInv'
<1>1. MemoryInv' /\ mem'.y = mem.y /\ mem'.uv = mem.uv
  BY DEF PixelInv, MemoryInv, Buffers
<1>2. s # None => ImportShown'
  BY <1>1 DEF PixelInv, ImportShown
<1> QED BY <1>1, <1>2 DEF PixelInv

(* The planes of an image that fits have room for the surface's picture.   *)
LEMMA ImageRoom ==
  ASSUME NEW i, NEW w \in Nat, NEW h \in Nat, NEW bps \in {1, 2},
         Countable(i), PlanesApart(i), ~i.derived, h <= i.height,
         PlanesFit(i, w, h, bps)
  PROVE  /\ i.fourcc \in Planar => PlanarRoom(i, w, h)
         /\ i.fourcc \notin Planar =>
              /\ w * bps <= i.pitches[1] /\ h * i.pitches[1] <= i.offsets[2]
<1>1. /\ i.height \in Nat
      /\ \A p \in 1 .. 3 : i.pitches[p] \in Nat /\ i.offsets[p] \in Nat
  BY DEF Countable, ImageSet
<1>2. h * i.pitches[1] \in Nat /\ h * i.pitches[1] <= i.offsets[2]
  <2>1. i.pitches[1] \in Nat /\ i.offsets[2] \in Nat
    BY <1>1
  <2>2. h * i.pitches[1] \in Nat /\ h * i.pitches[1] <= i.height * i.pitches[1]
    BY <1>1, <2>1, TimesMono
  <2>3. i.height * i.pitches[1] \in Nat
    BY <1>1, <2>1
  <2>4. i.height * i.pitches[1] <= i.offsets[2]
    BY DEF PlanesApart
  <2> QED BY <2>1, <2>2, <2>3, <2>4
<1>3. CASE i.fourcc \notin Planar
  <2>1. i.pitches[1] >= w * bps
    BY <1>3 DEF PlanesFit, image_plane_fits
  <2>2. i.pitches[1] \in Nat /\ w * bps \in Nat
    BY <1>1
  <2> QED BY <1>2, <1>3, <2>1, <2>2
<1>4. CASE i.fourcc \in Planar
  <2> DEFINE c == h \div 2
             d == i.height \div 2
             p == i.pitches[2]
  <2>1. i.pitches[1] >= w /\ p >= w \div 2
    BY <1>4 DEF PlanesFit, image_plane_fits
  <2>2. i.pitches[1] \in Nat /\ p \in Nat /\ i.offsets[2] \in Nat
        /\ i.offsets[3] \in Nat
    BY <1>1
  <2>3. c \in Nat /\ d \in Nat /\ c <= d
    BY <1>1
  <2>4. /\ i.offsets[1] = 0 /\ i.pitches[3] = p
        /\ i.offsets[2] + d * p <= i.offsets[3]
    BY <1>4 DEF PlanesApart
  <2>5. PlanarImage(i)
    BY <1>1, <1>4 DEF PlanarImage
  <2> HIDE DEF c, d, p
  <2>6. c * p \in Nat /\ d * p \in Nat /\ c * p <= d * p
    BY <2>2, <2>3, TimesMono
  <2>7. i.offsets[2] + c * p <= i.offsets[3]
    BY <2>2, <2>4, <2>6
  <2>8. w <= i.pitches[1] /\ w \div 2 <= p
    <3>1. w \div 2 \in Nat
      OBVIOUS
    <3> QED BY <2>1, <2>2, <3>1
  <2> QED BY <1>2, <1>4, <2>4, <2>5, <2>7, <2>8 DEF PlanarRoom, c, p
<1> QED BY <1>3, <1>4

(* vaPutImage copies the picture of its image.                             *)
LEMMA PutPictureShows ==
  ASSUME CopyInv, PixelInv, put # None,
         s.hstride * put.bps >= put.row
  PROVE  LET m == PutPicture(im, s.hstride * put.bps, im.fourcc \in Planar)
         IN /\ DOMAIN m \subseteq Nat
            /\ im.bps = s.bps /\
               Shows(mem.data, "up",
                     ImageLayout(s.width, s.height, s.bps, im)) =>
                 Shows(m, "up", NvLayout(s.width, s.height, s.bps, Pitch,
                                         Pitch * s.vstride))
<1> DEFINE w == s.width
           h == s.height
           b == s.bps
           P == Pitch
           u == Pitch * s.vstride
           ip == im.pitches[1]
           io == im.offsets[2]
           z == 0
           D == mem.data
           m == PutPicture(im, s.hstride * put.bps, im.fourcc \in Planar)
<1>1. /\ s # None /\ im # None /\ ~im.derived /\ im.height = h
      /\ im.fourcc \in Planar => b = 1
      /\ PlanesFit(im, w, h, b)
      /\ put = [bps |-> b, row |-> w * b, chroma |-> w \div 2]
  BY DEF CopyInv, StillChecked
<1>2. Geometry(s) /\ Countable(im) /\ PlanesApart(im) /\ MemoryInv
      /\ Bound(s) /\ im.fourcc = s.fourcc
  BY <1>1 DEF CopyInv, PixelInv
<1>3. /\ w \in Nat /\ h \in Nat /\ s.hstride \in Nat /\ s.vstride \in Nat
      /\ b \in {1, 2} /\ h <= s.vstride
  BY <1>2 DEF Geometry, SurfaceSet
<1>4. ip \in Nat /\ io \in Nat /\ ip > 0 /\ im.offsets[1] = z
  BY <1>1, <1>2 DEF Countable, ImageSet, PlanesApart
<1>5. P \in Nat /\ w * b <= P
  BY <1>1, <1>3 DEF Pitch
<1>6. u \in Nat /\ h * P <= u
  <2> HIDE DEF P
  <2>1. P * s.vstride \in Nat /\ P * h <= P * s.vstride /\ h * P = P * h
    BY <1>3, <1>5, TimesMono
  <2> QED BY <2>1 DEF P
<1>7. DOMAIN D \subseteq Nat
  BY <1>2 DEF MemoryInv, Buffers
<1>8. put.bps = b /\ put.row = w * b /\ put.chroma = w \div 2
      /\ s.hstride * put.bps = P
  BY <1>1 DEF Pitch
<1>9. "up" \in Pictures
  BY DEF Pictures
<1>10. /\ im.fourcc \in Planar => PlanarRoom(im, w, h)
       /\ im.fourcc \notin Planar => w * b <= ip /\ h * ip <= io
  <2>1. h <= im.height
    BY <1>1, <1>3
  <2> QED BY <1>1, <1>2, <1>3, <2>1, ImageRoom
<1>11. CASE im.fourcc \in Planar
  <2> DEFINE Y == CopyRows(D, 0, ip, 0, P, h, w)
             C == Interleaved(D, im, u, P, h \div 2, w \div 2)
  <2>1. m = Over(Y, C)
    BY <1>4, <1>8, <1>11 DEF PutPicture
  <2>2. b = 1 /\ w <= P
    BY <1>1, <1>3, <1>5, <1>11
  <2>3. ASSUME im.bps = b, Shows(D, "up", ImageLayout(w, h, b, im))
        PROVE  Shows(Over(Y, C), "up", NvLayout(w, h, b, P, u))
    <3>1. \A k \in Coords(w, h, 1) : At(D, ImageAddr(k, im)) = <<"up", k>>
      BY <2>2, <2>3 DEF Shows, ImageLayout
    <3> HIDE DEF w, h, b, P, u, D
    <3> QED BY <1>5, <1>6, <1>7, <1>9, <1>10, <1>11, <2>2, <3>1, PlanarPut
         DEF ip
  <2>4. DOMAIN Y \subseteq Nat
    <3> HIDE DEF w, h, P, D, ip
    <3> QED BY <1>3, <1>4, <1>5, <1>7, <2>2, CopyNat
  <2>5. DOMAIN C \subseteq Nat
    <3> DEFINE rows == h \div 2
               n == w \div 2
    <3>1. rows \in Nat /\ n \in Nat /\ 2 * n <= P
      BY <1>3, <1>5, <2>2
    <3> HIDE DEF rows, n, P, u, D
    <3>2. DOMAIN Interleaved(D, im, u, P, rows, n) \subseteq Nat
      BY <1>5, <1>6, <3>1, InterleavedNat
    <3> QED BY <3>2 DEF rows, n
  <2> HIDE DEF Y, C, m
  <2>6. DOMAIN m \subseteq Nat
    BY <2>1, <2>4, <2>5, OverNat
  <2> QED BY <2>1, <2>3, <2>6 DEF m
<1>12. CASE im.fourcc \notin Planar
  <2>1. im.pitches[2] = ip
    BY <1>1, <1>2, <1>12 DEF PlanesApart
  <2>2. m = Over(CopyRows(D, 0, ip, 0, P, h, w * b),
                 CopyRows(D, io, ip, u, P, h \div 2, w * b))
    BY <1>4, <1>8, <1>12, <2>1 DEF PutPicture
  <2>3. NvRoom(w, h, b, ip, ip, io, P, u)
    BY <1>3, <1>4, <1>5, <1>6, <1>10, <1>12 DEF NvRoom
  <2>4. im.bps = b => ImageLayout(w, h, b, im) = NvLayout(w, h, b, ip, io)
    BY <1>12, ImageIsNv
  <2> HIDE DEF w, h, b, P, u, D, ip, io, m
  <2>5. ASSUME im.bps = b, Shows(D, "up", ImageLayout(w, h, b, im))
        PROVE  Shows(m, "up", NvLayout(w, h, b, P, u))
    <3>1. Pictured(D, D, "up", w, h, b, ip, ip, io)
      BY <2>4, <2>5, NvShown
    <3> QED BY <1>7, <1>9, <2>2, <2>3, <3>1, NvCopied
  <2>6. DOMAIN m \subseteq Nat
    BY <1>4, <1>7, <2>2, <2>3, TwoCopiesNat
  <2> QED BY <2>5, <2>6 DEF m, w, h, b, P, u, D
<1> QED BY <1>11, <1>12

(* vaGetImage copies the picture of its source.                            *)
LEMMA GetPictureShows ==
  ASSUME CopyInv, PixelInv, s # None, im # None, ~im.derived,
         im.height >= s.height, im.fourcc = s.fourcc,
         im.fourcc \in Planar => s.bps = 1,
         PlanesFit(im, s.width, s.height, s.bps),
         Pitch >= s.width * s.bps, Pitch > 0,
         NEW src, DOMAIN src \subseteq Nat
  PROVE  LET m == GetPicture(src, im, im.fourcc \in Planar)
         IN /\ DOMAIN m \subseteq Nat
            /\ im.bps = s.bps => \A p \in Pictures :
                 Shows(src, p, NvLayout(s.width, s.height, s.bps, Pitch,
                                        Pitch * s.vstride)) =>
                   Shows(m, p, ImageLayout(s.width, s.height, s.bps, im))
<1> DEFINE w == s.width
           h == s.height
           b == s.bps
           P == Pitch
           u == Pitch * s.vstride
           ip == im.pitches[1]
           io == im.offsets[2]
           z == 0
           m == GetPicture(src, im, im.fourcc \in Planar)
<1>1. Geometry(s) /\ Countable(im) /\ PlanesApart(im) /\ Bound(s)
  BY DEF CopyInv, PixelInv
<1>2. /\ w \in Nat /\ h \in Nat /\ s.hstride \in Nat /\ s.vstride \in Nat
      /\ b \in {1, 2} /\ im.height \in Nat
  BY <1>1 DEF Geometry, SurfaceSet, Countable, ImageSet
<1>3. /\ ip \in Nat /\ io \in Nat /\ ip > 0 /\ im.offsets[1] = z
  BY <1>1 DEF Countable, ImageSet, PlanesApart
<1>4. P \in Nat /\ w * b <= P /\ P > 0 /\ u \in Nat
  <2>1. P \in Nat
    BY <1>2 DEF Pitch
  <2>2. w * b \in Nat
    BY <1>2
  <2> HIDE DEF P
  <2>3. P * s.vstride \in Nat
    BY <1>2, <2>1
  <2> QED BY <2>1, <2>2, <2>3 DEF P
<1>5. /\ im.fourcc \in Planar => PlanarRoom(im, w, h)
      /\ im.fourcc \notin Planar => w * b <= ip /\ h * ip <= io
  <2>1. h <= im.height
    BY <1>2
  <2> QED BY <1>1, <1>2, <2>1, ImageRoom
<1>6. CASE im.fourcc \in Planar
  <2> DEFINE rows == h \div 2
             n == w \div 2
             Y == CopyRows(src, 0, P, 0, ip, h, w)
             U == Halved(src, u, P, 0, im, u_plane(im), rows, n)
             V == Halved(src, u, P, 1, im, v_plane(im), rows, n)
  <2>1. m = Over(Y, Over(U, V))
    BY <1>3, <1>6 DEF GetPicture
  <2>2. b = 1 /\ w <= P /\ w <= ip
    BY <1>2, <1>4, <1>5, <1>6 DEF PlanarRoom
  <2>3. rows \in Nat /\ n \in Nat /\ PlanarImage(im)
        /\ \A q \in {2, 3} : n <= im.pitches[q]
    BY <1>2, <1>5, <1>6 DEF PlanarRoom
  <2>4. DOMAIN Y \subseteq Nat
    <3> HIDE DEF w, h, P, ip
    <3> QED BY <1>2, <1>3, <1>4, <2>2, CopyNat
  <2>5. ASSUME NEW q \in {2, 3}, NEW odd
        PROVE  DOMAIN Halved(src, u, P, odd, im, q, rows, n) \subseteq Nat
    <3>1. q \in 1 .. 3 /\ n <= im.pitches[q]
      BY <2>3
    <3> HIDE DEF u, P, rows, n
    <3> QED BY <2>3, <3>1, HalvedDomain
  <2>6. u_plane(im) \in {2, 3} /\ v_plane(im) \in {2, 3}
    BY DEF u_plane, v_plane
  <2>7. DOMAIN U \subseteq Nat /\ DOMAIN V \subseteq Nat
    BY <2>5, <2>6
  <2>8. ASSUME NEW p \in Pictures, Shows(src, p, NvLayout(w, h, b, P, u))
        PROVE  Shows(Over(Y, Over(U, V)), p, ImageLayout(w, h, b, im))
    <3>1. \A k \in Coords(w, h, b) : At(src, NvAddr(k, P, u, b)) = <<p, k>>
      <4> HIDE DEF w, h, b, P, u
      <4> QED BY <2>8, NvShown
    <3> HIDE DEF w, h, b, P, u
    <3> QED BY <1>4, <1>5, <1>6, <2>2, <3>1, PlanarGet DEF ip
  <2> HIDE DEF Y, U, V, m
  <2>9. DOMAIN m \subseteq Nat
    BY <2>1, <2>4, <2>7, OverNat
  <2> QED BY <2>1, <2>8, <2>9 DEF m
<1>7. CASE im.fourcc \notin Planar
  <2>1. im.pitches[2] = ip
    BY <1>1, <1>7 DEF PlanesApart
  <2>2. m = Over(CopyRows(src, 0, P, 0, ip, h, w * b),
                 CopyRows(src, u, P, io, ip, h \div 2, w * b))
    BY <1>3, <1>7, <2>1 DEF GetPicture
  <2>3. NvRoom(w, h, b, P, P, u, ip, io)
    BY <1>2, <1>3, <1>4, <1>5, <1>7 DEF NvRoom
  <2>4. im.bps = b => ImageLayout(w, h, b, im) = NvLayout(w, h, b, ip, io)
    BY <1>7, ImageIsNv
  <2> HIDE DEF w, h, b, P, u, ip, io, m
  <2>5. ASSUME im.bps = b, NEW p \in Pictures,
               Shows(src, p, NvLayout(w, h, b, P, u))
        PROVE  Shows(m, p, ImageLayout(w, h, b, im))
    <3>1. Pictured(src, src, p, w, h, b, P, P, u)
      BY <2>5, NvShown
    <3>2. Shows(m, p, NvLayout(w, h, b, ip, io))
      BY <2>2, <2>3, <3>1, NvCopied
    <3> QED BY <2>4, <2>5, <3>2
  <2>6. DOMAIN m \subseteq Nat
    BY <1>4, <2>2, <2>3, TwoCopiesNat
  <2> QED BY <2>5, <2>6 DEF m, w, h, b, P, u
<1> QED BY <1>6, <1>7

(* The repacking copies keep the picture.                                  *)
LEMMA RepackedShows ==
  ASSUME NEW m, DOMAIN m \subseteq Nat, NEW p \in Pictures,
         NEW w \in Nat, NEW h \in Nat, NEW bps \in {1, 2}, NEW src, NEW dst,
         RepackFits(w, h, bps, src, dst),
         \A g \in {src, dst} : g.hstride \in Nat /\ g.vstride \in Nat,
         Shows(m, p, NvLayout(w, h, bps, src.hstride * bps,
                              src.hstride * bps * src.vstride))
  PROVE  LET r == Repacked(m, w, h, bps, src, dst)
         IN /\ DOMAIN r \subseteq Nat
            /\ Shows(r, p, NvLayout(w, h, bps, dst.hstride * bps,
                                    dst.hstride * bps * dst.vstride))
<1> DEFINE sp == src.hstride * bps
           dp == dst.hstride * bps
           su == sp * src.vstride
           du == dp * dst.vstride
           r == Repacked(m, w, h, bps, src, dst)
<1>1. ASSUME NEW g \in {src, dst}
      PROVE  LET q == g.hstride * bps
             IN /\ q \in Nat /\ w * bps <= q /\ q > 0
                /\ q * g.vstride \in Nat /\ h * q <= q * g.vstride
  <2> DEFINE q == g.hstride * bps
  <2>1. g.hstride >= w /\ g.vstride >= h /\ w > 0
    BY DEF RepackFits
  <2>2. g.hstride \in Nat /\ g.vstride \in Nat /\ w <= g.hstride
        /\ h <= g.vstride
    BY <2>1
  <2>3. q \in Nat /\ w * bps <= q /\ q > 0
    <3>1. CASE bps = 1
      BY <2>1, <2>2, <3>1
    <3>2. CASE bps = 2
      BY <2>1, <2>2, <3>2
    <3> QED BY <3>1, <3>2
  <2> HIDE DEF q
  <2>4. q * g.vstride \in Nat /\ q * h <= q * g.vstride /\ h * q = q * h
    BY <2>2, <2>3, TimesMono
  <2> QED BY <2>3, <2>4 DEF q
<1>2. NvRoom(w, h, bps, sp, sp, su, dp, du) /\ sp > 0
  BY <1>1 DEF NvRoom
<1>3. r = Over(CopyRows(m, 0, sp, 0, dp, h, w * bps),
               CopyRows(m, su, sp, du, dp, h \div 2, w * bps))
  BY DEF Repacked
<1> HIDE DEF sp, dp, su, du, r
<1>4. Pictured(m, m, p, w, h, bps, sp, sp, su)
  BY NvShown DEF sp, su
<1>5. Shows(r, p, NvLayout(w, h, bps, dp, du))
  BY <1>2, <1>3, <1>4, NvCopied
<1>6. DOMAIN r \subseteq Nat
  BY <1>2, <1>3, TwoCopiesNat
<1> QED BY <1>5, <1>6 DEF r, dp, du

(* vaPutImage.                                                             *)
LEMMA PutSurvives ==
  ASSUME CopyInv, PixelInv, put_copy
  PROVE  PixelInv' /\ ImageSurvives'
<1> DEFINE dp == s.hstride * put.bps
           size == rk_nv12_layout_size(dp, s.vstride)
           m == PutPicture(im, dp, im.fourcc \in Planar)
           In == NvLayout(s.width, s.height, s.bps, Pitch, Pitch * s.vstride)
           Im == ImageLayout(s.width, s.height, s.bps, im)
<1>1. put # None /\ put' = None /\ UNCHANGED <<s, im>>
  BY DEF put_copy
<1>2. CASE dp < put.row \/ size = NoSize \/ size > s.priv_size
           \/ im.offsets[1] > im.capacity
  <2>1. said' = "refused" /\ mem' = mem
    BY <1>2 DEF put_copy
  <2>2. ImageSurvives'
    BY <2>1 DEF ImageSurvives
  <2>3. PixelInv'
    BY <1>1, <2>1 DEF PixelInv, MemoryInv, ImportShown
  <2> QED BY <2>2, <2>3
<1>3. CASE ~(dp < put.row \/ size = NoSize \/ size > s.priv_size
             \/ im.offsets[1] > im.capacity)
  <2>1. said' = "put" /\ mem' = [mem EXCEPT !.priv = m]
    BY <1>3 DEF put_copy
  <2>2. dp >= put.row
    <3>1. dp \in Nat /\ put.row \in Nat
      <4>1. /\ s # None
            /\ put = [bps |-> s.bps, row |-> s.width * s.bps,
                      chroma |-> s.width \div 2]
        BY <1>1 DEF CopyInv, StillChecked
      <4>2. s.hstride \in Nat /\ s.width \in Nat /\ s.bps \in {1, 2}
        BY <4>1 DEF CopyInv, Geometry, SurfaceSet
      <4>3. put.bps = s.bps /\ put.row = s.width * s.bps
        BY <4>1
      <4> QED BY <4>2, <4>3
    <3> HIDE DEF dp
    <3> QED BY <1>3, <3>1
  <2>3. DOMAIN m \subseteq Nat
        /\ (im.bps = s.bps /\ Shows(mem.data, "up", Im) => Shows(m, "up", In))
    BY <1>1, <2>2, PutPictureShows
  <2> HIDE DEF m
  <2>4. PixelInv'
    BY <1>1, <2>1, <2>3, PixelsKept
  <2>5. mem'.priv = m /\ mem'.data = mem.data
    BY <2>1 DEF PixelInv, MemoryInv, Buffers
  <2>6. Im' = Im /\ In' = In
    BY <1>1 DEF Pitch
  <2> HIDE DEF Im, In
  <2>7. SameDepth' /\ Shows(mem'.data, "up", Im') =>
          Shows(mem'.priv, "up", In')
    BY <1>1, <2>3, <2>5, <2>6 DEF SameDepth
  <2>8. Source'.at # "frame" => Source'.at = "priv"
    <3>1. s # None /\ s.import = NoImport
      BY <1>1 DEF CopyInv, StillChecked
    <3> QED BY <1>1, <3>1 DEF Source, NoImport
  <2>9. ImageSurvives'
    BY <2>1, <2>7, <2>8 DEF ImageSurvives, Im, In
  <2> QED BY <2>4, <2>9
<1> QED BY <1>2, <1>3

(* Where the readers find an import that has been settled.                 *)
LEMMA SettledShows ==
  ASSUME CopyInv, PixelInv, s # None, s.import.kind \in {"linear", "multi"},
         s.import.kind = "multi" => NormalizeFits
  PROVE  /\ Source.at = (IF s.import.kind = "linear" THEN "y" ELSE "priv")
         /\ Shows(Settled[Source.at], "app",
                  NvLayout(s.width, s.height, s.bps, Pitch,
                           Pitch * s.vstride))
<1>1. CASE s.import.kind = "linear"
  <2>1. Source.at = "y" /\ Settled = mem
    BY <1>1 DEF Source, Settled
  <2>2. Geometry(s) /\ ImportShown
    BY DEF CopyInv, PixelInv
  <2>3. Pitch = s.import.pitch /\ s.vstride = s.height
    BY <1>1, <2>2 DEF Geometry, Pitch
  <2>4. Shows(mem.y, "app",
              NvLayout(s.width, s.height, s.bps, Pitch, Pitch * s.vstride))
    BY <1>1, <2>2, <2>3 DEF ImportShown
  <2> QED BY <1>1, <2>1, <2>4
<1>2. CASE s.import.kind = "multi"
  <2>1. Source.at = "priv" /\ Settled = [mem EXCEPT !.priv = Normalized]
    BY <1>2 DEF Source, Settled
  <2>2. Settled.priv = Normalized
    BY <2>1 DEF PixelInv, MemoryInv, Buffers
  <2> QED BY <1>2, <2>1, <2>2, NormalizedShows
<1> QED BY <1>1, <1>2

(* Settling an import keeps the invariant's memory.                        *)
LEMMA SettledKeeps ==
  ASSUME CopyInv, PixelInv, s # None,
         s.import.kind = "multi" => NormalizeFits
  PROVE  /\ DOMAIN Settled = Buffers
         /\ \A b \in Buffers : DOMAIN Settled[b] \subseteq Nat
         /\ Settled.y = mem.y /\ Settled.uv = mem.uv
<1>1. CASE s.import.kind = "multi"
  <2>1. DOMAIN Normalized \subseteq Nat
    BY <1>1, NormalizedShows
  <2>2. Settled = [mem EXCEPT !.priv = Normalized]
    BY <1>1 DEF Settled
  <2> QED BY <2>1, <2>2 DEF PixelInv, MemoryInv, Buffers
<1>2. CASE s.import.kind # "multi"
  BY <1>2 DEF Settled, PixelInv, MemoryInv
<1> QED BY <1>1, <1>2

(* vaGetImage.                                                             *)
LEMMA GetSurvives ==
  ASSUME ~CopyDerived, CopyInv, PixelInv, rk_GetImage
  PROVE  PixelInv' /\ ImageSurvives'
<1> DEFINE planar == im.fourcc \in Planar
           src == Settled[Source.at]
           m == GetPicture(src, im, planar)
           In == NvLayout(s.width, s.height, s.bps, Pitch, Pitch * s.vstride)
           Im == ImageLayout(s.width, s.height, s.bps, im)
           size == rk_nv12_layout_size(Pitch, s.vstride)
<1>1. /\ s # None /\ im # None /\ put = None /\ ~im.derived
      /\ s.import.kind = "multi" => NormalizeFits
      /\ s.import.kind # "rgb"
      /\ im.height >= s.height /\ im.fourcc = s.fourcc
      /\ planar => s.bps = 1
      /\ Pitch >= s.width * s.bps /\ size # NoSize
      /\ PlanesFit(im, s.width, s.height, s.bps)
      /\ mem' = [Settled EXCEPT !.data = m]
      /\ said' = "got" /\ UNCHANGED <<s, im, put>>
  BY DEF rk_GetImage
<1>2. /\ DOMAIN Settled = Buffers
      /\ \A b \in Buffers : DOMAIN Settled[b] \subseteq Nat
      /\ Settled.y = mem.y /\ Settled.uv = mem.uv
  BY <1>1, SettledKeeps
<1>3. Source.at \in {"y", "priv", "frame"}
  <2>1. CASE s.import.kind \in {"linear", "rgb"}
    BY <2>1 DEF Source
  <2>2. CASE s.import.kind = "multi"
    BY <2>2 DEF Source
  <2>3. CASE s.import.kind \notin {"linear", "rgb", "multi"}
    BY <2>3 DEF Source
  <2> QED BY <2>1, <2>2, <2>3
<1>4. DOMAIN src \subseteq Nat
  BY <1>2, <1>3 DEF Buffers
<1>5. Pitch > 0
  <2>1. Geometry(s)
    BY <1>1 DEF CopyInv
  <2>2. s.hstride \in Nat /\ s.bps \in {1, 2} /\ s.vstride \in Nat
    BY <2>1 DEF Geometry, SurfaceSet
  <2>3. Pitch \in Nat
    BY <2>2 DEF Pitch
  <2> QED BY <1>1, <2>2, <2>3, NvSize
<1>6. /\ DOMAIN m \subseteq Nat
      /\ SameDepth => \A p \in Pictures : Shows(src, p, In) => Shows(m, p, Im)
  <2> HIDE DEF src
  <2> QED BY <1>1, <1>4, <1>5, GetPictureShows DEF SameDepth
<1> HIDE DEF m
<1>7. /\ mem'.data = m /\ mem'[Source.at] = src
      /\ mem'.y = mem.y /\ mem'.uv = mem.uv
      /\ DOMAIN mem' = Buffers
      /\ \A b \in Buffers : DOMAIN mem'[b] \subseteq Nat
  BY <1>1, <1>2, <1>3, <1>6 DEF Buffers
<1>8. PixelInv'
  <2>1. MemoryInv' /\ ImportShown'
    BY <1>1, <1>7 DEF PixelInv, MemoryInv, ImportShown
  <2> QED BY <1>1, <2>1 DEF PixelInv
<1>9. Im' = Im /\ In' = In /\ Source' = Source
  BY <1>1 DEF Pitch, Source
<1>10. s.import # NoImport => Shows(src, "app", In)
  <2>1. s.import # NoImport => s.import.kind \in {"linear", "multi"}
    <3>1. Geometry(s) /\ ImportRoom(s)
      BY <1>1 DEF CopyInv, PixelInv
    <3>2. s.import.kind \in {"none", "linear", "multi", "rgb"}
      BY <3>1 DEF Geometry, SurfaceSet, ImportSet
    <3> QED BY <1>1, <3>1, <3>2 DEF ImportRoom
  <2> QED BY <1>1, <2>1, SettledShows
<1> HIDE DEF Im, In, src
<1>11. SameDepth' => \A p \in Pictures :
         Shows(mem'[Source'.at], p, In') => Shows(mem'.data, p, Im')
  BY <1>1, <1>6, <1>7, <1>9 DEF SameDepth
<1>12. s'.import # NoImport => Shows(mem'.data, "app", Im')
  <2>1. s.import # NoImport => SameDepth
    BY <1>1 DEF PixelInv, Bound, PlanesApart, SameDepth
  <2> QED BY <1>1, <1>6, <1>7, <1>9, <1>10, <2>1 DEF Pictures
<1>13. ImageSurvives'
  BY <1>1, <1>11, <1>12 DEF ImageSurvives, Im, In, Pictures
<1> QED BY <1>8, <1>13

(* The encoder's input.                                                    *)
LEMMA EncodeSurvives ==
  ASSUME CopyInv, PixelInv, encode_input
  PROVE  PixelInv' /\ ImageSurvives'
<1> DEFINE In == NvLayout(s.width, s.height, s.bps, Pitch, Pitch * s.vstride)
<1>1. /\ s # None /\ put = None /\ s.bps = 1
      /\ s.import.kind = "multi" => NormalizeFits
      /\ s.import.kind = "rgb" => ConvertFits
      /\ mem' = (IF s.import.kind = "rgb"
                   THEN [mem EXCEPT !.priv = Converted] ELSE Settled)
      /\ said' = "encoded" /\ UNCHANGED <<s, im, put>>
  BY DEF encode_input
<1>2. Geometry(s) /\ ImportRoom(s)
  BY <1>1 DEF CopyInv, PixelInv
<1>3. s.import.kind \in {"none", "linear", "multi", "rgb"}
      /\ (s.import.kind = "none" => s.import = NoImport)
  BY <1>2 DEF Geometry, SurfaceSet, ImportSet, ImportRoom
<1>4. In' = In /\ EncoderInput' = EncoderInput
  BY <1>1 DEF Pitch, EncoderInput
<1>5. CASE s.import.kind = "rgb"
  <2> DEFINE hs == s.hstride
             u == s.hstride * s.vstride
             L == NvLayout(s.width, s.height, 1, hs, u)
  <2>1. /\ hs \in Nat /\ s.vstride \in Nat /\ s.width \in Nat
        /\ s.height \in Nat /\ s.width <= hs /\ s.height <= s.vstride
    BY <1>1, <1>2, <1>5 DEF Geometry, SurfaceSet, ConvertFits
  <2>2. u \in Nat /\ s.height * hs <= u /\ s.width * 1 <= hs
    <3>1. hs * s.height <= hs * s.vstride
      BY <2>1, TimesMono
    <3>2. s.height * hs = hs * s.height
      BY <2>1
    <3> QED BY <2>1, <3>1, <3>2
  <2>3. Shows(Holding("app", L), "app", L)
        /\ DOMAIN Holding("app", L) \subseteq Nat
    <3> HIDE DEF hs, u
    <3> QED BY <2>1, <2>2, NvHolds
  <2>4. Converted = Holding("app", L)
    BY DEF Converted
  <2>5. In = L
    <3>1. Pitch = hs
      BY <1>1, <2>1 DEF Pitch
    <3> QED BY <1>1, <3>1
  <2> HIDE DEF L
  <2>6. mem' = [mem EXCEPT !.priv = Converted]
    BY <1>1, <1>5
  <2>7. DOMAIN Converted \subseteq Nat
    BY <2>3, <2>4
  <2>8. PixelInv'
    BY <1>1, <2>6, <2>7, PixelsKept
  <2>9. EncoderInput = "priv" /\ mem'.priv = Converted
    BY <1>5, <2>6 DEF EncoderInput, PixelInv, MemoryInv, Buffers
  <2> HIDE DEF In
  <2>10. Shows(mem'[EncoderInput'], "app", In')
    BY <1>4, <2>3, <2>4, <2>5, <2>9
  <2>11. ImageSurvives'
    BY <1>1, <2>10 DEF ImageSurvives, In
  <2> QED BY <2>8, <2>11
<1>6. CASE s.import.kind # "rgb"
  <2>1. mem' = Settled
    BY <1>1, <1>6
  <2>2. /\ DOMAIN mem' = Buffers
        /\ \A b \in Buffers : DOMAIN mem'[b] \subseteq Nat
        /\ mem'.y = mem.y /\ mem'.uv = mem.uv
    BY <1>1, <2>1, SettledKeeps
  <2>3. PixelInv'
    <3>1. MemoryInv' /\ ImportShown'
      BY <1>1, <2>2 DEF PixelInv, MemoryInv, ImportShown
    <3> QED BY <1>1, <3>1 DEF PixelInv
  <2>4. s.import # NoImport => Shows(mem'[EncoderInput], "app", In)
    <3>1. CASE s.import.kind \in {"linear", "multi"}
      <4>1. /\ Source.at = (IF s.import.kind = "linear" THEN "y" ELSE "priv")
            /\ Shows(Settled[Source.at], "app", In)
        BY <1>1, <3>1, SettledShows
      <4>2. EncoderInput = Source.at
        BY <4>1 DEF EncoderInput
      <4> QED BY <2>1, <4>1, <4>2
    <3>2. CASE s.import.kind = "none"
      BY <1>3, <3>2
    <3> QED BY <1>3, <1>6, <3>1, <3>2
  <2> HIDE DEF In
  <2>5. s'.import # NoImport => Shows(mem'[EncoderInput'], "app", In')
    BY <1>1, <1>4, <2>4
  <2>6. ImageSurvives'
    BY <1>1, <2>5 DEF ImageSurvives, In
  <2> QED BY <2>3, <2>6
<1> QED BY <1>5, <1>6

(* MPP's promise about its frames: a row has room for the picture.  The    *)
(* driver checks it of ten-bit frames only.                                *)
FramesPadded ==
  \A f \in Frames : f.fmt = "nv12" => f.width <= f.hstride

(* Binding a frame, or copying it into an exported placeholder.            *)
LEMMA BindSurvives ==
  ASSUME ~BindDuringPut, FramesPadded, CopyInv, PixelInv,
         NEW f \in Frames, bind(f)
  PROVE  PixelInv' /\ ImageSurvives'
<1> DEFINE b == Depth(f)
           o == Output(f).hstride
           hs == Output(f).hstride * b
           u == hs * f.vstride
           L == NvLayout(f.width, f.height, b, hs, u)
           In == NvLayout(s.width, s.height, s.bps, Pitch, Pitch * s.vstride)
<1>1. /\ s # None /\ put = None /\ s.begun /\ ~s.decoded /\ FrameUsable(f)
      /\ said' = "bound" /\ UNCHANGED <<im, put>>
  BY DEF bind
<1>2. Geometry(s) /\ MemoryInv /\ Bound(s) /\ ImportRoom(s)
  BY <1>1 DEF CopyInv, PixelInv
<1>3. /\ f.width \in Nat /\ f.height \in Nat /\ f.vstride \in Nat
      /\ o \in Nat /\ Output(f).vstride = f.vstride
      /\ Output(f).size # NoSize /\ f.width <= o
  BY <1>1, OutputFacts DEF FramesPadded, Depth
<1>4. /\ s \in SurfaceSet /\ b \in {1, 2} /\ s.import.kind = "none"
      /\ s.frame_size = NoSize /\ s.import = NoImport
  BY <1>1, <1>2, OutputFacts DEF Geometry, SurfaceSet, Bound, ImportRoom
<1>5. f.height <= f.vstride
  BY <1>1, OutputFacts
<1>6. hs \in Nat /\ f.width * b <= hs /\ u \in Nat /\ f.height * hs <= u
  <2>1. hs \in Nat /\ f.width * b <= hs
    <3> HIDE DEF o, b
    <3>1. o * b \in Nat /\ f.width * b <= o * b
      <4>1. CASE b = 1
        BY <1>3, <4>1
      <4>2. CASE b = 2
        BY <1>3, <4>2
      <4> QED BY <1>4, <4>1, <4>2
    <3> QED BY <3>1 DEF o
  <2> HIDE DEF hs
  <2>2. hs * f.vstride \in Nat /\ hs * f.height <= hs * f.vstride
        /\ f.height * hs = hs * f.height
    BY <1>3, <1>5, <2>1, TimesMono
  <2> QED BY <2>1, <2>2
<1>7. FrameMem(f) = Holding("dec", L)
  BY DEF FrameMem
<1>8. Shows(FrameMem(f), "dec", L) /\ DOMAIN FrameMem(f) \subseteq Nat
  <2> DEFINE w == f.width
             h == f.height
  <2>1. w \in Nat /\ h \in Nat /\ w * b <= hs /\ h * hs <= u
    BY <1>3, <1>6
  <2> HIDE DEF hs, u, b, w, h
  <2>2. LET N == NvLayout(w, h, b, hs, u)
        IN Shows(Holding("dec", N), "dec", N)
           /\ DOMAIN Holding("dec", N) \subseteq Nat
    BY <1>4, <1>6, <2>1, NvHolds
  <2> QED BY <1>7, <2>2 DEF w, h
<1>9. CASE s.stable
  <2> DEFINE r == Repacked(FrameMem(f), f.width, f.height, b, Output(f),
                           PrivOf)
  <2>1. /\ f.width = s.width /\ f.height = s.height
        /\ RepackFits(f.width, f.height, b, Output(f), PrivOf)
        /\ s' = [s EXCEPT !.decoded = TRUE, !.bps = b]
        /\ mem' = [mem EXCEPT !.priv = r]
    BY <1>9 DEF bind
  <2>2. /\ PrivOf.hstride = s.hstride /\ PrivOf.vstride = s.vstride
        /\ s.hstride \in Nat /\ s.vstride \in Nat
    BY <1>4 DEF PrivOf, SurfaceSet
  <2>3. "dec" \in Pictures
    BY DEF Pictures
  <2>4. /\ DOMAIN r \subseteq Nat
        /\ Shows(r, "dec", NvLayout(f.width, f.height, b, s.hstride * b,
                                    s.hstride * b * s.vstride))
    <3> DEFINE src == Output(f)
               dst == PrivOf
    <3>1. \A g \in {src, dst} : g.hstride \in Nat /\ g.vstride \in Nat
      BY <1>3, <2>2
    <3>2. Shows(FrameMem(f), "dec",
                NvLayout(f.width, f.height, b, src.hstride * b,
                         src.hstride * b * src.vstride))
      BY <1>3, <1>8
    <3>3. RepackFits(f.width, f.height, b, src, dst)
      BY <2>1
    <3> HIDE DEF src, dst, b
    <3>4. LET x == Repacked(FrameMem(f), f.width, f.height, b, src, dst)
          IN /\ DOMAIN x \subseteq Nat
             /\ Shows(x, "dec", NvLayout(f.width, f.height, b,
                                         dst.hstride * b,
                                         dst.hstride * b * dst.vstride))
      BY <1>3, <1>4, <1>8, <2>3, <3>1, <3>2, <3>3, RepackedShows
    <3> QED BY <2>2, <3>4 DEF src, dst
  <2> HIDE DEF r
  <2>5. /\ s' # None /\ s'.width = s.width /\ s'.height = s.height
        /\ s'.bps = b
        /\ s'.hstride = s.hstride /\ s'.vstride = s.vstride
        /\ s'.import = s.import /\ s'.fourcc = s.fourcc /\ s'.decoded
        /\ s'.frame_size = NoSize
    BY <1>1, <1>4, <2>1 DEF SurfaceSet, None
  <2>6. /\ MemoryInv' /\ mem'.priv = r
    BY <1>2, <2>1, <2>4 DEF MemoryInv, Buffers
  <2>7. PixelInv'
    <3>1. Bound(s') /\ ImportRoom(s') /\ ImportShown'
      BY <1>4, <2>5 DEF Bound, ImportRoom, ImportShown, NoImport
    <3> QED BY <1>1, <2>6, <3>1 DEF PixelInv
  <2>8. Source'.at = "priv"
    BY <1>4, <2>5 DEF Source
  <2>9. Shows(mem'[Source'.at], "dec", In')
    BY <2>1, <2>4, <2>5, <2>6, <2>8 DEF Pitch
  <2> HIDE DEF In
  <2>10. ImageSurvives'
    BY <1>1, <2>9 DEF ImageSurvives, In
  <2> QED BY <2>7, <2>10
<1>10. CASE ~s.stable
  <2>1. /\ s' = [s EXCEPT !.decoded = TRUE, !.bps = b,
                          !.width = f.width, !.height = f.height,
                          !.hstride = o, !.vstride = f.vstride,
                          !.frame_size = Output(f).size]
        /\ mem' = [mem EXCEPT !.frame = FrameMem(f)]
    BY <1>10 DEF bind
  <2>2. Output(f).size # NoSize
    BY <1>3
  <2>3. /\ s' # None /\ s'.width = f.width /\ s'.height = f.height
        /\ s'.bps = b
        /\ s'.hstride = o /\ s'.vstride = f.vstride
        /\ s'.import = s.import /\ s'.fourcc = s.fourcc /\ s'.decoded
        /\ s'.frame_size = Output(f).size
    BY <1>1, <1>4, <2>1 DEF SurfaceSet, None
  <2>4. MemoryInv' /\ mem'.frame = FrameMem(f)
    BY <1>2, <1>8, <2>1 DEF MemoryInv, Buffers
  <2>5. PixelInv'
    <3>1. Bound(s') /\ ImportRoom(s') /\ ImportShown'
      BY <1>4, <2>3 DEF Bound, ImportRoom, ImportShown, NoImport
    <3> QED BY <1>1, <2>4, <3>1 DEF PixelInv
  <2>6. Source'.at = "frame"
    BY <1>4, <2>2, <2>3 DEF Source
  <2>7. Shows(mem'[Source'.at], "dec", In')
    BY <1>8, <2>3, <2>4, <2>6 DEF Pitch
  <2> HIDE DEF In
  <2>8. ImageSurvives'
    BY <1>1, <2>7 DEF ImageSurvives, In
  <2> QED BY <2>5, <2>8
<1> QED BY <1>9, <1>10

(* The exported copy.                                                      *)
LEMMA RepackSurvives ==
  ASSUME CopyInv, PixelInv, export_repack
  PROVE  PixelInv' /\ ImageSurvives'
<1> DEFINE src == [PrivOf EXCEPT !.size = Source.size]
           dst == ExportOf
           In == NvLayout(s.width, s.height, s.bps, Pitch, Pitch * s.vstride)
           Ex == NvLayout(s.width, s.height, 1, ExportOf.hstride,
                          ExportOf.hstride * ExportOf.vstride)
           m == mem[Source.at]
<1>1. /\ s # None /\ s.bps = 1 /\ RepackFits(s.width, s.height, 1, src, dst)
      /\ said' = "repacked" /\ UNCHANGED <<s, im, mem, put>>
  BY DEF export_repack
<1>2. Geometry(s) /\ MemoryInv
  BY <1>1 DEF CopyInv, PixelInv
<1>3. s.width \in Nat /\ s.height \in Nat /\ s.hstride \in Nat
      /\ s.vstride \in Nat
  BY <1>2 DEF Geometry, SurfaceSet
<1>4. /\ src.hstride = s.hstride /\ src.vstride = s.vstride
      /\ dst.hstride \in Nat /\ dst.vstride \in Nat
  <2>1. RoundUp(s.hstride, 64) \in Nat
    BY <1>3, RoundUpFacts
  <2> QED BY <1>3, <2>1 DEF PrivOf, ExportOf
<1>5. Source.at \in {"y", "priv", "frame"}
  <2>1. CASE s.import.kind \in {"linear", "rgb"}
    BY <2>1 DEF Source
  <2>2. CASE s.import.kind = "multi"
    BY <2>2 DEF Source
  <2>3. CASE s.import.kind \notin {"linear", "rgb", "multi"}
    BY <2>3 DEF Source
  <2> QED BY <2>1, <2>2, <2>3
<1>6. DOMAIN m \subseteq Nat
  BY <1>2, <1>5 DEF MemoryInv, Buffers
<1>7. ASSUME NEW p \in Pictures, Shows(m, p, In)
      PROVE  Shows(ExportedCopy, p, Ex)
  <2>1. Shows(m, p, NvLayout(s.width, s.height, 1, src.hstride * 1,
                             src.hstride * 1 * src.vstride))
    BY <1>1, <1>4, <1>7 DEF Pitch
  <2>2. \A g \in {src, dst} : g.hstride \in Nat /\ g.vstride \in Nat
    BY <1>3, <1>4
  <2>3. ExportedCopy = Repacked(m, s.width, s.height, 1, src, dst)
    BY DEF ExportedCopy
  <2> HIDE DEF src, dst, m
  <2>4. Shows(ExportedCopy, p,
              NvLayout(s.width, s.height, 1, dst.hstride * 1,
                       dst.hstride * 1 * dst.vstride))
    BY <1>1, <1>3, <1>6, <1>7, <2>1, <2>2, <2>3, RepackedShows
  <2>5. dst.hstride * 1 = dst.hstride
    BY <1>4
  <2>6. Shows(ExportedCopy, p,
              NvLayout(s.width, s.height, 1, dst.hstride,
                       dst.hstride * dst.vstride))
    BY <2>4, <2>5
  <2> HIDE DEF ExportedCopy
  <2> QED BY <2>6 DEF dst, Ex
<1>8. /\ Source' = Source /\ In' = In /\ Ex' = Ex
      /\ ExportedCopy' = ExportedCopy
  BY <1>1 DEF Source, Pitch, ExportOf, ExportedCopy, Repacked, PrivOf
<1>9. PixelInv'
  BY <1>1 DEF PixelInv, MemoryInv, ImportShown
<1> HIDE DEF In, Ex
<1>10. \A p \in Pictures : Shows(mem'[Source'.at], p, In') =>
                             Shows(ExportedCopy', p, Ex')
  BY <1>1, <1>7, <1>8
<1>11. ImageSurvives'
  BY <1>1, <1>10 DEF ImageSurvives, In, Ex, Pictures
<1> QED BY <1>9, <1>11

(* An image is drawn at addresses.                                         *)
LEMMA DrawingNat ==
  ASSUME CopyInv, im # None
  PROVE  DOMAIN Drawing \subseteq Nat
<1> DEFINE w == im.width
           h == im.height
           b == im.bps
           L == ImageLayout(w, h, b, im)
<1>1. /\ w \in Nat /\ h \in Nat /\ b \in {1, 2}
      /\ \A p \in 1 .. 3 : im.pitches[p] \in Nat /\ im.offsets[p] \in Nat
  BY DEF CopyInv, Countable, ImageSet
<1>2. DOMAIN L = Coords(w, h, b)
      /\ \A k \in Coords(w, h, b) : L[k] = ImageAddr(k, im)
  BY DEF ImageLayout
<1>3. ASSUME NEW k \in Coords(w, h, b) PROVE ImageAddr(k, im) \in Nat
  <2>1. CASE im.fourcc \in Planar
    <3> DEFINE p == PlaneOf(im.fourcc, k[1])
    <3>1. k[1] \in {"Y", "U", "V"} /\ k[2] \in Nat /\ k[3] \in Nat
      <4> HIDE DEF w, h, b
      <4> QED BY <1>1, CoordFacts
    <3>2. p \in 1 .. 3
      BY <3>1 DEF PlaneOf
    <3>3. ImageAddr(k, im) = im.offsets[p] + k[2] * im.pitches[p] + k[3]
      BY <2>1 DEF ImageAddr
    <3> HIDE DEF p
    <3>4. im.offsets[p] \in Nat /\ im.pitches[p] \in Nat
      BY <1>1, <3>2
    <3>5. k[2] * im.pitches[p] \in Nat
      BY <3>1, <3>4
    <3> QED BY <3>1, <3>3, <3>4, <3>5
  <2>2. CASE im.fourcc \notin Planar
    <3>1. ImageAddr(k, im) = NvAddr(k, im.pitches[1], im.offsets[2], b)
      BY <2>2 DEF ImageAddr
    <3>2. im.pitches[1] \in Nat /\ im.offsets[2] \in Nat
      BY <1>1
    <3> HIDE DEF w, h, b
    <3>3. NvAddr(k, im.pitches[1], im.offsets[2], b) \in Nat
      BY <1>1, <3>2, NvAddrNat
    <3> QED BY <3>1, <3>3
  <2> QED BY <2>1, <2>2
<1> HIDE DEF L
<1>4. DOMAIN Holding("up", L) \subseteq Nat
  BY <1>2, <1>3, HeldDomain
<1> QED BY <1>4 DEF Drawing, L

(* Every step keeps the pictures.                                          *)
LEMMA PixelStep ==
  ASSUME ~BindDuringPut, ~CopyDerived, ~EncodeDecoded, FramesPadded,
         CopyInv, PixelInv, ImageSurvives, [Next]_vars
  PROVE  PixelInv' /\ ImageSurvives'
<1>1. ASSUME NEW q \in Requests, create_surfaces(q)
      PROVE  PixelInv' /\ ImageSurvives'
  <2>1. /\ s = None /\ Acceptable(q) /\ said' = "created"
        /\ UNCHANGED <<im, put>>
        /\ s' = SurfaceOf(q, IF q.descriptor = None THEN NoImport
                             ELSE ImportOf(q.fourcc, q.descriptor))
    BY <1>1 DEF create_surfaces
  <2>2. put = None
    BY <2>1 DEF CopyInv, StillChecked
  <2>3. Bound(s') /\ ImportRoom(s')
    BY <2>1, NewRoom
  <2>4. MemoryInv' /\ ImportShown'
    BY <1>1, NewShown DEF PixelInv
  <2>5. PixelInv'
    BY <2>1, <2>2, <2>3, <2>4 DEF PixelInv
  <2>6. ImageSurvives'
    BY <2>1 DEF ImageSurvives
  <2> QED BY <2>5, <2>6
<1>2. ASSUME NEW q \in ImageRequests, rk_CreateImage(q)
      PROVE  PixelInv' /\ ImageSurvives'
  <2>1. /\ put = None /\ ImageFits(q) /\ said' = "created"
        /\ UNCHANGED <<s, put>>
        /\ ImageSize(ImageOf(q)) # NoSize /\ ImageSize(ImageOf(q)) <= UINT_MAX
        /\ im' = [ImageOf(q) EXCEPT !.capacity = ImageSize(ImageOf(q)),
                                    !.storage = ImageSize(ImageOf(q))]
        /\ mem' = [mem EXCEPT !.data = Empty]
    BY <1>2 DEF rk_CreateImage
  <2>2. PlanesApart(im')
    BY <2>1, NewPlanes
  <2>3. MemoryInv' /\ (s # None => ImportShown')
    BY <2>1 DEF PixelInv, MemoryInv, ImportShown, Buffers, Empty
  <2>4. PixelInv'
    BY <2>1, <2>2, <2>3 DEF PixelInv
  <2>5. ImageSurvives'
    BY <2>1 DEF ImageSurvives
  <2> QED BY <2>4, <2>5
<1>3. CASE rk_DeriveImage
  <2>1. /\ im = None /\ said' = "created" /\ UNCHANGED <<s, put>>
        /\ im'.derived
        /\ mem' = [mem EXCEPT !.data = Empty]
    BY <1>3 DEF rk_DeriveImage
  <2>2. put = None
    BY <2>1 DEF CopyInv, StillChecked
  <2>3. MemoryInv' /\ (s # None => ImportShown')
    BY <2>1 DEF PixelInv, MemoryInv, ImportShown, Buffers, Empty
  <2>4. PixelInv'
    BY <2>1, <2>2, <2>3 DEF PixelInv, PlanesApart
  <2>5. ImageSurvives'
    BY <2>1 DEF ImageSurvives
  <2> QED BY <2>4, <2>5
<1>4. CASE rk_DestroyImage
  <2>1. /\ put = None /\ said' = "none" /\ UNCHANGED <<s, put>> /\ im' = None
        /\ mem' = [mem EXCEPT !.data = Empty]
    BY <1>4 DEF rk_DestroyImage
  <2>2. MemoryInv' /\ (s # None => ImportShown')
    BY <2>1 DEF PixelInv, MemoryInv, ImportShown, Buffers, Empty
  <2>3. PixelInv'
    BY <2>1, <2>2 DEF PixelInv
  <2>4. ImageSurvives'
    BY <2>1 DEF ImageSurvives
  <2> QED BY <2>3, <2>4
<1>5. CASE draw
  <2>1. /\ im # None /\ ~im.derived /\ said' = "drawn"
        /\ UNCHANGED <<s, im, put>> /\ mem' = [mem EXCEPT !.data = Drawing]
    BY <1>5 DEF draw
  <2>2. DOMAIN Drawing \subseteq Nat
    BY <2>1, DrawingNat
  <2>3. PixelInv'
    BY <2>1, <2>2, PixelsKept
  <2>4. ImageSurvives'
    BY <2>1 DEF ImageSurvives
  <2> QED BY <2>3, <2>4
<1>6. CASE put_check
  <2>1. /\ im.fourcc = s.fourcc /\ said' = "checked"
        /\ UNCHANGED <<s, im, mem>>
    BY <1>6 DEF put_check
  <2>2. PixelInv'
    BY <2>1 DEF PixelInv, MemoryInv, ImportShown
  <2>3. ImageSurvives'
    BY <2>1 DEF ImageSurvives
  <2> QED BY <2>2, <2>3
<1>7. CASE put_copy
  BY <1>7, PutSurvives
<1>8. CASE put_fails
  <2>1. put' = None /\ said' = "refused" /\ UNCHANGED <<s, im, mem>>
    BY <1>8 DEF put_fails
  <2>2. PixelInv'
    BY <2>1 DEF PixelInv, MemoryInv, ImportShown
  <2>3. ImageSurvives'
    BY <2>1 DEF ImageSurvives
  <2> QED BY <2>2, <2>3
<1>9. CASE rk_GetImage
  BY <1>9, GetSurvives
<1>10. CASE encode_input
  BY <1>10, EncodeSurvives
<1>11. CASE rk_BeginPicture
  <2>1. /\ s # None /\ put = None /\ s.import = NoImport
        /\ s' = [s EXCEPT !.begun = TRUE, !.decoded = FALSE,
                          !.frame_size = NoSize]
        /\ mem' = [mem EXCEPT !.frame = Empty]
        /\ said' = "begun" /\ UNCHANGED <<im, put>>
    BY <1>11 DEF rk_BeginPicture
  <2>2. Geometry(s) /\ Bound(s) /\ s.import.kind = "none"
    BY <2>1 DEF CopyInv, PixelInv, NoImport
  <2>3. /\ s'.import = s.import /\ s'.bps = s.bps /\ s'.fourcc = s.fourcc
        /\ s'.frame_size = NoSize
    BY <2>1, <2>2 DEF Geometry, SurfaceSet
  <2>4. MemoryInv'
    BY <2>1 DEF PixelInv, MemoryInv, Buffers, Empty
  <2>5. Bound(s') /\ ImportRoom(s') /\ ImportShown'
    BY <2>1, <2>2, <2>3 DEF Bound, ImportRoom, ImportShown
  <2>6. PixelInv'
    BY <2>1, <2>4, <2>5 DEF PixelInv
  <2>7. ImageSurvives'
    BY <2>1 DEF ImageSurvives
  <2> QED BY <2>6, <2>7
<1>12. ASSUME NEW f \in Frames, bind(f)
       PROVE  PixelInv' /\ ImageSurvives'
  BY <1>12, BindSurvives
<1>13. CASE export_placeholder
  <2>1. /\ s # None /\ put = None /\ s.import = NoImport
        /\ s' = [s EXCEPT !.stable = TRUE]
        /\ said' = "exported" /\ UNCHANGED <<im, mem, put>>
    BY <1>13 DEF export_placeholder
  <2>2. Geometry(s) /\ Bound(s) /\ s.import.kind = "none"
    BY <2>1 DEF CopyInv, PixelInv, NoImport
  <2>3. /\ s'.import = s.import /\ s'.bps = s.bps /\ s'.fourcc = s.fourcc
        /\ s'.frame_size = s.frame_size /\ s'.decoded = s.decoded
    BY <2>1, <2>2 DEF Geometry, SurfaceSet
  <2>4. Bound(s') /\ ImportRoom(s') /\ ImportShown'
    BY <2>1, <2>2, <2>3 DEF Bound, ImportRoom, ImportShown
  <2>5. PixelInv'
    BY <2>1, <2>4 DEF PixelInv, MemoryInv
  <2>6. ImageSurvives'
    BY <2>1 DEF ImageSurvives
  <2> QED BY <2>5, <2>6
<1>14. CASE export_repack
  BY <1>14, RepackSurvives
<1>15. CASE UNCHANGED vars
  <2>1. UNCHANGED <<s, im, mem, put, said>>
    BY <1>15 DEF vars
  <2>2. PixelInv'
    BY <2>1 DEF PixelInv, MemoryInv, ImportShown
  <2>3. ImageSurvives'
    BY <2>1 DEF ImageSurvives, Pitch, Source, ExportOf, ExportedCopy,
                Repacked, PrivOf, EncoderInput, SameDepth
  <2> QED BY <2>2, <2>3
<1> QED BY <1>1, <1>2, <1>3, <1>4, <1>5, <1>6, <1>7, <1>8, <1>9, <1>10,
           <1>11, <1>12, <1>13, <1>14, <1>15 DEF Next

(* A picture keeps every sample at its row, column and component through   *)
(* vaPutImage into a surface that shows no frame, vaGetImage (both with an *)
(* image of the depth the surface has at that moment), the binding of a    *)
(* frame of any format and depth, the copy an export makes and the         *)
(* encoder's input, whatever the pitches, offsets and plane orders on both *)
(* sides, if MPP's rows have room for its pictures: for an application     *)
(* that does not decode into a surface while vaPutImage is at work on it,  *)
(* hands no derived image to the two copies and encodes no surface it has  *)
(* decoded into.                                                           *)
THEOREM PicturesSurvive ==
  ASSUME ~BindDuringPut, ~CopyDerived, ~EncodeDecoded, FramesPadded
  PROVE  Spec => []ImageSurvives
<1> DEFINE Inv == CopyInv /\ CopiesStayInside /\ PixelInv /\ ImageSurvives
<1>1. Init => Inv
  BY DEF Init, CopyInv, CopiesStayInside, PixelInv, MemoryInv, ImageSurvives,
         Empty
<1>2. Inv /\ [Next]_vars => Inv'
  BY CopyStep, PixelStep
<1> QED BY <1>1, <1>2, PTL DEF Spec
-----------------------------------------------------------------------------
(***************************************************************************)
(* The encoder.  The packet is the right one only while MPP answers in     *)
(* time: after a timeout MPP's queue runs ahead of EndPicture.             *)
(***************************************************************************)
Coded == [ready : BOOLEAN, failed : BOOLEAN, cap : Sizes,
          pic : 0..MaxPictures, len : Sizes \cup {0}]

(* EndPicture has stored coded_ready for a failure and not yet             *)
(* coded_failed.                                                           *)
Failing(b) == b = coded_buf /\ pc \in {"overflowed", "failing"}

(* Buffers that would sync, and that neither a failing EndPicture nor a    *)
(* resize has left in between.                                             *)
Sound(b) ==
  /\ coded[b].ready /\ ~coded[b].failed
  /\ b \notin raced /\ resize.buf # b /\ ~Failing(b)

(* A sound buffer holds a packet that fits it; so do the packet EndPicture *)
(* is about to copy and the one it has copied.                             *)
FitInv ==
  /\ \A b \in CodedBuffers :
       Sound(b) => coded[b].len # 0 /\ coded[b].len <= coded[b].cap
  /\ pc = "copy" /\ coded_buf \notin raced =>
       packet.len # 0 /\ packet.len <= coded[coded_buf].cap
  /\ pc \in {"stored", "published"} /\ coded_buf \notin raced =>
       /\ coded[coded_buf].len # 0
       /\ coded[coded_buf].len <= coded[coded_buf].cap

(* EndPicture has a picture and a buffer while it is at work; the buffer   *)
(* is not ready from the start to the first verdict, and whatever resize   *)
(* goes on at the stores has been noted.                                   *)
EndInv ==
  /\ pc # "idle" => render # 0 /\ coded_buf \in CodedBuffers
  /\ pc = "get" => mpp # <<>>
  /\ pc \in {"reset", "put", "get", "copy", "stored", "overflow"} =>
       ~coded[coded_buf].ready
  /\ pc \in Storing /\ resize.buf = coded_buf => coded_buf \in raced

(* A resize that has taken coded_ready back finds it so, and a call that   *)
(* has met nothing looks at a buffer nobody has failed or is resizing.     *)
LookInv ==
  /\ resize.at = "failed" /\ resize.buf \notin raced =>
       ~coded[resize.buf].ready
  /\ \A t \in Syncers : sync[t].clean =>
       /\ sync[t].buf \in CodedBuffers
       /\ ~coded[sync[t].buf].failed
       /\ resize.buf # sync[t].buf /\ ~Failing(sync[t].buf)

SafeInv == TypeOK /\ EndInv /\ LookInv /\ FitInv

(* MPP holds the frame EndPicture waits for and no other; that frame's     *)
(* picture is what the buffer was passed for.                              *)
InStep ==
  /\ pc # "get" => mpp = <<>>
  /\ pc = "get" => mpp = <<render>>
  /\ pc # "idle" => asked[coded_buf] = render
  /\ pc = "copy" => packet.pic = render
  /\ pc \in {"stored", "published"} => coded[coded_buf].pic = render
  /\ \A b \in CodedBuffers : Sound(b) => coded[b].pic = asked[b]

-----------------------------------------------------------------------------
(* SlicesCleared resets the slice state to typed values.                   *)
LEMMA ClearedType ==
  ASSUME TypeOK, SlicesCleared
  PROVE  /\ has_enc_pic' \in BOOLEAN /\ has_enc_slice' \in BOOLEAN
         /\ enc_slice' \in Slices \cup {NoSlice}
         /\ slice_count' \in Nat /\ slice_units' \in 0..MaxUnits
         /\ unit_span' \in SliceSizes \cup {0}
         /\ last_units' \in SliceSizes \cup {0}
         /\ declared' \in Seq(Declared)
<1>1. <<>> \in Seq(Declared)
  OBVIOUS
<1>2. 0 \in 0..MaxUnits
  BY EncoderAssumption
<1> QED
  BY <1>1, <1>2 DEF TypeOK, SlicesCleared

(* The oldest frame in MPP is a picture.                                   *)
LEMMA QueueHead ==
  ASSUME TypeOK, mpp # <<>>
  PROVE  /\ Head(mpp) \in 0..MaxPictures
         /\ Tail(mpp) \in Seq(1..MaxPictures)
<1>1. mpp \in Seq(1..MaxPictures)
  BY DEF TypeOK
<1>2. Head(mpp) \in 1..MaxPictures /\ Tail(mpp) \in Seq(1..MaxPictures)
  BY <1>1, EncoderAssumption
<1> QED
  BY <1>2

(* Storing one field of one coded buffer leaves the others as they were.   *)
LEMMA FieldStored ==
  ASSUME TypeOK, NEW b \in CodedBuffers, NEW v,
         \/ v \in BOOLEAN /\ coded' = [coded EXCEPT ![b].ready = v]
         \/ v \in BOOLEAN /\ coded' = [coded EXCEPT ![b].failed = v]
         \/ v = 0 /\ coded' = [coded EXCEPT ![b].len = v]
  PROVE  /\ coded' \in [CodedBuffers -> Coded]
         /\ \A c \in CodedBuffers :
              /\ coded'[c].cap = coded[c].cap
              /\ coded'[c].pic = coded[c].pic
              /\ c # b => coded'[c] = coded[c]
<1>1. coded \in [CodedBuffers -> Coded]
  BY DEF TypeOK, Coded
<1> QED
  BY <1>1 DEF Coded

(* Storing the packet or a new storage.                                    *)
LEMMA DataStored ==
  ASSUME TypeOK, NEW b \in CodedBuffers, NEW pic \in 0..MaxPictures,
         NEW len \in Sizes \cup {0}, NEW cap \in Sizes,
         \/ coded' = [coded EXCEPT ![b].pic = pic, ![b].len = len]
         \/ coded' = [coded EXCEPT ![b].cap = cap, ![b].len = 0]
  PROVE  /\ coded' \in [CodedBuffers -> Coded]
         /\ \A c \in CodedBuffers :
              /\ coded'[c].ready = coded[c].ready
              /\ coded'[c].failed = coded[c].failed
              /\ c # b => coded'[c] = coded[c]
<1>1. coded \in [CodedBuffers -> Coded]
  BY DEF TypeOK, Coded
<1> QED
  BY <1>1 DEF Coded

(* A call that meets something is a call all the same.                     *)
LEMMA MetType ==
  ASSUME TypeOK, NEW b
  PROVE  /\ Met(b) \in [Syncers -> [buf : CodedBuffers \cup {NoBuffer},
                                    clean : BOOLEAN]]
         /\ \A t \in Syncers : Met(b)[t].clean =>
              sync[t].clean /\ Met(b)[t] = sync[t] /\ sync[t].buf # b
<1> DEFINE S == [buf : CodedBuffers \cup {NoBuffer}, clean : BOOLEAN]
<1>1. \A t \in Syncers : sync[t] \in S
  BY DEF TypeOK
<1>2. \A m \in S : [m EXCEPT !.clean = FALSE] \in S
                   /\ [m EXCEPT !.clean = FALSE].clean = FALSE
  OBVIOUS
<1> HIDE DEF S
<1>3. \A t \in Syncers : Met(b)[t] = IF sync[t].buf = b
                                      THEN [sync[t] EXCEPT !.clean = FALSE]
                                      ELSE sync[t]
  BY DEF Met
<1>4. Met(b) \in [Syncers -> S]
  BY <1>1, <1>2, <1>3 DEF Met
<1>5. \A t \in Syncers : Met(b)[t].clean =>
        sync[t].clean /\ Met(b)[t] = sync[t] /\ sync[t].buf # b
  BY <1>1, <1>2, <1>3
<1> QED
  BY <1>4, <1>5 DEF S

(* Every step keeps the types.                                             *)
LEMMA TypeStep == TypeOK /\ EndInv /\ [EncoderNext]_encoderVars => TypeOK'
<1> SUFFICES ASSUME TypeOK, EndInv, [EncoderNext]_encoderVars PROVE TypeOK'
  OBVIOUS
<1> USE EncoderAssumption DEF hasVars, sliceVars, codedVars, callVars,
                              UnchangedPicture
<1>1. CASE UNCHANGED encoderVars
  BY <1>1 DEF TypeOK, encoderVars
<1>2. CASE begin_picture
  <2>1. pictures + 1 \in 0..MaxPictures
    BY <1>2 DEF TypeOK, begin_picture
  <2>2. SlicesCleared
    BY <1>2 DEF begin_picture
  <2> QED
    BY <1>2, <2>1, <2>2, ClearedType DEF TypeOK, begin_picture
<1>3. ASSUME NEW seq \in SeqParams, render_sequence(seq) PROVE TypeOK'
  BY <1>3 DEF TypeOK, render_sequence
<1>4. ASSUME NEW b \in CodedBuffers \cup {NoBuffer}, NEW ok \in BOOLEAN,
             render_picture(b, ok)
      PROVE  TypeOK'
  BY <1>4 DEF TypeOK, render_picture
<1>5. ASSUME NEW address \in 0..MaxUnits, NEW units \in SliceSizes,
             NEW slice \in Slices, NEW ends_buffer \in BOOLEAN,
             render_slice(address, units, slice, ends_buffer)
      PROVE  TypeOK'
  <2>0. units \in Nat /\ slice_units \in Nat /\ MaxUnits \in Nat
    BY DEF TypeOK
  <2>1. slice_units' \in 0..MaxUnits /\ slice_count' \in Nat
    <3>1. /\ units <= MaxUnits - slice_units
          /\ slice_units' = slice_units + units
          /\ slice_count' = slice_count + 1
      BY <1>5 DEF render_slice, add_encoder_slice
    <3>2. slice_count \in Nat
      BY DEF TypeOK
    <3> QED
      BY ONLY <2>0, <3>1, <3>2
  <2>2. enc_slice' \in Slices \cup {NoSlice}
    <3>1. CASE slice_count = 0
      BY <1>5, <3>1 DEF render_slice
    <3>2. CASE slice_count # 0
      <4>1. enc_slice.type = slice.type /\ slice.type \in SliceTypes
        BY <1>5, <3>2 DEF render_slice, Compatible, Slices
      <4>2. enc_slice \in Slices
        <5>1. CASE enc_slice = NoSlice
          <6>1. enc_slice = [type |-> slice.type, last |-> FALSE]
            BY <4>1, <5>1 DEF NoSlice
          <6> QED
            BY <4>1, <6>1 DEF Slices
        <5> QED
          BY <5>1 DEF TypeOK
      <4>3. \A x \in BOOLEAN : [enc_slice EXCEPT !.last = x] \in Slices
        BY <4>2 DEF Slices
      <4>4. (enc_slice.last \/ (Hevc /\ slice.last)) \in BOOLEAN
        BY Zenon
      <4> QED
        BY <1>5, <3>2, <4>3, <4>4 DEF render_slice
    <3> QED
      BY <3>1, <3>2
  <2>3. declared' \in Seq(Declared)
    <3>1. enc_seq.row \in Nat
      BY DEF TypeOK
    <3>2. [at |-> address, units |-> units, row |-> enc_seq.row,
           slice |-> slice] \in Declared
      BY <3>1 DEF Declared
    <3>3. declared \in Seq(Declared)
      BY DEF TypeOK
    <3> QED
      BY <1>5, <3>2, <3>3 DEF render_slice
  <2>4. /\ unit_span' \in SliceSizes \cup {0}
        /\ last_units' \in SliceSizes \cup {0}
    BY <1>5 DEF TypeOK, render_slice
  <2>5. has_enc_slice' \in BOOLEAN
    BY <1>5 DEF render_slice
  <2> QED
    BY <1>5, <2>1, <2>2, <2>3, <2>4, <2>5 DEF TypeOK, render_slice
<1>6. CASE encode_refused
  <2>1. SlicesCleared /\ 0 \in 0..MaxPictures
    BY <1>6 DEF encode_refused, PictureClosed
  <2> QED
    BY <1>6, <2>1, ClearedType DEF TypeOK, encode_refused, PictureClosed
<1>7. CASE encode_begin
  <2>1. coded_buf \in CodedBuffers
    BY <1>7 DEF TypeOK, encode_begin
  <2>2. coded' \in [CodedBuffers -> Coded]
    BY <1>7, <2>1, FieldStored DEF encode_begin
  <2>3. asked' \in [CodedBuffers -> 0..MaxPictures]
    BY <1>7, <2>1 DEF TypeOK, encode_begin
  <2> QED
    BY <1>7, <2>2, <2>3 DEF TypeOK, Coded, encode_begin
<1>8. CASE encode_reset
  <2>1. coded' \in [CodedBuffers -> Coded]
    BY <1>8, FieldStored DEF encode_reset, EndInv
  <2> QED
    BY <1>8, <2>1 DEF TypeOK, Coded, encode_reset
<1>9. ASSUME NEW at \in Storing, StoreBegins(at), pc # "idle",
             mpp' \in Seq(1..MaxPictures),
             packet' \in [pic : 0..MaxPictures, len : Sizes \cup {0}],
             coded' \in [CodedBuffers -> Coded]
      PROVE  TypeOK'
  <2>1. raced' \subseteq CodedBuffers
    BY <1>9 DEF TypeOK, EndInv, StoreBegins
  <2> QED
    BY <1>9, <2>1 DEF TypeOK, Coded, StoreBegins
<1>10. CASE put_failed
  <2>1. /\ "fail" \in Storing /\ StoreBegins("fail") /\ pc # "idle"
        /\ UNCHANGED <<mpp, packet, coded>>
    BY <1>10 DEF put_failed, Storing
  <2> QED
    BY <1>9, <2>1 DEF TypeOK, Coded
<1>11. CASE encode_put_frame
  BY <1>11 DEF TypeOK, EndInv, encode_put_frame
<1>12. ASSUME NEW len \in Sizes, encode_get_packet(len) PROVE TypeOK'
  <2>1. coded_buf \in CodedBuffers /\ mpp # <<>> /\ pc # "idle"
    BY <1>12 DEF EndInv, encode_get_packet
  <2>2. Head(mpp) \in 0..MaxPictures /\ Tail(mpp) \in Seq(1..MaxPictures)
    BY <2>1, QueueHead
  <2>3. /\ mpp' \in Seq(1..MaxPictures)
        /\ packet' \in [pic : 0..MaxPictures, len : Sizes \cup {0}]
    BY <1>12, <2>2 DEF encode_get_packet
  <2>4. /\ \/ StoreBegins("overflow")
           \/ StoreBegins("copy")
        /\ "overflow" \in Storing /\ "copy" \in Storing
    BY <1>12 DEF encode_get_packet, rk_buffer_store_coded, Storing
  <2>5. \/ coded' = [coded EXCEPT ![coded_buf].len = 0]
        \/ coded' = coded
    BY <1>12 DEF encode_get_packet, rk_buffer_store_coded
  <2>6. coded' \in [CodedBuffers -> Coded]
    BY <2>1, <2>5, FieldStored DEF TypeOK, Coded
  <2> QED
    BY <1>9, <2>1, <2>3, <2>4, <2>6
<1>13. ASSUME NEW late \in BOOLEAN, get_failed(late) PROVE TypeOK'
  <2>1. mpp' \in Seq(1..MaxPictures)
    BY <1>13, QueueHead DEF TypeOK, EndInv, get_failed
  <2>2. /\ "fail" \in Storing /\ StoreBegins("fail") /\ pc # "idle"
        /\ UNCHANGED <<packet, coded>>
    BY <1>13 DEF get_failed, Storing
  <2> QED
    BY <1>9, <2>1, <2>2 DEF TypeOK, Coded
<1>14. CASE copy_packet
  <2>1. /\ coded_buf \in CodedBuffers
        /\ packet.pic \in 0..MaxPictures /\ packet.len \in Sizes \cup {0}
    BY <1>14 DEF copy_packet, EndInv, TypeOK
  <2>2. coded[coded_buf].cap \in Sizes
    BY <2>1 DEF TypeOK
  <2>3. coded' \in [CodedBuffers -> Coded]
    BY <1>14, <2>1, <2>2, DataStored DEF copy_packet
  <2> QED
    BY <1>14, <2>3 DEF TypeOK, Coded, copy_packet, Storing
<1>15. CASE store_ready
  <2>1. coded' \in [CodedBuffers -> Coded]
    BY <1>15, FieldStored DEF store_ready, EndInv
  <2>2. pc' \in Storing
    BY <1>15 DEF store_ready, Storing
  <2>3. sync' \in [Syncers -> [buf : CodedBuffers \cup {NoBuffer},
                               clean : BOOLEAN]]
    BY <1>15, MetType DEF store_ready, TypeOK
  <2> QED
    BY <1>15, <2>1, <2>2, <2>3 DEF TypeOK, Coded, store_ready
<1>16. CASE overflow_failed
  <2>1. coded' \in [CodedBuffers -> Coded]
    BY <1>16, FieldStored DEF overflow_failed, EndInv
  <2> QED
    BY <1>16, <2>1 DEF TypeOK, Coded, overflow_failed, Storing
<1>17. CASE encode_ends
  <2>1. coded' \in [CodedBuffers -> Coded]
    BY <1>17, FieldStored DEF encode_ends, EndInv
  <2>2. SlicesCleared /\ 0 \in 0..MaxPictures
    BY <1>17 DEF encode_ends, PictureClosed
  <2> QED
    BY <1>17, <2>1, <2>2, ClearedType
       DEF TypeOK, Coded, encode_ends, PictureClosed
<1>18. ASSUME NEW t \in Syncers, NEW b \in CodedBuffers, sync_look(t, b)
       PROVE  TypeOK'
  BY <1>18 DEF TypeOK, sync_look
<1>19. ASSUME NEW t \in Syncers, sync_answer(t) PROVE TypeOK'
  BY <1>19 DEF TypeOK, sync_answer, NoSync
<1>20. ASSUME NEW b \in CodedBuffers, NEW cap \in Sizes,
              rk_BufferSetNumElements(b, cap)
       PROVE  TypeOK'
  <2>0. 0 \in 0..MaxPictures /\ 0 \in Sizes \cup {0}
    OBVIOUS
  <2>1. coded' \in [CodedBuffers -> Coded]
    BY <1>20, <2>0, DataStored DEF rk_BufferSetNumElements
  <2>2. raced' \subseteq CodedBuffers
    BY <1>20 DEF rk_BufferSetNumElements, TypeOK
  <2>3. sync' \in [Syncers -> [buf : CodedBuffers \cup {NoBuffer},
                               clean : BOOLEAN]]
    BY <1>20, MetType DEF rk_BufferSetNumElements
  <2>4. resize' \in [buf : CodedBuffers, at : {"ready", "failed"}]
    BY <1>20 DEF rk_BufferSetNumElements
  <2> QED
    BY <1>20, <2>1, <2>2, <2>3, <2>4 DEF TypeOK, Coded, rk_BufferSetNumElements
<1>21. CASE resize_ready
  <2>1. resize \in [buf : CodedBuffers, at : {"ready", "failed"}]
    BY <1>21 DEF resize_ready, TypeOK, NoResize
  <2>2. coded' \in [CodedBuffers -> Coded]
    BY <1>21, <2>1, FieldStored DEF resize_ready
  <2>3. resize' \in [buf : CodedBuffers, at : {"ready", "failed"}]
    BY <1>21, <2>1 DEF resize_ready
  <2> QED
    BY <1>21, <2>2, <2>3 DEF TypeOK, Coded, resize_ready
<1>22. CASE resize_failed
  <2>1. resize \in [buf : CodedBuffers, at : {"ready", "failed"}]
    BY <1>22 DEF resize_failed, TypeOK, NoResize
  <2>2. coded' \in [CodedBuffers -> Coded]
    BY <1>22, <2>1, FieldStored DEF resize_failed
  <2> QED
    BY <1>22, <2>2 DEF TypeOK, Coded, resize_failed
<1> QED
  BY <1>1, <1>2, <1>3, <1>4, <1>5, <1>6, <1>7, <1>8, <1>10, <1>11, <1>12,
     <1>13, <1>14, <1>15, <1>16, <1>17, <1>18, <1>19, <1>20, <1>21, <1>22
  DEF EncoderNext

-----------------------------------------------------------------------------
(***************************************************************************)
(* Whole packets.                                                          *)
(***************************************************************************)

(* A call on the context between two EndPictures.                          *)
Quiet ==
  /\ pc = "idle" /\ pc' = "idle"
  /\ UNCHANGED <<mpp, packet, coded, asked, raced, sync, resize>>

LEMMA Steps ==
  ASSUME [EncoderNext]_encoderVars
  PROVE  \/ Quiet
         \/ UNCHANGED encoderVars
         \/ encode_begin \/ encode_reset \/ put_failed \/ encode_put_frame
         \/ \E len \in Sizes : encode_get_packet(len)
         \/ \E late \in BOOLEAN : get_failed(late)
         \/ copy_packet \/ store_ready \/ overflow_failed \/ encode_ends
         \/ \E t \in Syncers, b \in CodedBuffers : sync_look(t, b)
         \/ \E t \in Syncers : sync_answer(t)
         \/ \E b \in CodedBuffers, cap \in Sizes :
              rk_BufferSetNumElements(b, cap)
         \/ resize_ready \/ resize_failed
<1>1. begin_picture \/ encode_refused => Quiet
  BY DEF begin_picture, encode_refused, Rendering, Quiet, codedVars, callVars
<1>2. ASSUME NEW seq, render_sequence(seq) PROVE Quiet
  BY <1>2 DEF render_sequence, Rendering, Quiet, codedVars, callVars
<1>3. ASSUME NEW b, NEW ok, render_picture(b, ok) PROVE Quiet
  BY <1>3 DEF render_picture, Rendering, Quiet, codedVars, callVars
<1>4. ASSUME NEW address, NEW units, NEW slice, NEW ends_buffer,
             render_slice(address, units, slice, ends_buffer)
      PROVE  Quiet
  BY <1>4 DEF render_slice, Rendering, Quiet, codedVars, callVars
<1> QED
  BY <1>1, <1>2, <1>3, <1>4 DEF EncoderNext

(* The buffer EndPicture works on, before and after one of its steps.      *)
LEMMA ReadyStored ==
  ASSUME TypeOK, NEW b \in CodedBuffers, NEW v \in BOOLEAN
  PROVE  /\ coded' = [coded EXCEPT ![b].ready = v] =>
              /\ coded'[b].ready = v /\ coded'[b].failed = coded[b].failed
              /\ coded'[b].len = coded[b].len
         /\ coded' = [coded EXCEPT ![b].failed = v] =>
              /\ coded'[b].failed = v /\ coded'[b].ready = coded[b].ready
              /\ coded'[b].len = coded[b].len
         /\ coded' = [coded EXCEPT ![b].len = 0] =>
              /\ coded'[b].ready = coded[b].ready
              /\ coded'[b].failed = coded[b].failed
<1>1. coded \in [CodedBuffers -> Coded]
  BY DEF TypeOK, Coded
<1> QED
  BY <1>1 DEF Coded

(* Begun stores are noted if a resize goes on.                             *)
LEMMA StoreNoted ==
  ASSUME TypeOK, EndInv, NEW at \in Storing, StoreBegins(at), pc # "idle",
         pc \notin Storing,
         coded'[coded_buf].ready = coded[coded_buf].ready,
         ~coded[coded_buf].ready
  PROVE  EndInv'
<1>1. /\ coded_buf' = coded_buf /\ render' = render /\ resize' = resize
      /\ pc' = at /\ coded_buf \in CodedBuffers /\ render # 0
      /\ raced' = raced \cup ({resize.buf} \cap {coded_buf})
  BY DEF StoreBegins, UnchangedPicture, callVars, EndInv
<1>2. at # "get" /\ at # "idle"
  BY DEF Storing
<1> QED
  BY <1>1, <1>2 DEF EndInv

(* EndPicture keeps its picture and its buffer from start to end.          *)
LEMMA EndStep == TypeOK /\ EndInv /\ [EncoderNext]_encoderVars => EndInv'
<1> SUFFICES ASSUME TypeOK, EndInv, [EncoderNext]_encoderVars PROVE EndInv'
  OBVIOUS
<1> USE DEF UnchangedPicture, hasVars, sliceVars, codedVars, callVars
<1>1. CASE Quiet
  BY <1>1 DEF EndInv, Quiet, Storing
<1>2. CASE UNCHANGED encoderVars
  BY <1>2 DEF EndInv, encoderVars
<1>3. CASE encode_begin
  <2>1. /\ coded_buf \in CodedBuffers /\ render # 0
        /\ UNCHANGED <<render, coded_buf>>
        /\ pc' = "reset" /\ coded' = [coded EXCEPT ![coded_buf].ready = FALSE]
    BY <1>3 DEF TypeOK, encode_begin, Rendering
  <2>2. ~coded'[coded_buf].ready
    BY <2>1, ReadyStored
  <2> QED
    BY <2>1, <2>2 DEF EndInv, Storing
<1>4. CASE encode_reset
  <2>1. /\ coded_buf \in CodedBuffers /\ render # 0
        /\ ~coded[coded_buf].ready /\ UNCHANGED <<render, coded_buf>>
        /\ pc' = "put" /\ coded' = [coded EXCEPT ![coded_buf].failed = FALSE]
    BY <1>4 DEF encode_reset, EndInv
  <2>2. ~coded'[coded_buf].ready
    BY <2>1, ReadyStored
  <2> QED
    BY <2>1, <2>2 DEF EndInv, Storing
<1>5. CASE put_failed
  <2>1. /\ "fail" \in Storing /\ StoreBegins("fail")
        /\ pc # "idle" /\ pc \notin Storing /\ coded' = coded
        /\ ~coded[coded_buf].ready
    BY <1>5 DEF put_failed, Storing, EndInv
  <2> QED
    BY <2>1, StoreNoted
<1>6. CASE encode_put_frame
  <2>1. mpp' # <<>>
    BY <1>6 DEF TypeOK, encode_put_frame
  <2> QED
    BY <1>6, <2>1 DEF EndInv, encode_put_frame, Storing
<1>7. ASSUME NEW len \in Sizes, encode_get_packet(len) PROVE EndInv'
  <2>1. /\ pc # "idle" /\ pc \notin Storing /\ coded_buf \in CodedBuffers
        /\ ~coded[coded_buf].ready
        /\ "overflow" \in Storing /\ "copy" \in Storing
    BY <1>7 DEF encode_get_packet, Storing, EndInv
  <2>2. StoreBegins("overflow") \/ StoreBegins("copy")
    BY <1>7 DEF encode_get_packet, rk_buffer_store_coded
  <2>3. \/ coded' = [coded EXCEPT ![coded_buf].len = 0]
        \/ coded' = coded
    BY <1>7 DEF encode_get_packet, rk_buffer_store_coded
  <2>4. coded'[coded_buf].ready = coded[coded_buf].ready
    BY <2>1, <2>3, ReadyStored
  <2> QED
    BY <2>1, <2>2, <2>4, StoreNoted
<1>8. ASSUME NEW late \in BOOLEAN, get_failed(late) PROVE EndInv'
  <2>1. /\ "fail" \in Storing /\ StoreBegins("fail")
        /\ pc # "idle" /\ pc \notin Storing /\ coded' = coded
        /\ ~coded[coded_buf].ready
    BY <1>8 DEF get_failed, Storing, EndInv
  <2> QED
    BY <2>1, StoreNoted
<1>9. CASE copy_packet
  <2>1. /\ coded_buf \in CodedBuffers /\ pc' = "stored"
        /\ UNCHANGED <<render, coded_buf, raced, resize>>
        /\ packet.pic \in 0..MaxPictures /\ packet.len \in Sizes \cup {0}
        /\ coded[coded_buf].cap \in Sizes
    BY <1>9 DEF copy_packet, EndInv, TypeOK
  <2>2. coded'[coded_buf].ready = coded[coded_buf].ready
    BY <1>9, <2>1, DataStored DEF copy_packet
  <2> QED
    BY <1>9, <2>1, <2>2 DEF EndInv, Storing, copy_packet
<1>10. CASE store_ready \/ overflow_failed
  BY <1>10 DEF store_ready, overflow_failed, EndInv, Storing
<1>11. CASE encode_ends
  BY <1>11 DEF encode_ends, EndInv, Storing
<1>12. ASSUME NEW t \in Syncers, NEW b \in CodedBuffers, sync_look(t, b)
       PROVE  EndInv'
  BY <1>12 DEF sync_look, EndInv
<1>13. ASSUME NEW t \in Syncers, sync_answer(t) PROVE EndInv'
  BY <1>13 DEF sync_answer, EndInv
<1>14. ASSUME NEW b \in CodedBuffers, NEW cap \in Sizes,
              rk_BufferSetNumElements(b, cap)
       PROVE  EndInv'
  <2>1. \A c \in CodedBuffers : coded'[c].ready = coded[c].ready
    <3>1. 0 \in 0..MaxPictures /\ 0 \in Sizes \cup {0}
      BY EncoderAssumption
    <3> QED
      BY <1>14, <3>1, DataStored DEF rk_BufferSetNumElements
  <2>2. /\ UNCHANGED <<render, coded_buf, pc, mpp>> /\ resize'.buf = b
        /\ raced' = IF b = coded_buf /\ pc \in Storing
                      THEN raced \cup {b} ELSE raced
    BY <1>14 DEF rk_BufferSetNumElements
  <2> QED
    BY <2>1, <2>2 DEF EndInv
<1>15. CASE resize_ready \/ resize_failed
  <2>1. resize \in [buf : CodedBuffers, at : {"ready", "failed"}]
    BY <1>15 DEF resize_ready, resize_failed, TypeOK, NoResize
  <2>2. \/ coded' = [coded EXCEPT ![resize.buf].ready = FALSE]
        \/ coded' = [coded EXCEPT ![resize.buf].failed = FALSE]
    BY <1>15 DEF resize_ready, resize_failed
  <2>3. ASSUME NEW c \in CodedBuffers, ~coded[c].ready
        PROVE  ~coded'[c].ready
    <3>1. CASE c = resize.buf
      BY <2>1, <2>2, <2>3, <3>1, ReadyStored
    <3>2. CASE c # resize.buf
      BY <2>1, <2>2, <2>3, <3>2, FieldStored
    <3> QED
      BY <3>1, <3>2
  <2>4. /\ UNCHANGED <<render, coded_buf, pc, mpp, raced>>
        /\ resize'.buf = resize.buf \/ resize'.buf = NoBuffer
    BY <1>15, <2>1 DEF resize_ready, resize_failed, NoResize
  <2>5. pc # "idle" => coded_buf # NoBuffer
    BY EncoderAssumption DEF EndInv
  <2> QED
    BY <2>3, <2>4, <2>5 DEF EndInv, Storing
<1> QED
  BY <1>1, <1>2, <1>3, <1>4, <1>5, <1>6, <1>7, <1>8, <1>9, <1>10, <1>11,
     <1>12, <1>13, <1>14, <1>15, Steps

(* Where the steps of EndPicture and of a resize touch a buffer's flags.   *)
LEMMA FlagStep ==
  ASSUME TypeOK, EndInv, [EncoderNext]_encoderVars, NEW b \in CodedBuffers
  PROVE  /\ coded'[b].failed /\ ~coded[b].failed =>
              /\ b = coded_buf /\ pc \in {"overflowed", "failing"}
              /\ UNCHANGED <<coded_buf, resize, sync, raced>>
         /\ coded'[b].ready /\ ~coded[b].ready =>
              /\ b = coded_buf /\ store_ready
<1> USE DEF UnchangedPicture, hasVars, sliceVars, codedVars, callVars
<1>1. CASE Quiet \/ UNCHANGED encoderVars
  BY <1>1 DEF Quiet, encoderVars
<1>2. CASE encode_begin
  <2>1. coded_buf \in CodedBuffers
    BY <1>2 DEF TypeOK, encode_begin
  <2> QED
    BY <1>2, <2>1, ReadyStored, FieldStored DEF encode_begin
<1>3. CASE encode_reset
  BY <1>3, ReadyStored, FieldStored DEF encode_reset, EndInv
<1>4. CASE put_failed \/ encode_put_frame
  BY <1>4 DEF put_failed, encode_put_frame
<1>5. ASSUME NEW len \in Sizes, encode_get_packet(len)
      PROVE  /\ coded'[b].failed = coded[b].failed
             /\ coded'[b].ready = coded[b].ready
  <2>1. coded_buf \in CodedBuffers
    BY <1>5 DEF encode_get_packet, EndInv
  <2>2. \/ coded' = [coded EXCEPT ![coded_buf].len = 0]
        \/ coded' = coded
    BY <1>5 DEF encode_get_packet, rk_buffer_store_coded
  <2> QED
    BY <2>1, <2>2, ReadyStored, FieldStored
<1>6. ASSUME NEW late \in BOOLEAN, get_failed(late) PROVE coded' = coded
  BY <1>6 DEF get_failed
<1>7. CASE copy_packet
  <2>1. /\ coded_buf \in CodedBuffers
        /\ packet.pic \in 0..MaxPictures /\ packet.len \in Sizes \cup {0}
        /\ coded[coded_buf].cap \in Sizes
    BY <1>7 DEF copy_packet, EndInv, TypeOK
  <2> QED
    BY <1>7, <2>1, DataStored DEF copy_packet
<1>8. CASE store_ready
  BY <1>8, ReadyStored, FieldStored DEF store_ready, EndInv
<1>9. CASE overflow_failed
  BY <1>9, ReadyStored, FieldStored DEF overflow_failed, EndInv
<1>10. CASE encode_ends
  <2>1. /\ coded_buf \in CodedBuffers
        /\ (pc = "failing") \in BOOLEAN
        /\ coded' = [coded EXCEPT ![coded_buf].failed = (pc = "failing")]
        /\ UNCHANGED <<coded_buf, resize, sync, raced>>
    BY <1>10 DEF encode_ends, EndInv
  <2>2. /\ coded'[coded_buf].failed = (pc = "failing")
        /\ coded'[coded_buf].ready = coded[coded_buf].ready
    BY <2>1, ReadyStored
  <2>3. b # coded_buf => coded'[b] = coded[b]
    BY <2>1, FieldStored
  <2> QED
    BY <2>1, <2>2, <2>3
<1>11. ASSUME NEW t \in Syncers, NEW c \in CodedBuffers, sync_look(t, c)
       PROVE  coded' = coded
  BY <1>11 DEF sync_look
<1>12. ASSUME NEW t \in Syncers, sync_answer(t) PROVE coded' = coded
  BY <1>12 DEF sync_answer
<1>13. ASSUME NEW c \in CodedBuffers, NEW cap \in Sizes,
              rk_BufferSetNumElements(c, cap)
       PROVE  /\ coded'[b].failed = coded[b].failed
              /\ coded'[b].ready = coded[b].ready
  <2>1. 0 \in 0..MaxPictures /\ 0 \in Sizes \cup {0}
    BY EncoderAssumption
  <2> QED
    BY <1>13, <2>1, DataStored DEF rk_BufferSetNumElements
<1>14. CASE resize_ready \/ resize_failed
  <2>1. resize.buf \in CodedBuffers
    BY <1>14 DEF resize_ready, resize_failed, TypeOK, NoResize
  <2>2. \/ coded' = [coded EXCEPT ![resize.buf].ready = FALSE]
        \/ coded' = [coded EXCEPT ![resize.buf].failed = FALSE]
    BY <1>14 DEF resize_ready, resize_failed
  <2>3. CASE b = resize.buf
    BY <2>1, <2>2, <2>3, ReadyStored
  <2>4. CASE b # resize.buf
    BY <2>1, <2>2, <2>4, FieldStored
  <2> QED
    BY <2>3, <2>4
<1> QED
  BY <1>1, <1>2, <1>3, <1>4, <1>5, <1>6, <1>7, <1>8, <1>9, <1>10, <1>11,
     <1>12, <1>13, <1>14, Steps

(* EndPicture stays with its buffer.                                       *)
LEMMA SameBuffer ==
  ASSUME [EncoderNext]_encoderVars
  PROVE  pc # "idle" => coded_buf' = coded_buf
<1>1. ASSUME NEW at, StoreBegins(at) PROVE coded_buf' = coded_buf
  BY <1>1 DEF StoreBegins, UnchangedPicture
<1> QED
  BY <1>1, Steps
     DEF Quiet, encoderVars, UnchangedPicture, encode_begin, encode_reset,
         put_failed, encode_put_frame, encode_get_packet, get_failed,
         rk_buffer_store_coded, copy_packet, store_ready, overflow_failed,
         encode_ends, sync_look, sync_answer, rk_BufferSetNumElements,
         resize_ready, resize_failed

(* Only EndPicture's first verdict begins the time in which it is failing. *)
LEMMA FailingStep ==
  ASSUME [EncoderNext]_encoderVars, NEW b, Failing(b)', ~Failing(b)
  PROVE  b = coded_buf /\ store_ready /\ pc # "stored"
<1>1. ASSUME NEW at, StoreBegins(at) PROVE pc' = at
  BY <1>1 DEF StoreBegins
<1> QED
  BY <1>1, Steps, SameBuffer
     DEF Failing, Quiet, encoderVars, UnchangedPicture, encode_begin,
         encode_reset, put_failed, encode_put_frame, encode_get_packet,
         get_failed, rk_buffer_store_coded, copy_packet, store_ready,
         overflow_failed, encode_ends, sync_look, sync_answer,
         rk_BufferSetNumElements, resize_ready, resize_failed

(* Who resizes, who is noted and who looks changes in a few steps only.    *)
LEMMA OthersStep ==
  ASSUME [EncoderNext]_encoderVars
  PROVE  /\ \/ resize' = resize \/ resize_ready \/ resize_failed
            \/ \E b \in CodedBuffers, cap \in Sizes :
                 rk_BufferSetNumElements(b, cap)
         /\ \/ raced \subseteq raced'
            \/ encode_begin /\ raced' = raced \ {coded_buf}
         /\ \/ sync' = sync
            \/ store_ready /\ pc # "stored" /\ sync' = Met(coded_buf)
            \/ \E t \in Syncers, b \in CodedBuffers : sync_look(t, b)
            \/ \E t \in Syncers : sync_answer(t)
            \/ \E b \in CodedBuffers, cap \in Sizes :
                 rk_BufferSetNumElements(b, cap)
<1>1. ASSUME NEW at, StoreBegins(at)
      PROVE  /\ resize' = resize /\ sync' = sync /\ raced \subseteq raced'
  BY <1>1 DEF StoreBegins, callVars
<1> USE DEF callVars, codedVars
<1>2. CASE \/ Quiet \/ UNCHANGED encoderVars
           \/ encode_begin \/ encode_reset \/ encode_put_frame
           \/ copy_packet \/ store_ready \/ overflow_failed \/ encode_ends
  BY <1>2 DEF Quiet, encoderVars, encode_begin, encode_reset,
              encode_put_frame, copy_packet, store_ready, overflow_failed,
              encode_ends
<1>3. CASE \/ put_failed
           \/ \E len \in Sizes : encode_get_packet(len)
           \/ \E late \in BOOLEAN : get_failed(late)
  BY <1>1, <1>3 DEF put_failed, encode_get_packet, get_failed,
                    rk_buffer_store_coded
<1>4. CASE \E t \in Syncers, b \in CodedBuffers : sync_look(t, b)
  BY <1>4 DEF sync_look
<1>5. CASE \E t \in Syncers : sync_answer(t)
  BY <1>5 DEF sync_answer
<1>6. CASE \E b \in CodedBuffers, cap \in Sizes :
             rk_BufferSetNumElements(b, cap)
  BY <1>6 DEF rk_BufferSetNumElements
<1>7. CASE resize_ready \/ resize_failed
  BY <1>7 DEF resize_ready, resize_failed
<1> QED
  BY <1>2, <1>3, <1>4, <1>5, <1>6, <1>7, Steps

(* A resize and the calls that look keep what they rely on.                *)
LEMMA LookStep ==
  TypeOK /\ EndInv /\ LookInv /\ [EncoderNext]_encoderVars => LookInv'
<1> SUFFICES ASSUME TypeOK, EndInv, LookInv, [EncoderNext]_encoderVars
             PROVE  LookInv'
  OBVIOUS
<1>1. ASSUME resize'.at = "failed", resize'.buf \notin raced'
      PROVE  ~coded'[resize'.buf].ready
  <2>0. CASE resize_ready
    <3>1. /\ resize.buf \in CodedBuffers /\ resize'.buf = resize.buf
          /\ coded' = [coded EXCEPT ![resize.buf].ready = FALSE]
      BY <2>0 DEF resize_ready, TypeOK, NoResize
    <3> QED
      BY <3>1, ReadyStored
  <2>1. CASE resize' = resize
    <3>1. resize.buf \in CodedBuffers
      BY <1>1, <2>1 DEF TypeOK, NoResize
    <3>2. CASE store_ready /\ resize.buf = coded_buf
      <4>1. pc \in Storing /\ raced' = raced
        BY <3>2 DEF store_ready, Storing
      <4> QED
        BY <1>1, <2>1, <3>2, <4>1 DEF EndInv
    <3>3. CASE encode_begin /\ resize.buf = coded_buf
      <4>1. coded' = [coded EXCEPT ![coded_buf].ready = FALSE]
        BY <3>3 DEF encode_begin
      <4> QED
        BY <2>1, <3>1, <3>3, <4>1, ReadyStored
    <3>4. CASE ~(store_ready /\ resize.buf = coded_buf)
               /\ ~(encode_begin /\ resize.buf = coded_buf)
      <4>1. resize.buf \notin raced
        BY <1>1, <2>1, <3>4, OthersStep
      <4>2. ~coded[resize.buf].ready
        BY <1>1, <2>1, <4>1 DEF LookInv
      <4> QED
        BY <2>1, <3>1, <3>4, <4>2, FlagStep
    <3> QED
      BY <3>2, <3>3, <3>4
  <2>2. ~resize_failed
    BY <1>1 DEF resize_failed, NoResize
  <2>3. ASSUME NEW b \in CodedBuffers, NEW cap \in Sizes,
               rk_BufferSetNumElements(b, cap)
        PROVE  FALSE
    BY <1>1, <2>3 DEF rk_BufferSetNumElements
  <2> QED
    BY <2>0, <2>1, <2>2, <2>3, OthersStep
<1>2. ASSUME NEW t \in Syncers, sync'[t].clean
      PROVE  /\ sync'[t].buf \in CodedBuffers
             /\ ~coded'[sync'[t].buf].failed
             /\ resize'.buf # sync'[t].buf
             /\ ~(/\ sync'[t].buf = coded_buf'
                  /\ pc' \in {"overflowed", "failing"})
  <2>1. CASE sync'[t] # sync[t]
    <3>1. ASSUME NEW u \in Syncers, NEW b \in CodedBuffers, sync_look(u, b)
          PROVE  sync'[t].buf = b /\ u = t
      <4>1. sync \in [Syncers -> [buf : CodedBuffers \cup {NoBuffer},
                                  clean : BOOLEAN]]
        BY DEF TypeOK
      <4> QED
        BY <2>1, <3>1, <4>1 DEF sync_look
    <3>2. ASSUME NEW u \in Syncers, NEW b \in CodedBuffers, sync_look(u, b)
          PROVE  /\ ~coded[b].failed /\ resize.buf # b /\ ~Failing(b)
                 /\ UNCHANGED <<coded, resize, pc, coded_buf>>
      <4>1. sync'[t] =
              [buf   |-> b,
               clean |-> /\ b = coded_buf =>
                              pc \notin {"overflowed", "failing"}
                         /\ resize.buf # b]
        BY <3>1, <3>2 DEF sync_look, TypeOK
      <4>2. ~coded[b].failed /\ UNCHANGED <<coded, resize, pc, coded_buf>>
        BY <3>2 DEF sync_look, UnchangedPicture, codedVars
      <4> QED
        BY <1>2, <4>1, <4>2 DEF Failing
    <3>3. ASSUME NEW u \in Syncers, sync_answer(u) PROVE FALSE
      <4>1. sync'[t] = NoSync
        BY <2>1, <3>3 DEF sync_answer, TypeOK
      <4> QED
        BY <1>2, <4>1 DEF NoSync
    <3>4. ASSUME NEW b, sync' = Met(b) PROVE FALSE
      BY <1>2, <2>1, <3>4, MetType
    <3>5. PICK u \in Syncers, b \in CodedBuffers : sync_look(u, b)
      BY <2>1, <3>3, <3>4, OthersStep DEF rk_BufferSetNumElements
    <3> QED
      BY <3>1, <3>2, <3>5 DEF Failing
  <2>2. CASE sync'[t] = sync[t]
    <3>1. PICK b \in CodedBuffers :
            /\ b = sync[t].buf /\ ~coded[b].failed
            /\ resize.buf # b /\ ~Failing(b)
      BY <1>2, <2>2 DEF LookInv
    <3>2. ~coded'[b].failed
      BY <3>1, FlagStep DEF Failing
    <3>3. resize'.buf # b
      <4>1. ASSUME NEW c \in CodedBuffers, NEW cap \in Sizes,
                   rk_BufferSetNumElements(c, cap)
            PROVE  resize'.buf = c /\ c # b
        <5>1. sync' = Met(c) /\ resize'.buf = c
          BY <4>1 DEF rk_BufferSetNumElements
        <5> QED
          BY <1>2, <2>2, <3>1, <5>1, MetType
      <4>2. resize_ready => resize'.buf = resize.buf
        BY DEF resize_ready, TypeOK, NoResize
      <4>3. resize_failed => resize'.buf = NoBuffer
        BY DEF resize_failed, NoResize
      <4> QED
        BY <3>1, <4>1, <4>2, <4>3, OthersStep, EncoderAssumption
    <3>4. ~Failing(b)'
      <4>1. ASSUME store_ready, pc # "stored", b = coded_buf PROVE FALSE
        <5>1. sync' = Met(b)
          BY <4>1 DEF store_ready
        <5> QED
          BY <1>2, <2>2, <3>1, <5>1, MetType
      <4> QED
        BY <3>1, <4>1, FailingStep
    <3> QED
      BY <2>2, <3>1, <3>2, <3>3, <3>4 DEF Failing
  <2> QED
    BY <2>1, <2>2
<1> QED
  BY <1>1, <1>2 DEF LookInv, Failing

(* A buffer becomes sound only by the stores of an EndPicture that has     *)
(* copied a packet; until then it is left alone.                           *)
LEMMA SoundStep ==
  ASSUME TypeOK, EndInv, LookInv, [EncoderNext]_encoderVars,
         NEW b \in CodedBuffers, Sound(b)'
  PROVE  /\ UNCHANGED <<coded[b].pic, coded[b].len, coded[b].cap, asked[b]>>
         /\ \/ Sound(b)
            \/ /\ b = coded_buf /\ b \notin raced
               /\ pc \in {"stored", "published"}
<1> USE DEF UnchangedPicture, hasVars, sliceVars, codedVars, callVars
<1>0. /\ coded'[b].ready /\ ~coded'[b].failed /\ b \notin raced'
      /\ resize'.buf # b /\ ~Failing(b)'
  BY DEF Sound
<1>1. CASE Quiet
  BY <1>0, <1>1 DEF Quiet, Sound, Failing
<1>2. CASE UNCHANGED encoderVars
  BY <1>0, <1>2 DEF encoderVars, Sound, Failing
<1>3. CASE encode_begin
  <2>1. /\ coded_buf \in CodedBuffers /\ coded_buf' = coded_buf
        /\ coded' = [coded EXCEPT ![coded_buf].ready = FALSE]
        /\ asked' = [asked EXCEPT ![coded_buf] = render]
        /\ raced' = raced \ {coded_buf} /\ resize' = resize /\ pc = "idle"
    BY <1>3 DEF TypeOK, encode_begin, Rendering
  <2>2. b # coded_buf
    BY <1>0, <2>1, ReadyStored
  <2>3. coded'[b] = coded[b] /\ asked'[b] = asked[b]
    BY <2>1, <2>2, FieldStored DEF TypeOK
  <2> QED
    BY <1>0, <2>1, <2>2, <2>3 DEF Sound, Failing
<1>4. CASE encode_reset
  <2>1. /\ coded_buf \in CodedBuffers /\ ~coded[coded_buf].ready
        /\ coded_buf' = coded_buf /\ asked' = asked /\ raced' = raced
        /\ coded' = [coded EXCEPT ![coded_buf].failed = FALSE]
        /\ resize' = resize
    BY <1>4 DEF EndInv, encode_reset
  <2>2. b # coded_buf
    BY <1>0, <2>1, ReadyStored
  <2>3. coded'[b] = coded[b]
    BY <2>1, <2>2, FieldStored
  <2> QED
    BY <1>0, <2>1, <2>2, <2>3 DEF Sound, Failing
<1>5. ASSUME NEW at, StoreBegins(at), coded' = coded, pc \in {"put", "get"}
      PROVE  UNCHANGED <<coded[b].pic, coded[b].len, coded[b].cap, asked[b]>>
             /\ Sound(b)
  BY <1>0, <1>5 DEF StoreBegins, Sound, Failing
<1>6. CASE put_failed \/ (\E late \in BOOLEAN : get_failed(late))
  BY <1>5, <1>6 DEF put_failed, get_failed
<1>7. CASE encode_put_frame
  BY <1>0, <1>7 DEF encode_put_frame, Sound, Failing
<1>8. ASSUME NEW len \in Sizes, encode_get_packet(len)
      PROVE  UNCHANGED <<coded[b].pic, coded[b].len, coded[b].cap, asked[b]>>
             /\ Sound(b)
  <2>1. coded_buf \in CodedBuffers /\ ~coded[coded_buf].ready /\ pc = "get"
    BY <1>8 DEF EndInv, encode_get_packet
  <2>2. CASE coded' = coded
    BY <1>5, <1>8, <2>1, <2>2 DEF encode_get_packet, rk_buffer_store_coded
  <2>3. CASE /\ coded' = [coded EXCEPT ![coded_buf].len = 0]
             /\ StoreBegins("overflow")
    <3>1. b # coded_buf
      BY <1>0, <2>1, <2>3, ReadyStored
    <3>2. coded'[b] = coded[b]
      BY <2>1, <2>3, <3>1, FieldStored
    <3> QED
      BY <1>0, <2>1, <2>3, <3>1, <3>2 DEF StoreBegins, Sound, Failing
  <2> QED
    BY <1>8, <2>2, <2>3 DEF encode_get_packet, rk_buffer_store_coded
<1>9. CASE copy_packet
  <2>1. /\ coded_buf \in CodedBuffers /\ ~coded[coded_buf].ready
        /\ packet.pic \in 0..MaxPictures /\ packet.len \in Sizes \cup {0}
        /\ coded[coded_buf].cap \in Sizes
        /\ UNCHANGED <<coded_buf, asked, raced, resize>>
    BY <1>9 DEF copy_packet, EndInv, TypeOK
  <2>2. /\ coded'[coded_buf].ready = coded[coded_buf].ready
        /\ \A c \in CodedBuffers : c # coded_buf => coded'[c] = coded[c]
    BY <1>9, <2>1, DataStored DEF copy_packet
  <2> QED
    BY <1>0, <2>1, <2>2 DEF Sound, Failing
<1>10. CASE store_ready
  <2>1. /\ coded_buf \in CodedBuffers
        /\ coded' = [coded EXCEPT ![coded_buf].ready = TRUE]
        /\ UNCHANGED <<coded_buf, asked, raced, resize>>
    BY <1>10 DEF store_ready, EndInv
  <2>2. /\ coded'[coded_buf].len = coded[coded_buf].len
        /\ \A c \in CodedBuffers :
             /\ coded'[c].cap = coded[c].cap /\ coded'[c].pic = coded[c].pic
             /\ c # coded_buf => coded'[c] = coded[c]
    BY <2>1, ReadyStored, FieldStored
  <2>3. b = coded_buf => pc = "stored"
    BY <1>0, <1>10, <2>1 DEF store_ready, Failing
  <2> QED
    BY <1>0, <2>1, <2>2, <2>3 DEF Sound, Failing
<1>11. CASE overflow_failed
  <2>1. /\ coded_buf \in CodedBuffers
        /\ coded' = [coded EXCEPT ![coded_buf].failed = TRUE]
        /\ UNCHANGED <<coded_buf, asked, raced, resize>>
    BY <1>11 DEF overflow_failed, EndInv
  <2>2. b # coded_buf
    BY <1>0, <2>1, ReadyStored
  <2>3. coded'[b] = coded[b]
    BY <2>1, <2>2, FieldStored
  <2> QED
    BY <1>0, <2>1, <2>2, <2>3 DEF Sound, Failing
<1>12. CASE encode_ends
  <2>1. /\ coded_buf \in CodedBuffers /\ (pc = "failing") \in BOOLEAN
        /\ coded' = [coded EXCEPT ![coded_buf].failed = (pc = "failing")]
        /\ UNCHANGED <<coded_buf, asked, raced, resize>>
        /\ pc \in {"published", "failing"}
    BY <1>12 DEF encode_ends, EndInv
  <2>2. /\ coded'[coded_buf].failed = (pc = "failing")
        /\ coded'[coded_buf].len = coded[coded_buf].len
    BY <2>1, ReadyStored
  <2>3. \A c \in CodedBuffers :
          /\ coded'[c].cap = coded[c].cap /\ coded'[c].pic = coded[c].pic
          /\ c # coded_buf => coded'[c] = coded[c]
    BY <2>1, FieldStored
  <2> QED
    BY <1>0, <2>1, <2>2, <2>3 DEF Sound, Failing
<1>13. ASSUME NEW t \in Syncers, NEW c \in CodedBuffers, sync_look(t, c)
       PROVE  UNCHANGED <<coded[b].pic, coded[b].len, coded[b].cap, asked[b]>>
              /\ Sound(b)
  BY <1>0, <1>13 DEF sync_look, Sound, Failing
<1>14. ASSUME NEW t \in Syncers, sync_answer(t)
       PROVE  UNCHANGED <<coded[b].pic, coded[b].len, coded[b].cap, asked[b]>>
              /\ Sound(b)
  BY <1>0, <1>14 DEF sync_answer, Sound, Failing
<1>15. ASSUME NEW c \in CodedBuffers, NEW cap \in Sizes,
              rk_BufferSetNumElements(c, cap)
       PROVE  UNCHANGED <<coded[b].pic, coded[b].len, coded[b].cap, asked[b]>>
              /\ Sound(b)
  <2>1. /\ UNCHANGED <<coded_buf, pc, asked>> /\ resize.buf = NoBuffer
        /\ resize'.buf = c /\ raced \subseteq raced'
    BY <1>15 DEF rk_BufferSetNumElements, NoResize
  <2>2. 0 \in 0..MaxPictures /\ 0 \in Sizes \cup {0}
    BY EncoderAssumption
  <2>3. b # c => coded'[b] = coded[b]
    BY <1>15, <2>2, DataStored DEF rk_BufferSetNumElements
  <2> QED
    BY <1>0, <2>1, <2>3, EncoderAssumption DEF Sound, Failing
<1>16. CASE resize_ready \/ resize_failed
  <2>1. resize.buf \in CodedBuffers /\ resize.at \in {"ready", "failed"}
    BY <1>16 DEF resize_ready, resize_failed, TypeOK, NoResize
  <2>2. \/ /\ coded' = [coded EXCEPT ![resize.buf].ready = FALSE]
           /\ resize.at = "ready"
        \/ /\ coded' = [coded EXCEPT ![resize.buf].failed = FALSE]
           /\ resize.at = "failed"
    BY <1>16 DEF resize_ready, resize_failed
  <2>3. UNCHANGED <<coded_buf, pc, asked, raced>>
    BY <1>16 DEF resize_ready, resize_failed
  <2>4. b # resize.buf
    <3>1. resize.at = "failed" /\ resize.buf \notin raced =>
            ~coded[resize.buf].ready
      BY DEF LookInv
    <3> QED
      BY <1>0, <2>1, <2>2, <2>3, <3>1, ReadyStored
  <2>5. coded'[b] = coded[b]
    BY <2>1, <2>2, <2>4, FieldStored
  <2> QED
    BY <1>0, <2>3, <2>4, <2>5 DEF Sound, Failing
<1> QED
  BY <1>1, <1>2, <1>3, <1>4, <1>6, <1>7, <1>8, <1>9, <1>10, <1>11, <1>12,
     <1>13, <1>14, <1>15, <1>16, Steps

(* EndPicture turns to copying or to a verdict in its own steps only.      *)
LEMMA StageStep ==
  ASSUME [EncoderNext]_encoderVars
  PROVE  /\ pc' = "copy" /\ pc # "copy" =>
              \E len \in Sizes : encode_get_packet(len)
         /\ pc' \in {"stored", "published"} =>
              pc \in {"stored", "published"} \/ copy_packet
<1>1. ASSUME NEW at, StoreBegins(at) PROVE pc' = at
  BY <1>1 DEF StoreBegins
<1> QED
  BY <1>1, Steps
     DEF Quiet, encoderVars, encode_begin, encode_reset, put_failed,
         encode_put_frame, encode_get_packet, get_failed,
         rk_buffer_store_coded, copy_packet, store_ready, overflow_failed,
         encode_ends, sync_look, sync_answer, rk_BufferSetNumElements,
         resize_ready, resize_failed

(* While EndPicture copies or publishes, the capacity and the data of its  *)
(* buffer change only by its own copy or by a resize, which is noted.      *)
LEMMA DataStep ==
  ASSUME TypeOK, EndInv, [EncoderNext]_encoderVars,
         pc \in {"copy", "stored", "published"}, pc' # "idle",
         coded_buf \notin raced', ~copy_packet
  PROVE  /\ coded_buf' = coded_buf /\ coded_buf \notin raced
         /\ coded'[coded_buf].len = coded[coded_buf].len
         /\ coded'[coded_buf].cap = coded[coded_buf].cap
         /\ packet' = packet
<1> USE DEF UnchangedPicture, codedVars, callVars
<1>0. coded_buf \in CodedBuffers
  BY DEF EndInv
<1>1. CASE UNCHANGED encoderVars
  BY <1>1 DEF encoderVars
<1>2. CASE store_ready
  BY <1>0, <1>2, ReadyStored, FieldStored DEF store_ready
<1>3. ASSUME NEW t \in Syncers, NEW b \in CodedBuffers, sync_look(t, b)
      PROVE  UNCHANGED <<coded_buf, coded, packet, raced>>
  BY <1>3 DEF sync_look
<1>4. ASSUME NEW t \in Syncers, sync_answer(t)
      PROVE  UNCHANGED <<coded_buf, coded, packet, raced>>
  BY <1>4 DEF sync_answer
<1>5. ASSUME NEW b \in CodedBuffers, NEW cap \in Sizes,
             rk_BufferSetNumElements(b, cap)
      PROVE  /\ UNCHANGED <<coded_buf, packet, raced>>
             /\ coded'[coded_buf] = coded[coded_buf]
  <2>1. /\ UNCHANGED <<coded_buf, packet>>
        /\ raced' = IF b = coded_buf /\ pc \in Storing
                      THEN raced \cup {b} ELSE raced
        /\ pc \in Storing
    BY <1>5 DEF rk_BufferSetNumElements, Storing
  <2>2. 0 \in 0..MaxPictures /\ 0 \in Sizes \cup {0}
    BY EncoderAssumption
  <2>3. b # coded_buf /\ raced' = raced
    BY <2>1
  <2> QED
    BY <1>0, <1>5, <2>1, <2>2, <2>3, DataStored DEF rk_BufferSetNumElements
<1>6. CASE resize_ready \/ resize_failed
  <2>1. resize.buf \in CodedBuffers
    BY <1>6 DEF resize_ready, resize_failed, TypeOK, NoResize
  <2>2. \/ coded' = [coded EXCEPT ![resize.buf].ready = FALSE]
        \/ coded' = [coded EXCEPT ![resize.buf].failed = FALSE]
    BY <1>6 DEF resize_ready, resize_failed
  <2>3. UNCHANGED <<coded_buf, packet, raced>>
    BY <1>6 DEF resize_ready, resize_failed
  <2>4. coded_buf # resize.buf
    BY <2>3 DEF EndInv, Storing
  <2>5. coded'[coded_buf] = coded[coded_buf]
    BY <1>0, <2>1, <2>2, <2>4, FieldStored
  <2> QED
    BY <2>3, <2>5
<1> QED
  BY <1>1, <1>2, <1>3, <1>4, <1>5, <1>6, Steps
     DEF Quiet, encode_begin, encode_reset, put_failed, encode_put_frame,
         encode_get_packet, get_failed, overflow_failed, encode_ends,
         Rendering

(* A sound buffer, and one EndPicture has copied a packet into, fit.       *)
LEMMA FitStep ==
  ASSUME TypeOK, EndInv, LookInv, FitInv, [EncoderNext]_encoderVars
  PROVE  FitInv'
<1>1. ASSUME NEW b \in CodedBuffers, Sound(b)'
      PROVE  coded'[b].len # 0 /\ coded'[b].len <= coded'[b].cap
  <2>1. /\ UNCHANGED <<coded[b].len, coded[b].cap>>
        /\ \/ Sound(b)
           \/ /\ b = coded_buf /\ b \notin raced
              /\ pc \in {"stored", "published"}
    BY <1>1, SoundStep
  <2>2. coded[b].len # 0 /\ coded[b].len <= coded[b].cap
    BY <2>1 DEF FitInv
  <2> QED
    BY <2>1, <2>2
<1>2. ASSUME pc' = "copy", coded_buf' \notin raced'
      PROVE  packet'.len # 0 /\ packet'.len <= coded'[coded_buf'].cap
  <2>1. CASE pc = "copy"
    <3>1. ~copy_packet
      BY <1>2 DEF copy_packet
    <3>2. coded_buf' = coded_buf
      BY <2>1, SameBuffer
    <3>3. /\ coded_buf \notin raced
          /\ coded'[coded_buf].cap = coded[coded_buf].cap
          /\ packet' = packet
      BY <1>2, <2>1, <3>1, <3>2, DataStep
    <3> QED
      BY <2>1, <3>2, <3>3 DEF FitInv
  <2>2. CASE pc # "copy"
    <3>1. PICK len \in Sizes : encode_get_packet(len)
      BY <1>2, <2>2, StageStep
    <3>2. packet'.len = len /\ len # 0
      BY <3>1, EncoderAssumption DEF encode_get_packet
    <3>3. ~StoreBegins("overflow")
      BY <1>2 DEF StoreBegins
    <3>4. len <= coded[coded_buf].cap /\ coded' = coded
          /\ coded_buf' = coded_buf
      BY <3>1, <3>3 DEF encode_get_packet, rk_buffer_store_coded,
                        StoreBegins, UnchangedPicture
    <3> QED
      BY <3>2, <3>4
  <2> QED
    BY <2>1, <2>2
<1>3. ASSUME pc' \in {"stored", "published"}, coded_buf' \notin raced'
      PROVE  /\ coded'[coded_buf'].len # 0
             /\ coded'[coded_buf'].len <= coded'[coded_buf'].cap
  <2>1. CASE copy_packet
    <3>1. /\ coded_buf \in CodedBuffers /\ coded_buf' = coded_buf
          /\ raced' = raced /\ pc = "copy"
          /\ coded' = [coded EXCEPT ![coded_buf].pic = packet.pic,
                                    ![coded_buf].len = packet.len]
      BY <2>1 DEF copy_packet, EndInv, UnchangedPicture
    <3>2. /\ coded'[coded_buf].len = packet.len
          /\ coded'[coded_buf].cap = coded[coded_buf].cap
      BY <3>1 DEF TypeOK
    <3> QED
      BY <1>3, <3>1, <3>2 DEF FitInv
  <2>2. CASE ~copy_packet
    <3>1. pc \in {"stored", "published"} /\ pc' # "idle"
      BY <1>3, <2>2, StageStep
    <3>2. coded_buf' = coded_buf
      BY <3>1, SameBuffer
    <3>3. /\ coded_buf \notin raced
          /\ coded'[coded_buf].len = coded[coded_buf].len
          /\ coded'[coded_buf].cap = coded[coded_buf].cap
      BY <1>3, <2>2, <3>1, <3>2, DataStep
    <3> QED
      BY <3>1, <3>2, <3>3 DEF FitInv
  <2> QED
    BY <2>1, <2>2
<1> QED
  BY <1>1, <1>2, <1>3 DEF FitInv

(* Types, EndPicture's state and whole packets, for every MPP.             *)
LEMMA SafeCorrect == EncoderSpec => []SafeInv
<1>1. EncoderInit => SafeInv
  <2> SUFFICES ASSUME EncoderInit PROVE SafeInv
    OBVIOUS
  <2>1. \A b \in CodedBuffers : \E n \in Sizes :
          coded[b] = [ready |-> FALSE, failed |-> FALSE, cap |-> n,
                      pic |-> 0, len |-> 0]
    BY DEF EncoderInit
  <2>2. coded \in [CodedBuffers -> Coded]
    <3>1. 0 \in 0..MaxPictures
      BY EncoderAssumption
    <3>2. ASSUME NEW b \in CodedBuffers PROVE coded[b] \in Coded
      <4>1. PICK n \in Sizes :
              coded[b] = [ready |-> FALSE, failed |-> FALSE, cap |-> n,
                          pic |-> 0, len |-> 0]
        BY <2>1
      <4> QED
        BY <3>1, <4>1 DEF Coded
    <3> QED
      BY <3>2 DEF EncoderInit
  <2>3. <<>> \in Seq(Declared)
        /\ <<>> \in Seq(1..MaxPictures)
    OBVIOUS
  <2>4. TypeOK
    <3>1. /\ 0 \in 0..MaxPictures /\ 0 \in 0..MaxUnits
          /\ 0 \in SliceSizes \cup {0}
      BY EncoderAssumption
    <3>2. asked \in [CodedBuffers -> 0..MaxPictures]
      BY <3>1 DEF EncoderInit
    <3>3. /\ packet \in [pic : 0..MaxPictures, len : Sizes \cup {0}]
          /\ sync \in [Syncers -> [buf : CodedBuffers \cup {NoBuffer},
                                   clean : BOOLEAN]]
          /\ raced \subseteq CodedBuffers
      BY <3>1 DEF EncoderInit, NoSync
    <3> QED
      BY <2>2, <2>3, <3>1, <3>2, <3>3 DEF EncoderInit, TypeOK, Coded
  <2>5. /\ \A b \in CodedBuffers : coded[b].ready = FALSE
        /\ \A t \in Syncers : sync[t].clean = FALSE
        /\ resize.at = "idle" /\ pc = "idle"
    BY <2>1 DEF EncoderInit, NoSync, NoResize
  <2> QED
    BY <2>4, <2>5 DEF SafeInv, EndInv, LookInv, FitInv, Sound, Storing
<1>2. SafeInv /\ [EncoderNext]_encoderVars => SafeInv'
  BY TypeStep, EndStep, LookStep, FitStep DEF SafeInv
<1> QED
  BY <1>1, <1>2, PTL DEF EncoderSpec

(* The encoder's parameters and the coded buffers keep their types.        *)
THEOREM EncoderTypes == EncoderSpec => []TypeOK
BY SafeCorrect, PTL DEF SafeInv

(* A call that is about to answer success looks at a sound buffer.         *)
LEMMA SyncedSound ==
  ASSUME SafeInv, NEW t \in Syncers, Synced(t)
  PROVE  sync[t].buf \in CodedBuffers /\ Sound(sync[t].buf)
BY DEF SafeInv, LookInv, Synced, rk_SyncBuffer, Sound

(* A coded buffer that syncs has all of its packet in it, for any number   *)
(* of threads in SyncBuffer and a resize at any time: for the calls that   *)
(* have met neither the two stores of a failing EndPicture nor a resize.   *)
THEOREM CodedFitsCorrect == EncoderSpec => []CodedFits
<1>1. SafeInv => CodedFits
  <2> SUFFICES ASSUME SafeInv, NEW t \in Syncers, Synced(t)
               PROVE  coded[sync[t].buf].len \in 1..coded[sync[t].buf].cap
    BY DEF CodedFits
  <2>1. PICK b \in CodedBuffers : b = sync[t].buf /\ Sound(b)
    BY SyncedSound
  <2>2. coded[b].len \in Nat /\ coded[b].cap \in Nat
    <3>1. /\ coded[b].len \in Sizes \cup {0}
          /\ coded[b].cap \in Sizes
      BY DEF SafeInv, TypeOK
    <3>2. \A n \in Sizes \cup {0} : n \in Nat
      BY EncoderAssumption
    <3> QED
      BY <3>1, <3>2
  <2>3. coded[b].len # 0 /\ coded[b].len <= coded[b].cap
    BY <2>1 DEF SafeInv, FitInv
  <2> QED
    BY <2>1, <2>2, <2>3
<1> QED
  BY <1>1, SafeCorrect, PTL

-----------------------------------------------------------------------------
(***************************************************************************)
(* The right packet.                                                       *)
(***************************************************************************)

(* Only copy_packet changes the picture in a buffer.                       *)
LEMMA PicStep ==
  ASSUME TypeOK, EndInv, [EncoderNext]_encoderVars, ~copy_packet,
         NEW b \in CodedBuffers
  PROVE  coded'[b].pic = coded[b].pic
<1> USE DEF codedVars, callVars
<1>0. pc # "idle" => coded_buf \in CodedBuffers
  BY DEF EndInv
<1>1. CASE Quiet \/ UNCHANGED encoderVars
  BY <1>1 DEF Quiet, encoderVars
<1>2. CASE encode_begin
  <2>1. coded_buf \in CodedBuffers
    BY <1>2 DEF TypeOK, encode_begin
  <2> QED
    BY <1>2, <2>1, FieldStored DEF encode_begin
<1>3. CASE encode_reset
  BY <1>0, <1>3, FieldStored DEF encode_reset
<1>4. CASE put_failed \/ encode_put_frame
           \/ (\E late \in BOOLEAN : get_failed(late))
  BY <1>4 DEF put_failed, encode_put_frame, get_failed
<1>5. ASSUME NEW len \in Sizes, encode_get_packet(len)
      PROVE  coded'[b].pic = coded[b].pic
  <2>1. \/ coded' = coded
        \/ coded' = [coded EXCEPT ![coded_buf].len = 0]
    BY <1>5 DEF encode_get_packet, rk_buffer_store_coded
  <2>2. coded_buf \in CodedBuffers
    BY <1>0, <1>5 DEF encode_get_packet
  <2> QED
    BY <2>1, <2>2, FieldStored
<1>6. CASE store_ready
  BY <1>0, <1>6, FieldStored DEF store_ready
<1>7. CASE overflow_failed
  BY <1>0, <1>7, FieldStored DEF overflow_failed
<1>8. CASE encode_ends
  <2>1. PICK v \in BOOLEAN : v = (pc = "failing")
    OBVIOUS
  <2>2. coded' = [coded EXCEPT ![coded_buf].failed = v]
        /\ coded_buf \in CodedBuffers
    BY <1>0, <1>8, <2>1 DEF encode_ends
  <2> QED
    BY <2>2, FieldStored
<1>9. CASE \/ \E t \in Syncers, c \in CodedBuffers : sync_look(t, c)
           \/ \E t \in Syncers : sync_answer(t)
  BY <1>9 DEF sync_look, sync_answer
<1>10. ASSUME NEW c \in CodedBuffers, NEW cap \in Sizes,
              rk_BufferSetNumElements(c, cap)
       PROVE  coded'[b].pic = coded[b].pic
  <2>1. coded' = [coded EXCEPT ![c].cap = cap, ![c].len = 0]
    BY <1>10 DEF rk_BufferSetNumElements
  <2> QED
    BY <2>1 DEF TypeOK
<1>11. CASE resize_ready \/ resize_failed
  <2>1. resize.buf \in CodedBuffers
    BY <1>11 DEF resize_ready, resize_failed, TypeOK, NoResize
  <2>2. \/ coded' = [coded EXCEPT ![resize.buf].ready = FALSE]
        \/ coded' = [coded EXCEPT ![resize.buf].failed = FALSE]
    BY <1>11 DEF resize_ready, resize_failed
  <2> QED
    BY <2>1, <2>2, FieldStored
<1> QED
  BY <1>1, <1>2, <1>3, <1>4, <1>5, <1>6, <1>7, <1>8, <1>9, <1>10, <1>11, Steps

(* EndPicture keeps its picture, and what its buffer is to be filled with. *)
LEMMA AskedStep ==
  ASSUME [EncoderNext]_encoderVars, pc # "idle", pc' # "idle"
  PROVE  render' = render /\ asked' = asked /\ coded_buf' = coded_buf
<1>1. ASSUME NEW at, StoreBegins(at)
      PROVE  render' = render /\ asked' = asked /\ coded_buf' = coded_buf
  BY <1>1 DEF StoreBegins, UnchangedPicture
<1> QED
  BY <1>1, Steps
     DEF Quiet, encoderVars, UnchangedPicture, codedVars, Rendering,
         encode_begin, encode_reset, put_failed, encode_put_frame,
         encode_get_packet, get_failed, rk_buffer_store_coded, copy_packet,
         store_ready, overflow_failed, encode_ends, sync_look, sync_answer,
         rk_BufferSetNumElements, resize_ready, resize_failed

(* EndPicture begins with encode_begin.                                    *)
LEMMA BeginStep ==
  ASSUME [EncoderNext]_encoderVars, pc = "idle", pc' # "idle"
  PROVE  encode_begin
BY Steps
   DEF Quiet, encoderVars, encode_reset, put_failed, encode_put_frame,
       encode_get_packet, get_failed, copy_packet, store_ready,
       overflow_failed, encode_ends, sync_look, sync_answer,
       rk_BufferSetNumElements, resize_ready, resize_failed

(* MPP's queue changes when EndPicture puts a frame and when it has waited *)
(* for one.                                                                *)
LEMMA QueueStep ==
  ASSUME [EncoderNext]_encoderVars
  PROVE  \/ mpp' = mpp /\ pc # "get" /\ pc' # "get"
         \/ mpp' = mpp /\ pc = "get" /\ pc' = "get"
         \/ encode_put_frame
         \/ \E len \in Sizes : encode_get_packet(len)
         \/ \E late \in BOOLEAN : get_failed(late)
<1>1. ASSUME NEW at, StoreBegins(at) PROVE pc' = at
  BY <1>1 DEF StoreBegins
<1> QED
  BY <1>1, Steps
     DEF Quiet, encoderVars, encode_begin, encode_reset, put_failed,
         copy_packet, store_ready, overflow_failed, encode_ends, sync_look,
         sync_answer, rk_BufferSetNumElements, resize_ready, resize_failed,
         Rendering

(* While MPP answers in time, EndPicture and MPP stay in step.             *)
LEMMA InStepKept ==
  ASSUME ~MppLate, TypeOK, EndInv, LookInv, InStep, [EncoderNext]_encoderVars
  PROVE  InStep'
<1>1. pc = "get" => mpp = <<render>> /\ Tail(mpp) = <<>>
  <2>1. <<render>> \in Seq({render}) /\ Len(<<render>>) = 1
    OBVIOUS
  <2>2. <<render>> # <<>>
    BY <2>1
  <2>3. /\ Tail(<<render>>) \in Seq({render})
        /\ Len(Tail(<<render>>)) = 0
    BY <2>1, <2>2, HeadTailProperties
  <2>4. Tail(<<render>>) = <<>>
    BY <2>3, EmptySeq
  <2> QED
    BY <2>4 DEF InStep
<1>2. ASSUME NEW at \in Storing, StoreBegins(at) PROVE pc' # "get"
  BY <1>2 DEF StoreBegins, Storing
<1>3. /\ pc' # "get" => mpp' = <<>>
      /\ pc' = "get" => mpp' = <<render'>>
  <2>1. CASE mpp' = mpp /\ pc # "get" /\ pc' # "get"
    BY <2>1 DEF InStep
  <2>2. CASE mpp' = mpp /\ pc = "get" /\ pc' = "get"
    BY <2>2, AskedStep DEF InStep
  <2>3. CASE encode_put_frame
    <3>1. /\ mpp = <<>> /\ mpp' = Append(mpp, render)
          /\ pc' = "get" /\ render' = render
      BY <2>3 DEF InStep, encode_put_frame, UnchangedPicture
    <3>2. mpp' = <<render>>
      BY <3>1
    <3> QED
      BY <3>1, <3>2
  <2>4. ASSUME NEW len \in Sizes, encode_get_packet(len)
        PROVE  pc' # "get" /\ mpp' = <<>>
    BY <1>1, <1>2, <2>4 DEF encode_get_packet, rk_buffer_store_coded, Storing
  <2>5. ASSUME NEW late \in BOOLEAN, get_failed(late)
        PROVE  pc' # "get" /\ mpp' = <<>>
    BY <1>1, <1>2, <2>5 DEF get_failed, Storing
  <2> QED
    BY <2>1, <2>2, <2>3, <2>4, <2>5, QueueStep
<1>4. pc' # "idle" => asked'[coded_buf'] = render'
  <2>1. CASE pc # "idle"
    BY <2>1, AskedStep DEF InStep
  <2>2. ASSUME pc = "idle", pc' # "idle" PROVE asked'[coded_buf'] = render'
    <3>1. encode_begin
      BY <2>2, BeginStep
    <3>2. /\ coded_buf \in CodedBuffers
          /\ coded_buf' = coded_buf /\ render' = render
          /\ asked' = [asked EXCEPT ![coded_buf] = render]
      BY <3>1 DEF encode_begin, UnchangedPicture, TypeOK
    <3> QED
      BY <3>2 DEF TypeOK
  <2> QED
    BY <2>1, <2>2
<1>5. ASSUME pc' = "copy" PROVE packet'.pic = render'
  <2>1. CASE pc = "copy"
    <3>1. packet' = packet
      <4>1. ASSUME NEW at, StoreBegins(at) PROVE pc' = at
        BY <4>1 DEF StoreBegins
      <4> QED
        BY <1>5, <2>1, <4>1, Steps
           DEF Quiet, encoderVars, codedVars, encode_begin, encode_reset,
               put_failed, encode_put_frame, encode_get_packet, get_failed,
               copy_packet, store_ready, overflow_failed, encode_ends,
               sync_look, sync_answer, rk_BufferSetNumElements, resize_ready,
               resize_failed, Rendering
    <3> QED
      BY <1>5, <2>1, <3>1, AskedStep DEF InStep
  <2>2. CASE pc # "copy"
    <3>1. PICK len \in Sizes : encode_get_packet(len)
      BY <1>5, <2>2, StageStep
    <3>2. /\ packet' = [pic |-> Head(mpp), len |-> len] /\ pc = "get"
      BY <3>1 DEF encode_get_packet
    <3>3. Head(mpp) = render
      BY <1>1, <3>2
    <3>4. render' = render
      BY <1>5, <3>2, AskedStep
    <3> QED
      BY <3>2, <3>3, <3>4
  <2> QED
    BY <2>1, <2>2
<1>6. ASSUME pc' \in {"stored", "published"}
      PROVE  coded'[coded_buf'].pic = render'
  <2>1. pc \in {"copy", "stored", "published"}
    BY <1>6, StageStep DEF copy_packet
  <2>2. /\ coded_buf' = coded_buf /\ render' = render
        /\ coded_buf \in CodedBuffers
    BY <1>6, <2>1, AskedStep DEF EndInv
  <2>3. CASE copy_packet
    <3>1. /\ coded' = [coded EXCEPT ![coded_buf].pic = packet.pic,
                                    ![coded_buf].len = packet.len]
          /\ pc = "copy"
      BY <2>3 DEF copy_packet
    <3>2. coded'[coded_buf].pic = packet.pic
      BY <2>2, <3>1 DEF TypeOK
    <3> QED
      BY <2>2, <3>1, <3>2 DEF InStep
  <2>4. CASE ~copy_packet
    <3>1. pc \in {"stored", "published"}
      BY <1>6, <2>4, StageStep
    <3>2. coded'[coded_buf].pic = coded[coded_buf].pic
      BY <2>2, <2>4, PicStep
    <3> QED
      BY <2>2, <3>1, <3>2 DEF InStep
  <2> QED
    BY <2>3, <2>4
<1>7. ASSUME NEW b \in CodedBuffers, Sound(b)'
      PROVE  coded'[b].pic = asked'[b]
  <2>1. /\ UNCHANGED <<coded[b].pic, asked[b]>>
        /\ \/ Sound(b)
           \/ b = coded_buf /\ pc \in {"stored", "published"}
    BY <1>7, SoundStep
  <2>2. coded[b].pic = asked[b]
    BY <2>1 DEF InStep
  <2> QED
    BY <2>1, <2>2
<1> QED
  BY <1>3, <1>4, <1>5, <1>6, <1>7 DEF InStep

(* A coded buffer that syncs holds the packet of the picture it was passed *)
(* with, as long as MPP answers before EndPicture's timeout, for any       *)
(* number of threads in SyncBuffer: for the calls that have met neither    *)
(* the two stores of a failing EndPicture nor a resize.                    *)
THEOREM CodedPictureCorrect ==
  ~MppLate => (EncoderSpec => []CodedHoldsItsPicture)
<1> SUFFICES ASSUME ~MppLate PROVE EncoderSpec => []CodedHoldsItsPicture
  OBVIOUS
<1>1. EncoderInit => InStep
  <2> SUFFICES ASSUME EncoderInit PROVE InStep
    OBVIOUS
  <2>1. \A b \in CodedBuffers : coded[b].ready = FALSE
    BY DEF EncoderInit
  <2>2. pc = "idle" /\ mpp = <<>>
    BY DEF EncoderInit
  <2> QED
    BY <2>1, <2>2 DEF InStep, Sound
<1>2. SafeInv /\ InStep /\ [EncoderNext]_encoderVars => InStep'
  BY InStepKept DEF SafeInv
<1>3. SafeInv /\ InStep => CodedHoldsItsPicture
  <2> SUFFICES ASSUME SafeInv, InStep, NEW t \in Syncers, Synced(t)
               PROVE  coded[sync[t].buf].pic = asked[sync[t].buf]
    BY DEF CodedHoldsItsPicture
  <2> QED
    BY SyncedSound DEF InStep
<1> QED
  BY <1>1, <1>2, <1>3, SafeCorrect, PTL DEF EncoderSpec

-----------------------------------------------------------------------------
(***************************************************************************)
(* The split.                                                              *)
(***************************************************************************)

(* All slices but the last are as long as the first, they follow one       *)
(* another from 0, and agree with what the context remembers of them.      *)
Tiled ==
  LET n == Len(declared)
  IN  /\ slice_count = n
      /\ n = 0 => slice_units = 0 /\ ~has_enc_slice
      /\ n # 0 =>
           /\ slice_units = declared[n].at + declared[n].units
           /\ last_units = declared[n].units /\ last_units <= unit_span
           /\ Hevc => (enc_slice.last <=> declared[n].slice.last)
      /\ \A k \in 1..n :
           /\ declared[k].at = (k - 1) * unit_span
           /\ declared[k].slice.type = enc_slice.type
           /\ k # n => /\ declared[k].units = unit_span
                       /\ Hevc => ~declared[k].slice.last
           /\ declared[k].row # 0
           /\ declared[k].at % declared[k].row = 0
           /\ declared[k].units % declared[k].row = 0

(* EndPicture has checked the picture it hands to MPP.                     *)
SplitInv == Tiled /\ (pc \in {"reset", "put"} => Encodable)

(* The numbers of the split are natural numbers.                           *)
LEMMA SplitNumbers ==
  ASSUME TypeOK
  PROVE  /\ unit_span \in Nat /\ last_units \in Nat /\ slice_units \in Nat
         /\ slice_count \in Nat /\ enc_seq.row \in Nat /\ enc_seq.total \in Nat
         /\ \A k \in 1..Len(declared) :
              /\ declared[k].at \in Nat /\ declared[k].units \in Nat
              /\ declared[k].row \in Nat
              /\ declared[k].slice.type \in SliceTypes
              /\ declared[k].slice.last \in BOOLEAN
<1>1. \A n \in SliceSizes \cup {0} : n \in Nat
  BY EncoderAssumption
<1>2. MaxUnits \in Nat
  BY EncoderAssumption
<1>3. enc_seq.row \in Nat /\ enc_seq.total \in Nat
  BY EncoderAssumption DEF TypeOK
<1>4. \A k \in 1..Len(declared) : declared[k] \in Declared
  BY DEF TypeOK
<1>5. \A k \in 1..Len(declared) :
        /\ declared[k].at \in 0..MaxUnits /\ declared[k].units \in SliceSizes
        /\ declared[k].row \in Nat
        /\ declared[k].slice.type \in SliceTypes
        /\ declared[k].slice.last \in BOOLEAN
  BY <1>4 DEF Declared, Slices
<1>6. /\ unit_span \in SliceSizes \cup {0} /\ last_units \in SliceSizes \cup {0}
      /\ slice_units \in 0..MaxUnits /\ slice_count \in Nat
  BY DEF TypeOK
<1> QED
  BY <1>1, <1>2, <1>3, <1>5, <1>6

(* k slices of u units, and one more.                                      *)
LEMMA OneMore ==
  ASSUME NEW k \in Nat, NEW u \in Nat, k # 0
  PROVE  k * u = (k - 1) * u + u
OBVIOUS

(* Fewer slices of u units are no longer.                                  *)
LEMMA NoLonger ==
  ASSUME NEW k \in Nat, NEW n \in Nat, NEW u \in Nat, k <= n
  PROVE  k * u <= n * u /\ k * u \in Nat
OBVIOUS

(* Whole rows after whole rows are whole rows.                             *)
LEMMA WholeRows ==
  ASSUME NEW a \in Nat, NEW b \in Nat, NEW r \in Nat, r # 0,
         a % r = 0, b % r = 0
  PROVE  (a + b) % r = 0
<1>1. /\ a = r * (a \div r) /\ a \div r \in Nat
      /\ b = r * (b \div r) /\ b \div r \in Nat
  OBVIOUS
<1>2. PICK p \in Nat, q \in Nat : a = r * p /\ b = r * q
  BY <1>1
<1>3. a + b = r * (p + q) /\ p + q \in Nat
  BY <1>2
<1>4. \A c \in Nat : (r * c) % r = 0
  OBVIOUS
<1> QED
  BY <1>3, <1>4

(* Between pictures there are no slices.                                   *)
LEMMA ClearedTiles ==
  ASSUME SlicesCleared
  PROVE  Tiled'
<1>1. /\ slice_count' = 0 /\ slice_units' = 0 /\ declared' = <<>>
      /\ has_enc_slice' = FALSE
  BY DEF SlicesCleared
<1>2. Len(declared') = 0 /\ ~has_enc_slice' /\ 1..0 = {}
  BY <1>1
<1> QED
  BY <1>1, <1>2 DEF Tiled

(* The slices stay as they are.                                            *)
LEMMA SameTiles ==
  ASSUME Tiled, UNCHANGED sliceVars, UNCHANGED has_enc_slice
  PROVE  Tiled'
BY DEF Tiled, sliceVars

(* add_encoder_slice: one more slice.                                      *)
LEMMA SliceTiles ==
  ASSUME TypeOK, Tiled,
         NEW address \in 0..MaxUnits, NEW units \in SliceSizes,
         NEW slice \in Slices, NEW ends_buffer \in BOOLEAN,
         render_slice(address, units, slice, ends_buffer)
  PROVE  Tiled'
<1> DEFINE n == Len(declared)
           d == [at |-> address, units |-> units, row |-> enc_seq.row,
                 slice |-> slice]
<1>1. /\ units # 0 /\ enc_seq.row # 0 /\ address = slice_units
      /\ address % enc_seq.row = 0 /\ units % enc_seq.row = 0
      /\ slice_count # 0 => last_units = unit_span /\ units <= unit_span
      /\ slice_count # 0 => /\ enc_slice.type = slice.type
                            /\ ~(Hevc /\ enc_slice.last)
      /\ unit_span' = IF slice_count = 0 THEN units ELSE unit_span
      /\ slice_count' = slice_count + 1
      /\ slice_units' = slice_units + units
      /\ last_units' = units
      /\ enc_slice' = IF slice_count = 0 THEN slice
                      ELSE [enc_slice EXCEPT !.last = @ \/ (Hevc /\ slice.last)]
      /\ declared' = Append(declared, d)
  BY DEF render_slice, add_encoder_slice, Compatible
<1>2. /\ n \in Nat /\ slice_count = n /\ declared \in Seq(Declared)
      /\ unit_span \in Nat /\ units \in Nat /\ enc_seq.row \in Nat
  BY SplitNumbers, EncoderAssumption DEF TypeOK, Tiled
<1>3. /\ Len(declared') = n + 1 /\ declared'[n + 1] = d
      /\ \A k \in 1..n : declared'[k] = declared[k]
  BY <1>1, <1>2
<1>4. d.at = address /\ d.units = units /\ d.row = enc_seq.row /\ d.slice = slice
  OBVIOUS
<1>5. enc_slice'.type = slice.type /\ (n # 0 => enc_slice'.type = enc_slice.type)
  <2>1. CASE n = 0
    BY <1>1, <1>2, <2>1
  <2>2. CASE n # 0
    <3>1. enc_slice \in Slices \cup {NoSlice}
      BY DEF TypeOK
    <3>2. \A x : [enc_slice EXCEPT !.last = x].type = enc_slice.type
      BY <3>1 DEF Slices, NoSlice
    <3> QED
      BY <1>1, <1>2, <2>2, <3>2
  <2> QED
    BY <2>1, <2>2
<1>6. Hevc => (enc_slice'.last <=> slice.last)
  <2>1. CASE n = 0
    BY <1>1, <1>2, <2>1
  <2>2. CASE n # 0
    <3>1. enc_slice \in Slices \cup {NoSlice}
      BY DEF TypeOK
    <3>2. \A x : [enc_slice EXCEPT !.last = x].last = x
      BY <3>1 DEF Slices, NoSlice
    <3>3. enc_slice'.last = (enc_slice.last \/ (Hevc /\ slice.last))
      BY <1>1, <1>2, <2>2, <3>2
    <3>4. Hevc => ~enc_slice.last
      BY <1>1, <1>2, <2>2
    <3> QED
      BY <3>3, <3>4, Zenon
  <2> QED
    BY <2>1, <2>2
<1>7. address = n * unit_span'
  <2>1. CASE n = 0
    BY <1>1, <1>2, <2>1 DEF Tiled
  <2>2. CASE n # 0
    <3>1. slice_units = (n - 1) * unit_span + unit_span
      BY <1>1, <1>2, <2>2 DEF Tiled
    <3> QED
      BY <1>1, <1>2, <2>2, <3>1, OneMore
  <2> QED
    BY <2>1, <2>2
<1>8. ASSUME NEW k \in 1..n
      PROVE  /\ unit_span' = unit_span
             /\ declared[k].units = unit_span'
             /\ Hevc => ~declared[k].slice.last
  <2>1. n # 0 /\ unit_span' = unit_span
    BY <1>1, <1>2
  <2>2. CASE k = n
    BY <1>1, <1>2, <2>1, <2>2 DEF Tiled
  <2>3. CASE k # n
    BY <1>2, <2>1, <2>3 DEF Tiled
  <2> QED
    BY <2>2, <2>3
<1> HIDE DEF d
<1>9. ASSUME NEW k \in 1..(n + 1)
      PROVE  /\ declared'[k].at = (k - 1) * unit_span'
             /\ declared'[k].slice.type = enc_slice'.type
             /\ k # n + 1 => /\ declared'[k].units = unit_span'
                             /\ Hevc => ~declared'[k].slice.last
             /\ declared'[k].row # 0
             /\ declared'[k].at % declared'[k].row = 0
             /\ declared'[k].units % declared'[k].row = 0
  <2>1. CASE k = n + 1
    <3>1. (n + 1) - 1 = n
      BY <1>2
    <3> QED
      BY <1>1, <1>3, <1>4, <1>5, <1>7, <2>1, <3>1
  <2>2. CASE k \in 1..n
    <3>1. /\ declared[k].at = (k - 1) * unit_span
          /\ declared[k].slice.type = enc_slice.type
          /\ declared[k].row # 0
          /\ declared[k].at % declared[k].row = 0
          /\ declared[k].units % declared[k].row = 0
      BY <2>2 DEF Tiled
    <3>2. n # 0 /\ declared'[k] = declared[k]
      BY <1>2, <1>3, <2>2
    <3>3. unit_span' = unit_span /\ declared[k].units = unit_span'
          /\ (Hevc => ~declared[k].slice.last)
      BY <1>8, <2>2
    <3> QED
      BY <1>5, <3>1, <3>2, <3>3
  <2> QED
    BY <1>2, <2>1, <2>2
<1>10. units <= unit_span'
  BY <1>1, <1>2
<1>11. /\ n + 1 # 0
       /\ slice_units' = declared'[n + 1].at + declared'[n + 1].units
       /\ last_units' = declared'[n + 1].units /\ last_units' <= unit_span'
       /\ Hevc => (enc_slice'.last <=> declared'[n + 1].slice.last)
  BY <1>1, <1>2, <1>3, <1>4, <1>6, <1>10
<1> QED
  BY <1>1, <1>2, <1>3, <1>9, <1>11 DEF Tiled

(* Every step keeps the slices tiled, and the picture EndPicture works on  *)
(* is the one it checked.                                                  *)
LEMMA SplitStep == TypeOK /\ SplitInv /\ [EncoderNext]_encoderVars => SplitInv'
<1> SUFFICES ASSUME TypeOK, SplitInv, [EncoderNext]_encoderVars PROVE SplitInv'
  OBVIOUS
<1> USE DEF SplitInv
<1>1. ASSUME UNCHANGED <<sliceVars, has_enc_slice, has_enc_seq, has_enc_pic,
                         enc_seq>>,
             pc' \in {"reset", "put"} => pc \in {"reset", "put"}
      PROVE  SplitInv'
  BY <1>1, SameTiles DEF Encodable, sliceVars
<1>2. ASSUME SlicesCleared, pc' = "idle" PROVE SplitInv'
  BY <1>2, ClearedTiles
<1>3. CASE begin_picture \/ encode_refused \/ encode_ends
  BY <1>2, <1>3 DEF begin_picture, encode_refused, encode_ends,
                    PictureClosed, Rendering
<1>4. ASSUME NEW seq \in SeqParams, render_sequence(seq) PROVE SplitInv'
  BY <1>4, SameTiles DEF render_sequence, Rendering
<1>5. ASSUME NEW b \in CodedBuffers \cup {NoBuffer}, NEW ok \in BOOLEAN,
             render_picture(b, ok)
      PROVE  SplitInv'
  BY <1>5, SameTiles DEF render_picture, Rendering
<1>6. ASSUME NEW address \in 0..MaxUnits, NEW units \in SliceSizes,
             NEW slice \in Slices, NEW ends_buffer \in BOOLEAN,
             render_slice(address, units, slice, ends_buffer)
      PROVE  SplitInv'
  <2>1. pc' = "idle"
    BY <1>6 DEF render_slice, Rendering
  <2>2. Tiled'
    BY <1>6, SliceTiles
  <2> QED
    BY <2>1, <2>2
<1>7. CASE encode_begin
  <2>1. /\ Encodable
        /\ UNCHANGED <<sliceVars, has_enc_slice, has_enc_seq, has_enc_pic,
                       enc_seq>>
    BY <1>7 DEF encode_begin, UnchangedPicture, hasVars
  <2> QED
    BY <2>1, SameTiles DEF Encodable, sliceVars
<1>8. ASSUME UnchangedPicture,
             pc' \in {"reset", "put"} => pc \in {"reset", "put"}
      PROVE  SplitInv'
  BY <1>1, <1>8 DEF UnchangedPicture, hasVars
<1>9. ASSUME NEW at \in Storing, StoreBegins(at) PROVE SplitInv'
  BY <1>8, <1>9 DEF StoreBegins, Storing
<1>10. CASE put_failed \/ (\E len \in Sizes : encode_get_packet(len))
            \/ (\E late \in BOOLEAN : get_failed(late))
  BY <1>9, <1>10 DEF put_failed, encode_get_packet, get_failed,
                     rk_buffer_store_coded, Storing
<1>11. CASE encode_reset \/ encode_put_frame \/ copy_packet \/ store_ready
            \/ overflow_failed
  BY <1>8, <1>11 DEF encode_reset, encode_put_frame, copy_packet, store_ready,
                     overflow_failed
<1>12. CASE \/ \E t \in Syncers, b \in CodedBuffers : sync_look(t, b)
            \/ \E t \in Syncers : sync_answer(t)
            \/ \E b \in CodedBuffers, cap \in Sizes :
                 rk_BufferSetNumElements(b, cap)
            \/ resize_ready \/ resize_failed
  BY <1>8, <1>12 DEF sync_look, sync_answer, rk_BufferSetNumElements,
                     resize_ready, resize_failed
<1>13. CASE UNCHANGED encoderVars
  BY <1>1, <1>13 DEF encoderVars, hasVars
<1> QED
  BY <1>3, <1>4, <1>5, <1>6, <1>7, <1>10, <1>11, <1>12, <1>13 DEF EncoderNext

(* What the tiling means for MPP's split.                                  *)
LEMMA TiledSplit ==
  ASSUME TypeOK, Tiled, Encodable, pc = "put"
  PROVE  SplitAsDeclared
<1> DEFINE n == Len(declared)
           u == unit_span
           total == enc_seq.total
<1>1. /\ n \in Nat /\ u \in Nat /\ total \in Nat /\ enc_seq.row \in Nat
      /\ slice_count = n /\ DOMAIN declared = 1..n
      /\ \A k \in 1..n : declared[k].at \in Nat /\ declared[k].units \in Nat
  BY SplitNumbers DEF TypeOK, Tiled
<1>2. n # 0 /\ slice_units = total
  BY DEF Encodable, Tiled
<1>3. /\ total = declared[n].at + declared[n].units
      /\ declared[n].units <= u
      /\ n \in 1..n /\ 1 \in 1..n
      /\ declared[n].at = (n - 1) * u
  BY <1>1, <1>2 DEF Tiled
<1>4. declared[1].at = 0
  <2>1. declared[1].at = (1 - 1) * u
    BY <1>3 DEF Tiled
  <2> QED
    BY <1>1, <2>1
<1>5. ASSUME NEW k \in 1..n, k # n
      PROVE  /\ SplitAt(k) = k * u /\ DeclaredEnd(k) = k * u
             /\ declared[k + 1].at = k * u
  <2>1. k \in Nat /\ k # 0 /\ k <= n - 1 /\ n - 1 \in Nat /\ n # 1
    BY <1>1, <1>5
  <2>2. k + 1 \in 1..n /\ (k + 1) - 1 = k
    BY <1>1, <2>1
  <2>3. declared[k + 1].at = k * u
    BY <2>2 DEF Tiled
  <2>4. declared[k].at = (k - 1) * u /\ declared[k].units = u
    BY <1>5 DEF Tiled
  <2>5. DeclaredEnd(k) = k * u
    BY <1>1, <2>1, <2>4, OneMore DEF DeclaredEnd
  <2>6. k * u <= (n - 1) * u /\ k * u \in Nat
    BY <1>1, <2>1, NoLonger
  <2>7. k * u <= total
    BY <1>1, <1>3, <2>6
  <2>8. ~(k * u > total)
    BY <1>1, <2>6, <2>7
  <2> QED
    BY <1>1, <2>1, <2>3, <2>5, <2>8 DEF SplitAt
<1>6. SplitAt(n) = total /\ DeclaredEnd(n) = total
  <2>1. n * u = (n - 1) * u + u /\ n * u \in Nat /\ (n - 1) * u \in Nat
    BY <1>1, <1>2, OneMore, NoLonger
  <2>2. n * u >= total
    BY <1>1, <1>3, <2>1
  <2> QED
    BY <1>1, <1>3, <2>1, <2>2 DEF SplitAt, DeclaredEnd
<1>7. ASSUME NEW k \in 1..n
      PROVE  /\ SplitAt(k) = DeclaredEnd(k)
             /\ k < n => SplitAt(k) = declared[k + 1].at
             /\ SameRows => SplitAt(k) % enc_seq.row = 0
             /\ declared[k].slice.type = declared[1].slice.type
             /\ Hevc => (declared[k].slice.last <=> k = n)
  <2>1. SplitAt(k) = DeclaredEnd(k)
    BY <1>5, <1>6
  <2>2. k < n => SplitAt(k) = declared[k + 1].at
    BY <1>1, <1>5
  <2>3. ASSUME SameRows PROVE SplitAt(k) % enc_seq.row = 0
    <3>1. declared[k].row = enc_seq.row
      BY <1>1, <2>3 DEF SameRows
    <3>2. /\ enc_seq.row # 0 /\ declared[k].at % enc_seq.row = 0
          /\ declared[k].units % enc_seq.row = 0
      BY <3>1 DEF Tiled
    <3>3. (declared[k].at + declared[k].units) % enc_seq.row = 0
      BY <1>1, <3>2, WholeRows
    <3> QED
      BY <2>1, <3>3 DEF DeclaredEnd
  <2>4. declared[k].slice.type = declared[1].slice.type
    BY <1>3 DEF Tiled
  <2>5. Hevc => (declared[k].slice.last <=> k = n)
    <3>1. CASE k = n
      BY <1>2, <3>1 DEF Tiled, Encodable
    <3>2. CASE k # n
      BY <3>2 DEF Tiled
    <3> QED
      BY <3>1, <3>2
  <2> QED
    BY <2>1, <2>2, <2>3, <2>4, <2>5
<1>8. declared # <<>>
  BY <1>2
<1> QED
  BY <1>1, <1>4, <1>6, <1>7, <1>8 DEF SplitAsDeclared

(* The picture handed to MPP is cut where the application declared its     *)
(* slices (add_encoder_slice and the checks of rk_mpp_enc_encode), for any *)
(* number of slices, any picture size and parameters in any order.         *)
THEOREM SplitCorrect == EncoderSpec => []SplitAsDeclared
<1>1. EncoderInit => SplitInv
  <2> SUFFICES ASSUME EncoderInit PROVE SplitInv
    OBVIOUS
  <2>1. Len(declared) = 0 /\ 1..0 = {} /\ pc = "idle"
    BY DEF EncoderInit
  <2>2. slice_count = 0 /\ slice_units = 0 /\ ~has_enc_slice
    BY DEF EncoderInit
  <2> QED
    BY <2>1, <2>2 DEF SplitInv, Tiled
<1>2. TypeOK /\ SplitInv /\ [EncoderNext]_encoderVars => SplitInv'
  BY SplitStep
<1>3. TypeOK /\ SplitInv => SplitAsDeclared
  <2>1. pc # "put" => SplitAsDeclared
    BY DEF SplitAsDeclared
  <2> QED
    BY <2>1, TiledSplit DEF SplitInv
<1> QED
  BY <1>1, <1>2, <1>3, EncoderTypes, PTL DEF EncoderSpec
=============================================================================
