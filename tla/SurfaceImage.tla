---------------------------- MODULE SurfaceImage ----------------------------
(***************************************************************************)
(* The pixels of one surface and one VAImage: how create_surfaces lays a   *)
(* surface out or accepts an imported one (surface.c), vaCreateImage,      *)
(* vaPutImage (buffer.c), vaGetImage with the normalisation of two-object  *)
(* imports (surface.c), the repacking copies (convert.c), the frame MPP    *)
(* binds (mpp_dec.c) and the input an encoder reads (mpp_enc.c).           *)
(*                                                                         *)
(* A memory is a function from byte offsets to samples: a sample says of   *)
(* which picture, component, row, column and byte it is, so that a copy    *)
(* with a wrong pitch, offset or plane order is visible.  Every row a call *)
(* touches is kept as [end, size], its last byte against the storage.      *)
(***************************************************************************)
EXTENDS FrameLayout, Sequences

CONSTANTS
  USHRT_MAX,
  RK_MAX_WIDTH, RK_MAX_HEIGHT,
  Requests,       \* what vaCreateSurfaces(2) is asked for, see Acceptable
  ImageRequests,  \* what vaCreateImage is asked for: [fourcc, width, height]
  Frames,         \* what MPP may bind: [fmt, width, height, hstride, pixels,
                  \* vstride, x, y, size], see FrameAssumption
  HaveRga,        \* RK_HAVE_RGA
  BindDuringPut,  \* a decode may finish on the surface inside vaPutImage
  CopyDerived,    \* vaPutImage and vaGetImage may be given a derived image
  EncodeDecoded   \* a surface that was decoded into may be encoded

None == [none |-> TRUE]

Planar == {"I420", "YV12"}
Rgb    == {"RGBA", "BGRA"}
Fourccs == Planar \cup Rgb \cup {"NV12", "P010"}

(* An external descriptor: the sizes of its objects and its planes; sound  *)
(* stands for what needs no arithmetic (fourcc, linear modifiers, valid    *)
(* fds, one layer, the DRM format and the number of planes).  Its pitches  *)
(* and the heights the driver takes are unsigned ints: their products fit  *)
(* in a size_t.                                                            *)
DescriptorOf(h, d) ==
  /\ d.objects \in Seq(Nat)
  /\ d.planes[1].pitch \in Nat /\ d.planes[2].pitch \in Nat
  /\ d.planes[1].pitch * h + d.planes[2].pitch * (h \div 2) <= SIZE_MAX

ASSUME RequestAssumption ==
  \A q \in Requests :
    /\ q.fourcc \in Fourccs /\ q.encoder \in BOOLEAN
    /\ q.width \in Nat /\ q.height \in Nat
    /\ q.descriptor # None =>
         DescriptorOf(q.height, q.descriptor)

ASSUME ImageAssumption ==
  /\ USHRT_MAX \in Nat /\ (USHRT_MAX + 15) * USHRT_MAX <= SIZE_MAX
  /\ \A q \in ImageRequests :
       q.fourcc \in Fourccs /\ q.width \in Nat /\ q.height \in Nat

(* fmt is linear NV12, linear NV15 or compressed NV15, which is what       *)
(* rk_CreateContext asks MPP for; every other format is refused.  pixels   *)
(* is the pixel stride MPP reports, of the compressed rows for "afbc", 0   *)
(* for none; x and y are where the picture starts.                         *)
ASSUME FrameAssumption ==
  \A f \in Frames :
    /\ f.fmt \in {"nv12", "nv15", "afbc"}
    /\ {f.width, f.height, f.hstride, f.vstride} \subseteq Nat \ {0}
    /\ {f.pixels, f.size} \subseteq Nat
    /\ f.x \in Int /\ f.y \in Int

VARIABLES
  s,        \* the surface, or None
  im,       \* the image, or None
  mem,      \* contents: priv_buf, the bound frame, the imported objects,
            \* and the image's data
  put,      \* what vaPutImage checked before it took the lock, or None
  touched,  \* ghost: the rows the last call touched
  said      \* ghost: the last call's result

vars == <<s, im, mem, put, touched, said>>

Empty   == <<>>
Buffers == {"priv", "frame", "y", "uv", "data"}

Init ==
  /\ s = None /\ im = None /\ put = None
  /\ mem = [b \in Buffers |-> Empty]
  /\ touched = {}
  /\ said = "none"

-----------------------------------------------------------------------------
(***************************************************************************)
(* Pictures and copies.                                                    *)
(***************************************************************************)
Blank == <<"blank", <<"Y", 0, 0, 0>>>>
At(m, a) == IF a \in DOMAIN m THEN m[a] ELSE Blank

(* The samples that are followed through the copies: those of the first    *)
(* two and the last rows and columns.                                      *)
Edge(n) == {0, 1, n - 1} \cap 0 .. n - 1

Coords(w, h, bps) ==
  ({"Y"} \X Edge(h) \X Edge(w) \X (0 .. bps - 1)) \cup
  ({"U", "V"} \X Edge(h \div 2) \X Edge(w \div 2) \X (0 .. bps - 1))

(* Where NV12 and P010 have a byte: comp, row, column, byte of the sample. *)
NvAddr(k, pitch, chroma, bps) ==
  IF k[1] = "Y" THEN k[2] * pitch + k[3] * bps + k[4]
  ELSE chroma + k[2] * pitch
       + (2 * k[3] + (IF k[1] = "V" THEN 1 ELSE 0)) * bps + k[4]

(* Where an image of its fourcc has it.                                    *)
PlaneOf(fourcc, comp) ==
  CASE comp = "Y" -> 1
    [] comp = "U" -> IF fourcc = "I420" THEN 2 ELSE 3
    [] comp = "V" -> IF fourcc = "I420" THEN 3 ELSE 2

ImageAddr(k, i) ==
  IF i.fourcc \in Planar
    THEN LET p == PlaneOf(i.fourcc, k[1])
         IN i.offsets[p] + k[2] * i.pitches[p] + k[3]
    ELSE NvAddr(k, i.pitches[1], i.offsets[2], i.bps)

(* A layout says where each sample of a picture is.                        *)
NvLayout(w, h, bps, pitch, chroma) ==
  [k \in Coords(w, h, bps) |-> NvAddr(k, pitch, chroma, bps)]

ImageLayout(w, h, bps, i) == [k \in Coords(w, h, bps) |-> ImageAddr(k, i)]

Plane(comps, layout) ==
  [k \in {x \in DOMAIN layout : x[1] \in comps} |-> layout[k]]

(* A memory that holds picture p.                                          *)
Holding(p, layout) ==
  [a \in {layout[k] : k \in DOMAIN layout} |->
     <<p, CHOOSE k \in DOMAIN layout : layout[k] = a>>]

Shows(m, p, layout) == \A k \in DOMAIN layout : At(m, layout[k]) = <<p, k>>

Rows(off, pitch, rows, n) ==
  {off + r * pitch + c : r \in 0 .. rows - 1, c \in 0 .. n - 1}

(* rows times memcpy of n bytes, into cleared memory; n is at most either  *)
(* pitch.                                                                  *)
CopyRows(src, soff, spitch, doff, dpitch, rows, n) ==
  LET Row(a, off, pitch) == (a - off) \div pitch
      Col(a, off, pitch) == (a - off) % pitch
      read == {a \in DOMAIN src : /\ a >= soff
                                  /\ Row(a, soff, spitch) < rows
                                  /\ Col(a, soff, spitch) < n}
  IN [a \in {doff + Row(x, soff, spitch) * dpitch + Col(x, soff, spitch) :
               x \in read} |->
        At(src, soff + Row(a, doff, dpitch) * spitch
                + Col(a, doff, dpitch))]

(* What a function of samples says where a copy has written a sample.      *)
Written(m) == [a \in {x \in DOMAIN m : m[x] # Blank} |-> m[a]]

(* Two regions of one buffer; they overlap only by mistake.                *)
Over(m, rest) ==
  [a \in DOMAIN m \cup DOMAIN rest |->
     IF a \in DOMAIN m THEN m[a] ELSE rest[a]]

Span(off, pitch, rows, n, size) ==
  IF rows = 0 THEN {}
  ELSE {[end |-> off + (rows - 1) * pitch + n, size |-> size]}

-----------------------------------------------------------------------------
(***************************************************************************)
(* Surfaces.                                                               *)
(***************************************************************************)
Bytes(fourcc) == IF fourcc = "P010" THEN 2 ELSE 1

(* import_surface_descriptor's checks of the planes of d against a surface *)
(* of w by h.                                                              *)
ImportFits(fourcc, w, h, d) ==
  LET bps    == Bytes(fourcc)
      rgb    == fourcc \in Rgb
      multi  == ~rgb /\ Len(d.objects) = 2
      pitch  == d.planes[1].pitch
      cpitch == d.planes[2].pitch
      chroma == IF multi THEN 0 ELSE Wrap(pitch * h)
      needed == IF rgb \/ multi THEN Wrap(pitch * h)
                ELSE Wrap(chroma + cpitch * (h \div 2))
  IN /\ d.sound
     /\ d.width = w /\ d.height = h
     /\ Len(d.objects) = 1 \/ (~rgb /\ Len(d.objects) = 2)
     /\ \A o \in DOMAIN d.objects : d.objects[o] # 0
     /\ d.planes[1].object = 1 /\ d.planes[1].offset = 0
     /\ needed <= d.objects[1]
     /\ rgb =>
          /\ HaveRga
          /\ pitch % 4 = 0 /\ pitch \div 4 >= w
          /\ w % 2 = 0 /\ h % 2 = 0
     /\ ~rgb =>
          /\ d.planes[2].object = (IF multi THEN 2 ELSE 1)
          /\ d.planes[2].offset = chroma
          /\ pitch % bps = 0 /\ cpitch % bps = 0
          /\ multi \/ cpitch = pitch
          /\ pitch \div bps >= w /\ cpitch \div bps >= w
          /\ multi => Wrap(cpitch * (h \div 2)) <= d.objects[2]

NoImport == [kind |-> "none", pitch |-> 0, size |-> 0, cpitch |-> 0,
             csize |-> 0]

ImportOf(fourcc, d) ==
  LET multi == fourcc \notin Rgb /\ Len(d.objects) = 2
  IN [kind   |-> IF fourcc \in Rgb THEN "rgb"
                 ELSE IF multi THEN "multi" ELSE "linear",
      pitch  |-> d.planes[1].pitch, size |-> d.objects[1],
      cpitch |-> IF multi THEN d.planes[2].pitch ELSE 0,
      csize  |-> IF multi THEN d.objects[2] ELSE 0]

(* A linear import keeps the application's geometry; every other surface   *)
(* has the placeholder's, of a pitch that the display can import if it may *)
(* be decoded into.                                                        *)
SurfaceOf(q, import) ==
  LET linear == import.kind = "linear"
      align  == IF import = NoImport /\ ~q.encoder /\ q.fourcc # "P010"
                  THEN 64 ELSE 16
  IN [fourcc  |-> q.fourcc, bps |-> Bytes(q.fourcc),
      width   |-> q.width, height |-> q.height,
      hstride |-> IF linear THEN import.pitch \div Bytes(q.fourcc)
                  ELSE RoundUp(q.width, align),
      vstride |-> IF linear THEN q.height ELSE RoundUp(q.height, 16),
      priv_size |-> rk_surface_placeholder_size(q.width, q.height,
                                                q.fourcc = "P010"),
      frame_size |-> NoSize, import |-> import, encoder |-> q.encoder,
      begun |-> FALSE, decoded |-> FALSE, stable |-> FALSE]

Acceptable(q) ==
  /\ q.width > 0 /\ q.height > 0
  /\ q.width <= RK_MAX_WIDTH /\ q.height <= RK_MAX_HEIGHT
  /\ q.fourcc \in Planar \cup {"P010"} => q.width % 2 = 0 /\ q.height % 2 = 0
  /\ q.fourcc \in Rgb => q.descriptor # None
  /\ q.descriptor # None =>
       /\ q.fourcc \notin Planar
       /\ ImportFits(q.fourcc, q.width, q.height, q.descriptor)
  /\ rk_surface_placeholder_size(q.width, q.height, q.fourcc = "P010")
       # NoSize

(* The memory of a new surface: the application's picture in an import.    *)
WithImport(new) ==
  LET i == new.import
      Laid(pitch, chroma) ==
        NvLayout(new.width, new.height, new.bps, pitch, chroma)
  IN CASE i.kind = "linear" ->
            [mem EXCEPT !.y =
               Holding("app", Laid(i.pitch, i.pitch * new.height))]
       [] i.kind = "multi" ->
            [mem EXCEPT
              !.y  = Holding("app", Plane({"Y"}, Laid(i.pitch, 0))),
              !.uv = Holding("app", Plane({"U", "V"}, Laid(i.cpitch, 0)))]
       [] i.kind \in {"none", "rgb"} -> mem

(* create_surfaces for one surface, with what rk_CreateSurfaces2 refuses   *)
(* before it.                                                              *)
create_surfaces(q) ==
  /\ s = None
  /\ Acceptable(q)
  /\ s' = SurfaceOf(q, IF q.descriptor = None THEN NoImport
                       ELSE ImportOf(q.fourcc, q.descriptor))
  /\ mem' = WithImport(s')
  /\ said' = "created"
  /\ touched' = {}
  /\ UNCHANGED <<im, put>>

-----------------------------------------------------------------------------
(***************************************************************************)
(* Decoding, as far as it moves the surface's geometry.                    *)
(***************************************************************************)
Pitch == s.hstride * s.bps

(* BeginPicture drops what is bound; it refuses imported surfaces.         *)
rk_BeginPicture ==
  /\ s # None
  /\ s.import = NoImport
  /\ put = None \/ BindDuringPut
  /\ ~s.begun \/ s.decoded
  /\ s' = [s EXCEPT !.begun = TRUE, !.decoded = FALSE, !.frame_size = NoSize]
  /\ mem' = [mem EXCEPT !.frame = Empty]
  /\ touched' = {} /\ said' = "begun"
  /\ UNCHANGED <<im, put>>

(* Whoever exports the blank placeholder keeps it as the storage.          *)
export_placeholder ==
  /\ s # None /\ put = None
  /\ s.import = NoImport /\ ~s.encoder
  /\ ~s.decoded /\ ~s.stable
  /\ s' = [s EXCEPT !.stable = TRUE]
  /\ touched' = {} /\ said' = "exported"
  /\ UNCHANGED <<im, mem, put>>

(* The checks the two repacking copies share: from a buffer of size and    *)
(* geometry src to one of geometry dst.                                    *)
RepackFits(w, h, bps, src, dst) ==
  LET Layout(g) == IF bps = 2 THEN rk_p010_layout_size(g.hstride, g.vstride)
                   ELSE rk_nv12_layout_size(g.hstride, g.vstride)
  IN /\ w > 0 /\ h > 0 /\ w % 2 = 0 /\ h % 2 = 0
     /\ \A g \in {src, dst} :
          /\ g.hstride >= w /\ g.vstride >= h
          /\ Layout(g) # NoSize /\ Layout(g) <= g.size

(* rk_repack_p010 copies rows with the CPU, rk_repack_nv12 has RGA copy    *)
(* the same rectangles.                                                    *)
Repacked(m, w, h, bps, src, dst) ==
  LET sp == src.hstride * bps
      dp == dst.hstride * bps
  IN Over(CopyRows(m, 0, sp, 0, dp, h, w * bps),
          CopyRows(m, sp * src.vstride, sp, dp * dst.vstride, dp, h \div 2,
                   w * bps))

RowsOf(g, w, h, bps) ==
  LET pitch == g.hstride * bps
  IN Span(0, pitch, h, w * bps, g.size) \cup
     Span(pitch * g.vstride, pitch, h \div 2, w * bps, g.size)

RK_RGA3_MIN_ACTIVE_WIDTH == 68

(* The samples of a frame are one byte or ten bits, which become two bytes *)
(* of P010.                                                                *)
Depth(f) == IF f.fmt = "nv12" THEN 1 ELSE 2

(* src_hs_pixels: four samples of linear NV15 take five bytes.             *)
PixelStride(f) ==
  IF f.fmt = "nv15" /\ f.hstride % 5 = 0 THEN (f.hstride \div 5) * 4
  ELSE f.pixels

(* What assign_mpp_frame accepts of a frame, with the checks of            *)
(* rk_convert_nv15_to_p010 for a ten-bit one.                              *)
FrameUsable(f) ==
  LET pixels == PixelStride(f)
      layout == rk_nv12_layout_size(f.hstride, f.vstride)
  IN /\ f.vstride >= f.height
     /\ f.fmt # "afbc" => layout # NoSize /\ layout <= f.size
     /\ f.fmt = "nv15" => f.pixels \in {0, pixels}
     /\ f.fmt = "afbc" =>
          /\ f.vstride % 16 = 0 /\ f.size > 0
          /\ f.width >= RK_RGA3_MIN_ACTIVE_WIDTH
     /\ Depth(f) = 2 =>
          /\ pixels >= f.width /\ pixels % 64 = 0
          /\ f.x \in 0 .. pixels - f.width /\ f.y \in 0 .. f.vstride - f.height
          /\ rk_p010_layout_size(pixels, f.vstride) # NoSize
          /\ HaveRga

(* The linear buffer that comes out, with the picture in it: the frame's   *)
(* own, or the one rk_convert_nv15_to_p010 has RGA draw into.              *)
Output(f) ==
  IF Depth(f) = 1
    THEN [hstride |-> f.hstride, vstride |-> f.vstride, size |-> f.size]
    ELSE [hstride |-> PixelStride(f), vstride |-> f.vstride,
          size |-> rk_p010_layout_size(PixelStride(f), f.vstride)]

FrameMem(f) ==
  LET pitch == Output(f).hstride * Depth(f)
  IN Holding("dec", NvLayout(f.width, f.height, Depth(f), pitch,
                             pitch * f.vstride))

PrivOf == [hstride |-> s.hstride, vstride |-> s.vstride,
           size |-> s.priv_size]

(* assign_mpp_frame: bind the frame and take over its geometry, or copy it *)
(* into an exported placeholder of the same picture size.  Either way the  *)
(* surface takes the depth of the frame, whatever its fourcc says.         *)
bind(f) ==
  /\ s # None
  /\ put = None \/ BindDuringPut
  /\ s.begun /\ ~s.decoded
  /\ FrameUsable(f)
  /\ IF s.stable
       THEN /\ f.width = s.width /\ f.height = s.height
            /\ RepackFits(f.width, f.height, Depth(f), Output(f), PrivOf)
            /\ Depth(f) = 1 => HaveRga
            /\ s' = [s EXCEPT !.decoded = TRUE, !.bps = Depth(f)]
            /\ mem' = [mem EXCEPT !.priv =
                         Repacked(FrameMem(f), f.width, f.height, Depth(f),
                                  Output(f), PrivOf)]
            /\ touched' = RowsOf(Output(f), f.width, f.height, Depth(f)) \cup
                          RowsOf(PrivOf, f.width, f.height, Depth(f))
       ELSE /\ s' = [s EXCEPT !.decoded = TRUE, !.bps = Depth(f),
                              !.width = f.width, !.height = f.height,
                              !.hstride = Output(f).hstride,
                              !.vstride = f.vstride,
                              !.frame_size = Output(f).size]
            /\ mem' = [mem EXCEPT !.frame = FrameMem(f)]
            /\ touched' = {}
  /\ said' = "bound"
  /\ UNCHANGED <<im, put>>

(* The buffer every reader resolves the surface to.                        *)
Source ==
  CASE s.import.kind \in {"linear", "rgb"} ->
         [at |-> "y", size |-> s.import.size]
    [] s.import.kind = "multi" -> [at |-> "priv", size |-> s.priv_size]
    [] OTHER -> IF s.frame_size # NoSize
                  THEN [at |-> "frame", size |-> s.frame_size]
                  ELSE [at |-> "priv", size |-> s.priv_size]

(* vaExportSurfaceHandle's copy of a decoded surface whose pitch the       *)
(* display cannot import.  ExportedCopy is what the copy then holds.       *)
ExportOf == [hstride |-> RoundUp(s.hstride, 64), vstride |-> s.vstride,
             size |-> rk_nv12_layout_size(RoundUp(s.hstride, 64), s.vstride)]

export_repack ==
  /\ s # None /\ put = None
  /\ s.decoded /\ s.bps = 1 /\ s.hstride % 64 # 0
  /\ HaveRga
  /\ LET src == [PrivOf EXCEPT !.size = Source.size]
     IN /\ RepackFits(s.width, s.height, 1, src, ExportOf)
        /\ touched' = RowsOf(src, s.width, s.height, 1) \cup
                      RowsOf(ExportOf, s.width, s.height, 1)
  /\ said' = "repacked"
  /\ UNCHANGED <<s, im, mem, put>>

ExportedCopy == Repacked(mem[Source.at], s.width, s.height, 1,
                         [PrivOf EXCEPT !.size = Source.size], ExportOf)

-----------------------------------------------------------------------------
(***************************************************************************)
(* Images.                                                                 *)
(***************************************************************************)
ImageFits(q) ==
  /\ q.width > 0 /\ q.height > 0
  /\ q.width <= USHRT_MAX /\ q.height <= USHRT_MAX
  /\ q.fourcc \in Planar => q.width % 2 = 0 /\ q.height % 2 = 0
  /\ RoundUp(q.width, 16) <= UINT_MAX \div Bytes(q.fourcc)

ImageOf(q) ==
  LET bps    == Bytes(q.fourcc)
      planar == q.fourcc \in Planar
      pitch  == WrapUint(RoundUp(q.width, 16) * bps)
      cpitch == IF planar THEN RoundUp(q.width, 16) \div 2 ELSE pitch
      chroma == WrapUint(pitch * q.height)
  IN [fourcc |-> q.fourcc, bps |-> bps, width |-> q.width,
      height |-> q.height, planes |-> IF planar THEN 3 ELSE 2,
      pitches |-> <<pitch, cpitch, IF planar THEN cpitch ELSE 0>>,
      offsets |-> <<0, chroma, IF planar
                      THEN WrapUint(chroma + cpitch * (q.height \div 2))
                      ELSE 0>>,
      capacity |-> 0, storage |-> 0, derived |-> FALSE]

(* The bytes it asks rk_CreateBuffer for, NoSize if they cannot be counted *)
(* in a size_t.                                                            *)
ImageSize(i) ==
  LET luma   == Wrap(i.pitches[1] * i.height)
      chroma == Wrap(i.pitches[2] * (i.height \div 2))
  IN IF i.planes = 3
       THEN IF chroma > (SIZE_MAX - luma) \div 2 THEN NoSize
            ELSE Wrap(luma + 2 * chroma)
       ELSE rk_nv12_layout_size(i.pitches[1], i.height)

(* An image of another format than the surface is refused by every copy:   *)
(* none is created.                                                        *)
rk_CreateImage(q) ==
  /\ im = None /\ s # None /\ put = None
  /\ q.fourcc = s.fourcc
  /\ ImageFits(q)
  /\ LET i == ImageOf(q)
         size == ImageSize(i)
     IN /\ size # NoSize /\ size <= UINT_MAX
        /\ im' = [i EXCEPT !.capacity = size, !.storage = size]
  /\ mem' = [mem EXCEPT !.data = Empty]
  /\ touched' = {} /\ said' = "created"
  /\ UNCHANGED <<s, put>>

(* vaDeriveImage on a settled surface of the driver's own: the image has   *)
(* the surface's geometry and size, and its buffer one byte of data,       *)
(* whatever its capacity says.                                             *)
rk_DeriveImage ==
  /\ im = None /\ s # None
  /\ s.import = NoImport /\ ~s.encoder
  /\ s.decoded \/ ~s.begun
  /\ s.bps = 2 /\ ~s.decoded =>
       /\ s.hstride >= s.width /\ s.hstride % 64 = 0
       /\ s.vstride >= s.height /\ s.vstride % 16 = 0
  /\ s.width <= USHRT_MAX /\ s.height <= USHRT_MAX
  /\ LET chroma == Wrap(Pitch * s.vstride)
         size   == Wrap(chroma + chroma \div 2)
     IN /\ size <= Source.size /\ Source.size <= UINT_MAX
        /\ im' = [fourcc |-> IF s.bps = 2 THEN "P010" ELSE "NV12",
                  bps |-> s.bps, width |-> s.width, height |-> s.height,
                  planes |-> 2, pitches |-> <<Pitch, Pitch, 0>>,
                  offsets |-> <<0, chroma, 0>>,
                  capacity |-> size, storage |-> 1, derived |-> TRUE]
  /\ mem' = [mem EXCEPT !.data = Empty]
  /\ touched' = {} /\ said' = "created"
  /\ UNCHANGED <<s, put>>

rk_DestroyImage ==
  /\ im # None /\ put = None
  /\ im' = None
  /\ mem' = [mem EXCEPT !.data = Empty]
  /\ touched' = {} /\ said' = "none"
  /\ UNCHANGED <<s, put>>

(* The application maps the image and draws a picture into it.             *)
Drawing == Holding("up", ImageLayout(im.width, im.height, im.bps, im))

draw ==
  /\ im # None /\ put = None
  /\ ~im.derived
  /\ mem' = [mem EXCEPT !.data = Drawing]
  /\ touched' = {} /\ said' = "drawn"
  /\ UNCHANGED <<s, im, put>>

image_plane_fits(i, plane, row_bytes, rows) ==
  /\ plane <= i.planes /\ i.pitches[plane] >= row_bytes
  /\ i.offsets[plane] <= i.capacity
  /\ rows > 0 =>
       LET last == Wrap((rows - 1) * i.pitches[plane])
       IN /\ last <= i.capacity - i.offsets[plane]
          /\ row_bytes <= i.capacity - i.offsets[plane] - last

(* vaPutImage and vaGetImage validate every plane of the image against the *)
(* picture of the surface.                                                 *)
PlanesFit(i, w, h, bps) ==
  LET planar == i.fourcc \in Planar
      chroma == IF planar THEN w \div 2 ELSE w * bps
  IN /\ image_plane_fits(i, 1, IF planar THEN w ELSE w * bps, h)
     /\ image_plane_fits(i, 2, chroma, h \div 2)
     /\ planar => image_plane_fits(i, 3, chroma, h \div 2)

(* The rows of the image such a copy touches.                              *)
ImageRows(i, h, row, crow) ==
  Span(i.offsets[1], i.pitches[1], h, row, i.storage) \cup
  Span(i.offsets[2], i.pitches[2], h \div 2, crow, i.storage) \cup
  (IF i.fourcc \in Planar
     THEN Span(i.offsets[3], i.pitches[3], h \div 2, crow, i.storage) ELSE {})

u_plane(i) == IF i.fourcc = "I420" THEN 2 ELSE 3
v_plane(i) == IF i.fourcc = "I420" THEN 3 ELSE 2

(* vaPutImage up to the lock: the picture size, the formats and the planes *)
(* of the image are checked on what the surface is at this moment.         *)
put_check ==
  /\ s # None /\ im # None /\ put = None
  /\ im.derived => CopyDerived
  /\ s.import = NoImport
  /\ im.width = s.width /\ im.height = s.height
  /\ im.fourcc = s.fourcc
  /\ im.fourcc \in Planar => s.bps = 1
  /\ PlanesFit(im, s.width, s.height, s.bps)
  /\ put' = [bps |-> s.bps, row |-> s.width * s.bps,
             chroma |-> s.width \div 2]
  /\ touched' = {} /\ said' = "checked"
  /\ UNCHANGED <<s, im, mem>>

(* Slip: the chroma plane is put where the picture ends.                   *)
PutPicture_unpadded(i, dp, planar) ==
  LET uv  == dp * s.height
      row == IF planar THEN s.width ELSE put.row
  IN Over(CopyRows(mem.data, i.offsets[1], i.pitches[1], 0, dp, s.height, row),
          CopyRows(mem.data, i.offsets[2], i.pitches[2], uv, dp,
                   s.height \div 2, put.row))

(* n bytes of the U and of the V rows of m, in turn.                       *)
Interleaved(m, i, off, pitch, rows, n) ==
  LET Pair(a) == LET r == (a - off) \div pitch
                     c == (a - off) % pitch
                     p == IF c % 2 = 0 THEN u_plane(i) ELSE v_plane(i)
                 IN At(m, i.offsets[p] + r * i.pitches[p] + c \div 2)
  IN Written([a \in Rows(off, pitch, rows, 2 * n) |-> Pair(a)])

(* The copy loops: rows of luma, then rows of chroma or pairs of U and V.  *)
PutPicture(i, dp, planar) ==
  LET uv  == dp * s.vstride
      row == IF planar THEN s.width ELSE put.row
  IN Over(CopyRows(mem.data, i.offsets[1], i.pitches[1], 0, dp, s.height, row),
          IF planar
            THEN Interleaved(mem.data, i, uv, dp, s.height \div 2, put.chroma)
            ELSE CopyRows(mem.data, i.offsets[2], i.pitches[2], uv, dp,
                          s.height \div 2, put.row))

(* vaPutImage under the lock, into priv_buf.                               *)
put_copy ==
  /\ put # None
  /\ LET dp     == s.hstride * put.bps
         size   == rk_nv12_layout_size(dp, s.vstride)
         planar == im.fourcc \in Planar
         crow   == IF planar THEN 2 * put.chroma ELSE put.row
     IN IF \/ dp < put.row \/ size = NoSize \/ size > s.priv_size
           \/ im.offsets[1] > im.capacity
          THEN /\ said' = "refused" /\ touched' = {} /\ UNCHANGED mem
          ELSE /\ mem' = [mem EXCEPT !.priv = PutPicture(im, dp, planar)]
               /\ touched' =
                    ImageRows(im, s.height,
                              IF planar THEN s.width ELSE put.row,
                              IF planar THEN put.chroma ELSE put.row) \cup
                    Span(0, dp, s.height, put.row, s.priv_size) \cup
                    Span(dp * s.vstride, dp, s.height \div 2, crow,
                         s.priv_size) \cup
                    {[end |-> size, size |-> s.priv_size]}
               /\ said' = "put"
  /\ put' = None
  /\ UNCHANGED <<s, im>>

(* The DMA-BUF could not be opened for the CPU: nothing is copied.         *)
put_fails ==
  /\ put # None
  /\ put' = None
  /\ touched' = {} /\ said' = "refused"
  /\ UNCHANGED <<s, im, mem>>

-----------------------------------------------------------------------------
(* rk_surface_normalize_multiplane_import: two objects into priv_buf.      *)
NormalizeFits ==
  LET row == s.width * s.bps
      size == rk_nv12_layout_size(Pitch, s.vstride)
  IN /\ s.hstride >= s.width /\ s.vstride >= s.height
     /\ s.import.pitch >= row /\ s.import.cpitch >= row
     /\ size # NoSize /\ size <= s.priv_size

Normalized ==
  Over(CopyRows(mem.y, 0, s.import.pitch, 0, Pitch, s.height,
                s.width * s.bps),
       CopyRows(mem.uv, 0, s.import.cpitch, Pitch * s.vstride, Pitch,
                s.height \div 2, s.width * s.bps))

NormalizeRows ==
  LET row == s.width * s.bps
  IN Span(0, s.import.pitch, s.height, row, s.import.size) \cup
     Span(0, s.import.cpitch, s.height \div 2, row, s.import.csize) \cup
     RowsOf(PrivOf, s.width, s.height, s.bps)

(* What priv_buf holds once an import that needs it has been normalized.   *)
Settled == IF s.import.kind = "multi" THEN [mem EXCEPT !.priv = Normalized]
           ELSE mem

(* Every other byte of the chroma rows of m, as rows of plane p.           *)
Halved(m, off, pitch, odd, i, p, rows, n) ==
  LET Half(a) == LET r == (a - i.offsets[p]) \div i.pitches[p]
                     c == (a - i.offsets[p]) % i.pitches[p]
                 IN At(m, off + r * pitch + 2 * c + odd)
  IN Written([a \in Rows(i.offsets[p], i.pitches[p], rows, n) |-> Half(a)])

(* The copy loops of vaGetImage.                                           *)
GetPicture(src, i, planar) ==
  LET su   == Pitch * s.vstride
      rows == s.height \div 2
      Chroma(p, odd) ==
        Halved(src, su, Pitch, odd, i, p, rows, s.width \div 2)
  IN Over(CopyRows(src, 0, Pitch, i.offsets[1], i.pitches[1], s.height,
                   IF planar THEN s.width ELSE s.width * s.bps),
          IF planar
            THEN Over(Chroma(u_plane(i), 0), Chroma(v_plane(i), 1))
            ELSE CopyRows(src, su, Pitch, i.offsets[2], i.pitches[2], rows,
                          s.width * s.bps))

(* vaGetImage of the whole picture: everything is checked and copied under *)
(* the lock.                                                               *)
rk_GetImage ==
  /\ s # None /\ im # None /\ put = None
  /\ im.derived => CopyDerived
  /\ s.import.kind = "multi" => NormalizeFits
  /\ im.width >= s.width /\ im.height >= s.height
  /\ s.import.kind # "rgb"
  /\ im.fourcc = s.fourcc
  /\ im.fourcc \in Planar => s.bps = 1
  /\ Pitch >= s.width * s.bps
  /\ LET size   == rk_nv12_layout_size(Pitch, s.vstride)
         planar == im.fourcc \in Planar
         row    == IF planar THEN s.width ELSE s.width * s.bps
         crow   == IF planar THEN s.width \div 2 ELSE row
     IN /\ size # NoSize /\ size <= Source.size
        /\ PlanesFit(im, s.width, s.height, s.bps)
        /\ mem' = [Settled EXCEPT !.data =
                     GetPicture(Settled[Source.at], im, planar)]
        /\ touched' =
             (IF s.import.kind = "multi" THEN NormalizeRows ELSE {}) \cup
             RowsOf([PrivOf EXCEPT !.size = Source.size], s.width, s.height,
                    s.bps) \cup
             ImageRows(im, s.height, row, crow) \cup
             {[end |-> im.capacity, size |-> im.storage]}
  /\ said' = "got"
  /\ UNCHANGED <<s, im, put>>

-----------------------------------------------------------------------------
(* rk_convert_rgb_to_nv12: RGA reads the import and draws it in NV12.      *)
ConvertFits ==
  /\ s.width % 2 = 0 /\ s.height % 2 = 0
  /\ s.import.pitch % 4 = 0 /\ s.import.pitch \div 4 >= s.width
  /\ s.import.pitch <= SIZE_MAX \div s.height
  /\ s.import.pitch * s.height <= s.import.size
  /\ s.hstride >= s.width /\ s.vstride >= s.height
  /\ rk_nv12_layout_size(s.hstride, s.vstride) # NoSize
  /\ rk_nv12_layout_size(s.hstride, s.vstride) <= s.priv_size

Converted == Holding("app", NvLayout(s.width, s.height, 1, s.hstride,
                                     s.hstride * s.vstride))

(* The input half of rk_mpp_enc_encode: never the frame that is bound to   *)
(* the surface, though its geometry is the frame's.                        *)
EncoderInput == IF s.import.kind = "linear" THEN "y" ELSE "priv"

encode_input ==
  /\ s # None /\ put = None
  /\ s.begun => EncodeDecoded
  /\ s.bps = 1
  /\ s.import.kind = "multi" => NormalizeFits
  /\ s.import.kind = "rgb" => ConvertFits
  /\ mem' = IF s.import.kind = "rgb"
              THEN [mem EXCEPT !.priv = Converted] ELSE Settled
  /\ touched' =
       (CASE s.import.kind = "multi" -> NormalizeRows
          [] s.import.kind = "rgb" ->
               {[end |-> s.import.pitch * s.height, size |-> s.import.size]}
          [] OTHER -> {}) \cup
       RowsOf([PrivOf EXCEPT !.size = IF s.import.kind = "linear"
                                        THEN s.import.size ELSE @],
              s.width, s.height, 1)
  /\ said' = "encoded"
  /\ UNCHANGED <<s, im, put>>

-----------------------------------------------------------------------------
Next ==
  \/ \E q \in Requests : create_surfaces(q)
  \/ \E q \in ImageRequests : rk_CreateImage(q)
  \/ rk_DeriveImage
  \/ rk_DestroyImage
  \/ draw
  \/ put_check \/ put_copy \/ put_fails
  \/ rk_GetImage
  \/ encode_input
  \/ rk_BeginPicture
  \/ \E f \in Frames : bind(f)
  \/ export_placeholder \/ export_repack

Spec == Init /\ [][Next]_vars

-----------------------------------------------------------------------------
(***************************************************************************)
(* Properties.                                                             *)
(***************************************************************************)

(* "Per-plane pitches, offsets, and capacities are validated before every  *)
(* row access" (docs/DEVELOPMENT.md:574): every row that a copy between a  *)
(* surface, an imported object and an image reads or writes lies in the    *)
(* memory behind it.                                                       *)
CopiesStayInside == \A t \in touched : t.end <= t.size

(* The samples of the image are as wide as those of the surface, which     *)
(* change with the frame that is bound to it.                              *)
SameDepth == im.bps = s.bps

(* A picture keeps every sample at its row, column and component, whatever *)
(* the pitches, offsets and plane orders on both sides: from an image into *)
(* a surface that shows no frame, and from what a surface shows into an    *)
(* image ("round trip changed bytes", tests/driver_objects_test.c:839 and  *)
(* 915), both of the same depth; from a decoded frame of any format into   *)
(* the surface or the storage a display already imported, and into the     *)
(* exported copy; and from the planes an application imported to           *)
(* vaGetImage and to the encoder.                                          *)
ImageSurvives ==
  LET InNv == NvLayout(s.width, s.height, s.bps, Pitch, Pitch * s.vstride)
      InImage == ImageLayout(s.width, s.height, s.bps, im)
      InExport == NvLayout(s.width, s.height, 1, ExportOf.hstride,
                           ExportOf.hstride * ExportOf.vstride)
  IN /\ said = "put" /\ SameDepth /\ Source.at # "frame" =>
          (Shows(mem.data, "up", InImage) => Shows(mem[Source.at], "up", InNv))
     /\ said = "bound" => Shows(mem[Source.at], "dec", InNv)
     /\ said = "got" /\ SameDepth => \A p \in {"app", "dec", "up"} :
          Shows(mem[Source.at], p, InNv) => Shows(mem.data, p, InImage)
     /\ said = "got" /\ s.import # NoImport => Shows(mem.data, "app", InImage)
     /\ said = "encoded" /\ s.import # NoImport =>
          Shows(mem[EncoderInput], "app", InNv)
     /\ said = "repacked" => \A p \in {"dec", "up"} :
          Shows(mem[Source.at], p, InNv) => Shows(ExportedCopy, p, InExport)
=============================================================================
