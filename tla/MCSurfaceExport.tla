--------------------------- MODULE MCSurfaceExport ---------------------------
(* CIF H.264 (16-byte aligned MPP pitch, 64-byte aligned placeholder), and *)
(* P010 with a placeholder whose pitch the decoder does not keep.          *)
EXTENDS SurfaceExport
=============================================================================
