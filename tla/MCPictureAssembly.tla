------------------------- MODULE MCPictureAssembly -------------------------
(* Small streams for PictureAssembly, one .cfg per codec and environment.  *)
EXTENDS PictureAssembly
=============================================================================
