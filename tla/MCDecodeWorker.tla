--------------------------- MODULE MCDecodeWorker ---------------------------
(* Small instances of DecodeWorker, one .cfg per codec and environment.    *)
EXTENDS DecodeWorker
=============================================================================
