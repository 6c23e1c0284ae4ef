---------------------------- MODULE MCDecodePool ----------------------------
(* DecodePool as TLC runs it; MCPool and MCPoolDemand give the constants.    *)
EXTENDS DecodePool
=============================================================================
