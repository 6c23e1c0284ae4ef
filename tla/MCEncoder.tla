------------------------------ MODULE MCEncoder ------------------------------
(* Pictures of a few macroblocks or CTUs.                                  *)
EXTENDS Encoder, TLC

(* 32x48 H.264: two macroblocks in each of three rows, whatever the        *)
(* sequence parameters say.                                                *)
AvcZero == [row |-> 2, total |-> 6, ok |-> FALSE]
AvcSeqs == {[row |-> 2, total |-> 6, ok |-> ok] : ok \in BOOLEAN}

(* 64x96 HEVC with CTUs of 32x32 or 64x64; zeroed parameters mean 8x8.     *)
HevcZero == [row |-> 8, total |-> 96, ok |-> FALSE]
HevcSeqs == {[row |-> 2, total |-> 6, ok |-> ok] : ok \in BOOLEAN}
            \cup {[row |-> 1, total |-> 2, ok |-> TRUE]}

(* Slice types are only compared with one another.                         *)
TypesAlike == Permutations(SliceTypes)
=============================================================================
