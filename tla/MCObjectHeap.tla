---------------------------- MODULE MCObjectHeap ----------------------------
(* Two slots that each live for two generations, four objects and two     *)
(* holders: slots are reused, retired and exhausted.                       *)
EXTENDS ObjectHeap

(* Every handle of this and of one other type, generation zero and slots   *)
(* beyond the heap included.                                               *)
MCHandles ==
  {make_id(t, g, i) : t \in {Type, Type + 1}, g \in 0..MaxGeneration,
                      i \in 0..MaxSlots}
=============================================================================
